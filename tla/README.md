# Verification of kubectl-mole

`kubectl-mole` watches Kubernetes workloads until they *settle* and then prints
one verdict: what happened, and, when something failed, why. The program is a
short-lived client: it keeps nothing between runs (but the verdict file a caller
may save for `--since`), it changes nothing in the cluster, and the whole of its
value is that its verdict is right. This directory holds TLA+ models of the code
that decides the verdict, the TLC runs that check them and the TLAPS proofs
about them. Every definition is translated from the Go source; `PROJECT.json`
names the lines behind each one, and lists the components, the hazards, the
runs, the mutants that show each property can fail, and the theorems.

Contents: [the system](#the-system) · [modules](#modules-and-how-they-correspond-to-the-code) ·
[time, fairness and the environment](#time-fairness-and-the-environment) ·
[runs](#runs) · [disagreements found](#where-the-code-and-its-documents-disagree) ·
[proofs](#proofs) · [only model-checked](#what-is-only-model-checked) ·
[not modelled](#what-is-not-modelled-and-why) · [plan](#plan) · [running](#running-it)

## The system

A run of the command goes through these parts. A named target takes the *single
watch*; a selector or a namespace takes *discovery* and the *fleet watch*; with
`--contexts` one goroutine per kubeconfig context does either. What did not
settle is *diagnosed* by reading the cluster, the findings are *collapsed* by
cause, the *builders* make one verdict, *delta* compares it with the previous
verdict, *budget* trims it, and the exit code is derived last.

| part | code | state it keeps | operations |
|---|---|---|---|
| evaluation | `internal/settle/evaluate.go` | none | `healthyNow`, `terminalPodReason`, `podReady` over a snapshot |
| tracker | `internal/settle/tracker.go` | stability window and its baseline, restarts seen, wedged clocks, last snapshot | `observe`, `timeoutVerdict` |
| snapshots | `snapshot.go`, `revision.go`, `batch.go`, `dynamic.go` | informer caches, each fed by a watch of its own | split pods by revision, pick a CronJob's newest Job, normalise the generation a custom resource reports |
| single watch | `settle.go`, `preflight.go`, `dynamic.go` | deadline, ticker, one tracker | `Run`, `RunCustom`, `watchLoop` |
| fleet | `fleet.go` | shared caches, one tracker per target | `Discover`, `RunFleet` |
| diagnosis | `internal/signatures` | a report: findings and degraded reads; a cache of what was read | `Diagnose`, detectors over pods and events in a fixed order |
| collapse | `internal/collapse` | entries keyed by signature and cause | `Collapse` |
| verdict | `internal/output` | the verdict, its hash, its delta, its advisories | `Build`, `BuildFleet`, `RecentRestarts`, `Diff`, `ExitCode` |
| budget | `internal/budget` | the verdict being trimmed | `Apply` |
| command | `internal/cli` | one slot per context or target | `run`, `runFleet`, `runContexts`, `emit` |

How they interact: watches read informer caches that goroutines of client-go
fill (shared memory behind a lister); a tracker is called by its watch and calls
nobody; a fleet drives all its trackers from one loop; the command starts
goroutines that write to slots of their own and joins them with a wait group; a
semaphore (a buffered channel) bounds diagnoses; the next run reads the file the
previous one printed.

What makes each part right, and what makes it hard:

- **Evaluation and tracker.** Settled means healthy *and undisturbed* over
  `StableFor`. The tracker never stores the history; it stores a baseline from
  when the window opened and closes the window on a difference. Pods that swap
  one for one, restarts between two evaluations, a window that is refreshed
  without its clock, and clocks per pod that survive replacement are all cases
  where the bookkeeping could drift from the history it stands for.
- **Single watch.** Two contexts with a deadline each, a ticker, and a `select`
  that may take either of two ready cases; it must end, judge each snapshot once
  and say *progressing* (exit 2: wait) only for legitimate progress, *failed*
  (exit 1: roll back) only when it is earned.
- **Early exit.** `WedgedFor` lets a watch fail before its deadline; it must not
  be premature, late, or change any other verdict.
- **Snapshots.** One snapshot joins three caches that lag independently, during
  a rollout that the controller has or has not seen, with pods of old revisions,
  terminating pods, siblings that share a selector, and revisions no pod carries.
- **Diagnosis.** The pods are those of the last snapshot; nodes, claims and logs
  are read later, when the node may have recovered and the container may have
  died again or been restarted; a read may be denied for one name and not for
  another. The deepest cause must win at every instant of a backoff
  cycle, pods that share a cause must agree on it word for word (the collapse
  folds equal texts), and a report that could not look must say so.
- **Fleet.** Targets finish at different rounds, vanish, or cannot be read while
  others go on; none may be judged twice or influence another.
- **Discovery.** Kinds are listed one after another while workloads come and go,
  under a ceiling that must be exact.
- **Command.** Contexts and diagnoses end in any order and some fail; one
  verdict and one exit code must speak for all of them, and say no more than
  what was verified.
- **Verdict and collapse.** Findings of many pods fold into one entry per cause;
  nothing may vanish or count twice.
- **Delta and monitor loop.** With `--since` the exit code says whether anything
  moved; the file it compares with was trimmed, may come from a run that could
  not look, or may be lost.
- **Budget.** Trimming goes tier by tier (advisories, namespaces, failures) and
  must count every drop; evidence returns to what is left as far as it fits.

`PROJECT.json` lists every hazard of these parts at its line, with the
properties that would catch it going wrong.

## Modules and how they correspond to the code

    Snapshot   one observation of a target; evaluate.go
      Batch    the snapshots of CronJobs, Jobs and Pods; batch.go
      Tracker  the tracker as operators on a record; tracker.go
        Watch       one watch: Run, watchLoop                ---- implements ----> Stability
        EarlyExit   two trackers fed alike, WedgedFor and 0
        Fleet       RunFleet: one loop, a tracker per target ---- implements ----> Watch
        Rollout     a real rollout, three lagging caches  uses  Revision (revision.go),
                                                                Custom (dynamic.go)
    Discovery  Discover
    Signatures the detectors over one pod
      Kubelet    what Kubernetes writes of a pod in trouble (external)
        Diagnose   one diagnosis against a cluster that moves
    Verdict    Collapse, BuildFleet, Build, ExitCode
      Command  goroutines, semaphore and merge of one invocation
      Delta    Diff
      Budget   Apply
        Monitor  run after run over the verdict file  uses  Advisory (advisory.go)

- **Snapshot** A snapshot is a record with the fields of the Go type the engine
  reads. A pod is identified by its UID; reason strings are reduced to whether
  they are empty, container statuses to `waiting` (some container waits for a
  terminal reason) and `restarts` (the sum). kstatus' values are `Current`,
  `Failed` and the rest.
- **Batch** The snapshots of `batch.go`: a suspended object is a terminal
  failure, a CronJob shows its newest owned Job, a Job reports its conditions.
  MCViews builds the views of the targets of Watch and Fleet with it.
- **Tracker** `TrackerAfter` and `OutcomeAfter` are `observe` (the early returns
  in their order), `TimeoutVerdict` is `timeoutVerdict`. Maps are functions over
  `Pods` with `Absent`; `healthySince` zero is `Unset`. The tracker holds no
  clock and does no I/O, hence operators, shared by the four modules that own
  trackers.
- **Watch** Phases `preflight`, `sync`, `observe`, `select`, `done` are where
  `Run` is; one action per step and per way it can fail. `hist` is a history
  variable only the properties read.
- **Stability** the abstract specification: an observer that compares each
  observation with the one before it, with no baseline, no wedge clocks and no
  restart memory. `Watch!Promise` is the refinement mapping.
- **EarlyExit** feeds the same snapshots to a tracker with `WedgedFor` and to
  one with 0. The watch around them is reduced to what they see of it.
- **Fleet** `Evaluate(w)` is a turn of the loop over the watches (a done target
  is skipped), `RoundEnds` the test after the loop. `Alone(w)` maps the fleet to
  a `Watch` of `w`: it is in `select` when this round has visited it, and done
  at the instant it was judged.
- **Custom** What `dynamic.go` makes of the generation a custom resource says its
  controller has observed (a number, a numeral, a hash) and how it finds the
  resource's pods. Rollout runs it for three kinds of custom resources beside the
  three built-in ones.
- **Discovery** `List` lists one kind with limit *ceiling + 1* from a cluster
  that changes in between; `Decide` is the end of `Discover`.
- **Revision** the three splits; a sort with ties is the set of results it can
  give. **Rollout** runs them against a cluster that performs a rollout or a
  rollback, beside a pod of another workload that the selector matches too
  (`Sibling`: Ready or not, draining or not, and moving), through three caches
  each late by at most `Lag`.
- **Signatures** Each detector is an operator on a pod, its events and what was
  read of its node and claim, and yields a finding or none; `podDetectors` is
  their order, `FirstMatch` the loop over them. A pod has its containers with
  their states, restart counts, reasons and which instance crashed last.
- **Kubelet** (external) For each trouble the catalogue names, the pods and
  events Kubernetes shows of it at every instant (waiting, running, dead, backing
  off), together with what is really wrong. The `truth` of a patient is stated
  without the detectors: a container crash-loops when it has died at least twice
  (`Deaths`), a pod is stuck when something holds it for longer after the request
  than its grace period and the slack (`HeldFor`; the `deletionTimestamp` the API
  shows is the request *plus* the grace period), and an OOM kill is reported of a
  pod that is Ready again, as the catalogue's "current or last termination" says.
  Where a detector is known to lag behind that, `apparent` says what it takes the
  patient for; there are two such places (`Noticed`, `Deleted`), and both are
  listed as disagreements below. `NextInstants` is the restart cycle and `LogOf`
  which instance's log the kubelet has at each instant of it.
- **Diagnose** `ListsEvents`, `WorkloadFindings`, `DiagnosePod`, `Reports` are
  the stages of `Diagnose`; `reads` is the reader's cache with what was denied;
  `WorldMoves` is the nodes and claims of the cluster and `ContainerMoves` its
  containers: `live` is where each pod's container is by now, while the snapshot
  stays what it was, so a log is asked for by the one and answered by the other
  (`GotLog`). Which reads a detector makes follows from which detectors before it
  matched. `held` and `reads.failed` are history.
- **Verdict** folds targets and findings into a verdict and a verdict into an
  exit code. **Command** is `runContexts`/`runFleet`/`diagnoseFleet`: `stage[c]`
  is where the goroutine of context `c` is, `permits[c]` its semaphore,
  `diagnosis[c][i]` the goroutine of target `i`, `reports` and `outs` the slots. A workload's name is its
  kind and its name; an anchor drops the kind, as `anchorRef` does.
- **Delta**, **Budget** and **Monitor**: one action `Run(w)` is a whole run that
  observed the world `w`: build, diff with the stored verdict, trim, exit code,
  store. Sizes of the budget are abstract (an entry costs one, a piece of
  evidence what it says) since the code promises an order of trimming, not a
  number of characters.
- **Lists** The loops over slices that several modules share: what is at some
  places, what is there for the first time, sums.
- **Advisory** Which terminations are in the window and which one an advisory
  names; Monitor's conditions carry the terminations of each pod.
- **MCViews, MCWatch, MCEarlyExit, MCFleet, MCDiscovery, MCRollout, MCCommand,
  MCMonitor, MCDiagnose** give TLC small instances.
- **SequenceFacts, TrackerProofs, WatchProofs, SoundnessProofs, FleetProofs,
  MonitorProofs, CommandProofs, DiagnoseProofs** hold the proofs; SoundnessProofs
  those about EarlyExit and about Rollout, whose variables it joins and whose
  specifications it keeps apart (`Spec` and `RolloutSpec`).

Definitions under a comment that starts with *Mutant:* are used by no
specification. Each is the form a definition would take after a plausible slip
(a dropped guard, a missing reset, the wrong order); `PROJECT.json` pairs each
with the property that TLC finds violated when it takes the definition's place.

## Time, fairness and the environment

A unit of time is the ticker's interval. An evaluation reads memory and takes no
time. A tick is taken 1 to `MaxGap` units after the previous evaluation, because
a late tick stays buffered and later ones are dropped; so at most one evaluation
happens after the deadline, when `select` takes the tick although the deadline
is ready too. A preflight and a sync take up to their timeouts.

The cluster is the environment. In Watch, Fleet and EarlyExit an evaluation
finds *any* snapshot its kind of target can show, in any order, except that
restart counts of a pod never go down: this over-approximates every
interleaving of informer deliveries. Rollout constrains the cluster to what
controllers do, because its properties compare verdicts with the cluster. Its
assumptions are that a published status was true when it was published, that a
new pod takes longer than the cache lag to become Ready, that the UID of a pod is
not given again, and that no template has the name the model gives to something
else (a sibling's revision, a stray one, the absent hash). The sibling is another
workload's: it may start in any state, get Ready and unready, be deleted and
leave, at any time and in any order. TLC's instance has one edit, the theorems
any number. What `SettledIsTrue` needs beyond that is said
with it below.

Fairness is weak fairness of the steps the runtime guarantees: every call of
`Run` has a context with a deadline, an evaluation reads memory only, the ticker
and the deadline always come, a diagnosis has a context of 15 seconds, and
waiting goroutines are runnable once what they wait for has happened. No
fairness is assumed of interrupts, of the cluster, or of any particular choice
(a tick that never loses to a deadline, say). Deadlock is not checked where the
program stops by design: every specification here is of a run that ends, or
(Monitor, Discovery, Diagnose) of an environment that may cease.

## Runs

Each run finishes without error unless it is listed as a disagreement below.
Every property is shown able to fail by a mutant of the code it is about.

| run | what is checked | bounds |
|---|---|---|
| Watch | `TypeOK`, `WindowIsCurrent`, `WedgeBracketed`, `PatienceKept`, `EarlyMirrorsDeadline`, `ProgressIsLegitimate`, `EndsInTime`, refinement `KeepsPromise`, liveness `Terminates` | 2 pods, one restart, `StableFor` 2, `WedgedFor` 2, `Timeout` 4, gaps 1–2, calls that take no time or all of it; a stable and a wedging Deployment, a CronJob with its Jobs, a bare Pod; 123 k states |
| EarlyExit | `TypeOK`, `SameUnlessEarly`, `CondemnedUnlessRecovered` | 2 pods, `StableFor` 2, `WedgedFor` 2, `Timeout` 6; 120 k states |
| Fleet | `TypeOK`, `AllJudged`, refinement `EachIsAWatch`, `JudgedOnce`, liveness `FleetTerminates` | a Deployment and a Job, 1 pod each, `StableFor` 1, `WedgedFor` 2, `Timeout` 4; 252 k states |
| Discovery | `SelectionBracketed`, `CeilingIsExact` | 2 kinds, 4 names each (symmetric), ceiling 2, 2 changes while listing; 11 k states |
| Rollout | `SettledIsTrue`, `ConvergedSettles` | Deployment, StatefulSet, DaemonSet and three custom resources (Operator, Argo, Legacy); one update or rollback, 2 pods (symmetric) and a sibling that gets Ready and unready beside Argo, leaves beside Operator, is draining beside the StatefulSet and unready elsewhere; `Lag` 1, `StableFor` 2, 6 evaluations; states that differ in the tracker's last snapshot only are one (`Told`: no step of Rollout reads it); 1.9 M states |
| Diagnose | `TypeOK`, `RootCause`, `SharedCauseIsShared`, `RejectionsAreNamed`, `LogIsOfLastCrash` | one or two pods in every trouble Kubelet knows, with an old pod beside, rejections of the pods of every kind of workload (Deployment, StatefulSet, DaemonSet, Job, CronJob, Rollout) and of three kinds of neighbours; 2 pages of events, every read answered, denied or failed, two changes of nodes, claims or containers once pods are examined; 1.4 M states |
| Command | `TypeOK`, `UnverifiedNeverHides`, `NothingLost`, `InFleetOrder`, `DiagnosesBounded`, liveness `CommandEnds` | 2 contexts with 3 and 1 workloads that share names across kinds, namespaces and contexts, `DiagnosisLimit` 2, 3 results, 2 reports; 17 k states |
| Monitor | `TypeOK`, `QuietIffStill`, `TransitionsAreTrue`, `ClearedIsHealthy`, `BrokenCheckIsLoud`, `DropsAreCounted`, `TrimmedInTiers` | 2 contexts, a workload in 5 conditions and one in 2, all errors; contexts, fleet and target; budgets none, 3 and 6; 3.5 k states, 194 k steps |

What the properties say, and what they show:

- `KeepsPromise`: *settled* (by readiness) is said only of a target that every
  evaluation over at least `StableFor` found healthy with the same pods and the
  same restart counts, and *progressing* never of one that was so at the last
  evaluations. `WindowIsCurrent` is its core: the baseline is an exact picture
  of the present although it was taken when the window opened and compared by
  size and counts only.
- `WedgeBracketed`, `PatienceKept`, `EarlyMirrorsDeadline`: the early exit fires
  on a pod not seen Ready for `WedgedFor`, fires no later than the first
  evaluation after `WedgedFor` of uninterrupted wedging, and only where the
  deadline would fail the same observation. `SameUnlessEarly` and
  `CondemnedUnlessRecovered` compare with the run that has no early exit.
- `ProgressIsLegitimate`: exit 2 means no wedged pod at the last look, no
  restart during the watch (where restarts count), and no full window missed.
- `EndsInTime`: preflight and watch run under one option with a timeout each, so
  a caller may wait for two of them and one late tick, and not longer.
- `EachIsAWatch`: target by target, a fleet behaves like a watch of that target
  alone, so all that is checked and proved of Watch carries over. `AllJudged` and
  `JudgedOnce` say what Watch cannot: results come only when everyone is judged,
  and a result is final though the fleet goes on.
- `SettledIsTrue`, `ConvergedSettles`: settled is true of the cluster at an
  instant no more than the lag before the verdict; and nothing (stale objects,
  siblings whatever they are and do, rollbacks, stray revisions) keeps a converged
  rollout from settling. A custom resource that declares a selector (`Selecting`)
  is the exception: its snapshot counts every pod the selector matches, so it is
  called converged only while its sibling is well, and each move of the sibling
  begins the calm anew.
  `SettledIsTrue` is about a window longer than the lag and templates that
  differ, and holds of no less. With a window of one evaluation and as much lag,
  both evaluations may read an emptied pod list beside the workload of before.
  And a template that is changed and restored within the lag is found settled
  on the window that was open before, while a pod of the other is terminating.
  Both hold of custom resources too, but `SettledIsTrue` excepts Legacy, the
  kind whose controller publishes a hash: without a number there is nothing to
  compare the generation with, and a status of the previous one passes.
- `RootCause`: each pod gets at most one finding, and that finding is what is
  really wrong with it, at whatever instant of its trouble it was seen: never a
  symptom, an event of a predecessor, or a node that was healthy throughout; or
  the report names the read that is missing. Two lags are excepted by name
  (`apparent`): a container that is dead for the second time and has not backed
  off yet, and a pod that is held by a finalizer for less than two grace periods
  and the slack. `SharedCauseIsShared`: pods of one
  node or claim agree on it even if it changes between their turns, because it
  is read once. `RejectionsAreNamed`: a rejection is named once although
  condition and event tell of it, for workloads of any kind but CronJob.
  `LogIsOfLastCrash`: the log shown is that of the instance that had crashed last
  when it was read, although the container went on through its cycle after the
  snapshot. `LogMayBe` names the two races in which it is not (disagreements,
  below); and it is never older than the crash in the snapshot.
- `SelectionBracketed`, `CeilingIsExact`: a fleet contains what matched all along
  and nothing that never matched; the ceiling is exact as far as a changing
  cluster can tell.
- `UnverifiedNeverHides`, `NothingLost`, `InFleetOrder`: the exit code is exactly
  what was verified of all clusters; each unsettled target, cause and affected
  resource is there once; causes come in fleet order whatever ran first.
- `QuietIffStill`, `TransitionsAreTrue`, `BrokenCheckIsLoud`: in a monitor loop a
  change is reported exactly when something changed that a verdict can tell, and
  a run that could not look is never quiet.
- `ClearedIsHealthy`: an advisory is reported cleared only of a workload that is
  well or gone, not of one that fails now.
- `DropsAreCounted`, `TrimmedInTiers`: what the budget drops is counted, and
  entries are lost tier by tier: no namespace while an advisory is left, no
  failure while a namespace or an advisory is left. Nothing is promised of
  evidence, which comes back to the entries that are left, first fit, after the
  others are dropped (`budget.go:82`).

Why the bounds are enough. The tracker compares an evaluation with one earlier
state and with a clock, so two pods (one to swap with the other), one restart,
a window and a patience of two units (a whole window inside the timeout, and a
boundary on both sides of every `>=`) show every case of its branches; `Timeout`
leaves room for a window that opens, breaks and opens again, and `MaxGap` for an
evaluation that comes late and one past the deadline. `KeepsPromise` and the
safety properties of Watch are also proved for all values. In a fleet targets
share nothing but time and the count of open ones, so two of different kinds
suffice (and the refinement is proved for all). A rollout has an old and a new
revision; the third that matters is the one that was there before (a rollback)
or that no pod carries (drift), and both occur. Two contexts that share namespace and name, with more unsettled targets
than permits, are the smallest in which goroutines contend and keys collide. A
diagnosis treats its pods one after the other and joins them only through what
the reader has cached or been denied: two current pods, or one and an old one,
that share a node, a claim or neither show every such effect; what moves before
the first pod has its turn is in the choice of initial states (of nodes and
claims), and in the two moves between the snapshot and the turn of its pod (of a
container: the asked instance is lost by the first, replaced by the second). A step of Monitor
depends on the file and the world only, and all pairs occur.

## Where the code and its documents disagree

Each of these is a run that TLC ends with a counterexample; `findings` in
`PROJECT.json` quotes the lines.

| run | property | what happens |
|---|---|---|
| WatchRestart | `RestartFailureIsEarned` | a pod that restarted *before* the watch began counts as a restart seen during it: at the deadline a rollout that is merely slow is failed (exit 1) instead of progressing (exit 2) |
| MonitorTrimmed | `QuietUnderBudget` | the verdict is trimmed after the delta is computed and is the next run's input: what the budget dropped reads as settled, so an unchanged fleet reports a change |
| MonitorUnreachable | `SettledWasChecked` | with several contexts an unreachable one makes the merged verdict *failed*, which counts as checked, and its workloads are reported settled |
| DiagnoseForeign | `CauseIsOwn` | events of any ReplicaSet in the namespace count as the target's: a workload that was never rejected is given the quota failure of a neighbour |

Other things a reader of the code should know came up while modelling. They
contradict no text of the repository, or only loosely, and have no run.

- Only *settled* asks whether the controller has observed the spec; the early
  exit and the deadline fail a new generation on what is said of the previous
  one (`tracker.go:68`).
- A fleet's caches are filtered by the selector, so a workload relabelled out of
  it is reported "deleted" (`fleet.go:241`).
- `observeWedge`'s comment that what fails early "would have been failed at the
  deadline anyway" holds only if the pod does not recover in between;
  `CondemnedUnlessRecovered` states the form that is true.
- A read that is denied for one node makes the diagnosis discard what it had
  read of the others; one that fails without a denial is cached as absent and
  noted nowhere (`diagnose.go:209`).
- A custom resource that declares a selector is given every pod it matches,
  owned or not (`dynamic.go:178`): a pod of another workload that is unready or
  draining keeps it from settling for as long as it is so, which
  `revision.go:15` rules out for the built-in kinds. One whose controller
  publishes a hash has no staleness guard.
- `detectCrashLoop` says the verdict "does not depend on which instant of the
  backoff cycle the diagnosis lands on" (`crashloop.go:13`). At one instant it
  does: a container that is dead for the second time, before its first backoff, has
  one restart and does not wait, and no loop is seen. Likewise a pod that is Ready
  between two crashes looks like one that recovered.
- `detectStuckTerminating` adds the grace period to the `deletionTimestamp`, which
  the API server has set to the request plus the grace period
  (`stuckterminating.go:28`). So a pod is called stuck only one grace period after
  it "has overstayed its grace period by more than 30 seconds"
  (`docs/signatures.md:36`).
- `detectOOMKilled` does not ask whether the pod is Ready: a pod that was killed
  once and is well again is told so for as long as it is diagnosed.
- The pods of a CronJob are created by its Jobs, which report their rejections;
  `createFailureMessages` looks for events about a ReplicaSet or an object of the
  target's kind, and so never names them (`diagnose.go:318`).
- `fetchCrashLogs` chooses the instance by the snapshot and reads later
  (`diagnose.go:237`). If a dead container was restarted in between, the output of
  the new instance is shown as that of the crash; if the asked instance is gone,
  the kubelet's error is filtered and the report does not say that a log is missing.
- The identity of an advisory is its freshest termination. When the pod that had
  it is replaced the freshest one is an older one, and the delta calls it new
  (`delta.go:169`).
- With a named target no target is listed, so the test that keeps the advisory
  of a failing target from "clearing" finds none (`delta.go:134`). An unreachable
  context clears advisories for the reason MonitorUnreachable shows.
- An anchor has a name and no kind: a Deployment and a StatefulSet of one name
  count once under a shared cause (`collapse.go:78`).

## Proofs

TLAPS proves, for every value of the constants (finitely many pods, contexts and
names; any views, options and times) and from the specifications without
fairness:

| theorem | module | statement |
|---|---|---|
| `TypeCorrect` | WatchProofs | `Watch!Spec => []TypeOK` |
| `WindowCorrect` | WatchProofs | `Spec => []WindowIsCurrent` |
| `EndsInTimeCorrect` | WatchProofs | `Spec => []EndsInTime` |
| `PromiseKept` | WatchProofs | `Spec => KeepsPromise`: Watch implements Stability |
| `ProgressCorrect` | WatchProofs | `Spec => []ProgressIsLegitimate` |
| `PatienceCorrect` | WatchProofs | `Spec => []PatienceKept` |
| `ClocksCorrect` | WatchProofs | `Spec => []WedgeBracketed` |
| `EarlyCorrect` | WatchProofs | `Spec => []EarlyMirrorsDeadline` |
| `EarlyExitTypeCorrect`, `SameUnlessEarlyCorrect` | SoundnessProofs | `EarlyExit!Spec => []TypeOK`, `[]SameUnlessEarly` |
| `CondemnedUnlessRecoveredCorrect` | SoundnessProofs | `Spec => []CondemnedUnlessRecovered` |
| `RolloutTypeCorrect` | SoundnessProofs | `Rollout!RolloutSpec => []Real`: types, coherence of cluster and caches |
| `ConvergedSettlesCorrect` | SoundnessProofs | `RolloutSpec => []ConvergedSettles` |
| `SettledIsTrueCorrect` | SoundnessProofs | `RolloutSpec => []SettledIsTrue`, if `StableFor > Lag` and no template comes back |
| `FleetTypeCorrect`, `AllJudgedCorrect` | FleetProofs | `Fleet!Spec => []TypeOK`, `[]AllJudged` |
| `JudgedOnceCorrect` | FleetProofs | `Spec => JudgedOnce` |
| `EachIsAWatchCorrect` | FleetProofs | `Spec => EachIsAWatch`: Fleet implements Watch, target by target |
| `SelectionBracketedCorrect`, `CeilingIsExactCorrect` | FleetProofs | `Discovery!DiscoverSpec => []SelectionBracketed`, `[]CeilingIsExact` |
| `DiagnosesBoundedCorrect` | CommandProofs | `Command!Spec => []DiagnosesBounded` |
| `CommandTypeCorrect` | CommandProofs | `Spec => []TypeOK` |
| `UnverifiedCorrect` | CommandProofs | `Spec => []UnverifiedNeverHides` |
| `OrderCorrect` | CommandProofs | `Spec => []InFleetOrder` |
| `NothingLostCorrect` | CommandProofs | `Spec => []NothingLost` |
| `MonitorTypeCorrect` | MonitorProofs | `Monitor!Spec => []TypeOK` |
| `DropsCountedCorrect`, `TiersCorrect` | MonitorProofs | `Spec => []DropsAreCounted`, `[]TrimmedInTiers` |
| `LoudCorrect` | MonitorProofs | `Spec => BrokenCheckIsLoud` |
| `QuietCorrect` | MonitorProofs | `Spec => QuietIffStill` |
| `TransitionsCorrect` | MonitorProofs | `Spec => TransitionsAreTrue` |
| `ClearedCorrect` | MonitorProofs | `Spec => ClearedIsHealthy` |
| `TypeCorrect` | DiagnoseProofs | `Diagnose!Spec => []TypeOK` |
| `RootCauseCorrect` | DiagnoseProofs | `Spec => []RootCause` |
| `SharedCauseCorrect` | DiagnoseProofs | `Spec => []SharedCauseIsShared` |
| `RejectionsCorrect` | DiagnoseProofs | `Spec => []RejectionsAreNamed` |
| `LogCorrect` | DiagnoseProofs | `Spec => LogIsOfLastCrash` |

The assumptions are those of the modules, and TLC evaluates them in every run:
`PodsAssumption` (finitely many pods: cardinalities are compared),
`OptionsAssumption` (`StableFor` and `WedgedFor` are naturals), `WatchAssumption`,
`FleetAssumption`, `EarlyExitAssumption` (times are naturals, a call takes no
longer than its timeout, views are snapshots), `RolloutAssumption` (the kinds are
those the program knows, lag and length of the watch are naturals, the templates
are one or more names), `SiblingAssumption` (beside each kind the sibling has some
of the states a pod of another workload can have, all of them or fewer), `KindAssumption` (a target that
can be seen unfinished with completion as its terminal state always has it, as
the code sets it by kind), `DiscoveryAssumption` (kinds are a sequence without
repetition, names are finitely many, the ceiling is positive),
`CommandAssumption` (contexts are a non-empty sequence without repetition, each
has a sequence of workloads), `NamesAssumption` (a context has a name, and its
fleet lists a workload once), `LimitAssumption` (the semaphore has a place),
`ReportsAssumption` (what a watch and a diagnosis may return), `KubeletAssumption`
(the time and the grace period are natural numbers), `DiagnoseAssumption` (the event list has a page;
a claim is no node) and `CasesAssumption` (a target is of a kind
whose controller is known, its pods have distinct names and UIDs, and each is in one of the states Kubelet describes: the theorems about
Diagnose are about any number of such pods, of any revision, in any order, with
any rejections). `MonitorAssumption` says the same of Monitor's contexts and
workloads as Command's do, and that a named target is one of the first context's
workloads; `WorkloadsAssumption` that a context lists a workload once (the cluster
has one object of a kind, namespace and name) and that no namespace is called `*`
(which the header of a fleet says, and Kubernetes does not allow);
`ConditionsAssumption` that each workload has some condition it can be in, with
any pods and terminations, and, if it does not settle, a cause with evidence of
some sizes. Budgets are any natural numbers.

The argument.

- *Watch.* `WindowIsCurrent` is not inductive: the tracker compares the *number*
  of pods and the counts of those it finds, and from an equal number and no new
  pod it must follow that the same pods are there with the same counts. It
  follows because counts recorded for the whole watch (`seen`) cover the last
  snapshot and the cluster never lowers a count: that is `SeenCovers`, and with
  the order of times, the fact that a result is given once and the origin of the
  last snapshot it makes the inductive `WindowInv`. `TrackerProofs` has the facts
  about the tracker's operators (`AfterFields`, `AfterWindow`, `AfterWedge`, ...),
  so that the proofs about Watch never expand them all; `UnviolatedWindow` is the
  cardinality argument.
- *Promise.* `PromiseInv` adds that a calm target has an open window and that a
  window long enough did not survive the evaluation that found it so; then each
  step of Watch maps to a step of Stability (`WaitRefines`, `ObserveRefines`,
  `DeadlineRefines`, `ErrorRefines`) or stutters. `ProgressInv` adds that a
  restart seen is remembered.
- *Patience.* `PatienceInv` adds that each clock is bracketed between what the
  history says (`ClocksBracketed`), which gives both bounds of the early exit.
- *Early exit.* Until the exit the two trackers are `Alike`: equal in everything
  but the wedge bookkeeping, which nothing else reads. `PatientAfter` computes
  the tracker whose `WedgedFor` is 0 and finds it the other one without the
  clocks; so both say the same, or the eager one has left. After the exit
  `LateFits` ties the late verdict to the last snapshot of the watch without
  WedgedFor: settled only from a healthy one, progressing at the deadline only
  from one that nothing terminal is seen in. A pod still condemned rules out both.
- *Rollout: a converged cluster settles.* `ConvergedSettles` says nothing of the
  caches, and they decide. `Real` is the ground for both theorems: the cluster is
  `Managed` (the owners of its pods have revision objects, numbers and names of
  those belong together, complete means that no other template is alive) and the
  caches are `Known`: late, never wrong. Then calm and lag are weighed against each
  other: a cache that differs in something a split regards has done so since before
  the calm began (`LagCounted`), so after the lag the caches are the cluster but for
  the sibling. That one is not regarded where the owner of a pod is asked
  (`Differs`, `SameParts`), and where a selector is all there is, its moves end
  the calm; every snapshot of a
  converged cluster is healthy and has the same pods (`ConvergedSnapshot`, over
  the three splits and the custom resources), so the window is open since then
  (`CalmWindow`), and the evaluation that finds it long enough settles
  (`CalmBound`). No hypothesis on the templates: rollbacks and templates that come
  back are included.
- *Rollout: settled was true.* A snapshot joins three caches of different ages, so
  one healthy snapshot proves nothing. `TrueInv` says what the caches can still
  disagree about. What a cache does not have of a pod is younger than the cache is
  late (`Young`), and a pod takes longer than the lag to become Ready, so a pod
  seen Ready is one whose revision and observed generation have been seen too
  (`ReadyIsObserved`, with `InOrder` for the revision list). A window is opened on
  pods of one generation, older ones only if they have died since
  (`OneGeneration`); on no pod at all only while the workload's cache is behind,
  which cannot last a window longer than the lag (`NoPods`, `Completed`). So when
  the window ends, the pods of the cache are those of the judged generation, and
  what is so in the pod cache was so in the cluster no longer ago than the cache is
  late (`GoodRecent`). Both hypotheses are needed, and TLC refutes the property
  without either. They describe the use of the program: the default window is
  15 seconds (`--stable-for`) and informers lag far less, and to restore a template
  within the lag is to edit twice before anything has happened. Both invariants were
  checked by TLC on the run's instance.
- *Fleet.* `FleetInv` orders trackers and clock, bounds the clock by the deadline
  and a late tick, and keeps a result's time in between. For the refinement
  `OpenOrJudged` adds that an open target has no result and a tracker that has
  not exited. Each action is then an action of the target's watch (`CallsAlone`,
  `TurnAlone`, `SelectAlone`) or, for a target that is done or has not its turn,
  nothing (`DoneAlone`, `StepAlone`). The instance of Watch brings a copy of the
  tracker's operators; `CopyTracker` shows the copies equal.
- *Discovery.* What matched all along still matches, and what was collected once
  matched (`Bracketed`); lists that were not cut hold all of their kinds
  (`Complete`); one that was cut brought more than the ceiling (`CutIsFull`).
- *Command.* A place is taken per running diagnosis (`PlacesCounted`), and one
  that runs is that of an unsettled target (`SlotsMatch`), which `Fill` waits
  for: so no diagnosis outlives its context. `RunInv` adds what each slot holds by
  where its goroutine is (`ContextInv`: nothing while it watches, results and
  reports while it diagnoses, then an error or what `Filled` makes of them) and
  that there is a verdict only when all slots are filled, and which (`EndInv`).
  With it the other properties are questions about the sequences of the last
  step, whatever order the goroutines ran in. `FlattenUnfolds` says of a sequence
  of sequences that its concatenation has their members, each from one place, in
  order; `PickedFacts` and `DistinctFacts` follow for `Picked` and `Distinct`.
  `TargetsUnfold` and `FindingsUnfold` give every target and every finding of the
  verdict the place it came from. Then `UnverifiedNeverHides` is a comparison of
  the worst status with the set of all (`EntryStatuses`, `ContextsTruth`,
  `ClusterTruth`); `InFleetOrder` holds because the first finding of a cause comes
  from the first place with that cause; and `NothingLost` pairs the listed targets
  with the unsettled ones (`GroupsPair`, `ListedPair`) and the anchors counted
  under a cause with the resources affected (`AnchorTells`: anchors are
  equal exactly when context, namespace, name and pod are; `TellAlike`:
  two ways of telling the same members apart count the same). TLC checked `RunInv`
  as an invariant of the run.

- *Monitor.* What is on file is not just any verdict: `MonitorInv` says it is the
  last run's trimmed to the budget, and that one was whole (`IsWhole`: nothing
  dropped, lists of entries with evidence, nothing listed as settled). What a run
  finds, groups and collapses has that form by the facts about `Picked`,
  `Distinct` and concatenation (`InputFacts`, `NamespacesFacts`, `VerdictFacts`).
  The rest is about `Apply` alone, for any verdict and any budget, in the order of
  its loops: `TrimAdvisoriesFacts`, `SkeletonFacts`, `ReturnEvidenceFacts`,
  `CountedFacts`, `ApplyFacts`. Sizes stay uninterpreted: of `Tokens` only that it
  reads the parts of a verdict is used, so the theorems hold of any way to count.
  `Refills` is the set of verdicts that returning evidence may reach: the same
  entries with other evidence, and a verdict that fits if the bare one does. It is
  closed under every step (`RefillOne`, `GiveRoundFacts`). `LoudCorrect` adds that
  `Diff` against any file says nothing of what a run could not check
  (`BrokenDiff`).
- *Monitor's delta.* `QuietIffStill`, `TransitionsAreTrue` and `ClearedIsHealthy`
  speak of the worlds that two runs saw, `Diff` of two verdicts. `FileInv` is what
  is missing between them: what is on file `Records` the world that was seen last.
  That was a run that was made; the file's advisories are among that run's
  (trimming forgets some and changes no key: `TrimmedIndex`), and without a budget
  its findings are all of them. Then each verdict is read back, key by key:
  `FoundSet`, `EnumeratedOn` and `AdvisedOn` give the members of its lists, and
  since a key names one workload (`KeysApart`) `StatusAt` and `AdvisedAt` give what
  it says of that workload, `RollupIs` of a context. `NotesFacts` says that a
  settled workload is noted exactly if its freshest termination is not 0; one of
  finitely many terminations is the freshest (`SomeLast`). `QuietDiff` says what an
  empty delta means of any two verdicts (`SameStory`), and `SameStoryIfSame` and
  `SameOnlyIfSame` that two worlds' verdicts tell the same exactly if the worlds
  look the same. The second is the one with a catch: a context that could not be
  watched and one with a failed workload are both *failed*, and only what is
  enumerated tells them apart (`SameErrors`); an advisory that is gone from a
  workload that fails now is no transition, but its change of status is.

- *Diagnose.* The five properties speak of the report and of the cluster, and
  neither bounds the other: a node may have failed and recovered while its pods
  were diagnosed. `DiagnoseInv` says in between what was *known* when a pod had
  its turn: its verdict is what the detectors find (`Found`) from some condition
  of its node and of its claim, and of a name that was not denied that is the one
  condition in the cache, which held at some instant (`Known`). One more reading
  changes no cached name, so the fact survives (`GetFacts`, `GetLogFacts`); two
  pods of one node therefore know the same, which is `SharedCauseIsShared`.
  `RootCause` is then a question about one pod with no time in it: for each
  trouble of Kubelet, at each of its instants, the first detector that matches is
  the right one, of the truth or of what is apparent at that instant. For the log,
  `Aged` says that a container's last crash is never an earlier one than in the
  snapshot (`CycleGoesOn`), and `LogIsRecent` compares instant and snapshot. There is a lemma for each of Kubelet's classes, from `FirstOf`
  (no earlier detector matches) and `MainDecides` (a sidecar changes nothing), and
  `PatientDescribed` is their union. Denials and failures are the cases in which
  the condition is the empty one. `Rejected` and `Deduped` follow the two passes
  over sequences (`RejectionFacts`, `DedupFacts`), by induction on the length.
  TLC checked `DiagnoseInv` as an invariant of the run before it was proved.

*Induction.* The library's induction rules take a predicate as a parameter, which
the provers cannot instantiate. `SequenceFacts!Induction` states the rule of a
*set* of numbers and derives it from a well-foundedness theorem about finite sets;
what a recursive function over a sequence computes is proved by applying it to
the set of lengths for which the claim holds. `Recursion` gives the function that
a recursive definition over `1 .. N` stands for, when its steps stay in a set.

Definitions are kept folded where the SMT backend cannot carry them, and record
updates are opened only in the lemmas of `TrackerProofs`.

## What is only model-checked

- Liveness (`Terminates`, `FleetTerminates`, `CommandEnds`): fairness and ENABLED
  are outside what the prover does. Every invariant and every action property of
  a passing run is proved.

## What is not modelled, and why

- Flag parsing, name resolution, shell completion, progress lines and text
  output (`internal/cli`, `internal/output/text.go`): no state, or formatting.
- client-go: the informers' delivery is the environment's choice of a snapshot;
  `WaitForCacheSync`, lists and their limits are single steps. `main`, `perf` and
  `bench/` have no part in a verdict.
- The detectors' wording and evidence, and which probe text or exit code a
  finding quotes: the models tell apart signature, what it is about and why.
- Verdict files of binaries that lacked `lastFinishedAt` (the fallback of
  `newTermination`): the files of the loop are the program's own.
- Within what is modelled: the wording of reasons, label selectors (which
  workloads match is given), pod counts in the header, the content hash (equal
  exactly when the hashed fields are), and the number of characters of a verdict.

## Plan

1. *Done.* Snapshot, Batch, Custom, Tracker, Watch with its abstract
   specification; EarlyExit; Fleet and Discovery; Revision and Rollout;
   Signatures, Kubelet and Diagnose; Verdict, Command, Delta, Advisory, Budget,
   Monitor; proofs of all safety properties of Watch, EarlyExit, Rollout, Fleet,
   Discovery, Diagnose, Command and Monitor.
2. *Next, the model.* Command with the diagnosis of Diagnose in place of a
   choice of reports.
3. *Next, the proofs.* That a rollout seen through the caches is one of the
   observations Watch allows (restart counts that never fall), so that what is
   proved of Watch holds of Rollout step by step.

## Running it

    tlc -workers 2 -config Watch.cfg MCWatch.tla     # likewise the other runs
    tlapm WatchProofs.tla                            # likewise the other proofs

`PROJECT.json` lists which module belongs to which configuration. Rollout and
Diagnose take about two minutes, Watch and Monitor one to two, the other runs less.
