---------------------------- MODULE DiagnoseProofs ----------------------------
(***************************************************************************)
(* Theorems about Diagnose, for all workloads whose pods are in a trouble  *)
(* that Kubelet describes, any number of pods, nodes and pages, and all    *)
(* that nodes and claims may do meanwhile.                                 *)
(***************************************************************************)
EXTENDS Diagnose, SequenceFacts

----------------------------------------------------------------------------
(* What is kept of a sequence of findings *)

\* The pass of dedupIdentical, finding by finding.
KeptStep(fs, kept, n) ==
    IF n = 0 THEN <<>>
    ELSE IF \E g \in ToSet(kept) : Key(g) = Key(fs[n]) THEN kept
    ELSE Append(kept, fs[n])

\* dedupIdentical is that pass: the recursion defines a function.
LEMMA KeptRecursion ==
  ASSUME NEW S, NEW fs \in Seq(S)
  PROVE  \E kept : /\ kept = [n \in 0 .. Len(fs) |-> KeptStep(fs, kept[n - 1], n)]
                   /\ DedupIdentical(fs) = kept[Len(fs)]
<1> DEFINE Upto(k, g) == g = [n \in 0 .. k |-> KeptStep(fs, g[n - 1], n)]
           T == {k \in Nat : \E g : Upto(k, g)}
<1>1. 0 \in T
  <2>1. Upto(0, [n \in 0 .. 0 |-> <<>>])
    BY DEF KeptStep
  <2> QED
    BY <2>1
<1>2. ASSUME NEW k \in Nat, k \in T PROVE k + 1 \in T
  <2>1. PICK g : Upto(k, g)
    BY <1>2
  <2> DEFINE h == [n \in 0 .. k + 1 |-> IF n = k + 1 THEN KeptStep(fs, g[k], k + 1) ELSE g[n]]
  <2>2. \A n \in 0 .. k + 1 : h[n] = KeptStep(fs, h[n - 1], n)
    <3> SUFFICES ASSUME NEW n \in 0 .. k + 1 PROVE h[n] = KeptStep(fs, h[n - 1], n)
      OBVIOUS
    <3>1. CASE n = k + 1
      BY <3>1
    <3>2. CASE n # k + 1 /\ n # 0
      BY <2>1, <3>2
    <3>3. CASE n = 0
      BY <2>1, <3>3 DEF KeptStep
    <3> QED
      BY <3>1, <3>2, <3>3
  <2>3. Upto(k + 1, h)
    BY <2>2
  <2>4. \E f : Upto(k + 1, f)
    <3> HIDE DEF Upto, h
    <3> QED
      BY <2>3
  <2> QED
    <3> HIDE DEF Upto
    <3> QED
      BY <2>4
<1>3. Len(fs) \in T
  <2> HIDE DEF T
  <2> QED
    BY <1>1, <1>2, Induction
<1>4. PICK g : Upto(Len(fs), g)
  BY <1>3
<1> DEFINE kept == CHOOSE f : Upto(Len(fs), f)
<1>5. Upto(Len(fs), kept)
  BY <1>4
<1>6. DedupIdentical(fs) = kept[Len(fs)]
  BY DEF DedupIdentical, KeptStep
<1> QED
  BY <1>5, <1>6

\* A fact is in the report if and only if it was found, and is there once.
LEMMA DedupFacts ==
  ASSUME NEW S, NEW fs \in Seq(S)
  PROVE  LET d == DedupIdentical(fs)
         IN  /\ d \in Seq(S)
             /\ ToSet(d) \subseteq ToSet(fs)
             /\ \A f \in ToSet(fs) : \E g \in ToSet(d) : Key(g) = Key(f)
             /\ \A i, j \in DOMAIN d : Key(d[i]) = Key(d[j]) => i = j
<1>1. PICK kept : /\ kept = [n \in 0 .. Len(fs) |-> KeptStep(fs, kept[n - 1], n)]
                  /\ DedupIdentical(fs) = kept[Len(fs)]
  BY KeptRecursion
<1> DEFINE Good(n) ==
             /\ kept[n] \in Seq(S)
             /\ ToSet(kept[n]) \subseteq ToSet(fs)
             /\ \A i \in 1 .. n : \E g \in ToSet(kept[n]) : Key(g) = Key(fs[i])
             /\ \A i, j \in DOMAIN kept[n] : Key(kept[n][i]) = Key(kept[n][j]) => i = j
           T == {n \in Nat : n <= Len(fs) => Good(n)}
<1>2. 0 \in T
  <2>1. kept[0] = <<>>
    BY <1>1 DEF KeptStep
  <2>2. ToSet(kept[0]) = {} /\ kept[0] \in Seq(S) /\ DOMAIN kept[0] = {}
    BY <2>1 DEF ToSet
  <2> QED
    BY <2>2
<1>3. ASSUME NEW n \in Nat, n \in T PROVE n + 1 \in T
  <2> SUFFICES ASSUME n + 1 <= Len(fs) PROVE Good(n + 1)
    OBVIOUS
  <2>1. Good(n)
    BY <1>3
  <2>2. n + 1 \in 1 .. Len(fs) /\ fs[n + 1] \in S /\ fs[n + 1] \in ToSet(fs)
    BY DEF ToSet
  <2>3. kept[n + 1] = KeptStep(fs, kept[n], n + 1)
    BY <1>1, <2>2
  <2>4. CASE \E g \in ToSet(kept[n]) : Key(g) = Key(fs[n + 1])
    <3>1. kept[n + 1] = kept[n]
      BY <2>3, <2>4 DEF KeptStep
    <3>2. \A i \in 1 .. n + 1 : \E g \in ToSet(kept[n + 1]) : Key(g) = Key(fs[i])
      BY <2>1, <2>4, <3>1
    <3> QED
      BY <2>1, <3>1, <3>2
  <2>5. CASE ~ \E g \in ToSet(kept[n]) : Key(g) = Key(fs[n + 1])
    <3> DEFINE was == kept[n]
               is == kept[n + 1]
    <3>1. is = Append(was, fs[n + 1])
      BY <2>3, <2>5 DEF KeptStep
    <3>2. is \in Seq(S) /\ Len(is) = Len(was) + 1 /\ is[Len(was) + 1] = fs[n + 1]
      BY <2>1, <2>2, <3>1
    <3>3. \A i \in DOMAIN was : i \in DOMAIN is /\ is[i] = was[i]
      BY <2>1, <2>2, <3>1
    <3>4. \A i \in DOMAIN is : i \in DOMAIN was \/ i = Len(was) + 1
      BY <2>1, <3>2
    <3> HIDE DEF is, was
    <3>5. ToSet(is) = ToSet(was) \union {fs[n + 1]}
      <4>1. Len(was) + 1 \in DOMAIN is
        BY <2>1, <3>2 DEF was
      <4>2. fs[n + 1] \in ToSet(is)
        BY <3>2, <4>1 DEF ToSet
      <4>3. ToSet(was) \subseteq ToSet(is)
        BY <3>3 DEF ToSet
      <4>4. ToSet(is) \subseteq ToSet(was) \union {fs[n + 1]}
        BY <3>2, <3>3, <3>4 DEF ToSet
      <4> QED
        BY <4>2, <4>3, <4>4
    <3>6. \A i, j \in DOMAIN is : Key(is[i]) = Key(is[j]) => i = j
      <4>1. \A i \in DOMAIN was : Key(was[i]) # Key(fs[n + 1])
        BY <2>5 DEF was, ToSet
      <4> QED
        BY <2>1, <3>2, <3>3, <3>4, <4>1 DEF was
    <3>7. \A i \in 1 .. n + 1 : \E g \in ToSet(is) : Key(g) = Key(fs[i])
      BY <2>1, <3>5 DEF was
    <3> QED
      BY <2>1, <2>2, <3>2, <3>5, <3>6, <3>7 DEF is, was
  <2> QED
    BY <2>4, <2>5
<1>4. Len(fs) \in T
  <2> HIDE DEF T
  <2> QED
    BY <1>2, <1>3, Induction
<1>5. Good(Len(fs))
  BY <1>4
<1>6. \A f \in ToSet(fs) : \E g \in ToSet(kept[Len(fs)]) : Key(g) = Key(f)
  BY <1>5 DEF ToSet
<1> QED
  BY <1>1, <1>5, <1>6

----------------------------------------------------------------------------
(* Rejections that are named *)

\* The loop of workloadFindings, message by message.
NamedStep(messages, named, n) ==
    IF n = 0 THEN <<>>
    ELSE IF Rejection(messages[n]) = "none" THEN named
    ELSE Append(named, WorkloadFinding(messages[n]))

\* Rejections is that loop: the recursion defines a function.
LEMMA NamedRecursion ==
  ASSUME NEW M, NEW messages \in Seq(M)
  PROVE  \E named : /\ named = [n \in 0 .. Len(messages) |->
                                  NamedStep(messages, named[n - 1], n)]
                    /\ Rejections(messages) = named[Len(messages)]
<1> DEFINE Upto(k, g) == g = [n \in 0 .. k |-> NamedStep(messages, g[n - 1], n)]
           T == {k \in Nat : \E g : Upto(k, g)}
<1>1. 0 \in T
  <2>1. Upto(0, [n \in 0 .. 0 |-> <<>>])
    BY DEF NamedStep
  <2> QED
    BY <2>1
<1>2. ASSUME NEW k \in Nat, k \in T PROVE k + 1 \in T
  <2>1. PICK g : Upto(k, g)
    BY <1>2
  <2> DEFINE h == [n \in 0 .. k + 1 |->
                     IF n = k + 1 THEN NamedStep(messages, g[k], k + 1) ELSE g[n]]
  <2>2. \A n \in 0 .. k + 1 : h[n] = NamedStep(messages, h[n - 1], n)
    <3> SUFFICES ASSUME NEW n \in 0 .. k + 1 PROVE h[n] = NamedStep(messages, h[n - 1], n)
      OBVIOUS
    <3>1. CASE n = k + 1
      BY <3>1
    <3>2. CASE n # k + 1 /\ n # 0
      BY <2>1, <3>2
    <3>3. CASE n = 0
      BY <2>1, <3>3 DEF NamedStep
    <3> QED
      BY <3>1, <3>2, <3>3
  <2>3. Upto(k + 1, h)
    BY <2>2
  <2>4. \E f : Upto(k + 1, f)
    <3> HIDE DEF Upto, h
    <3> QED
      BY <2>3
  <2> QED
    <3> HIDE DEF Upto
    <3> QED
      BY <2>4
<1>3. Len(messages) \in T
  <2> HIDE DEF T
  <2> QED
    BY <1>1, <1>2, Induction
<1>4. PICK g : Upto(Len(messages), g)
  BY <1>3
<1> DEFINE named == CHOOSE f : Upto(Len(messages), f)
<1>5. Upto(Len(messages), named)
  BY <1>4
<1>6. Rejections(messages) = named[Len(messages)]
  BY DEF Rejections, NamedStep
<1> QED
  BY <1>5, <1>6

\* The named rejections are those of the messages that are recognised.
LEMMA RejectionFacts ==
  ASSUME NEW M, NEW messages \in Seq(M)
  PROVE  LET r == Rejections(messages)
         IN  /\ r \in Seq({WorkloadFinding(m) : m \in M})
             /\ ToSet(r) = {WorkloadFinding(m) : m \in {x \in ToSet(messages) :
                                                           Rejection(x) # "none"}}
<1>1. PICK named : /\ named = [n \in 0 .. Len(messages) |->
                                  NamedStep(messages, named[n - 1], n)]
                   /\ Rejections(messages) = named[Len(messages)]
  BY NamedRecursion
<1> DEFINE F == {WorkloadFinding(m) : m \in M}
           Told(n) == {messages[i] : i \in {j \in 1 .. n : Rejection(messages[j]) # "none"}}
           Good(n) == /\ named[n] \in Seq(F)
                      /\ ToSet(named[n]) = {WorkloadFinding(m) : m \in Told(n)}
           T == {n \in Nat : n <= Len(messages) => Good(n)}
<1>2. 0 \in T
  <2>1. named[0] = <<>>
    BY <1>1 DEF NamedStep
  <2>2. ToSet(named[0]) = {} /\ named[0] \in Seq(F) /\ Told(0) = {}
    BY <2>1 DEF ToSet
  <2>3. Good(0)
    BY <2>2
  <2> QED
    <3> HIDE DEF Good
    <3> QED
      BY <2>3
<1>3. ASSUME NEW n \in Nat, n \in T PROVE n + 1 \in T
  <2> SUFFICES ASSUME n + 1 <= Len(messages) PROVE Good(n + 1)
    OBVIOUS
  <2> DEFINE m == messages[n + 1]
  <2>1. Good(n)
    BY <1>3
  <2>2. n + 1 \in 1 .. Len(messages) /\ m \in M
    OBVIOUS
  <2>3. named[n + 1] = NamedStep(messages, named[n], n + 1)
    BY <1>1, <2>2
  <2>4. Told(n + 1) = Told(n) \union (IF Rejection(m) = "none" THEN {} ELSE {m})
    <3>1. \A j \in 1 .. n + 1 : j \in 1 .. n \/ j = n + 1
      OBVIOUS
    <3>2. 1 .. n \subseteq 1 .. n + 1
      OBVIOUS
    <3> QED
      BY <2>2, <3>1, <3>2
  <2>5. CASE Rejection(m) = "none"
    <3>1. named[n + 1] = named[n] /\ Told(n + 1) = Told(n)
      BY <2>3, <2>4, <2>5 DEF NamedStep
    <3> QED
      BY <2>1, <3>1
  <2>6. CASE Rejection(m) # "none"
    <3>1. named[n + 1] = Append(named[n], WorkloadFinding(m)) /\ WorkloadFinding(m) \in F
      BY <2>2, <2>3, <2>6 DEF NamedStep
    <3>2. named[n + 1] = named[n] \o <<WorkloadFinding(m)>> /\ <<WorkloadFinding(m)>> \in Seq(F)
      BY <2>1, <3>1
    <3>3. ToSet(<<WorkloadFinding(m)>>) = {WorkloadFinding(m)}
      BY DEF ToSet
    <3>4. ToSet(named[n + 1]) = ToSet(named[n]) \union {WorkloadFinding(m)}
      <4>1. named[n] \in Seq(F)
        BY <2>1
      <4>2. \A t \in Seq(F) : ToSet(named[n] \o t) = ToSet(named[n]) \union ToSet(t)
        <5> HIDE DEF F
        <5> QED
          BY <4>1, ToSetConcat
      <4> QED
        BY <3>2, <3>3, <4>2
    <3>5. Told(n + 1) = Told(n) \union {m}
      BY <2>4, <2>6
    <3>6. ToSet(named[n + 1]) = {WorkloadFinding(x) : x \in Told(n + 1)}
      <4> HIDE DEF Told, m
      <4> QED
        BY <2>1, <3>4, <3>5
    <3> QED
      BY <2>1, <3>1, <3>6
  <2> QED
    BY <2>5, <2>6
<1>4. Len(messages) \in T
  <2> HIDE DEF T
  <2> QED
    BY <1>2, <1>3, Induction
<1>5. Good(Len(messages))
  BY <1>4
<1>6. Told(Len(messages)) = {x \in ToSet(messages) : Rejection(x) # "none"}
  BY DEF ToSet
<1> QED
  BY <1>1, <1>5, <1>6

----------------------------------------------------------------------------
(* The order of the detectors *)

Tagged(signature, causes) ==
    {[signature |-> signature, on |-> c.on, why |-> c.why] : c \in causes}

\* The first detector with a cause decides; without a cause there is no match.
LEMMA FirstOf ==
  ASSUME NEW detectors, NEW n \in Nat, DOMAIN detectors = 1 .. n, NEW pod, NEW known
  PROVE  /\ \A i \in 1 .. n :
               /\ Detect(detectors[i], pod, known) # {}
               /\ \A j \in 1 .. n : j < i => Detect(detectors[j], pod, known) = {}
               => FirstMatch(detectors, pod, known) =
                     Tagged(detectors[i], Detect(detectors[i], pod, known))
         /\ (\A i \in 1 .. n : Detect(detectors[i], pod, known) = {})
               => FirstMatch(detectors, pod, known) = {}
<1> DEFINE hits == {j \in DOMAIN detectors : Detect(detectors[j], pod, known) # {}}
<1>1. ASSUME NEW i \in 1 .. n, Detect(detectors[i], pod, known) # {},
             \A j \in 1 .. n : j < i => Detect(detectors[j], pod, known) = {}
      PROVE  FirstMatch(detectors, pod, known) =
                     Tagged(detectors[i], Detect(detectors[i], pod, known))
  <2>1. {j \in hits : \A l \in hits : j <= l} = {i}
    BY <1>1
  <2>2. FirstMatch(detectors, pod, known) =
           UNION {Tagged(detectors[x], Detect(detectors[x], pod, known)) :
                     x \in {j \in hits : \A l \in hits : j <= l}}
    BY DEF FirstMatch, Tagged
  <2>3. FirstMatch(detectors, pod, known) =
           UNION {Tagged(detectors[x], Detect(detectors[x], pod, known)) : x \in {i}}
    <3> HIDE DEF hits
    <3> QED
      BY <2>1, <2>2
  <2>4. \A F : UNION {F[x] : x \in {i}} = F[i]
    OBVIOUS
  <2> DEFINE F == [x \in 1 .. n |-> Tagged(detectors[x], Detect(detectors[x], pod, known))]
  <2>5. {Tagged(detectors[x], Detect(detectors[x], pod, known)) : x \in {i}} = {F[x] : x \in {i}}
    OBVIOUS
  <2> QED
    BY <2>3, <2>4, <2>5
<1>2. ASSUME \A i \in 1 .. n : Detect(detectors[i], pod, known) = {}
      PROVE  FirstMatch(detectors, pod, known) = {}
  BY <1>2 DEF FirstMatch
<1> QED
  BY <1>1, <1>2

\* The detectors of a current pod in their order, each behind the ones before.
Ladder(pod, known) ==
    LET events == EventsFor(known.events, pod.name, pod.uid)
    IN  IF NodeNotReady(pod, known.node) # {} THEN Tagged("NodeNotReady", NodeNotReady(pod, known.node))
        ELSE IF StuckTerminating(pod, known.now) # {} THEN Tagged("PodStuckTerminating", StuckTerminating(pod, known.now))
        ELSE IF PVCPending(pod, known.claim) # {} THEN Tagged("PVCPending", PVCPending(pod, known.claim))
        ELSE IF SandboxFailed(pod, events) # {} THEN Tagged("PodSandboxFailed", SandboxFailed(pod, events))
        ELSE IF VolumeMountFailed(pod, events) # {} THEN Tagged("VolumeMountFailed", VolumeMountFailed(pod, events))
        ELSE IF Unschedulable(pod) # {} THEN Tagged("PodUnschedulable", Unschedulable(pod))
        ELSE IF Evicted(pod) # {} THEN Tagged("PodEvicted", Evicted(pod))
        ELSE IF OOMKilled(pod) # {} THEN Tagged("OOMKilled", OOMKilled(pod))
        ELSE IF ConfigMissing(pod) # {} THEN Tagged("ConfigMissing", ConfigMissing(pod))
        ELSE IF StartFailed(pod) # {} THEN Tagged("ContainerStartFailed", StartFailed(pod))
        ELSE IF CrashLoop(pod, events) # {} THEN Tagged("CrashLoopBackOff", CrashLoop(pod, events))
        ELSE IF ContainerFailed(pod) # {} THEN Tagged("ContainerFailed", ContainerFailed(pod))
        ELSE IF ImagePull(pod) # {} THEN Tagged("ImagePullBackOff", ImagePull(pod))
        ELSE IF ProbeFailing(pod, events) # {} THEN Tagged("ProbeFailing", ProbeFailing(pod, events))
        ELSE {}

\* FirstMatch goes down that ladder.
LEMMA LadderIsMatch ==
  ASSUME NEW pod, NEW known
  PROVE  FirstMatch(podDetectors, pod, known) = Ladder(pod, known)
<1> DEFINE events == EventsFor(known.events, pod.name, pod.uid)
           D(i) == Detect(podDetectors[i], pod, known)
           M == FirstMatch(podDetectors, pod, known)
<1>1. DOMAIN podDetectors = 1 .. 14
  BY DEF podDetectors
<1>2. /\ \A i \in 1 .. 14 : D(i) # {} /\ (\A j \in 1 .. 14 : j < i => D(j) = {})
            => M = Tagged(podDetectors[i], D(i))
      /\ (\A i \in 1 .. 14 : D(i) = {}) => M = {}
  BY <1>1, FirstOf
<1>3. podDetectors[1] = "NodeNotReady" /\ D(1) = NodeNotReady(pod, known.node)
  BY DEF podDetectors, Detect
<1>4. podDetectors[2] = "PodStuckTerminating" /\ D(2) = StuckTerminating(pod, known.now)
  BY DEF podDetectors, Detect
<1>5. podDetectors[3] = "PVCPending" /\ D(3) = PVCPending(pod, known.claim)
  BY DEF podDetectors, Detect
<1>6. podDetectors[4] = "PodSandboxFailed" /\ D(4) = SandboxFailed(pod, events)
  BY DEF podDetectors, Detect
<1>7. podDetectors[5] = "VolumeMountFailed" /\ D(5) = VolumeMountFailed(pod, events)
  BY DEF podDetectors, Detect
<1>8. podDetectors[6] = "PodUnschedulable" /\ D(6) = Unschedulable(pod)
  BY DEF podDetectors, Detect
<1>9. podDetectors[7] = "PodEvicted" /\ D(7) = Evicted(pod)
  BY DEF podDetectors, Detect
<1>10. podDetectors[8] = "OOMKilled" /\ D(8) = OOMKilled(pod)
  BY DEF podDetectors, Detect
<1>11. podDetectors[9] = "ConfigMissing" /\ D(9) = ConfigMissing(pod)
  BY DEF podDetectors, Detect
<1>12. podDetectors[10] = "ContainerStartFailed" /\ D(10) = StartFailed(pod)
  BY DEF podDetectors, Detect
<1>13. podDetectors[11] = "CrashLoopBackOff" /\ D(11) = CrashLoop(pod, events)
  BY DEF podDetectors, Detect
<1>14. podDetectors[12] = "ContainerFailed" /\ D(12) = ContainerFailed(pod)
  BY DEF podDetectors, Detect
<1>15. podDetectors[13] = "ImagePullBackOff" /\ D(13) = ImagePull(pod)
  BY DEF podDetectors, Detect
<1>16. podDetectors[14] = "ProbeFailing" /\ D(14) = ProbeFailing(pod, events)
  BY DEF podDetectors, Detect
<1> HIDE DEF D, M, events
<1>17. Ladder(pod, known) =
      IF D(1) # {} THEN Tagged(podDetectors[1], D(1))
      ELSE IF D(2) # {} THEN Tagged(podDetectors[2], D(2))
      ELSE IF D(3) # {} THEN Tagged(podDetectors[3], D(3))
      ELSE IF D(4) # {} THEN Tagged(podDetectors[4], D(4))
      ELSE IF D(5) # {} THEN Tagged(podDetectors[5], D(5))
      ELSE IF D(6) # {} THEN Tagged(podDetectors[6], D(6))
      ELSE IF D(7) # {} THEN Tagged(podDetectors[7], D(7))
      ELSE IF D(8) # {} THEN Tagged(podDetectors[8], D(8))
      ELSE IF D(9) # {} THEN Tagged(podDetectors[9], D(9))
      ELSE IF D(10) # {} THEN Tagged(podDetectors[10], D(10))
      ELSE IF D(11) # {} THEN Tagged(podDetectors[11], D(11))
      ELSE IF D(12) # {} THEN Tagged(podDetectors[12], D(12))
      ELSE IF D(13) # {} THEN Tagged(podDetectors[13], D(13))
      ELSE IF D(14) # {} THEN Tagged(podDetectors[14], D(14))
      ELSE {}
  BY <1>3, <1>4, <1>5, <1>6, <1>7, <1>8, <1>9, <1>10, <1>11, <1>12, <1>13, <1>14, <1>15, <1>16 DEF Ladder, events
<1> QED
  BY <1>2, <1>17 DEF M

----------------------------------------------------------------------------
(* The containers of a patient *)

\* The container in trouble is the last one; a sidecar may be before it.
Shows(pod, main) ==
    \E base : /\ base.phase = pod.phase
              /\ pod.containers = <<main>> \/ pod.containers = <<Sidecar(base), main>>

\* The container's index, if it is a suspect and the sidecar is not.
LEMMA FirstIsMain ==
  ASSUME NEW pod, NEW n \in {1, 2}, NEW suspects, suspects \subseteq 1 .. n,
         n = 2 => 1 \notin suspects
  PROVE  /\ suspects = IF n \in suspects THEN {n} ELSE {}
         /\ FirstContainer(pod, suspects) = suspects
<1>1. \A x \in suspects : x = n
  OBVIOUS
<1>2. CASE n \in suspects
  <2>1. suspects = {n}
    BY <1>1, <1>2
  <2> QED
    BY <1>2, <2>1 DEF FirstContainer
<1>3. CASE n \notin suspects
  <2>1. suspects = {}
    BY <1>1, <1>3
  <2> QED
    BY <1>3, <2>1 DEF FirstContainer
<1> QED
  BY <1>2, <1>3

\* The sidecar never is.
LEMMA SidecarIsFine ==
  ASSUME NEW base
  PROVE  LET c == Sidecar(base)
         IN  /\ c.state = (IF base.phase = "Pending" THEN "waiting" ELSE "running")
             /\ c.reason = (IF base.phase = "Pending" THEN "ContainerCreating" ELSE "")
             /\ c.last.reason = "" /\ c.last.exit = 0 /\ c.restarts = 0
BY DEF Sidecar, Waiting, Running, Status, NoTermination, Termination

\* So the detectors judge a patient by its container in trouble.
LEMMA MainDecides ==
  ASSUME NEW pod, NEW main, Shows(pod, main), main.name = "main", NEW events
  PROVE  LET m == Len(pod.containers)
             failing == Restarting(pod, main) \/ Waits(main, {"CrashLoopBackOff"})
             over == pod.phase = "Failed" /\ main.state = "terminated" /\ main.exit # 0
         IN  /\ m \in {1, 2} /\ pod.containers[m] = main
             /\ OOMKilled(pod) =
                  When(Ended(main, {"OOMKilled"}) \/ main.last.reason = "OOMKilled",
                       Cause("main", "OOMKilled"))
             /\ ConfigMissing(pod) =
                  When(Waits(main, {"CreateContainerConfigError"}),
                       Cause("main", "CreateContainerConfigError"))
             /\ StartFailed(pod) =
                  When(StartFailure(pod, main) # "", Cause("main", StartFailure(pod, main)))
             /\ CrashLooping(pod) = When(failing, m)
             /\ CrashLoop(pod, events) =
                  When(failing, Cause("main", IF LivenessFails(events) THEN "liveness" ELSE "crash"))
             /\ FailedContainer(pod) = When(over, m)
             /\ ContainerFailed(pod) = When(over, Cause("main", "exit"))
             /\ ImagePull(pod) =
                  When(Waits(main, {"ImagePullBackOff", "ErrImagePull"}), Cause("main", "image"))
             /\ WaitingToStart(pod) <=>
                  /\ pod.node # "" /\ pod.phase = "Pending"
                  /\ Waits(main, {"ContainerCreating", "PodInitializing"})
<1> DEFINE m == Len(pod.containers)
           c == pod.containers
<1>1. PICK base : /\ base.phase = pod.phase
                  /\ c = <<main>> \/ c = <<Sidecar(base), main>>
  BY DEF Shows
<1>2. m \in {1, 2} /\ c[m] = main /\ DOMAIN c = 1 .. m /\ (m = 2 => c[1] = Sidecar(base))
  <2>1. CASE c = <<main>>
    BY <2>1
  <2>2. CASE c = <<Sidecar(base), main>>
    BY <2>2
  <2> QED
    BY <1>1, <2>1, <2>2
<1>3. m = 2 =>
         /\ c[1].state = (IF pod.phase = "Pending" THEN "waiting" ELSE "running")
         /\ c[1].reason = (IF pod.phase = "Pending" THEN "ContainerCreating" ELSE "")
         /\ c[1].last.reason = "" /\ c[1].last.exit = 0 /\ c[1].restarts = 0
  <2> HIDE DEF m, c
  <2> QED
    BY <1>1, <1>2, SidecarIsFine
<1> DEFINE Found(suspects) == When(m \in suspects, m)
<1>4. \A suspects : suspects \subseteq 1 .. m /\ (m = 2 => 1 \notin suspects) =>
         FirstContainer(pod, suspects) = Found(suspects)
  BY <1>2, FirstIsMain DEF When
<1> HIDE DEF m, c
<1>5. \A i \in {1, 2} : \A d, e : {i} # {} /\ When(FALSE, e) = {} /\ When(TRUE, d) = {d}
  BY DEF When
<1>6. OOMKilled(pod) = When(Ended(main, {"OOMKilled"}) \/ main.last.reason = "OOMKilled", Cause("main", "OOMKilled"))
  <2> DEFINE suspects == {j \in DOMAIN c : Ended(c[j], {"OOMKilled"}) \/ c[j].last.reason = "OOMKilled"}
  <2>1. suspects \subseteq 1 .. m /\ (m = 2 => 1 \notin suspects)
    BY <1>2, <1>3 DEF Ended
  <2>2. m \in suspects <=> Ended(main, {"OOMKilled"}) \/ main.last.reason = "OOMKilled"
    BY <1>2
  <2>3. FirstContainer(pod, suspects) = When(Ended(main, {"OOMKilled"}) \/ main.last.reason = "OOMKilled", m)
    BY <1>4, <2>1, <2>2 DEF When
  <2> QED
    BY <1>2, <2>3 DEF When, OOMKilled, c
<1>7. ConfigMissing(pod) = When(Waits(main, {"CreateContainerConfigError"}), Cause("main", "CreateContainerConfigError"))
  <2> DEFINE suspects == {j \in DOMAIN c : Waits(c[j], {"CreateContainerConfigError"})}
  <2>1. suspects \subseteq 1 .. m /\ (m = 2 => 1 \notin suspects)
    BY <1>2, <1>3 DEF Waits
  <2>2. m \in suspects <=> Waits(main, {"CreateContainerConfigError"})
    BY <1>2
  <2>3. FirstContainer(pod, suspects) = When(Waits(main, {"CreateContainerConfigError"}), m)
    BY <1>4, <2>1, <2>2 DEF When
  <2> QED
    BY <1>2, <2>3 DEF When, ConfigMissing, c
<1>8. StartFailed(pod) = When(StartFailure(pod, main) # "", Cause("main", StartFailure(pod, main)))
  <2> DEFINE suspects == {j \in DOMAIN c : StartFailure(pod, c[j]) # ""}
  <2>1. suspects \subseteq 1 .. m /\ (m = 2 => 1 \notin suspects)
    BY <1>2, <1>3 DEF StartFailure, Waits, Ended, startFailureReasons
  <2>2. m \in suspects <=> StartFailure(pod, main) # ""
    <3>1. StartFailure(pod, c[m]) = StartFailure(pod, main) /\ m \in DOMAIN c
      BY <1>2
    <3> QED
      BY <3>1
  <2>3. FirstContainer(pod, suspects) = When(StartFailure(pod, main) # "", m)
    BY <1>4, <2>1, <2>2 DEF When
  <2> QED
    BY <1>2, <2>3 DEF When, StartFailed, c
<1>9. ImagePull(pod) = When(Waits(main, {"ImagePullBackOff", "ErrImagePull"}), Cause("main", "image"))
  <2> DEFINE suspects == {j \in DOMAIN c : Waits(c[j], {"ImagePullBackOff", "ErrImagePull"})}
  <2>1. suspects \subseteq 1 .. m /\ (m = 2 => 1 \notin suspects)
    BY <1>2, <1>3 DEF Waits
  <2>2. m \in suspects <=> Waits(main, {"ImagePullBackOff", "ErrImagePull"})
    BY <1>2
  <2>3. FirstContainer(pod, suspects) = When(Waits(main, {"ImagePullBackOff", "ErrImagePull"}), m)
    BY <1>4, <2>1, <2>2 DEF When
  <2> QED
    BY <1>2, <2>3 DEF When, ImagePull, c
<1> DEFINE failing == Restarting(pod, main) \/ Waits(main, {"CrashLoopBackOff"})
           over == pod.phase = "Failed" /\ main.state = "terminated" /\ main.exit # 0
<1>10. CrashLooping(pod) = When(failing, m)
  <2> DEFINE suspects == {j \in DOMAIN c : \/ Waits(c[j], {"CrashLoopBackOff"})
                                           \/ Restarting(pod, c[j])}
  <2>1. suspects \subseteq 1 .. m /\ (m = 2 => 1 \notin suspects)
    BY <1>2, <1>3 DEF Waits, Restarting
  <2>2. m \in suspects <=> failing
    BY <1>2
  <2>3. FirstContainer(pod, suspects) = When(failing, m)
    BY <1>4, <2>1, <2>2 DEF When
  <2> QED
    BY <2>3 DEF CrashLooping, c
<1>11. CrashLoop(pod, events) =
          When(failing, Cause("main", IF LivenessFails(events) THEN "liveness" ELSE "crash"))
  BY <1>2, <1>10 DEF CrashLoop, When, c
<1>12. FailedContainer(pod) = When(over, m)
  <2> DEFINE suspects == {j \in DOMAIN c : c[j].state = "terminated" /\ c[j].exit # 0}
  <2>1. CASE pod.phase = "Failed"
    <3>1. suspects \subseteq 1 .. m /\ (m = 2 => 1 \notin suspects)
      BY <1>2, <1>3, <2>1
    <3>2. m \in suspects <=> over
      BY <1>2, <2>1
    <3>3. FirstContainer(pod, suspects) = When(over, m)
      BY <1>4, <3>1, <3>2 DEF When
    <3> QED
      BY <2>1, <3>3 DEF FailedContainer, c
  <2>2. CASE pod.phase # "Failed"
    BY <2>2 DEF FailedContainer, When
  <2> QED
    BY <2>1, <2>2
<1>13. ContainerFailed(pod) = When(over, Cause("main", "exit"))
  BY <1>2, <1>12 DEF ContainerFailed, When, c
<1>14. WaitingToStart(pod) <=>
          /\ pod.node # "" /\ pod.phase = "Pending"
          /\ Waits(main, {"ContainerCreating", "PodInitializing"})
  <2>1. pod.phase = "Pending" /\ m = 2 => Waits(c[1], {"ContainerCreating", "PodInitializing"})
    BY <1>3 DEF Waits
  <2>2. pod.phase = "Pending" =>
          ((\A i \in 1 .. m : Waits(c[i], {"ContainerCreating", "PodInitializing"}))
             <=> Waits(main, {"ContainerCreating", "PodInitializing"}))
    BY <1>2, <2>1
  <2> QED
    BY <1>2, <2>2 DEF WaitingToStart, c
<1> QED
  BY <1>2, <1>6, <1>7, <1>8, <1>9, <1>10, <1>11, <1>12, <1>13, <1>14 DEF m, c

----------------------------------------------------------------------------
(* What the detectors make of each kind of patient *)

\* A pod that is not held up in its deletion, lacks neither a claim nor a node,
\* and was not evicted.
Plain(pod) ==
    /\ StuckTerminating(pod, Now) = {} /\ pod.claim = "" /\ ~ pod.unschedulable
    /\ ~ (pod.phase = "Failed" /\ pod.reason = "Evicted")

\* The rungs of the ladder that are left to it.
MainMatch(pod, main, events) ==
    IF Ended(main, {"OOMKilled"}) \/ main.last.reason = "OOMKilled"
    THEN {Trouble("OOMKilled", "main", "OOMKilled")}
    ELSE IF Waits(main, {"CreateContainerConfigError"})
    THEN {Trouble("ConfigMissing", "main", "CreateContainerConfigError")}
    ELSE IF StartFailure(pod, main) # ""
    THEN {Trouble("ContainerStartFailed", "main", StartFailure(pod, main))}
    ELSE IF Restarting(pod, main) \/ Waits(main, {"CrashLoopBackOff"})
    THEN {Trouble("CrashLoopBackOff", "main", IF LivenessFails(events) THEN "liveness" ELSE "crash")}
    ELSE IF pod.phase = "Failed" /\ main.state = "terminated" /\ main.exit # 0
    THEN {Trouble("ContainerFailed", "main", "exit")}
    ELSE IF Waits(main, {"ImagePullBackOff", "ErrImagePull"})
    THEN {Trouble("ImagePullBackOff", "main", "image")}
    ELSE Tagged("ProbeFailing", ProbeFailing(pod, events))

\* One cause, with its signature.
LEMMA TaggedOne ==
  ASSUME NEW signature, NEW on, NEW why
  PROVE  /\ Tagged(signature, {Cause(on, why)}) = {Trouble(signature, on, why)}
         /\ Tagged(signature, {}) = {}
<1>1. \A c : Tagged(signature, {c}) = {[signature |-> signature, on |-> c.on, why |-> c.why]}
  BY DEF Tagged
<1> QED
  BY <1>1 DEF Tagged, Cause, Trouble

\* Such a pod on a node that is well is judged by its container, unless it waits
\* for its first start and has events.
LEMMA PlainMatch ==
  ASSUME NEW pod, NEW main, Shows(pod, main), main.name = "main", Plain(pod),
         NEW known, NodeNotReady(pod, known.node) = {}, known.now = Now,
         WaitingToStart(pod) => EventsFor(known.events, pod.name, pod.uid) = {}
  PROVE  FirstMatch(podDetectors, pod, known) =
           MainMatch(pod, main, EventsFor(known.events, pod.name, pod.uid))
<1> DEFINE events == EventsFor(known.events, pod.name, pod.uid)
           oom == Ended(main, {"OOMKilled"}) \/ main.last.reason = "OOMKilled"
           unconfigured == Waits(main, {"CreateContainerConfigError"})
           failure == StartFailure(pod, main)
           failing == Restarting(pod, main) \/ Waits(main, {"CrashLoopBackOff"})
           why == IF LivenessFails(events) THEN "liveness" ELSE "crash"
           over == pod.phase = "Failed" /\ main.state = "terminated" /\ main.exit # 0
           image == Waits(main, {"ImagePullBackOff", "ErrImagePull"})
<1>1. /\ OOMKilled(pod) = When(oom, Cause("main", "OOMKilled"))
      /\ ConfigMissing(pod) = When(unconfigured, Cause("main", "CreateContainerConfigError"))
      /\ StartFailed(pod) = When(failure # "", Cause("main", failure))
      /\ CrashLoop(pod, events) = When(failing, Cause("main", why))
      /\ ContainerFailed(pod) = When(over, Cause("main", "exit"))
      /\ ImagePull(pod) = When(image, Cause("main", "image"))
  BY MainDecides, ZenonT(60)
<1>3. /\ StuckTerminating(pod, known.now) = {} /\ PVCPending(pod, known.claim) = {}
      /\ Unschedulable(pod) = {} /\ Evicted(pod) = {}
      /\ SandboxFailed(pod, events) = {} /\ VolumeMountFailed(pod, events) = {}
  <2>1. \A reasons : Latest({}, reasons) = {}
    BY DEF Latest
  <2>2. \A reasons : StartupEvent(pod, events, reasons) = {}
    BY <2>1 DEF StartupEvent
  <2>3. SandboxFailed(pod, events) = {} /\ VolumeMountFailed(pod, events) = {}
    BY <2>2 DEF SandboxFailed, VolumeMountFailed
  <2> QED
    BY <2>3 DEF Plain, PVCPending, Unschedulable, Evicted, When
<1>4. Ladder(pod, known) =
        IF OOMKilled(pod) # {} THEN Tagged("OOMKilled", OOMKilled(pod))
        ELSE IF ConfigMissing(pod) # {} THEN Tagged("ConfigMissing", ConfigMissing(pod))
        ELSE IF StartFailed(pod) # {} THEN Tagged("ContainerStartFailed", StartFailed(pod))
        ELSE IF CrashLoop(pod, events) # {} THEN Tagged("CrashLoopBackOff", CrashLoop(pod, events))
        ELSE IF ContainerFailed(pod) # {} THEN Tagged("ContainerFailed", ContainerFailed(pod))
        ELSE IF ImagePull(pod) # {} THEN Tagged("ImagePullBackOff", ImagePull(pod))
        ELSE Tagged("ProbeFailing", ProbeFailing(pod, events))
  <2> HIDE DEF events
  <2>1. ProbeFailing(pod, events) = {} => Tagged("ProbeFailing", ProbeFailing(pod, events)) = {}
    BY TaggedOne
  <2> QED
    BY <1>3, <2>1 DEF Ladder, events
<1>5. /\ Tagged("OOMKilled", {Cause("main", "OOMKilled")}) =
            {Trouble("OOMKilled", "main", "OOMKilled")}
      /\ Tagged("ConfigMissing", {Cause("main", "CreateContainerConfigError")}) =
            {Trouble("ConfigMissing", "main", "CreateContainerConfigError")}
      /\ Tagged("ContainerStartFailed", {Cause("main", failure)}) =
            {Trouble("ContainerStartFailed", "main", failure)}
      /\ Tagged("CrashLoopBackOff", {Cause("main", why)}) =
            {Trouble("CrashLoopBackOff", "main", why)}
      /\ Tagged("ContainerFailed", {Cause("main", "exit")}) =
            {Trouble("ContainerFailed", "main", "exit")}
      /\ Tagged("ImagePullBackOff", {Cause("main", "image")}) =
            {Trouble("ImagePullBackOff", "main", "image")}
  BY TaggedOne
<1>6. Ladder(pod, known) = MainMatch(pod, main, events)
  <2> HIDE DEF events
  <2>1. CASE OOMKilled(pod) # {}
    BY <1>1, <1>4, <1>5, <2>1 DEF MainMatch, When
  <2>2. CASE OOMKilled(pod) = {} /\ ConfigMissing(pod) # {}
    BY <1>1, <1>4, <1>5, <2>2 DEF MainMatch, When
  <2>3. CASE OOMKilled(pod) = {} /\ ConfigMissing(pod) = {} /\ StartFailed(pod) # {}
    BY <1>1, <1>4, <1>5, <2>3 DEF MainMatch, When
  <2>4. CASE /\ OOMKilled(pod) = {} /\ ConfigMissing(pod) = {} /\ StartFailed(pod) = {}
             /\ CrashLoop(pod, events) # {}
    BY <1>1, <1>4, <1>5, <2>4 DEF MainMatch, When
  <2>5. CASE /\ OOMKilled(pod) = {} /\ ConfigMissing(pod) = {} /\ StartFailed(pod) = {}
             /\ CrashLoop(pod, events) = {} /\ ContainerFailed(pod) # {}
    BY <1>1, <1>4, <1>5, <2>5 DEF MainMatch, When
  <2>6. CASE /\ OOMKilled(pod) = {} /\ ConfigMissing(pod) = {} /\ StartFailed(pod) = {}
             /\ CrashLoop(pod, events) = {} /\ ContainerFailed(pod) = {}
             /\ ImagePull(pod) # {}
    BY <1>1, <1>4, <1>5, <2>6 DEF MainMatch, When
  <2>7. CASE /\ OOMKilled(pod) = {} /\ ConfigMissing(pod) = {} /\ StartFailed(pod) = {}
             /\ CrashLoop(pod, events) = {} /\ ContainerFailed(pod) = {}
             /\ ImagePull(pod) = {}
    BY <1>1, <1>4, <2>7 DEF MainMatch, When
  <2> QED
    BY <2>1, <2>2, <2>3, <2>4, <2>5, <2>6, <2>7
<1> QED
  BY <1>6, LadderIsMatch

\* What a diagnosis knows: its events are the pod's own, or it has none.
Knows(known, q, told) ==
    /\ known.now = Now
    /\ EventsFor(known.events, q.pod.name, q.pod.uid) =
         IF told THEN EventsFor(q.events, q.pod.name, q.pod.uid) ELSE {}

OwnTrouble(q, told, claim) ==
    CASE q.needs = ""       -> q.apparent
      [] q.needs = "events" -> IF told THEN q.apparent ELSE q.otherwise
      [] q.needs = "claims" -> IF claim = "Pending" THEN q.apparent ELSE q.otherwise

\* What it is told, then.
Said(q) == IF q.needs = "" THEN {q.apparent} ELSE {q.apparent, q.otherwise}

Matched(trouble) == IF trouble = None THEN {} ELSE {trouble}

\* On a node that is well, a pod's own trouble is found, as far as it is known and
\* as it appears.
Judged(q) ==
    \A known : \A told \in BOOLEAN :
        Knows(known, q, told) /\ NodeNotReady(q.pod, known.node) = {} =>
            FirstMatch(podDetectors, q.pod, known) = Matched(OwnTrouble(q, told, known.claim))

\* The logs that could be shown are of the main container, and which instance is
\* asked for follows from the state it is in.
AsksOfMain(pod) ==
    /\ Instant(pod) \in Instants
    /\ \A i \in CrashLooping(pod) \union FailedContainer(pod) :
          ReadsPrevious(pod.containers[i]) <=> Instant(pod).state # "terminated"

\* The main container, somewhere in its cycle.
Regular(main) ==
    /\ main.name = "main" /\ main.state \in {"running", "terminated", "waiting"}
    /\ main.restarts \in Nat

\* It is the last one, and the only one whose log could be shown.
LEMMA MainIsAsked ==
  ASSUME NEW pod, NEW main, Shows(pod, main), Regular(main)
  PROVE  /\ Instant(pod) = [state |-> main.state, restarts |-> main.restarts]
         /\ AsksOfMain(pod)
<1> DEFINE m == Len(pod.containers)
           over == pod.phase = "Failed" /\ main.state = "terminated" /\ main.exit # 0
<1>1. main.name = "main"
  BY DEF Regular
<1>2. m \in {1, 2} /\ pod.containers[m] = main
  BY <1>1, MainDecides, Zenon
<1>3. CrashLooping(pod) = When(Restarting(pod, main) \/ Waits(main, {"CrashLoopBackOff"}), m)
  BY <1>1, MainDecides, Zenon
<1>4. FailedContainer(pod) = When(over, m)
  BY <1>1, MainDecides, Zenon
<1>5. pod.containers # <<>>
  BY <1>2
<1>6. Instant(pod) = [state |-> main.state, restarts |-> main.restarts]
  BY <1>2, <1>5 DEF Instant
<1>7. Instant(pod) \in Instants
  BY <1>6 DEF Regular, Instants
<1>8. \A i \in CrashLooping(pod) \union FailedContainer(pod) : i = m
  <2>1. \A condition, x : \A i \in When(condition, x) : i = x
    BY DEF When
  <2>2. \A i \in CrashLooping(pod) : i = m
    BY <1>3, <2>1, Zenon
  <2>3. \A i \in FailedContainer(pod) : i = m
    BY <1>4, <2>1, Zenon
  <2> QED
    BY <2>2, <2>3
<1>9. \A i \in CrashLooping(pod) \union FailedContainer(pod) : pod.containers[i] = main
  BY <1>2, <1>8
<1> QED
  BY <1>6, <1>7, <1>9 DEF AsksOfMain, ReadsPrevious

\* A name of a pod, and so its UID.
Usual(u) == u \notin {"", "before"}

\* Who a patient is, and what it is not told.
Identified(q, u, n) ==
    /\ q.pod.name = u /\ q.pod.uid = u /\ q.pod.node \in {"", n}
    /\ \A e \in q.events : e.name = u
    /\ q.needs \in {"", "events", "claims"}
    /\ q.pod.claim = (IF q.needs = "claims" THEN "c1" ELSE "")
    /\ q.needs = "claims" => q.pod.node = ""
    /\ \A t \in Said(q) :
          /\ t.signature # "NodeNotReady"
          /\ t.signature = "PVCPending" => q.needs = "claims" /\ t = q.apparent
    /\ q.needs = "claims" =>
          /\ q.apparent = Trouble("PVCPending", "c1", "Pending") /\ q.otherwise # q.apparent
          /\ q.truth = q.apparent
    /\ Tagged("PodStuckTerminating", StuckTerminating(q.pod, Now)) =
          IF q.apparent.signature = "PodStuckTerminating" THEN {q.apparent} ELSE {}

Described(q, u, n) == Identified(q, u, n) /\ Judged(q) /\ AsksOfMain(q.pod)

\* Most troubles are neither those of a node, of a claim, nor of a deletion.
Own(trouble) == trouble.signature \notin {"NodeNotReady", "PVCPending", "PodStuckTerminating"}

\* A patient with such troubles.
LEMMA OwnIdentified ==
  ASSUME NEW u, NEW n, NEW q, q.pod.name = u, q.pod.uid = u, q.pod.node = n, q.pod.claim = "",
         StuckTerminating(q.pod, Now) = {}, \A e \in q.events : e.name = u,
         q.needs \in {"", "events"}, Own(q.apparent), Own(q.otherwise)
  PROVE  Identified(q, u, n)
<1>1. Tagged("PodStuckTerminating", StuckTerminating(q.pod, Now)) = {}
  BY TaggedOne
<1> QED
  BY <1>1 DEF Identified, Own, Said

PodFields ==
    {"name", "uid", "node", "ready", "phase", "reason", "unschedulable", "claim", "deleting",
     "finalizers", "deletion", "grace", "containers"}

\* Containers are all that showing a pod adds.
LEMMA ShownFields ==
  ASSUME NEW bare, DOMAIN bare = PodFields, NEW main, NEW pod \in Shown(bare, main)
  PROVE  /\ \A f \in PodFields \ {"containers"} : pod[f] = bare[f]
         /\ Shows(pod, main)
<1>1. PICK c \in {<<main>>, <<Sidecar(bare), main>>} : pod = [bare EXCEPT !.containers = c]
  BY DEF Shown
<1>2. pod.containers = c /\ \A f \in PodFields \ {"containers"} : pod[f] = bare[f]
  BY <1>1 DEF PodFields
<1>3. bare.phase = pod.phase
  BY <1>2 DEF PodFields
<1> QED
  BY <1>1, <1>2, <1>3 DEF Shows

\* A container that keeps dying, at any instant of it.
LEMMA LoopStates ==
  ASSUME NEW death, NEW c \in LoopInstants(death)
  PROVE  /\ c.name = "main" /\ c.restarts \in 0 .. 2
         /\ \/ c.state = "running" /\ c.reason = "" /\ c.exit = 0
            \/ c.state = "terminated" /\ c.reason = death.reason /\ c.exit = death.exit
            \/ c.state = "waiting" /\ c.reason = "CrashLoopBackOff" /\ c.exit = 0 /\ c.restarts > 0
<1> DEFINE before == [k \in 0 .. 2 |-> IF k = 0 THEN NoTermination ELSE death]
<1>1. CASE c \in {Status("running", "", 0, before[k], k) : k \in 0 .. 2}
  <2>1. PICK k \in 0 .. 2 : c = Status("running", "", 0, before[k], k)
    BY <1>1
  <2> QED
    BY <2>1 DEF Status
<1>2. CASE c \in {Status("terminated", death.reason, death.exit, before[k], k) : k \in 0 .. 2}
  <2>1. PICK k \in 0 .. 2 : c = Status("terminated", death.reason, death.exit, before[k], k)
    BY <1>2
  <2> QED
    BY <2>1 DEF Status
<1>3. CASE c \in {Status("waiting", "CrashLoopBackOff", 0, death, k) : k \in 1 .. 2}
  <2>1. PICK k \in 1 .. 2 : c = Status("waiting", "CrashLoopBackOff", 0, death, k)
    BY <1>3
  <2> QED
    BY <2>1 DEF Status
<1> QED
  BY <1>1, <1>2, <1>3 DEF LoopInstants

\* What it remembers of its last death: the reason.
LEMMA LoopReasons ==
  ASSUME NEW death, NEW c \in LoopInstants(death)
  PROVE  c.last.reason = IF c.restarts = 0 THEN "" ELSE death.reason
<1> DEFINE before == [k \in 0 .. 2 |-> IF k = 0 THEN NoTermination ELSE death]
<1>1. \A k \in 0 .. 2 : before[k].reason = IF k = 0 THEN "" ELSE death.reason
  BY DEF NoTermination, Termination
<1>2. PICK k \in 0 .. 2 : c.restarts = k /\ c.last.reason = before[k].reason
  <2> HIDE DEF before
  <2>1. CASE c \in {Status("running", "", 0, before[k], k) : k \in 0 .. 2}
    <3>1. PICK k \in 0 .. 2 : c = Status("running", "", 0, before[k], k)
      BY <2>1
    <3> QED
      BY <3>1 DEF Status
  <2>2. CASE c \in {Status("terminated", death.reason, death.exit, before[k], k) : k \in 0 .. 2}
    <3>1. PICK k \in 0 .. 2 : c = Status("terminated", death.reason, death.exit, before[k], k)
      BY <2>2
    <3> QED
      BY <3>1 DEF Status
  <2>3. CASE c \in {Status("waiting", "CrashLoopBackOff", 0, death, k) : k \in 1 .. 2}
    <3>1. PICK k \in 1 .. 2 : c = Status("waiting", "CrashLoopBackOff", 0, death, k)
      BY <2>3
    <3>2. k \in 0 .. 2 /\ before[k] = death
      BY DEF before
    <3>3. c.restarts = k /\ c.last = before[k]
      BY <3>1, <3>2 DEF Status
    <3> QED
      BY <3>2, <3>3
  <2> QED
    BY <2>1, <2>2, <2>3 DEF LoopInstants, before
<1> QED
  BY <1>1, <1>2

\* And the exit code.
LEMMA LoopExits ==
  ASSUME NEW death, NEW c \in LoopInstants(death)
  PROVE  c.last.exit = IF c.restarts = 0 THEN 0 ELSE death.exit
<1> DEFINE before == [k \in 0 .. 2 |-> IF k = 0 THEN NoTermination ELSE death]
<1>1. \A k \in 0 .. 2 : before[k].exit = IF k = 0 THEN 0 ELSE death.exit
  BY DEF NoTermination, Termination
<1>2. PICK k \in 0 .. 2 : c.restarts = k /\ c.last.exit = before[k].exit
  <2> HIDE DEF before
  <2>1. CASE c \in {Status("running", "", 0, before[k], k) : k \in 0 .. 2}
    <3>1. PICK k \in 0 .. 2 : c = Status("running", "", 0, before[k], k)
      BY <2>1
    <3> QED
      BY <3>1 DEF Status
  <2>2. CASE c \in {Status("terminated", death.reason, death.exit, before[k], k) : k \in 0 .. 2}
    <3>1. PICK k \in 0 .. 2 : c = Status("terminated", death.reason, death.exit, before[k], k)
      BY <2>2
    <3> QED
      BY <3>1 DEF Status
  <2>3. CASE c \in {Status("waiting", "CrashLoopBackOff", 0, death, k) : k \in 1 .. 2}
    <3>1. PICK k \in 1 .. 2 : c = Status("waiting", "CrashLoopBackOff", 0, death, k)
      BY <2>3
    <3>2. k \in 0 .. 2 /\ before[k] = death
      BY DEF before
    <3>3. c.restarts = k /\ c.last = before[k]
      BY <3>1, <3>2 DEF Status
    <3> QED
      BY <3>2, <3>3
  <2> QED
    BY <2>1, <2>2, <2>3 DEF LoopInstants, before
<1> QED
  BY <1>1, <1>2

\* It seems to have died repeatedly: it backs off, or was restarted twice.
Repeated(c) == c.state = "waiting" \/ c.restarts >= 2

\* What is noticed of its deaths at each instant.
LEMMA LoopDeaths ==
  ASSUME NEW death, NEW c \in LoopInstants(death)
  PROVE  /\ Regular(c)
         /\ Noticed(c) >= 2 <=> Repeated(c)
         /\ Noticed(c) >= 1 <=> c.state = "terminated" \/ c.restarts > 0
<1>1. /\ c.name = "main" /\ c.restarts \in 0 .. 2
      /\ c.state \in {"running", "terminated", "waiting"}
      /\ c.state = "waiting" => c.restarts > 0
  BY LoopStates
<1>2. Regular(c)
  BY <1>1 DEF Regular
<1>3. CASE c.state = "running"
  BY <1>1, <1>2, <1>3 DEF Noticed, Deaths, Repeated
<1>4. CASE c.state = "waiting"
  BY <1>1, <1>2, <1>4 DEF Noticed, Deaths, Repeated
<1>5. CASE c.state = "terminated"
  <2>1. CASE c.restarts = 1
    BY <1>2, <1>5, <2>1 DEF Noticed, Deaths, Repeated
  <2>2. CASE c.restarts # 1
    BY <1>1, <1>2, <1>5, <2>2 DEF Noticed, Deaths, Repeated
  <2> QED
    BY <2>1, <2>2
<1> QED
  BY <1>1, <1>3, <1>4, <1>5

\* What is the same for all patients of such a container.
InLoop(pod, main, u, n) ==
    /\ pod.name = u /\ pod.uid = u /\ pod.node = n /\ ~ pod.ready /\ pod.phase = "Running"
    /\ Shows(pod, main) /\ Regular(main) /\ Plain(pod) /\ ~ WaitingToStart(pod)

\* They are all shown like that.
LEMMA LoopPods ==
  ASSUME NEW u, NEW n, NEW death, NEW main \in LoopInstants(death),
         NEW pod \in Shown(BarePod(u, n), main)
  PROVE  InLoop(pod, main, u, n)
<1>1. Regular(main)
  BY LoopDeaths
<1>2. DOMAIN BarePod(u, n) = PodFields
  BY DEF BarePod, PodFields
<1>3. /\ pod.name = u /\ pod.uid = u /\ pod.node = n /\ pod.phase = "Running"
      /\ pod.reason = "" /\ ~ pod.ready /\ ~ pod.unschedulable /\ pod.claim = ""
      /\ ~ pod.deleting
      /\ Shows(pod, main)
  <2>1. Shows(pod, main) /\ \A f \in PodFields \ {"containers"} : pod[f] = BarePod(u, n)[f]
    BY <1>2, ShownFields
  <2> QED
    BY <2>1 DEF PodFields, BarePod
<1>4. Plain(pod) /\ ~ WaitingToStart(pod)
  BY <1>3 DEF Plain, WaitingToStart, StuckTerminating, When
<1> QED
  BY <1>1, <1>3, <1>4 DEF InLoop

\* Containers that end in an error are in a crash loop once they did so often.
LEMMA ErrorLoop ==
  ASSUME NEW death, death.reason = "Error", death.exit # 0, NEW main \in LoopInstants(death),
         NEW pod, ~ pod.ready, pod.phase = "Running", NEW events
  PROVE  MainMatch(pod, main, events) =
           IF Repeated(main)
           THEN {Trouble("CrashLoopBackOff", "main",
                         IF LivenessFails(events) THEN "liveness" ELSE "crash")}
           ELSE Tagged("ProbeFailing", ProbeFailing(pod, events))
<1>0. main.restarts \in 0 .. 2
  BY LoopStates
<1>1. \/ main.state = "running" /\ main.reason = ""
      \/ main.state = "terminated" /\ main.reason = "Error"
      \/ main.state = "waiting" /\ main.reason = "CrashLoopBackOff"
  BY LoopStates
<1>2. main.restarts # 0 => main.last.exit # 0
  BY LoopExits
<1>3. main.last.reason \in {"", "Error"}
  BY LoopReasons
<1>4. /\ ~ Ended(main, {"OOMKilled"}) /\ main.last.reason # "OOMKilled"
      /\ ~ Waits(main, {"CreateContainerConfigError"})
      /\ ~ Waits(main, {"ImagePullBackOff", "ErrImagePull"})
  BY <1>1, <1>3 DEF Ended, Waits
<1>5. StartFailure(pod, main) = ""
  BY <1>1, <1>3 DEF StartFailure, Ended, Waits, startFailureReasons
<1>6. Restarting(pod, main) \/ Waits(main, {"CrashLoopBackOff"}) <=> Repeated(main)
  <2>1. Waits(main, {"CrashLoopBackOff"}) <=> main.state = "waiting"
    BY <1>1 DEF Waits
  <2>2. main.restarts >= 2 => main.last.exit # 0
    BY <1>0, <1>2
  <2> QED
    BY <2>1, <2>2 DEF Restarting, Repeated
<1> QED
  BY <1>4, <1>5, <1>6 DEF MainMatch

\* The mount failure that the pod got past.
LEMMA StaleFields ==
  ASSUME NEW u
  PROVE  LET e == StaleMountEvent(u)
         IN  e.name = u /\ e.uid = u /\ e.reason = "FailedMount"
BY DEF StaleMountEvent, Event

\* No event is known that the pod does not have.
LEMMA KnownEvents ==
  ASSUME NEW u, NEW q, q.pod.name = u, q.pod.uid = u, NEW known, NEW told \in BOOLEAN,
         Knows(known, q, told)
  PROVE  /\ EventsFor(known.events, u, u) \subseteq q.events
         /\ told => EventsFor(known.events, u, u) = EventsFor(q.events, u, u)
         /\ ~ told => EventsFor(known.events, u, u) = {}
<1>1. EventsFor(q.events, u, u) \subseteq q.events
  BY DEF EventsFor
<1> QED
  BY <1>1 DEF Knows

\* A pod whose container keeps crashing.
LEMMA CrashingDescribed ==
  ASSUME NEW u, Usual(u), NEW n \in Nodes, NEW q \in Crashing(u, n)
  PROVE  Described(q, u, n)
<1> DEFINE death == Termination("Error", 1)
           TroubleAfter(k) == IF k >= 2 THEN Trouble("CrashLoopBackOff", "main", "crash") ELSE None
           Ill(p, c) == [Patient(p, {StaleMountEvent(u)}, TroubleAfter(Deaths(c)))
                            EXCEPT !.apparent = TroubleAfter(Noticed(c)), !.dies = TRUE]
<1>1. PICK main \in LoopInstants(death) : \E p \in Shown(BarePod(u, n), main) : q = Ill(p, main)
  BY DEF Crashing, Loops
<1>7. PICK pod \in Shown(BarePod(u, n), main) : q = Ill(pod, main)
  BY <1>1
<1> DEFINE told == TroubleAfter(Noticed(main))
<1>2. /\ q.pod = pod /\ q.events = {StaleMountEvent(u)} /\ q.apparent = told /\ q.needs = ""
  BY <1>7 DEF Patient
<1>8. told = IF Repeated(main) THEN Trouble("CrashLoopBackOff", "main", "crash") ELSE None
  BY LoopDeaths
<1>9. q.otherwise = TroubleAfter(Deaths(main))
  BY <1>7 DEF Patient
<1>3. InLoop(pod, main, u, n)
  BY LoopPods
<1>4. Identified(q, u, n)
  <2>1. \A e \in q.events : e.name = u
    BY <1>2, StaleFields
  <2>2. \A k : Own(TroubleAfter(k))
    BY DEF Own, Trouble, None
  <2> HIDE DEF TroubleAfter
  <2> QED
    BY <1>2, <1>3, <1>9, <2>1, <2>2, OwnIdentified DEF InLoop, Plain
<1> HIDE DEF told, Ill
<1>5. Judged(q)
  <2> SUFFICES ASSUME NEW known, NEW heard \in BOOLEAN, Knows(known, q, heard),
                      NodeNotReady(pod, known.node) = {}, known.now = Now
               PROVE  FirstMatch(podDetectors, pod, known) = Matched(told)
    BY <1>2 DEF Judged, OwnTrouble, Knows
  <2> DEFINE events == EventsFor(known.events, u, u)
  <2>1. \A e \in events : e.reason = "FailedMount"
    <3>1. q.pod.name = u /\ q.pod.uid = u
      BY <1>2, <1>3 DEF InLoop
    <3>2. events \subseteq q.events
      BY <3>1, KnownEvents
    <3> QED
      BY <1>2, <3>2, StaleFields
  <2>2. ProbeFailing(pod, events) = {} /\ ~ LivenessFails(events)
    BY <2>1 DEF ProbeFailing, Latest, LivenessFails
  <2>3. FirstMatch(podDetectors, pod, known) = MainMatch(pod, main, events)
    BY <1>3, PlainMatch DEF InLoop, Knows, Regular
  <2>4. main \in LoopInstants(death) /\ death.reason = "Error" /\ death.exit # 0
    BY DEF Termination
  <2>7. Tagged("ProbeFailing", {}) = {}
    BY TaggedOne
  <2>8. ~ pod.ready /\ pod.phase = "Running"
    BY <1>3 DEF InLoop
  <2>5. MainMatch(pod, main, events) =
          IF Repeated(main) THEN {Trouble("CrashLoopBackOff", "main", "crash")} ELSE {}
    <3> HIDE DEF death, events
    <3>1. MainMatch(pod, main, events) =
            IF Repeated(main)
            THEN {Trouble("CrashLoopBackOff", "main",
                          IF LivenessFails(events) THEN "liveness" ELSE "crash")}
            ELSE Tagged("ProbeFailing", ProbeFailing(pod, events))
      BY <2>4, <2>8, ErrorLoop
    <3> QED
      BY <2>2, <2>7, <3>1
  <2>6. Trouble("CrashLoopBackOff", "main", "crash") # None
    BY DEF Trouble, None
  <2> QED
    BY <1>8, <2>3, <2>5, <2>6 DEF Matched
<1>6. AsksOfMain(q.pod)
  BY <1>2, <1>3, MainIsAsked DEF InLoop
<1> QED
  BY <1>4, <1>5, <1>6 DEF Described

\* Most patients: judged by their container, whatever is known of their claim.
LEMMA PlainDescribed ==
  ASSUME NEW u, NEW n, NEW q, NEW pod, q.pod = pod, NEW main,
         pod.name = u, pod.uid = u, pod.node = n, Shows(pod, main), Regular(main),
         Plain(pod), ~ WaitingToStart(pod), \A e \in q.events : e.name = u,
         q.needs \in {"", "events"}, Own(q.apparent), Own(q.otherwise),
         \A told \in BOOLEAN :
            MainMatch(pod, main, IF told THEN EventsFor(q.events, u, u) ELSE {}) =
               Matched(OwnTrouble(q, told, ""))
  PROVE  Described(q, u, n)
<1>1. Identified(q, u, n)
  BY OwnIdentified DEF Plain
<1>2. Judged(q)
  <2> SUFFICES ASSUME NEW known, NEW told \in BOOLEAN, Knows(known, q, told),
                      NodeNotReady(pod, known.node) = {}
               PROVE  FirstMatch(podDetectors, pod, known) =
                        Matched(OwnTrouble(q, told, known.claim))
    BY DEF Judged
  <2> DEFINE events == EventsFor(known.events, u, u)
  <2>1. events = IF told THEN EventsFor(q.events, u, u) ELSE {}
    BY DEF Knows
  <2>2. FirstMatch(podDetectors, pod, known) = MainMatch(pod, main, events)
    <3>1. known.now = Now /\ (WaitingToStart(pod) => EventsFor(known.events, pod.name, pod.uid) = {})
      BY DEF Knows
    <3>2. FirstMatch(podDetectors, pod, known) =
            MainMatch(pod, main, EventsFor(known.events, pod.name, pod.uid))
      BY ONLY Shows(pod, main), Regular(main), Plain(pod), <3>1,
              NodeNotReady(pod, known.node) = {}, PlainMatch DEF Regular
    <3> QED
      BY <3>2
  <2>3. OwnTrouble(q, told, known.claim) = OwnTrouble(q, told, "")
    BY DEF OwnTrouble
  <2> HIDE DEF events
  <2> QED
    BY <2>1, <2>2, <2>3
<1>3. AsksOfMain(q.pod)
  BY MainIsAsked
<1> QED
  BY <1>1, <1>2, <1>3 DEF Described

\* The same for the patients whose container keeps dying.
LEMMA LoopDescribed ==
  ASSUME NEW u, NEW n, NEW q, NEW pod, q.pod = pod, NEW main, InLoop(pod, main, u, n),
         \A e \in q.events : e.name = u,
         q.needs \in {"", "events"}, Own(q.apparent), Own(q.otherwise),
         \A told \in BOOLEAN :
            MainMatch(pod, main, IF told THEN EventsFor(q.events, u, u) ELSE {}) =
               Matched(OwnTrouble(q, told, ""))
  PROVE  Described(q, u, n)
BY PlainDescribed DEF InLoop

\* Containers that run out of memory are found dead of it, or to have been.
LEMMA MemoryLoop ==
  ASSUME NEW death, death.reason = "OOMKilled", NEW main \in LoopInstants(death),
         NEW pod, pod.phase = "Running"
  PROVE  MainMatch(pod, main, {}) =
           IF main.state = "terminated" \/ main.restarts > 0
           THEN {Trouble("OOMKilled", "main", "OOMKilled")} ELSE {}
<1>0. main.restarts \in 0 .. 2
  BY LoopStates
<1>1. \/ main.state = "running" /\ main.reason = ""
      \/ main.state = "terminated" /\ main.reason = "OOMKilled"
      \/ main.state = "waiting" /\ main.reason = "CrashLoopBackOff"
  BY LoopStates
<1>2. main.state = "waiting" => main.restarts > 0
  BY LoopStates
<1>3. main.last.reason = IF main.restarts = 0 THEN "" ELSE "OOMKilled"
  BY LoopReasons
<1>4. Ended(main, {"OOMKilled"}) <=> main.state = "terminated"
  BY <1>1 DEF Ended
<1>a. main.restarts > 0 <=> main.restarts # 0
  BY <1>0
<1>5. main.last.reason = "OOMKilled" <=> main.restarts > 0
  <2>1. main.last.reason = "OOMKilled" <=> main.restarts # 0
    BY <1>3
  <2> QED
    BY <1>a, <2>1
<1>6. CASE main.state = "terminated" \/ main.restarts > 0
  BY <1>4, <1>5, <1>6 DEF MainMatch
<1>7. CASE ~ (main.state = "terminated" \/ main.restarts > 0)
  <2>1. main.state = "running" /\ main.restarts = 0
    <3>1. main.state = "running"
      BY <1>1, <1>2, <1>7
    <3>2. main.restarts = 0
      BY <1>a, <1>7
    <3> QED
      BY <3>1, <3>2
  <2>2. /\ ~ Waits(main, {"CreateContainerConfigError"}) /\ ~ Waits(main, {"CrashLoopBackOff"})
        /\ ~ Waits(main, {"ImagePullBackOff", "ErrImagePull"})
    BY <2>1 DEF Waits
  <2>3. StartFailure(pod, main) = ""
    BY <1>3, <2>1 DEF StartFailure, Waits, Ended, startFailureReasons
  <2>4. ~ Restarting(pod, main)
    BY <2>1 DEF Restarting
  <2>5. ProbeFailing(pod, {}) = {}
    BY DEF ProbeFailing, Latest
  <2> QED
    BY <1>4, <1>5, <1>7, <2>1, <2>2, <2>3, <2>4, <2>5, TaggedOne DEF MainMatch
<1> QED
  BY <1>6, <1>7

\* A pod whose container is killed for its memory.
LEMMA OutOfMemoryDescribed ==
  ASSUME NEW u, Usual(u), NEW n \in Nodes, NEW q \in OutOfMemory(u, n)
  PROVE  Described(q, u, n)
<1> DEFINE death == Termination("OOMKilled", 137)
           TroubleAfter(k) == IF k >= 1 THEN Trouble("OOMKilled", "main", "OOMKilled") ELSE None
           Ill(p, c) == [Patient(p, {}, TroubleAfter(Deaths(c)))
                            EXCEPT !.apparent = TroubleAfter(Noticed(c)), !.dies = TRUE]
<1>1. PICK main \in LoopInstants(death) : \E p \in Shown(BarePod(u, n), main) : q = Ill(p, main)
  BY DEF OutOfMemory, Loops
<1>2. PICK pod \in Shown(BarePod(u, n), main) : q = Ill(pod, main)
  BY <1>1
<1> DEFINE told == TroubleAfter(Noticed(main))
<1>3. /\ q.pod = pod /\ q.events = {} /\ q.apparent = told /\ q.needs = ""
      /\ q.otherwise = TroubleAfter(Deaths(main))
  BY <1>2 DEF Patient
<1>9. told = IF main.state = "terminated" \/ main.restarts > 0
             THEN Trouble("OOMKilled", "main", "OOMKilled") ELSE None
  BY LoopDeaths
<1>4. InLoop(pod, main, u, n)
  BY LoopPods
<1>5. \A k : Own(TroubleAfter(k))
  BY DEF Own, Trouble, None
<1>6. MainMatch(pod, main, {}) = Matched(told)
  <2>1. main \in LoopInstants(death) /\ death.reason = "OOMKilled"
    BY DEF Termination
  <2> HIDE DEF death
  <2>2. MainMatch(pod, main, {}) =
           IF main.state = "terminated" \/ main.restarts > 0
           THEN {Trouble("OOMKilled", "main", "OOMKilled")} ELSE {}
    BY <1>4, <2>1, MemoryLoop DEF InLoop
  <2>3. Trouble("OOMKilled", "main", "OOMKilled") # None
    BY DEF Trouble, None
  <2> QED
    BY <1>9, <2>2, <2>3 DEF Matched
<1>7. EventsFor({}, u, u) = {}
  BY DEF EventsFor
<1>8. \A heard : OwnTrouble(q, heard, "") = told
  BY <1>3 DEF OwnTrouble
<1>10. Own(q.apparent) /\ Own(q.otherwise)
  <2> HIDE DEF TroubleAfter
  <2> QED
    BY <1>3, <1>5
<1> HIDE DEF told
<1> QED
  BY <1>3, <1>4, <1>6, <1>7, <1>8, <1>10, LoopDescribed

\* Containers that cannot start say why, dead or backing off.
LEMMA StartLoop ==
  ASSUME NEW death, death.reason = "StartError", NEW main \in LoopInstants(death),
         main.state # "running", NEW pod, ~ pod.ready, NEW events
  PROVE  MainMatch(pod, main, events) = {Trouble("ContainerStartFailed", "main", "StartError")}
<1>1. \/ main.state = "terminated" /\ main.reason = "StartError"
      \/ main.state = "waiting" /\ main.reason = "CrashLoopBackOff" /\ main.restarts > 0
  BY LoopStates
<1>2. main.restarts > 0 => main.restarts # 0
  OBVIOUS
<1>3. main.last.reason = IF main.restarts = 0 THEN "" ELSE "StartError"
  BY LoopReasons
<1>4. ~ Ended(main, {"OOMKilled"}) /\ main.last.reason # "OOMKilled"
      /\ ~ Waits(main, {"CreateContainerConfigError"})
  BY <1>1, <1>3 DEF Ended, Waits
<1>5. StartFailure(pod, main) = "StartError"
  BY <1>1, <1>2, <1>3 DEF StartFailure, Waits, Ended, startFailureReasons
<1> QED
  BY <1>4, <1>5 DEF MainMatch

\* A pod whose container cannot be started.
LEMMA NotStartingDescribed ==
  ASSUME NEW u, Usual(u), NEW n \in Nodes, NEW q \in NotStarting(u, n)
  PROVE  Described(q, u, n)
<1> DEFINE death == Termination("StartError", 128)
           truth == Trouble("ContainerStartFailed", "main", "StartError")
           Ill(p) == [Patient(p, {}, truth) EXCEPT !.apparent = truth, !.dies = TRUE]
<1>1. PICK r \in Loops(u, n, death, {}, LAMBDA k : truth) :
         Instant(r.pod).state # "running" /\ q = [r EXCEPT !.dies = FALSE]
  BY DEF NotStarting
<1>2. PICK main \in LoopInstants(death) : \E p \in Shown(BarePod(u, n), main) : r = Ill(p)
  BY DEF Loops
<1>10. PICK pod \in Shown(BarePod(u, n), main) : r = Ill(pod)
  BY <1>2
<1>3. /\ q.pod = pod /\ q.events = {} /\ q.apparent = truth /\ q.needs = ""
      /\ q.otherwise = truth /\ r.pod = pod
  <2> HIDE DEF truth
  <2> QED
    BY <1>1, <1>10 DEF Patient
<1>4. InLoop(pod, main, u, n)
  BY LoopPods
<1>5. main.state # "running"
  <2>1. Instant(pod).state = main.state
    BY <1>4, MainIsAsked DEF InLoop
  <2> QED
    BY <1>1, <1>3, <2>1
<1>6. Own(truth) /\ truth # None
  BY DEF Own, Trouble, None
<1>7. \A events : MainMatch(pod, main, events) = {truth}
  <2>1. main \in LoopInstants(death) /\ death.reason = "StartError"
    BY DEF Termination
  <2> HIDE DEF death
  <2> QED
    BY <1>4, <1>5, <2>1, StartLoop DEF InLoop
<1>8. \A told : OwnTrouble(q, told, "") = truth
  BY <1>3 DEF OwnTrouble
<1>9. Matched(truth) = {truth}
  BY <1>6 DEF Matched
<1> HIDE DEF truth
<1> QED
  BY <1>3, <1>4, <1>6, <1>7, <1>8, <1>9, LoopDescribed

\* An event of the pod's own, of a kubelet's probe.
LEMMA UnhealthyFields ==
  ASSUME NEW u, NEW probe, NEW created, NEW last, NEW series
  PROVE  LET e == Unhealthy(u, probe, created, last, series)
         IN  /\ e.name = u /\ e.uid = u /\ e.reason = "Unhealthy" /\ e.probe = probe
             /\ EventTime(e) = IF last # 0 THEN last ELSE IF series # 0 THEN series ELSE created
BY DEF Unhealthy, Event, EventTime

\* The pod's own events are found.
LEMMA OwnEvents ==
  ASSUME NEW u, NEW events, \A e \in events : e.name = u /\ e.uid = u
  PROVE  EventsFor(events, u, u) = events
BY DEF EventsFor

\* A single event is the latest.
LEMMA OneUnhealthy ==
  ASSUME NEW e, e.reason = "Unhealthy", EventTime(e) \in Int, NEW pod, ~ pod.ready
  PROVE  /\ ProbeFailing(pod, {e}) = {Cause("", e.probe)}
         /\ LivenessFails({e}) <=> e.probe = "liveness"
<1>1. {f \in {e} : f.reason \in {"Unhealthy"}} = {e}
  OBVIOUS
<1>2. EventTime(e) <= EventTime(e)
  OBVIOUS
<1> HIDE DEF EventTime
<1>3. Latest({e}, {"Unhealthy"}) = {e}
  BY <1>1, <1>2 DEF Latest
<1>4. ProbeFailing(pod, {e}) = {Cause("", x.probe) : x \in {e}}
  BY <1>3 DEF ProbeFailing
<1> QED
  BY <1>4 DEF LivenessFails

\* Without events, no probe is seen to fail.
LEMMA NoEvents ==
  ASSUME NEW pod
  PROVE  /\ ProbeFailing(pod, {}) = {} /\ ~ LivenessFails({})
         /\ Tagged("ProbeFailing", {}) = {}
         /\ \A u : EventsFor({}, u, u) = {}
  BY TaggedOne DEF ProbeFailing, Latest, LivenessFails, EventsFor

\* The event of a pod that fails its liveness probe.
LEMMA LivenessEvent ==
  ASSUME NEW u
  PROVE  LET e == Unhealthy(u, "liveness", 1, 0, 4)
         IN  /\ e.name = u /\ e.uid = u /\ e.reason = "Unhealthy" /\ e.probe = "liveness"
             /\ EventTime(e) \in Int
<1>1. EventTime(Unhealthy(u, "liveness", 1, 0, 4)) = 4
  BY DEF Unhealthy, Event, EventTime
<1> QED
  BY <1>1, UnhealthyFields

\* The death by the hand of the kubelet is an error.
LEMMA KilledFields ==
  Termination("Error", 137).reason = "Error" /\ Termination("Error", 137).exit # 0
<1>1. Termination("Error", 137).exit = 137
  BY DEF Termination
<1>2. Termination("Error", 137).reason = "Error"
  BY DEF Termination
<1> QED
  BY <1>1, <1>2

\* What is said of a crash loop when no event tells its cause.
LEMMA WithoutEvents ==
  [Trouble("CrashLoopBackOff", "main", "liveness") EXCEPT !.why = "crash"] =
     Trouble("CrashLoopBackOff", "main", "crash")
BY DEF Trouble

\* A pod whose container fails its liveness probe.
LEMMA UnlivelyDescribed ==
  ASSUME NEW u, Usual(u), NEW n \in Nodes, NEW q \in Unlively(u, n)
  PROVE  Described(q, u, n)
<1> DEFINE death == Termination("Error", 137)
           e == Unhealthy(u, "liveness", 1, 0, 4)
           loop == Trouble("CrashLoopBackOff", "main", "liveness")
           probe == Trouble("ProbeFailing", "", "liveness")
           TroubleAfter(k) == IF k >= 2 THEN loop ELSE probe
           Else(t) == IF t.signature = "CrashLoopBackOff" THEN [t EXCEPT !.why = "crash"] ELSE None
           Ill(p, c) == [Patient(p, {e}, TroubleAfter(Deaths(c)))
                            EXCEPT !.apparent = TroubleAfter(Noticed(c)), !.dies = TRUE]
<1>1. PICK r \in Loops(u, n, death, {e}, LAMBDA k : TroubleAfter(k)) :
         q = [r EXCEPT !.needs = "events", !.otherwise = Else(r.apparent)]
  BY DEF Unlively
<1>2. PICK main \in LoopInstants(death) : \E p \in Shown(BarePod(u, n), main) : r = Ill(p, main)
  BY DEF Loops
<1>3. PICK pod \in Shown(BarePod(u, n), main) : r = Ill(pod, main)
  BY <1>2
<1>4. InLoop(pod, main, u, n)
  BY LoopPods
<1> DEFINE Truth(c) == IF Repeated(c) THEN loop ELSE probe
<1>16. TroubleAfter(Noticed(main)) = Truth(main)
  BY LoopDeaths
<1>5. /\ q.pod = pod /\ q.events = {e} /\ q.apparent = Truth(main) /\ q.needs = "events"
      /\ q.otherwise = Else(Truth(main))
  <2> HIDE DEF TroubleAfter, Truth, Else, e
  <2> QED
    BY <1>1, <1>3, <1>16 DEF Patient
<1>6. Else(Truth(main)) = IF Repeated(main) THEN Trouble("CrashLoopBackOff", "main", "crash") ELSE None
  <2>1. CASE Repeated(main)
    <3>1. loop.signature = "CrashLoopBackOff"
      BY DEF Trouble
    <3>2. [loop EXCEPT !.why = "crash"] = Trouble("CrashLoopBackOff", "main", "crash")
      BY WithoutEvents
    <3> QED
      BY <2>1, <3>1, <3>2
  <2>2. CASE ~ Repeated(main)
    <3>1. probe.signature # "CrashLoopBackOff"
      BY DEF Trouble
    <3> QED
      BY <2>2, <3>1
  <2> QED
    BY <2>1, <2>2
<1>7. Own(Truth(main)) /\ Own(Else(Truth(main)))
  <2>1. /\ Own(loop) /\ Own(probe) /\ Own(None)
        /\ Own(Trouble("CrashLoopBackOff", "main", "crash"))
    BY DEF Own, Trouble, None
  <2> HIDE DEF loop, probe, Else
  <2> QED
    BY <1>6, <2>1
<1>8. /\ e.name = u /\ e.uid = u /\ e.reason = "Unhealthy" /\ e.probe = "liveness"
      /\ EventTime(e) \in Int
  BY LivenessEvent
<1> HIDE DEF e
<1>9. EventsFor({e}, u, u) = {e}
  <2>1. \A f \in {e} : f.name = u /\ f.uid = u
    BY <1>8
  <2> QED
    BY <2>1, OwnEvents
<1>10. \A events : MainMatch(pod, main, events) =
           IF Repeated(main)
           THEN {Trouble("CrashLoopBackOff", "main",
                         IF LivenessFails(events) THEN "liveness" ELSE "crash")}
           ELSE Tagged("ProbeFailing", ProbeFailing(pod, events))
  <2>1. death.reason = "Error" /\ death.exit # 0
    BY KilledFields
  <2>2. main \in LoopInstants(death)
    OBVIOUS
  <2> HIDE DEF death
  <2> QED
    BY <1>4, <2>1, <2>2, ErrorLoop DEF InLoop
<1>11. loop # None /\ probe # None /\ Trouble("CrashLoopBackOff", "main", "crash") # None
  BY DEF Trouble, None
<1>12. MainMatch(pod, main, {e}) = Matched(OwnTrouble(q, TRUE, ""))
  <2>1. ProbeFailing(pod, {e}) = {Cause("", "liveness")} /\ LivenessFails({e})
    BY <1>4, <1>8, OneUnhealthy DEF InLoop
  <2>2. Tagged("ProbeFailing", {Cause("", "liveness")}) = {probe}
    BY TaggedOne
  <2>3. MainMatch(pod, main, {e}) = {Truth(main)}
    BY <1>10, <2>1, <2>2
  <2>4. OwnTrouble(q, TRUE, "") = Truth(main)
    BY <1>5 DEF OwnTrouble
  <2> QED
    BY <1>11, <2>3, <2>4 DEF Matched
<1>13. MainMatch(pod, main, {}) = Matched(OwnTrouble(q, FALSE, ""))
  <2>1. MainMatch(pod, main, {}) =
           IF Repeated(main) THEN {Trouble("CrashLoopBackOff", "main", "crash")} ELSE {}
    BY <1>10, NoEvents
  <2>2. OwnTrouble(q, FALSE, "") = Else(Truth(main))
    BY <1>5 DEF OwnTrouble
  <2> QED
    BY <1>6, <1>11, <2>1, <2>2 DEF Matched
<1>14. \A told \in BOOLEAN :
          MainMatch(pod, main, IF told THEN EventsFor(q.events, u, u) ELSE {}) =
             Matched(OwnTrouble(q, told, ""))
  BY <1>5, <1>9, <1>12, <1>13
<1>15. \A f \in q.events : f.name = u
  BY <1>5, <1>8
<1> HIDE DEF Truth, Else
<1> QED
  BY <1>4, <1>5, <1>7, <1>14, <1>15, LoopDescribed

\* A pod on a node, not being deleted, with a container in it.
Bare(pod, main, u, n, stage) ==
    /\ pod.name = u /\ pod.uid = u /\ pod.node = n /\ ~ pod.ready /\ pod.phase = stage
    /\ ~ pod.unschedulable /\ pod.claim = "" /\ ~ pod.deleting
    /\ Shows(pod, main)

InPhase(u, n, stage) == [BarePod(u, n) EXCEPT !.phase = stage]

\* So are the pods of most patients.
LEMMA BareShown ==
  ASSUME NEW u, NEW n, NEW stage, NEW main, NEW pod,
         pod \in Shown(InPhase(u, n, stage), main)
  PROVE  Bare(pod, main, u, n, stage) /\ pod.reason = ""
<1> DEFINE bare == InPhase(u, n, stage)
<1>1. DOMAIN bare = PodFields
  BY DEF InPhase, BarePod, PodFields
<1>2. /\ bare.name = u /\ bare.uid = u /\ bare.node = n /\ ~ bare.ready /\ bare.phase = stage
      /\ bare.reason = "" /\ ~ bare.unschedulable /\ bare.claim = "" /\ ~ bare.deleting
  BY DEF InPhase, BarePod
<1> HIDE DEF bare
<1>3. Shows(pod, main) /\ \A f \in PodFields \ {"containers"} : pod[f] = bare[f]
  BY <1>1, ShownFields DEF bare
<1> QED
  BY <1>2, <1>3 DEF PodFields, Bare

\* And nothing but their container decides.
LEMMA BareIsPlain ==
  ASSUME NEW u, NEW n, NEW stage, NEW main, NEW pod, Bare(pod, main, u, n, stage), pod.reason = ""
  PROVE  Plain(pod)
BY DEF Bare, Plain, StuckTerminating, When

\* A container that never ended has no log of a crash.
LEMMA NoCrash ==
  ASSUME NEW pod, NEW main, Shows(pod, main), main.name = "main", pod.phase # "Failed",
         ~ Waits(main, {"CrashLoopBackOff"}), ~ Restarting(pod, main)
  PROVE  CrashLooping(pod) = {} /\ FailedContainer(pod) = {}
BY MainDecides DEF When

\* Waiting containers.
LEMMA WaitingFields ==
  ASSUME NEW reason
  PROVE  LET main == Waiting(reason)
         IN  /\ Regular(main) /\ main.name = "main" /\ main.state = "waiting" /\ main.reason = reason
             /\ main.last.reason = ""
             /\ \A pod : ~ Restarting(pod, main)
<1>1. Waiting(reason).restarts = 0
  BY DEF Waiting, Status
<1>2. \A pod : ~ Restarting(pod, Waiting(reason))
  BY <1>1 DEF Restarting
<1>3. Waiting(reason).last = NoTermination
  BY DEF Waiting, Status
<1>4. NoTermination.reason = ""
  BY DEF NoTermination, Termination
<1>5. /\ Waiting(reason).name = "main" /\ Waiting(reason).state = "waiting"
      /\ Waiting(reason).reason = reason
  BY DEF Waiting, Status
<1>6. Regular(Waiting(reason))
  BY <1>1, <1>5 DEF Regular
<1> QED
  BY <1>2, <1>3, <1>4, <1>5, <1>6

HeldTrouble(reason) ==
    CASE reason = "CreateContainerConfigError" -> Trouble("ConfigMissing", "main", reason)
      [] reason = "CreateContainerError"       -> Trouble("ContainerStartFailed", "main", reason)
      [] OTHER                                 -> Trouble("ImagePullBackOff", "main", "image")

\* What holds a container up is what it waits for.
LEMMA HeldMatch ==
  ASSUME NEW reason \in {"CreateContainerConfigError", "CreateContainerError", "ErrImagePull",
                         "ImagePullBackOff"},
         NEW pod, pod.phase = "Pending", NEW events
  PROVE  MainMatch(pod, Waiting(reason), events) = {HeldTrouble(reason)}
<1> DEFINE main == Waiting(reason)
<1>1. /\ main.state = "waiting" /\ main.reason = reason /\ main.last.reason = ""
      /\ ~ Restarting(pod, main)
  BY WaitingFields
<1> HIDE DEF main
<1>2. ~ Ended(main, {"OOMKilled"}) /\ ~ Waits(main, {"CrashLoopBackOff"})
  BY <1>1 DEF Ended, Waits
<1>3. Waits(main, {"CreateContainerConfigError"}) <=> reason = "CreateContainerConfigError"
  BY <1>1 DEF Waits
<1>4. StartFailure(pod, main) = IF reason = "CreateContainerError" THEN reason ELSE ""
  BY <1>1 DEF StartFailure, Ended, Waits, startFailureReasons
<1>5. Waits(main, {"ImagePullBackOff", "ErrImagePull"}) <=>
         reason \in {"ImagePullBackOff", "ErrImagePull"}
  BY <1>1 DEF Waits
<1>6. CASE reason = "CreateContainerConfigError"
  BY <1>1, <1>2, <1>3, <1>6 DEF MainMatch, HeldTrouble, main
<1>7. CASE reason = "CreateContainerError"
  BY <1>1, <1>2, <1>3, <1>4, <1>7 DEF MainMatch, HeldTrouble, main
<1>8. CASE reason \in {"ImagePullBackOff", "ErrImagePull"}
  BY <1>1, <1>2, <1>3, <1>4, <1>5, <1>8 DEF MainMatch, HeldTrouble, main
<1> QED
  BY <1>6, <1>7, <1>8

\* A pod whose container is held up before it runs.
LEMMA HeldDescribed ==
  ASSUME NEW u, Usual(u), NEW n \in Nodes, NEW q \in Held(u, n)
  PROVE  Described(q, u, n)
<1>1. PICK reason \in {"CreateContainerConfigError", "CreateContainerError", "ErrImagePull",
                       "ImagePullBackOff"} :
         \E pod \in Pending(u, n, reason), events \in {{}, {StaleMountEvent(u)}} :
            q = Patient(pod, events, HeldTrouble(reason))
  <2>1. CASE q \in {Patient(p, {StaleMountEvent(u)},
                      Trouble("ConfigMissing", "main", "CreateContainerConfigError")) :
                      p \in Pending(u, n, "CreateContainerConfigError")}
    BY <2>1 DEF HeldTrouble
  <2>2. CASE q \in {Patient(p, {}, Trouble("ContainerStartFailed", "main", "CreateContainerError")) :
                      p \in Pending(u, n, "CreateContainerError")}
    BY <2>2 DEF HeldTrouble
  <2>3. CASE q \in {Patient(p, {StaleMountEvent(u)}, Trouble("ImagePullBackOff", "main", "image")) :
                      p \in Pending(u, n, "ErrImagePull") \union Pending(u, n, "ImagePullBackOff")}
    <3>1. PICK p \in Pending(u, n, "ErrImagePull") \union Pending(u, n, "ImagePullBackOff") :
             q = Patient(p, {StaleMountEvent(u)}, Trouble("ImagePullBackOff", "main", "image"))
      BY <2>3
    <3>2. /\ HeldTrouble("ErrImagePull") = Trouble("ImagePullBackOff", "main", "image")
          /\ HeldTrouble("ImagePullBackOff") = Trouble("ImagePullBackOff", "main", "image")
      BY DEF HeldTrouble
    <3> QED
      BY <3>1, <3>2
  <2> QED
    BY <2>1, <2>2, <2>3 DEF Held
<1>2. PICK pod \in Pending(u, n, reason) : \E events \in {{}, {StaleMountEvent(u)}} :
         q = Patient(pod, events, HeldTrouble(reason))
  BY <1>1
<1>3. PICK events \in {{}, {StaleMountEvent(u)}} : q = Patient(pod, events, HeldTrouble(reason))
  BY <1>2
<1> DEFINE main == Waiting(reason)
           truth == HeldTrouble(reason)
<1>4. /\ q.pod = pod /\ q.events = events /\ q.apparent = truth /\ q.needs = ""
      /\ q.otherwise = truth
  BY <1>3 DEF Patient
<1>5. Bare(pod, main, u, n, "Pending") /\ pod.reason = ""
  <2>1. pod \in Shown(InPhase(u, n, "Pending"), main)
    BY DEF Pending, InPhase
  <2> HIDE DEF main
  <2> QED
    BY <2>1, BareShown
<1>6. /\ Regular(main) /\ main.name = "main" /\ main.state = "waiting" /\ main.reason = reason
      /\ ~ Restarting(pod, main)
  BY WaitingFields
<1>7. Plain(pod)
  BY <1>5, BareIsPlain
<1>8. ~ WaitingToStart(pod) /\ CrashLooping(pod) = {} /\ FailedContainer(pod) = {}
  <2> HIDE DEF main
  <2>1. /\ ~ Waits(main, {"ContainerCreating", "PodInitializing"})
        /\ ~ Waits(main, {"CrashLoopBackOff"})
    BY <1>6 DEF Waits
  <2>2. ~ WaitingToStart(pod)
    BY <1>5, <1>6, <2>1, MainDecides DEF Bare
  <2>3. pod.phase # "Failed"
    BY <1>5 DEF Bare
  <2> QED
    BY <1>5, <1>6, <2>1, <2>2, <2>3, NoCrash DEF Bare
<1>9. Own(truth) /\ truth # None
  BY DEF Own, HeldTrouble, Trouble, None
<1>10. \A es : MainMatch(pod, main, es) = {truth}
  BY <1>5, HeldMatch DEF Bare
<1>11. \A told : OwnTrouble(q, told, "") = truth
  BY <1>4 DEF OwnTrouble
<1>12. \A e \in q.events : e.name = u
  BY <1>4, StaleFields
<1>14. Matched(truth) = {truth}
  BY <1>9 DEF Matched
<1> HIDE DEF truth, main
<1>15. \A told \in BOOLEAN :
          MainMatch(pod, main, IF told THEN EventsFor(q.events, u, u) ELSE {}) =
             Matched(OwnTrouble(q, told, ""))
  BY <1>10, <1>11, <1>14
<1>16. /\ pod.name = u /\ pod.uid = u /\ pod.node = n /\ Shows(pod, main) /\ Regular(main)
       /\ q.pod = pod /\ q.needs \in {"", "events"} /\ Own(q.apparent) /\ Own(q.otherwise)
  BY <1>4, <1>5, <1>6, <1>9 DEF Bare
<1> QED
  BY <1>7, <1>8, <1>12, <1>15, <1>16, PlainDescribed

\* The latest of two events, and of the events of one reason when only one has it.
LEMMA LatestOfTwo ==
  ASSUME NEW a, NEW b, EventTime(a) \in Int, EventTime(b) \in Int, NEW reasons
  PROVE  /\ a.reason \in reasons /\ EventTime(b) < EventTime(a) => Latest({a, b}, reasons) = {a}
         /\ a.reason \in reasons /\ b.reason \notin reasons => Latest({a, b}, reasons) = {a}
         /\ a.reason \notin reasons /\ b.reason \notin reasons => Latest({a, b}, reasons) = {}
<1> DEFINE matching == {e \in {a, b} : e.reason \in reasons}
<1>1. Latest({a, b}, reasons) = {e \in matching : \A f \in matching : EventTime(f) <= EventTime(e)}
  BY DEF Latest
<1>2. EventTime(a) <= EventTime(a)
  OBVIOUS
<1>3. ASSUME a.reason \in reasons, EventTime(b) < EventTime(a)
      PROVE  Latest({a, b}, reasons) = {a}
  <2>1. a \in matching /\ matching \subseteq {a, b}
    BY <1>3
  <2>2. ~ EventTime(a) <= EventTime(b) /\ EventTime(b) <= EventTime(a)
    BY <1>3
  <2> HIDE DEF matching
  <2> QED
    BY <1>1, <1>2, <2>1, <2>2
<1>4. ASSUME a.reason \in reasons, b.reason \notin reasons
      PROVE  Latest({a, b}, reasons) = {a}
  <2>1. matching = {a}
    BY <1>4
  <2> HIDE DEF matching
  <2> QED
    BY <1>1, <1>2, <2>1
<1>5. ASSUME a.reason \notin reasons, b.reason \notin reasons
      PROVE  Latest({a, b}, reasons) = {}
  <2>1. matching = {}
    BY <1>5
  <2> HIDE DEF matching
  <2> QED
    BY <1>1, <2>1
<1> QED
  BY <1>3, <1>4, <1>5

\* The events of the two kinds of pods without a container.
LEMMA StartupEvents ==
  ASSUME NEW u
  PROVE  LET mount   == Event(u, "FailedMount", 1, 4, 0)
             attach  == Event(u, "FailedAttachVolume", 2, 3, 0)
             stale   == StaleMountEvent(u)
             sandbox == [Event(u, "FailedCreatePodSandBox", 2, 3, 0) EXCEPT !.uid = ""]
         IN  /\ EventTime(mount) = 4 /\ EventTime(attach) = 3
             /\ EventTime(stale) = 1 /\ EventTime(sandbox) = 3
<1>1. EventTime(Event(u, "FailedMount", 1, 4, 0)) = 4
  BY DEF Event, EventTime
<1>2. EventTime(Event(u, "FailedAttachVolume", 2, 3, 0)) = 3
  BY DEF Event, EventTime
<1>3. EventTime(StaleMountEvent(u)) = 1
  BY DEF StaleMountEvent, Event, EventTime
<1>4. EventTime([Event(u, "FailedCreatePodSandBox", 2, 3, 0) EXCEPT !.uid = ""]) = 3
  BY DEF Event, EventTime
<1> QED
  BY <1>1, <1>2, <1>3, <1>4

\* And whose they are.
LEMMA StartupFields ==
  ASSUME NEW u
  PROVE  LET mount   == Event(u, "FailedMount", 1, 4, 0)
             attach  == Event(u, "FailedAttachVolume", 2, 3, 0)
             sandbox == [Event(u, "FailedCreatePodSandBox", 2, 3, 0) EXCEPT !.uid = ""]
         IN  /\ mount.name = u /\ mount.uid = u /\ mount.reason = "FailedMount"
             /\ attach.name = u /\ attach.uid = u /\ attach.reason = "FailedAttachVolume"
             /\ sandbox.name = u /\ sandbox.uid = "" /\ sandbox.reason = "FailedCreatePodSandBox"
BY DEF Event

\* A waiting pod whose events tell why has a finding by them.
LEMMA StartupMatch ==
  ASSUME NEW pod, Plain(pod), NEW known, NodeNotReady(pod, known.node) = {}, known.now = Now,
         WaitingToStart(pod), ~ pod.ready, NEW e,
         LET events == EventsFor(known.events, pod.name, pod.uid)
         IN  \/ /\ Latest(events, {"FailedCreatePodSandBox"}) = {e}
                /\ e.reason = "FailedCreatePodSandBox"
             \/ /\ Latest(events, {"FailedCreatePodSandBox"}) = {}
                /\ Latest(events, {"FailedMount", "FailedAttachVolume"}) = {e}
                /\ e.reason # "FailedCreatePodSandBox"
  PROVE  FirstMatch(podDetectors, pod, known) =
           {Trouble(IF e.reason = "FailedCreatePodSandBox" THEN "PodSandboxFailed"
                    ELSE "VolumeMountFailed", "", e.reason)}
<1> DEFINE events == EventsFor(known.events, pod.name, pod.uid)
<1>1. StuckTerminating(pod, known.now) = {} /\ PVCPending(pod, known.claim) = {}
  BY DEF Plain, PVCPending, When
<1>2. \A reasons : Latest(events, reasons) = {e} => StartupEvent(pod, events, reasons) = {Cause("", e.reason)}
  <2>1. \A reasons : StartupEvent(pod, events, reasons) = {Cause("", f.reason) : f \in Latest(events, reasons)}
    BY DEF StartupEvent
  <2>2. {Cause("", f.reason) : f \in {e}} = {Cause("", e.reason)}
    OBVIOUS
  <2> HIDE DEF events
  <2> QED
    BY <2>1, <2>2
<1>3. \A reasons : Latest(events, reasons) = {} => StartupEvent(pod, events, reasons) = {}
  BY DEF StartupEvent
<1>4. FirstMatch(podDetectors, pod, known) = Ladder(pod, known)
  BY LadderIsMatch
<1> HIDE DEF events
<1>5. CASE Latest(events, {"FailedCreatePodSandBox"}) = {e} /\ e.reason = "FailedCreatePodSandBox"
  <2>1. SandboxFailed(pod, events) = {Cause("", e.reason)}
    BY <1>2, <1>5 DEF SandboxFailed
  <2>2. FirstMatch(podDetectors, pod, known) = Tagged("PodSandboxFailed", {Cause("", e.reason)})
    BY <1>1, <1>4, <2>1 DEF Ladder, events
  <2> QED
    BY <1>5, <2>2, TaggedOne
<1>6. CASE /\ Latest(events, {"FailedCreatePodSandBox"}) = {}
           /\ Latest(events, {"FailedMount", "FailedAttachVolume"}) = {e}
           /\ e.reason # "FailedCreatePodSandBox"
  <2>1. SandboxFailed(pod, events) = {} /\ VolumeMountFailed(pod, events) = {Cause("", e.reason)}
    BY <1>2, <1>3, <1>6 DEF SandboxFailed, VolumeMountFailed
  <2>2. FirstMatch(podDetectors, pod, known) = Tagged("VolumeMountFailed", {Cause("", e.reason)})
    BY <1>1, <1>4, <2>1 DEF Ladder, events
  <2> QED
    BY <1>6, <2>2, TaggedOne
<1> QED
  BY <1>5, <1>6 DEF events

\* A container that is being created gives no reason.
LEMMA CreatingMatch ==
  ASSUME NEW pod, pod.phase = "Pending"
  PROVE  MainMatch(pod, Waiting("ContainerCreating"), {}) = {}
<1> DEFINE main == Waiting("ContainerCreating")
<1>1. /\ main.state = "waiting" /\ main.reason = "ContainerCreating" /\ main.last.reason = ""
      /\ ~ Restarting(pod, main)
  BY WaitingFields
<1> HIDE DEF main
<1>2. /\ ~ Ended(main, {"OOMKilled"}) /\ ~ Waits(main, {"CrashLoopBackOff"})
      /\ ~ Waits(main, {"CreateContainerConfigError"})
      /\ ~ Waits(main, {"ImagePullBackOff", "ErrImagePull"})
  BY <1>1 DEF Ended, Waits
<1>3. StartFailure(pod, main) = ""
  BY <1>1 DEF StartFailure, Ended, Waits, startFailureReasons
<1> QED
  BY <1>1, <1>2, <1>3, NoEvents DEF MainMatch, main

\* A pod that waits for a volume or a sandbox, by its events.
LEMMA NotCreatedDescribed ==
  ASSUME NEW u, Usual(u), NEW n \in Nodes, NEW q \in NotCreated(u, n)
  PROVE  Described(q, u, n)
<1> DEFINE main == Waiting("ContainerCreating")
           mount == Event(u, "FailedMount", 1, 4, 0)
           attach == Event(u, "FailedAttachVolume", 2, 3, 0)
           stale == StaleMountEvent(u)
           sandbox == [Event(u, "FailedCreatePodSandBox", 2, 3, 0) EXCEPT !.uid = ""]
           unmounted == Trouble("VolumeMountFailed", "", "FailedMount")
           unboxed == Trouble("PodSandboxFailed", "", "FailedCreatePodSandBox")
           box == {"FailedCreatePodSandBox"}
           volume == {"FailedMount", "FailedAttachVolume"}
<1>1. PICK pod \in Pending(u, n, "ContainerCreating") :
         \/ q = OnlyEventsTell(Patient(pod, {mount, attach}, unmounted))
         \/ q = OnlyEventsTell(Patient(pod, {stale, sandbox}, unboxed))
  BY DEF NotCreated
<1>2. /\ q.pod = pod /\ q.needs = "events" /\ q.otherwise = None
      /\ \/ q.events = {mount, attach} /\ q.apparent = unmounted
         \/ q.events = {stale, sandbox} /\ q.apparent = unboxed
  <2> HIDE DEF mount, attach, stale, sandbox, unmounted, unboxed
  <2> QED
    BY <1>1 DEF OnlyEventsTell, Patient
<1>3. Bare(pod, main, u, n, "Pending") /\ pod.reason = ""
  <2>1. pod \in Shown(InPhase(u, n, "Pending"), main)
    BY DEF Pending, InPhase
  <2> HIDE DEF main
  <2> QED
    BY <2>1, BareShown
<1>4. /\ Regular(main) /\ main.name = "main" /\ main.state = "waiting" /\ main.reason = "ContainerCreating"
      /\ ~ Restarting(pod, main)
  BY WaitingFields
<1>5. Plain(pod)
  BY <1>3, BareIsPlain
<1>6. /\ mount.name = u /\ mount.uid = u /\ mount.reason = "FailedMount"
      /\ attach.name = u /\ attach.uid = u /\ attach.reason = "FailedAttachVolume"
      /\ stale.name = u /\ stale.uid = u /\ stale.reason = "FailedMount"
      /\ sandbox.name = u /\ sandbox.uid = "" /\ sandbox.reason = "FailedCreatePodSandBox"
  BY StartupFields, StaleFields
<1>7. /\ EventTime(mount) = 4 /\ EventTime(attach) = 3
      /\ EventTime(stale) = 1 /\ EventTime(sandbox) = 3
  BY StartupEvents
<1> HIDE DEF mount, attach, stale, sandbox, main
<1>a. /\ \A e \in {mount, attach, stale, sandbox} : EventTime(e) \in Int
      /\ EventTime(attach) < EventTime(mount)
  BY <1>7
<1>b. /\ mount.reason \in volume /\ mount.reason \notin box /\ attach.reason \notin box
      /\ sandbox.reason \in box /\ stale.reason \notin box
  BY <1>6
<1>c. /\ Latest({mount, attach}, box) = {} /\ Latest({mount, attach}, volume) = {mount}
      /\ Latest({sandbox, stale}, box) = {sandbox}
  <2> HIDE DEF box, volume
  <2> QED
    BY <1>a, <1>b, LatestOfTwo
<1>8. WaitingToStart(pod) /\ CrashLooping(pod) = {} /\ FailedContainer(pod) = {}
  <2>1. Waits(main, {"ContainerCreating", "PodInitializing"}) /\ ~ Waits(main, {"CrashLoopBackOff"})
    BY <1>4 DEF Waits
  <2>2. pod.node # "" /\ pod.phase = "Pending"
    BY <1>3, DiagnoseAssumption DEF Bare
  <2>3. WaitingToStart(pod)
    BY <1>3, <1>4, <2>1, <2>2, MainDecides DEF Bare
  <2>4. pod.phase # "Failed"
    BY <2>2
  <2> QED
    BY <1>3, <1>4, <2>1, <2>3, <2>4, NoCrash DEF Bare
<1>9. Identified(q, u, n)
  <2>1. Own(q.apparent) /\ Own(q.otherwise)
    <3>1. Own(unmounted) /\ Own(unboxed) /\ Own(None)
      BY DEF Own, Trouble, None
    <3> HIDE DEF unmounted, unboxed
    <3> QED
      BY <1>2, <3>1
  <2>2. \A e \in q.events : e.name = u
    BY <1>2, <1>6
  <2>3. StuckTerminating(q.pod, Now) = {} /\ q.pod.claim = ""
    BY <1>2, <1>5 DEF Plain
  <2>4. q.pod.name = u /\ q.pod.uid = u /\ q.pod.node = n /\ q.needs \in {"", "events"}
    BY <1>2, <1>3 DEF Bare
  <2> QED
    BY <2>1, <2>2, <2>3, <2>4, OwnIdentified
<1>10. AsksOfMain(q.pod)
  BY <1>2, <1>3, <1>4, MainIsAsked DEF Bare
<1>11. EventsFor(q.events, u, u) = q.events
  BY <1>2, <1>6 DEF EventsFor
<1>12. ASSUME NEW known, NEW told \in BOOLEAN, Knows(known, q, told),
              NodeNotReady(pod, known.node) = {}
       PROVE  FirstMatch(podDetectors, pod, known) = Matched(OwnTrouble(q, told, known.claim))
  <2> DEFINE events == EventsFor(known.events, pod.name, pod.uid)
  <2>1. pod.name = u /\ pod.uid = u /\ ~ pod.ready /\ known.now = Now /\ Shows(pod, main)
        /\ pod.phase = "Pending"
    BY <1>3, <1>12 DEF Knows, Bare
  <2>2. events = IF told THEN q.events ELSE {}
    BY <1>2, <1>11, <1>12, <2>1 DEF Knows
  <2>3. OwnTrouble(q, told, known.claim) = IF told THEN q.apparent ELSE None
    BY <1>2 DEF OwnTrouble
  <2>4. unmounted # None /\ unboxed # None
    BY DEF Trouble, None
  <2>5. CASE ~ told
    <3>1. events = {}
      BY <2>2, <2>5
    <3>2. FirstMatch(podDetectors, pod, known) = MainMatch(pod, main, {})
      BY <1>4, <1>5, <1>12, <2>1, <3>1, PlainMatch
    <3>3. MainMatch(pod, main, {}) = {}
      BY <2>1, CreatingMatch DEF main
    <3> QED
      BY <2>3, <2>5, <3>2, <3>3 DEF Matched
  <2>6. CASE told /\ q.events = {mount, attach} /\ q.apparent = unmounted
    <3>1. events = {mount, attach}
      BY <2>2, <2>6
    <3>2. Latest(events, {"FailedCreatePodSandBox"}) = {}
      BY <1>c, <3>1
    <3>4. Latest(events, {"FailedMount", "FailedAttachVolume"}) = {mount}
      BY <1>c, <3>1
    <3>5. mount.reason = "FailedMount" /\ mount.reason # "FailedCreatePodSandBox"
      BY <1>6
    <3>6. FirstMatch(podDetectors, pod, known) = {unmounted}
      <4> HIDE DEF events
      <4> QED
        BY <1>5, <1>8, <1>12, <2>1, <3>2, <3>4, <3>5, StartupMatch DEF events
    <3> QED
      BY <2>3, <2>4, <2>6, <3>6 DEF Matched
  <2>7. CASE told /\ q.events = {stale, sandbox} /\ q.apparent = unboxed
    <3>1. events = {sandbox, stale}
      BY <2>2, <2>7
    <3>2. Latest(events, {"FailedCreatePodSandBox"}) = {sandbox}
      BY <1>c, <3>1
    <3>3. sandbox.reason = "FailedCreatePodSandBox"
      BY <1>6
    <3>6. FirstMatch(podDetectors, pod, known) = {unboxed}
      <4> HIDE DEF events
      <4> QED
        BY <1>5, <1>8, <1>12, <2>1, <3>2, <3>3, StartupMatch DEF events
    <3> QED
      BY <2>3, <2>4, <2>7, <3>6 DEF Matched
  <2> QED
    BY <1>2, <2>5, <2>6, <2>7
<1>13. Judged(q)
  <2> HIDE DEF main
  <2> QED
    BY <1>2, <1>12 DEF Judged
<1> QED
  BY <1>9, <1>10, <1>13 DEF Described

\* A pod that is shown as it is.
LEMMA RunningShown ==
  ASSUME NEW u, NEW n, NEW main, NEW pod, pod \in Shown(BarePod(u, n), main)
  PROVE  Bare(pod, main, u, n, "Running") /\ pod.reason = ""
<1> DEFINE bare == BarePod(u, n)
<1>1. DOMAIN bare = PodFields
  BY DEF BarePod, PodFields
<1>2. /\ bare.name = u /\ bare.uid = u /\ bare.node = n /\ ~ bare.ready /\ bare.phase = "Running"
      /\ bare.reason = "" /\ ~ bare.unschedulable /\ bare.claim = "" /\ ~ bare.deleting
  BY DEF BarePod
<1> HIDE DEF bare
<1>3. Shows(pod, main) /\ \A f \in PodFields \ {"containers"} : pod[f] = bare[f]
  BY <1>1, ShownFields DEF bare
<1> QED
  BY <1>2, <1>3 DEF PodFields, Bare

\* A container that runs, and has never ended.
LEMMA RunningFields ==
  /\ Regular(Running) /\ Running.name = "main" /\ Running.state = "running" /\ Running.last.reason = ""
  /\ \A pod : ~ Restarting(pod, Running)
<1>1. Running.restarts = 0
  BY DEF Running, Status
<1>2. \A pod : ~ Restarting(pod, Running)
  BY <1>1 DEF Restarting
<1>3. Running.last = NoTermination
  BY DEF Running, Status
<1>4. NoTermination.reason = ""
  BY DEF NoTermination, Termination
<1>5. Running.name = "main" /\ Running.state = "running"
  BY DEF Running, Status
<1>6. Regular(Running)
  BY <1>1, <1>5 DEF Regular
<1> QED
  BY <1>2, <1>3, <1>4, <1>5, <1>6

\* Only its probes can tell of trouble.
LEMMA RunningMatch ==
  ASSUME NEW pod, pod.phase = "Running", NEW events
  PROVE  MainMatch(pod, Running, events) = Tagged("ProbeFailing", ProbeFailing(pod, events))
<1>1. /\ Running.state = "running" /\ Running.last.reason = "" /\ ~ Restarting(pod, Running)
  BY RunningFields
<1>2. /\ ~ Ended(Running, {"OOMKilled"}) /\ ~ Waits(Running, {"CrashLoopBackOff"})
      /\ ~ Waits(Running, {"CreateContainerConfigError"})
      /\ ~ Waits(Running, {"ImagePullBackOff", "ErrImagePull"})
  BY <1>1 DEF Ended, Waits
<1>3. StartFailure(pod, Running) = ""
  BY <1>1 DEF StartFailure, Ended, Waits, startFailureReasons
<1> QED
  BY <1>1, <1>2, <1>3 DEF MainMatch

\* When the events of a probing pod were.
LEMMA ProbeTimes ==
  ASSUME NEW u
  PROVE  /\ EventTime(Unhealthy(u, "startup", 2, 2, 0)) = 2
         /\ EventTime(Unhealthy(u, "readiness", 1, 0, 3)) = 3
<1>1. EventTime(Unhealthy(u, "startup", 2, 2, 0)) = 2
  BY DEF Unhealthy, Event, EventTime
<1>2. EventTime(Unhealthy(u, "readiness", 1, 0, 3)) = 3
  BY DEF Unhealthy, Event, EventTime
<1> QED
  BY <1>1, <1>2

\* Whose they are.
LEMMA ProbeFields ==
  ASSUME NEW u
  PROVE  LET startup   == Unhealthy(u, "startup", 2, 2, 0)
             readiness == Unhealthy(u, "readiness", 1, 0, 3)
             other     == [Unhealthy(u, "readiness", 1, 4, 0) EXCEPT !.uid = "before"]
         IN  /\ startup.name = u /\ startup.uid = u /\ startup.reason = "Unhealthy"
             /\ readiness.name = u /\ readiness.uid = u /\ readiness.reason = "Unhealthy"
             /\ readiness.probe = "readiness"
             /\ other.name = u /\ other.uid = "before"
BY DEF Unhealthy, Event

\* A pod that fails a probe, or whose predecessor did.
LEMMA NotReadyDescribed ==
  ASSUME NEW u, Usual(u), NEW n \in Nodes, NEW q \in NotReady(u, n)
  PROVE  Described(q, u, n)
<1> DEFINE startup == Unhealthy(u, "startup", 2, 2, 0)
           readiness == Unhealthy(u, "readiness", 1, 0, 3)
           other == [Unhealthy(u, "readiness", 1, 4, 0) EXCEPT !.uid = "before"]
           probe == Trouble("ProbeFailing", "", "readiness")
           unhealthy == {"Unhealthy"}
<1>1. PICK pod \in Shown(BarePod(u, n), Running) :
         \/ q = OnlyEventsTell(Patient(pod, {startup, readiness}, probe))
         \/ q = Patient(pod, {other}, None)
  BY DEF NotReady
<1>2. /\ q.pod = pod /\ q.otherwise = None
      /\ \/ q.events = {startup, readiness} /\ q.apparent = probe /\ q.needs = "events"
         \/ q.events = {other} /\ q.apparent = None /\ q.needs = ""
  <2> HIDE DEF startup, readiness, other, probe
  <2>1. CASE q = OnlyEventsTell(Patient(pod, {startup, readiness}, probe))
    BY <2>1 DEF OnlyEventsTell, Patient
  <2>2. CASE q = Patient(pod, {other}, None)
    BY <2>2 DEF Patient
  <2> QED
    BY <1>1, <2>1, <2>2
<1>3. Bare(pod, Running, u, n, "Running") /\ pod.reason = ""
  BY RunningShown
<1>4. pod.phase = "Running" /\ ~ pod.ready
  BY <1>3 DEF Bare
<1>5. Plain(pod)
  BY <1>3, BareIsPlain
<1>6. /\ startup.name = u /\ startup.uid = u /\ startup.reason = "Unhealthy"
      /\ readiness.name = u /\ readiness.uid = u /\ readiness.reason = "Unhealthy"
      /\ readiness.probe = "readiness"
      /\ other.name = u /\ other.uid = "before"
  BY ProbeFields
<1>7. /\ EventTime(startup) \in Int /\ EventTime(readiness) \in Int
      /\ EventTime(startup) < EventTime(readiness)
  <2>1. EventTime(startup) = 2 /\ EventTime(readiness) = 3
    BY ProbeTimes
  <2> QED
    BY <2>1
<1>8. EventsFor({other}, u, u) = {}
  <2>1. ~ (u # "" /\ other.uid # "" => other.uid = u)
    BY <1>6 DEF Usual
  <2> HIDE DEF other
  <2> QED
    BY <2>1 DEF EventsFor
<1> HIDE DEF startup, readiness, other
<1>9. EventsFor({startup, readiness}, u, u) = {startup, readiness}
  BY <1>6 DEF EventsFor
<1>10. ProbeFailing(pod, {startup, readiness}) = {Cause("", "readiness")}
  <2>1. readiness.reason \in unhealthy
    BY <1>6
  <2>2. Latest({readiness, startup}, unhealthy) = {readiness}
    <3> HIDE DEF unhealthy
    <3> QED
      BY <1>7, <2>1, LatestOfTwo
  <2>3. {readiness, startup} = {startup, readiness}
    OBVIOUS
  <2>4. ProbeFailing(pod, {startup, readiness}) = {Cause("", e.probe) : e \in {readiness}}
    BY <1>4, <2>2, <2>3 DEF ProbeFailing
  <2> QED
    BY <1>6, <2>4
<1>11. WaitingToStart(pod) = FALSE /\ CrashLooping(pod) = {} /\ FailedContainer(pod) = {}
  <2>1. pod.phase # "Failed" /\ pod.phase # "Pending" /\ ~ WaitingToStart(pod)
    BY <1>4 DEF WaitingToStart
  <2>2. ~ Waits(Running, {"CrashLoopBackOff"}) /\ ~ Restarting(pod, Running) /\ Running.name = "main"
    BY RunningFields DEF Waits
  <2> QED
    BY <1>3, <2>1, <2>2, NoCrash DEF Bare, WaitingToStart
<1>13. Own(probe) /\ Own(None) /\ probe # None
  BY DEF Own, Trouble, None
<1>14. \A e \in q.events : e.name = u
  BY <1>2, <1>6
<1>15. MainMatch(pod, Running, {startup, readiness}) = {probe}
  <2>1. Tagged("ProbeFailing", {Cause("", "readiness")}) = {probe}
    BY TaggedOne
  <2> QED
    BY <1>4, <1>10, <2>1, RunningMatch
<1>16. MainMatch(pod, Running, {}) = {}
  BY <1>4, RunningMatch, NoEvents
<1>17. \A told \in BOOLEAN :
          MainMatch(pod, Running, IF told THEN EventsFor(q.events, u, u) ELSE {}) =
             Matched(OwnTrouble(q, told, ""))
  <2> HIDE DEF probe
  <2>1. CASE q.events = {startup, readiness} /\ q.apparent = probe /\ q.needs = "events"
    <3>1. /\ OwnTrouble(q, TRUE, "") = probe /\ OwnTrouble(q, FALSE, "") = None
      BY <1>2, <2>1 DEF OwnTrouble
    <3>2. Matched(probe) = {probe} /\ Matched(None) = {}
      BY <1>13 DEF Matched
    <3> QED
      BY <1>9, <1>15, <1>16, <2>1, <3>1, <3>2
  <2>2. CASE q.events = {other} /\ q.apparent = None /\ q.needs = ""
    <3>1. \A told : OwnTrouble(q, told, "") = None
      BY <2>2 DEF OwnTrouble
    <3>2. Matched(None) = {}
      BY DEF Matched
    <3> QED
      BY <1>8, <1>16, <2>2, <3>1, <3>2
  <2> QED
    BY <1>2, <2>1, <2>2
<1>18. /\ pod.name = u /\ pod.uid = u /\ pod.node = n /\ Shows(pod, Running)
       /\ Regular(Running) /\ q.pod = pod /\ q.needs \in {"", "events"}
  BY <1>2, <1>3, RunningFields DEF Bare
<1>19. Own(q.apparent) /\ Own(q.otherwise)
  <2> HIDE DEF probe
  <2> QED
    BY <1>2, <1>13
<1> QED
  BY <1>5, <1>11, <1>14, <1>17, <1>18, <1>19, PlainDescribed

\* Containers that ended once.
LEMMA DeadFields ==
  ASSUME NEW reason, NEW exit
  PROVE  LET main == Dead(reason, exit)
         IN  /\ Regular(main) /\ main.state = "terminated" /\ main.reason = reason
             /\ main.exit = exit
             /\ main.last.reason = "" /\ \A pod : ~ Restarting(pod, main)
<1>1. Dead(reason, exit).restarts = 0
  BY DEF Dead, Status
<1>2. \A pod : ~ Restarting(pod, Dead(reason, exit))
  BY <1>1 DEF Restarting
<1>3. Dead(reason, exit).last = NoTermination
  BY DEF Dead, Status
<1>4. NoTermination.reason = ""
  BY DEF NoTermination, Termination
<1>5. /\ Dead(reason, exit).name = "main" /\ Dead(reason, exit).state = "terminated"
      /\ Dead(reason, exit).reason = reason /\ Dead(reason, exit).exit = exit
  BY DEF Dead, Status
<1>6. Regular(Dead(reason, exit))
  BY <1>1, <1>5 DEF Regular
<1> QED
  BY <1>2, <1>3, <1>4, <1>5, <1>6

\* They are somewhere in their cycle.
LEMMA DeadIsRegular ==
  ASSUME NEW reason, NEW exit
  PROVE  Regular(Dead(reason, exit))
BY DEF Dead, Status, Regular

\* What is made of it: only a killer's name, or the phase of the pod, matters.
LEMMA DeadMatch ==
  ASSUME NEW reason \in {"Error", "OOMKilled"}, NEW exit, exit # 0, NEW pod
  PROVE  MainMatch(pod, Dead(reason, exit), {}) =
           IF reason = "OOMKilled" THEN {Trouble("OOMKilled", "main", "OOMKilled")}
           ELSE IF pod.phase = "Failed" THEN {Trouble("ContainerFailed", "main", "exit")} ELSE {}
<1> DEFINE main == Dead(reason, exit)
<1>1. /\ main.state = "terminated" /\ main.reason = reason /\ main.last.reason = ""
      /\ ~ Restarting(pod, main)
  BY DeadFields
<1>2. main.exit # 0
  BY DeadFields
<1> HIDE DEF main
<1>3. /\ Ended(main, {"OOMKilled"}) <=> reason = "OOMKilled"
      /\ ~ Waits(main, {"CrashLoopBackOff"})
      /\ ~ Waits(main, {"CreateContainerConfigError"})
      /\ ~ Waits(main, {"ImagePullBackOff", "ErrImagePull"})
  BY <1>1 DEF Ended, Waits
<1>4. StartFailure(pod, main) = ""
  BY <1>1 DEF StartFailure, Ended, Waits, startFailureReasons
<1> QED
  BY <1>1, <1>2, <1>3, <1>4, NoEvents DEF MainMatch, main

\* An evicted pod.
EvictedPod(u, n) == [InPhase(u, n, "Failed") EXCEPT !.reason = "Evicted"]

\* Its fields.
LEMMA EvictedShown ==
  ASSUME NEW u, NEW n, NEW main, NEW pod, pod \in Shown(EvictedPod(u, n), main)
  PROVE  Bare(pod, main, u, n, "Failed") /\ pod.reason = "Evicted"
<1> DEFINE bare == EvictedPod(u, n)
<1>1. DOMAIN bare = PodFields
  BY DEF EvictedPod, InPhase, BarePod, PodFields
<1>2. /\ bare.name = u /\ bare.uid = u /\ bare.node = n /\ ~ bare.ready /\ bare.phase = "Failed"
      /\ bare.reason = "Evicted" /\ ~ bare.unschedulable /\ bare.claim = "" /\ ~ bare.deleting
  BY DEF EvictedPod, InPhase, BarePod
<1> HIDE DEF bare
<1>3. Shows(pod, main) /\ \A f \in PodFields \ {"containers"} : pod[f] = bare[f]
  BY <1>1, ShownFields DEF bare
<1> QED
  BY <1>2, <1>3 DEF PodFields, Bare

\* A patient which no event tells of, that appears and is told what it is.
Simply(q, pod, truth) ==
    q.pod = pod /\ q.events = {} /\ q.apparent = truth /\ q.needs = "" /\ q.otherwise = truth

\* Its fields.
LEMMA SimplyFields ==
  ASSUME NEW pod, NEW truth, NEW q, q = Patient(pod, {}, truth)
  PROVE  Simply(q, pod, truth)
BY DEF Patient, Simply

\* A failed pod that its container accounts for.
LEMMA FailedDescribed ==
  ASSUME NEW u, NEW n, NEW main, Regular(main),
         NEW pod, pod \in Shown(InPhase(u, n, "Failed"), main), NEW truth,
         Own(truth), truth # None, MainMatch(pod, main, {}) = {truth},
         NEW q, Simply(q, pod, truth)
  PROVE  Described(q, u, n)
<1>1. Bare(pod, main, u, n, "Failed") /\ pod.reason = ""
  BY BareShown
<1>2. Plain(pod) /\ ~ WaitingToStart(pod)
  <2>1. pod.phase = "Failed"
    BY <1>1 DEF Bare
  <2> QED
    BY <1>1, <2>1, BareIsPlain DEF WaitingToStart
<1>4. \A told : OwnTrouble(q, told, "") = truth
  BY DEF OwnTrouble, Simply
<1>5. Matched(truth) = {truth}
  BY DEF Matched
<1>6. EventsFor(q.events, u, u) = {}
  BY DEF EventsFor, Simply
<1>7. \A told \in BOOLEAN :
          MainMatch(pod, main, IF told THEN EventsFor(q.events, u, u) ELSE {}) =
             Matched(OwnTrouble(q, told, ""))
  BY <1>4, <1>5, <1>6
<1>8. pod.name = u /\ pod.uid = u /\ pod.node = n /\ Shows(pod, main)
  BY <1>1 DEF Bare
<1>9. /\ q.pod = pod /\ q.needs \in {"", "events"} /\ Own(q.apparent) /\ Own(q.otherwise)
      /\ \A e \in q.events : e.name = u
  BY DEF Simply
<1> QED
  BY <1>2, <1>7, <1>8, <1>9, PlainDescribed

\* A pod that is over.
LEMMA OverDescribed ==
  ASSUME NEW u, Usual(u), NEW n \in Nodes, NEW q \in Over(u, n)
  PROVE  Described(q, u, n)
<1>1. CASE q \in {Patient(p, {}, Trouble("PodEvicted", "", "Evicted")) :
                    p \in Shown(EvictedPod(u, n), Dead("Error", 137))}
  <2> DEFINE main == Dead("Error", 137)
             truth == Trouble("PodEvicted", "", "Evicted")
  <2>1. PICK pod \in Shown(EvictedPod(u, n), main) :
           q = Patient(pod, {}, truth)
    BY <1>1
  <2>2. Simply(q, pod, truth)
    BY <2>1, SimplyFields
  <2>3. Bare(pod, main, u, n, "Failed") /\ pod.reason = "Evicted"
    BY EvictedShown
  <2>4. AsksOfMain(q.pod)
    <3>1. Shows(pod, main) /\ q.pod = pod
      BY <2>2, <2>3 DEF Bare, Simply
    <3>2. Regular(main)
      BY DeadIsRegular
    <3> HIDE DEF main, truth
    <3> QED
      BY <3>1, <3>2, MainIsAsked
  <2>5. Own(truth) /\ truth # None
    BY DEF Own, Trouble, None
  <2>6. StuckTerminating(pod, Now) = {} /\ pod.claim = "" /\ ~ WaitingToStart(pod)
        /\ ~ pod.unschedulable
    BY <2>3 DEF Bare, StuckTerminating, When, WaitingToStart
  <2>7. Identified(q, u, n)
    <3>1. /\ q.pod.name = u /\ q.pod.uid = u /\ q.pod.node = n /\ q.needs \in {"", "events"}
          /\ \A e \in q.events : e.name = u
      BY <2>2, <2>3 DEF Bare, Simply
    <3> HIDE DEF truth
    <3> QED
      BY <2>2, <2>5, <2>6, <3>1, OwnIdentified DEF Simply
  <2>8. Judged(q)
    <3> SUFFICES ASSUME NEW known, NEW told \in BOOLEAN, Knows(known, q, told),
                        NodeNotReady(pod, known.node) = {}
                 PROVE  FirstMatch(podDetectors, pod, known) =
                          Matched(OwnTrouble(q, told, known.claim))
      BY <2>2 DEF Judged, Simply
    <3>1. OwnTrouble(q, told, known.claim) = truth
      BY <2>2 DEF OwnTrouble, Simply
    <3> DEFINE events == EventsFor(known.events, pod.name, pod.uid)
    <3>2. /\ StuckTerminating(pod, known.now) = {} /\ PVCPending(pod, known.claim) = {}
          /\ SandboxFailed(pod, events) = {} /\ VolumeMountFailed(pod, events) = {}
          /\ Unschedulable(pod) = {}
      <4>1. known.now = Now
        BY DEF Knows
      <4>2. \A reasons : StartupEvent(pod, events, reasons) = {}
        BY <2>6 DEF StartupEvent
      <4> QED
        BY <2>6, <4>1, <4>2 DEF PVCPending, SandboxFailed, VolumeMountFailed, Unschedulable, When
    <3>3. Evicted(pod) = {Cause("", "Evicted")}
      BY <2>3 DEF Evicted, When, Bare
    <3>4. Tagged("PodEvicted", {Cause("", "Evicted")}) = {truth}
      BY TaggedOne
    <3>5. Ladder(pod, known) = Tagged("PodEvicted", {Cause("", "Evicted")})
      <4> HIDE DEF events
      <4> QED
        BY <3>2, <3>3 DEF Ladder, events
    <3> QED
      BY <2>5, <3>1, <3>4, <3>5, LadderIsMatch DEF Matched
  <2> QED
    BY <2>4, <2>7, <2>8 DEF Described
<1>2. CASE q \in {Patient(p, {}, Trouble("ContainerFailed", "main", "exit")) :
                    p \in Shown(InPhase(u, n, "Failed"), Dead("Error", 1))}
  <2> DEFINE main == Dead("Error", 1)
             truth == Trouble("ContainerFailed", "main", "exit")
  <2>1. PICK pod \in Shown(InPhase(u, n, "Failed"), main) :
           q = Patient(pod, {}, truth)
    BY <1>2
  <2>2. Simply(q, pod, truth)
    BY <2>1, SimplyFields
  <2>3. Regular(main)
    BY DeadIsRegular
  <2>5. Own(truth) /\ truth # None
    BY DEF Own, Trouble, None
  <2>6. pod \in Shown(InPhase(u, n, "Failed"), main)
    OBVIOUS
  <2>7. pod.phase = "Failed"
    <3> HIDE DEF main
    <3>1. Bare(pod, main, u, n, "Failed")
      BY <2>6, BareShown
    <3> QED
      BY <3>1 DEF Bare
  <2>8. MainMatch(pod, main, {}) = {truth}
    BY <2>7, DeadMatch
  <2> HIDE DEF main, truth
  <2> QED
    BY <2>2, <2>3, <2>5, <2>6, <2>8, FailedDescribed
<1>3. CASE q \in {Patient(p, {}, Trouble("OOMKilled", "main", "OOMKilled")) :
                    p \in Shown(InPhase(u, n, "Failed"), Dead("OOMKilled", 137))}
  <2> DEFINE main == Dead("OOMKilled", 137)
             truth == Trouble("OOMKilled", "main", "OOMKilled")
  <2>1. PICK pod \in Shown(InPhase(u, n, "Failed"), main) :
           q = Patient(pod, {}, truth)
    BY <1>3
  <2>2. Simply(q, pod, truth)
    BY <2>1, SimplyFields
  <2>3. Regular(main)
    BY DeadIsRegular
  <2>5. Own(truth) /\ truth # None
    BY DEF Own, Trouble, None
  <2>6. pod \in Shown(InPhase(u, n, "Failed"), main)
    OBVIOUS
  <2>7. pod.phase = "Failed"
    <3> HIDE DEF main
    <3>1. Bare(pod, main, u, n, "Failed")
      BY <2>6, BareShown
    <3> QED
      BY <3>1 DEF Bare
  <2>8. MainMatch(pod, main, {}) = {truth}
    BY <2>7, DeadMatch
  <2> HIDE DEF main, truth
  <2> QED
    BY <2>2, <2>3, <2>5, <2>6, <2>8, FailedDescribed
<1> QED
  BY <1>1, <1>2, <1>3 DEF Over, EvictedPod, InPhase

\* A pod whose container was killed, and may linger.
Lingers(pod, u, n) ==
    /\ pod.name = u /\ pod.uid = u /\ pod.node = n /\ ~ pod.ready /\ pod.phase = "Running"
    /\ ~ pod.unschedulable /\ pod.claim = ""
    /\ Shows(pod, Dead("Error", 137))

\* Such is a pod on its way out.
LEMMA LeavingFields ==
  ASSUME NEW u, NEW n, NEW since, NEW kept
  PROVE  Lingers(Leaving(u, n, since, kept), u, n)
<1> DEFINE pod == Leaving(u, n, since, kept)
           main == Dead("Error", 137)
<1>1. /\ pod.name = u /\ pod.uid = u /\ pod.node = n /\ ~ pod.ready /\ pod.phase = "Running"
      /\ ~ pod.unschedulable /\ pod.claim = "" /\ pod.containers = <<main>>
  <2> HIDE DEF main
  <2> QED
    BY DEF Leaving, BarePod, main
<1> HIDE DEF pod, main
<1>2. Shows(pod, main)
  BY <1>1 DEF Shows
<1> QED
  BY <1>1, <1>2 DEF Lingers, pod, main

\* It is called stuck when finalizers hold it for twice its grace period, and the slack.
LEMMA LeavingIsStuck ==
  ASSUME NEW u, NEW n, NEW since \in Nat, NEW kept \in BOOLEAN
  PROVE  StuckTerminating(Leaving(u, n, since, kept), Now) =
            When(kept /\ since >= Grace + Grace + Slack, Cause("", "finalizers"))
<1> DEFINE pod == Leaving(u, n, since, kept)
<1>1. pod.deleting = TRUE /\ pod.finalizers = kept
  BY DEF Leaving, BarePod
<1>2. pod.deletion = (Now - since) + Grace /\ pod.grace = Grace
  BY DEF Leaving, BarePod
<1> HIDE DEF pod
<1>3. Now >= pod.deletion + pod.grace + Slack <=> since >= Grace + Grace + Slack
  BY <1>2, KubeletAssumption, SlackAssumption
<1> QED
  BY <1>1, <1>3 DEF StuckTerminating, When, pod

\* What is said of a pod whose container was killed, while it is not stuck.
LEMMA LingeringMatch ==
  ASSUME NEW pod, NEW u, NEW n, Lingers(pod, u, n)
  PROVE  /\ MainMatch(pod, Dead("Error", 137), {}) = {}
         /\ CrashLooping(pod) = {} /\ FailedContainer(pod) = {} /\ ~ WaitingToStart(pod)
<1> DEFINE main == Dead("Error", 137)
<1>1. MainMatch(pod, main, {}) = {}
  <2>1. pod.phase = "Running"
    BY DEF Lingers
  <2> QED
    BY <2>1, DeadMatch
<1>2. Regular(main) /\ main.name = "main" /\ main.state = "terminated"
  <2>1. Regular(main)
    BY DeadIsRegular
  <2>2. main.state = "terminated"
    BY DEF Dead, Status
  <2> QED
    BY <2>1, <2>2 DEF Regular
<1>3. ~ Restarting(pod, main)
  <2>1. main.restarts = 0
    BY DEF Dead, Status
  <2> QED
    BY <2>1 DEF Restarting
<1>4. Shows(pod, main) /\ pod.phase = "Running"
  BY DEF Lingers
<1> HIDE DEF main
<1>5. ~ Waits(main, {"CrashLoopBackOff"}) /\ pod.phase # "Failed" /\ ~ WaitingToStart(pod)
  BY <1>2, <1>4 DEF Waits, WaitingToStart
<1> QED
  BY <1>1, <1>2, <1>3, <1>4, <1>5, NoCrash DEF main

\* What a lingering pod is told.
Fades(q, pod, told) ==
    q.pod = pod /\ q.events = {} /\ q.apparent = told /\ q.needs = ""

\* The log that could be shown of it is that of its main container.
LEMMA LingeringAsks ==
  ASSUME NEW pod, NEW u, NEW n, Lingers(pod, u, n)
  PROVE  AsksOfMain(pod)
<1> DEFINE main == Dead("Error", 137)
<1>1. Regular(main)
  BY DeadIsRegular
<1>2. Shows(pod, main)
  BY DEF Lingers
<1> HIDE DEF main
<1> QED
  BY <1>1, <1>2, MainIsAsked

\* One whose deletion is not overdue is told nothing.
LEMMA LingeringDescribed ==
  ASSUME NEW u, NEW n, NEW pod, Lingers(pod, u, n), StuckTerminating(pod, Now) = {},
         NEW q, Fades(q, pod, None)
  PROVE  Described(q, u, n)
<1> DEFINE main == Dead("Error", 137)
<1>1. MainMatch(pod, main, {}) = {} /\ ~ WaitingToStart(pod)
  BY LingeringMatch
<1>2. Shows(pod, main) /\ pod.name = u /\ pod.uid = u /\ pod.node = n /\ pod.claim = ""
  BY DEF Lingers
<1>3. main.name = "main"
  BY DeadIsRegular DEF Regular
<1>4. Plain(pod)
  BY DEF Plain, Lingers
<1>5. AsksOfMain(q.pod)
  BY LingeringAsks DEF Fades
<1>6. Identified(q, u, n)
  <2>1. /\ q.pod = pod /\ q.events = {} /\ q.needs = "" /\ q.apparent = None
        /\ Said(q) = {None}
    BY DEF Fades, Said
  <2>2. None.signature \notin {"NodeNotReady", "PVCPending", "PodStuckTerminating"}
    BY DEF None
  <2>3. Tagged("PodStuckTerminating", StuckTerminating(pod, Now)) = {}
    BY TaggedOne
  <2> QED
    BY <1>2, <2>1, <2>2, <2>3 DEF Identified
<1>7. Judged(q)
  <2> SUFFICES ASSUME NEW known, NEW told \in BOOLEAN, Knows(known, q, told),
                      NodeNotReady(pod, known.node) = {}
               PROVE  FirstMatch(podDetectors, pod, known) =
                        Matched(OwnTrouble(q, told, known.claim))
    BY DEF Judged, Fades
  <2>1. OwnTrouble(q, told, known.claim) = None
    BY DEF OwnTrouble, Fades
  <2>2. EventsFor(known.events, pod.name, pod.uid) = {} /\ known.now = Now
    BY DEF Knows, Fades, EventsFor
  <2> HIDE DEF main
  <2>3. FirstMatch(podDetectors, pod, known) = MainMatch(pod, main, {})
    BY <1>2, <1>3, <1>4, <2>2, PlainMatch
  <2> QED
    BY <1>1, <2>1, <2>3 DEF Matched
<1> QED
  BY <1>5, <1>6, <1>7 DEF Described

\* One whose deletion is overdue is told that it is stuck.
LEMMA StuckDescribed ==
  ASSUME NEW u, NEW n, NEW pod, Lingers(pod, u, n),
         StuckTerminating(pod, Now) = {Cause("", "finalizers")},
         NEW q, Fades(q, pod, Trouble("PodStuckTerminating", "", "finalizers"))
  PROVE  Described(q, u, n)
<1> DEFINE told == Trouble("PodStuckTerminating", "", "finalizers")
<1>1. Tagged("PodStuckTerminating", StuckTerminating(pod, Now)) = {told}
  BY TaggedOne
<1>2. told.signature = "PodStuckTerminating" /\ told # None
  BY DEF Trouble, None
<1> HIDE DEF told
<1>4. q.pod = pod /\ q.apparent = told /\ q.needs = "" /\ q.events = {} /\ Said(q) = {told}
  BY DEF Fades, Said, told
<1>5. AsksOfMain(q.pod)
  BY <1>4, LingeringAsks
<1>6. Identified(q, u, n)
  BY <1>1, <1>2, <1>4 DEF Identified, Lingers
<1>7. Judged(q)
  <2> SUFFICES ASSUME NEW known, NEW heard \in BOOLEAN, Knows(known, q, heard),
                      NodeNotReady(pod, known.node) = {}
               PROVE  FirstMatch(podDetectors, pod, known) =
                        Matched(OwnTrouble(q, heard, known.claim))
    BY <1>4 DEF Judged
  <2>1. OwnTrouble(q, heard, known.claim) = told
    BY <1>4 DEF OwnTrouble
  <2>2. known.now = Now
    BY DEF Knows
  <2>3. StuckTerminating(pod, known.now) # {}
    BY <2>2
  <2>4. Ladder(pod, known) = {told}
    BY <1>1, <2>2, <2>3 DEF Ladder
  <2> QED
    BY <1>2, <2>1, <2>4, LadderIsMatch DEF Matched
<1> QED
  BY <1>5, <1>6, <1>7 DEF Described

\* A pod that is being deleted.
LEMMA DeletedDescribed ==
  ASSUME NEW u, Usual(u), NEW n \in Nodes, NEW q \in Deleted(u, n)
  PROVE  Described(q, u, n)
<1>1. PICK since \in 0 .. Now, kept \in BOOLEAN :
         q = [Patient(Leaving(u, n, since, kept), {}, HeldFor(since, kept, Grace + Slack))
                 EXCEPT !.apparent = HeldFor(since, kept, Grace + Grace + Slack)]
  BY DEF Deleted
<1> DEFINE pod == Leaving(u, n, since, kept)
           told == HeldFor(since, kept, Grace + Grace + Slack)
<1>2. Fades(q, pod, told)
  <2> HIDE DEF pod, told
  <2> QED
    BY <1>1 DEF Fades, Patient, pod, told
<1>3. Lingers(pod, u, n)
  BY LeavingFields
<1>4. since \in Nat
  BY KubeletAssumption
<1>5. StuckTerminating(pod, Now) = When(kept /\ since >= Grace + Grace + Slack, Cause("", "finalizers"))
  BY <1>4, LeavingIsStuck
<1> HIDE DEF pod
<1>6. CASE kept /\ since >= Grace + Grace + Slack
  <2>1. told = Trouble("PodStuckTerminating", "", "finalizers")
    BY <1>6 DEF HeldFor
  <2>2. StuckTerminating(pod, Now) = {Cause("", "finalizers")}
    BY <1>5, <1>6 DEF When
  <2> HIDE DEF told
  <2> QED
    BY <1>2, <1>3, <2>1, <2>2, StuckDescribed
<1>7. CASE ~ (kept /\ since >= Grace + Grace + Slack)
  <2>1. told = None
    BY <1>7 DEF HeldFor
  <2>2. StuckTerminating(pod, Now) = {}
    BY <1>5, <1>7 DEF When
  <2> HIDE DEF told
  <2> QED
    BY <1>2, <1>3, <2>1, <2>2, LingeringDescribed
<1> QED
  BY <1>6, <1>7

\* A pod that is Ready again, with a container that ended in that way before.
WellMain(death) == [Running EXCEPT !.last = death, !.restarts = 3]

WellPod(u, n, death) ==
    [BarePod(u, n) EXCEPT !.ready = TRUE, !.containers = <<WellMain(death)>>]

\* Its fields, and that its container is fine, but for a kill for its memory.
LEMMA WellFields ==
  ASSUME NEW u, NEW n, NEW death, death.reason \in {"StartError", "Error", "OOMKilled"}
  PROVE  LET pod  == WellPod(u, n, death)
             main == WellMain(death)
         IN  /\ pod.name = u /\ pod.uid = u /\ pod.node = n
             /\ Shows(pod, main) /\ Regular(main) /\ Plain(pod) /\ ~ WaitingToStart(pod)
             /\ \A events : MainMatch(pod, main, events) =
                   IF death.reason = "OOMKilled"
                   THEN {Trouble("OOMKilled", "main", "OOMKilled")} ELSE {}
<1> DEFINE pod == WellPod(u, n, death)
           main == WellMain(death)
<1>1. /\ pod.name = u /\ pod.uid = u /\ pod.node = n /\ pod.ready /\ pod.phase = "Running"
      /\ ~ pod.unschedulable /\ pod.claim = "" /\ ~ pod.deleting /\ pod.containers = <<main>>
  <2> HIDE DEF main
  <2> QED
    BY DEF WellPod, BarePod, main
<1>2. Regular(main) /\ main.state = "running" /\ main.last.reason = death.reason
  <2>1. main.last = death
    BY DEF Running, Status, WellMain
  <2>2. main.name = "main" /\ main.state = "running" /\ main.restarts = 3
    BY DEF Running, Status, WellMain
  <2> HIDE DEF main
  <2> QED
    BY <2>1, <2>2 DEF Regular
<1> HIDE DEF pod, main
<1>3. Shows(pod, main)
  BY <1>1 DEF Shows
<1>4. Plain(pod) /\ ~ WaitingToStart(pod) /\ pod.phase # "Failed"
  BY <1>1 DEF Plain, StuckTerminating, When, WaitingToStart
<1>5. ~ Restarting(pod, main)
  BY <1>1 DEF Restarting
<1>6. /\ ~ Ended(main, {"OOMKilled"}) /\ ~ Waits(main, {"CrashLoopBackOff"})
      /\ ~ Waits(main, {"CreateContainerConfigError"})
      /\ ~ Waits(main, {"ImagePullBackOff", "ErrImagePull"})
  BY <1>2 DEF Ended, Waits
<1>7. StartFailure(pod, main) = ""
  BY <1>1, <1>2 DEF StartFailure, Ended, Waits, startFailureReasons
<1>9. \A events : Tagged("ProbeFailing", ProbeFailing(pod, events)) = {}
  BY <1>1, TaggedOne DEF ProbeFailing
<1>10. \A events : MainMatch(pod, main, events) =
          IF death.reason = "OOMKilled" THEN {Trouble("OOMKilled", "main", "OOMKilled")} ELSE {}
  BY <1>2, <1>4, <1>5, <1>6, <1>7, <1>9 DEF MainMatch
<1> QED
  BY <1>1, <1>2, <1>3, <1>4, <1>10 DEF pod, main

\* A pod that is well again, or was killed for its memory before.
LEMMA RecoveredDescribed ==
  ASSUME NEW u, Usual(u), NEW n \in Nodes, NEW q \in Recovered(u, n)
  PROVE  Described(q, u, n)
<1> DEFINE e == Unhealthy(u, "readiness", 1, 1, 0)
           killed == Trouble("OOMKilled", "main", "OOMKilled")
           Truth(d) == IF d.reason = "OOMKilled" THEN killed ELSE None
<1>1. PICK death \in {Termination("StartError", 128), Termination("Error", 1),
                      Termination("OOMKilled", 137)} :
         q = Patient(WellPod(u, n, death), {e}, Truth(death))
  BY DEF Recovered, WellPod, WellMain
<1>2. death.reason \in {"StartError", "Error", "OOMKilled"}
  <2>1. Termination("StartError", 128).reason = "StartError"
    BY DEF Termination
  <2>2. Termination("Error", 1).reason = "Error"
    BY DEF Termination
  <2>3. Termination("OOMKilled", 137).reason = "OOMKilled"
    BY DEF Termination
  <2> QED
    BY <2>1, <2>2, <2>3
<1> DEFINE pod == WellPod(u, n, death)
           main == WellMain(death)
           truth == Truth(death)
<1>3. /\ pod.name = u /\ pod.uid = u /\ pod.node = n
      /\ Shows(pod, main) /\ Regular(main) /\ Plain(pod) /\ ~ WaitingToStart(pod)
      /\ \A events : MainMatch(pod, main, events) =
            IF death.reason = "OOMKilled" THEN {killed} ELSE {}
  <2> HIDE DEF e
  <2> QED
    BY <1>2, WellFields
<1>4. e.name = u
  BY UnhealthyFields
<1>6. Own(truth) /\ Matched(truth) = IF death.reason = "OOMKilled" THEN {killed} ELSE {}
  BY DEF Own, Trouble, None, Matched
<1> HIDE DEF pod, main, e, truth
<1>5. /\ q.pod = pod /\ q.events = {e} /\ q.apparent = truth /\ q.otherwise = truth /\ q.needs = ""
  BY <1>1 DEF Patient, pod, truth
<1>7. \A told : OwnTrouble(q, told, "") = truth
  BY <1>5 DEF OwnTrouble
<1>9. \A f \in q.events : f.name = u
  BY <1>4, <1>5
<1>10. \A told \in BOOLEAN :
          MainMatch(pod, main, IF told THEN EventsFor(q.events, u, u) ELSE {}) =
             Matched(OwnTrouble(q, told, ""))
  BY <1>3, <1>6, <1>7
<1>11. q.needs \in {"", "events"} /\ Own(q.apparent) /\ Own(q.otherwise)
  BY <1>5, <1>6
<1> QED
  BY <1>3, <1>5, <1>9, <1>10, <1>11, PlainDescribed

\* A pod without a node.
Unplaced(pod, u) ==
    /\ pod.name = u /\ pod.uid = u /\ pod.node = "" /\ ~ pod.ready /\ pod.phase = "Pending"
    /\ pod.unschedulable /\ ~ pod.deleting /\ pod.containers = <<>>

\* The scheduler's word for it is the only one, but for a claim.
LEMMA UnplacedMatch ==
  ASSUME NEW pod, NEW u, Unplaced(pod, u), NEW known
  PROVE  /\ AsksOfMain(pod)
         /\ StuckTerminating(pod, Now) = {}
         /\ known.now = Now =>
              FirstMatch(podDetectors, pod, known) =
                IF pod.claim # "" /\ known.claim = "Pending"
                THEN {Trouble("PVCPending", pod.claim, "Pending")}
                ELSE {Trouble("PodUnschedulable", "", "Unschedulable")}
<1>1. AsksOfMain(pod)
  <2>1. FirstContainer(pod, {}) = {}
    BY DEF FirstContainer
  <2>2. DOMAIN pod.containers = {}
    <3>1. pod.containers = <<>>
      BY DEF Unplaced
    <3>2. DOMAIN <<>> = {}
      OBVIOUS
    <3> QED
      BY <3>1, <3>2
  <2>3. {j \in {} : Waits(pod.containers[j], {"CrashLoopBackOff"}) \/ Restarting(pod, pod.containers[j])} = {}
    OBVIOUS
  <2>4. CrashLooping(pod) = {}
    BY <2>1, <2>2, <2>3 DEF CrashLooping
  <2>5. pod.phase # "Failed"
    BY DEF Unplaced
  <2>6. FailedContainer(pod) = {}
    BY <2>5 DEF FailedContainer
  <2>7. Instant(pod) = [state |-> "waiting", restarts |-> 0]
    BY DEF Unplaced, Instant
  <2>8. Instant(pod) \in Instants
    BY <2>7 DEF Instants
  <2> QED
    BY <2>4, <2>6, <2>8 DEF AsksOfMain
<1>2. StuckTerminating(pod, Now) = {}
  BY DEF Unplaced, StuckTerminating, When
<1>3. ASSUME known.now = Now
      PROVE  FirstMatch(podDetectors, pod, known) =
                IF pod.claim # "" /\ known.claim = "Pending"
                THEN {Trouble("PVCPending", pod.claim, "Pending")}
                ELSE {Trouble("PodUnschedulable", "", "Unschedulable")}
  <2> DEFINE events == EventsFor(known.events, pod.name, pod.uid)
  <2>1. NodeNotReady(pod, known.node) = {}
    BY DEF NodeNotReady, Unplaced, When
  <2>2. StuckTerminating(pod, known.now) = {}
    BY <1>2, <1>3
  <2>3. SandboxFailed(pod, events) = {} /\ VolumeMountFailed(pod, events) = {}
    <3>1. ~ WaitingToStart(pod)
      BY DEF WaitingToStart, Unplaced
    <3>2. \A reasons : StartupEvent(pod, events, reasons) = {}
      BY <3>1 DEF StartupEvent
    <3> QED
      BY <3>2 DEF SandboxFailed, VolumeMountFailed
  <2>4. Unschedulable(pod) = {Cause("", "Unschedulable")}
    BY DEF Unschedulable, Unplaced, When
  <2>5. PVCPending(pod, known.claim) =
          When(pod.claim # "" /\ known.claim = "Pending", Cause(pod.claim, "Pending"))
    BY DEF PVCPending
  <2>6. /\ Tagged("PVCPending", {Cause(pod.claim, "Pending")}) =
              {Trouble("PVCPending", pod.claim, "Pending")}
        /\ Tagged("PodUnschedulable", {Cause("", "Unschedulable")}) =
              {Trouble("PodUnschedulable", "", "Unschedulable")}
    BY TaggedOne
  <2> HIDE DEF events
  <2>7. CASE pod.claim # "" /\ known.claim = "Pending"
    <3>1. PVCPending(pod, known.claim) = {Cause(pod.claim, "Pending")}
      BY <2>5, <2>7 DEF When
    <3>2. Ladder(pod, known) = Tagged("PVCPending", {Cause(pod.claim, "Pending")})
      BY <2>1, <2>2, <3>1 DEF Ladder
    <3> QED
      BY <2>6, <2>7, <3>2, LadderIsMatch
  <2>8. CASE ~ (pod.claim # "" /\ known.claim = "Pending")
    <3>1. PVCPending(pod, known.claim) = {}
      BY <2>5, <2>8 DEF When
    <3>2. Ladder(pod, known) = Tagged("PodUnschedulable", {Cause("", "Unschedulable")})
      BY <2>1, <2>2, <2>3, <2>4, <3>1 DEF Ladder, events
    <3> QED
      BY <2>6, <2>8, <3>2, LadderIsMatch
  <2> QED
    BY <2>7, <2>8
<1> QED
  BY <1>1, <1>2, <1>3

\* A pod that cannot be placed, perhaps for its claim.
LEMMA NotPlacedDescribed ==
  ASSUME NEW u, Usual(u), NEW n \in Nodes, NEW q \in NotPlaced(u)
  PROVE  Described(q, u, n)
<1> DEFINE pod == [BarePod(u, "") EXCEPT !.phase = "Pending", !.unschedulable = TRUE]
           bound == [pod EXCEPT !.claim = "c1"]
           unplaced == Trouble("PodUnschedulable", "", "Unschedulable")
           pending == Trouble("PVCPending", "c1", "Pending")
<1>1. Unplaced(pod, u) /\ pod.claim = ""
  BY DEF BarePod, Unplaced
<1>2. Unplaced(bound, u) /\ bound.claim = "c1"
  BY DEF BarePod, Unplaced
<1>3. \/ q = Patient(pod, {}, unplaced)
      \/ q = [Patient(bound, {}, pending) EXCEPT !.needs = "claims", !.otherwise = unplaced]
  BY DEF NotPlaced
<1>4. unplaced # None /\ pending # None /\ unplaced # pending /\ Own(unplaced)
      /\ pending.signature = "PVCPending" /\ unplaced.signature = "PodUnschedulable"
  BY DEF Trouble, None, Own
<1>5. Tagged("PodStuckTerminating", {}) = {}
  BY TaggedOne
<1> HIDE DEF pod, bound, unplaced
<1>6. CASE q = Patient(pod, {}, unplaced)
  <2>1. Simply(q, pod, unplaced)
    BY <1>6, SimplyFields
  <2>2. AsksOfMain(q.pod)
    BY <1>1, <2>1, UnplacedMatch DEF Simply
  <2>3. Identified(q, u, n)
    <3>1. StuckTerminating(pod, Now) = {}
      BY <1>1, UnplacedMatch
    <3> QED
      BY <1>1, <1>4, <1>5, <2>1, <3>1 DEF Identified, Simply, Unplaced, Own, Said
  <2>4. Judged(q)
    <3> SUFFICES ASSUME NEW known, NEW told \in BOOLEAN, Knows(known, q, told)
                 PROVE  FirstMatch(podDetectors, pod, known) =
                          Matched(OwnTrouble(q, told, known.claim))
      BY <2>1 DEF Judged, Simply
    <3>1. FirstMatch(podDetectors, pod, known) = {unplaced}
      BY <1>1, UnplacedMatch DEF Knows, unplaced
    <3>2. OwnTrouble(q, told, known.claim) = unplaced
      BY <2>1 DEF OwnTrouble, Simply
    <3> QED
      BY <1>4, <3>1, <3>2 DEF Matched
  <2> QED
    BY <2>2, <2>3, <2>4 DEF Described
<1>7. CASE q = [Patient(bound, {}, pending) EXCEPT !.needs = "claims", !.otherwise = unplaced]
  <2>1. /\ q.pod = bound /\ q.events = {} /\ q.truth = pending /\ q.needs = "claims"
        /\ q.otherwise = unplaced /\ q.apparent = pending
    <3> HIDE DEF pending
    <3> QED
      BY <1>7 DEF Patient
  <2>2. AsksOfMain(q.pod)
    BY <1>2, <2>1, UnplacedMatch
  <2>3. Identified(q, u, n)
    <3>1. StuckTerminating(bound, Now) = {}
      BY <1>2, UnplacedMatch
    <3>2. q.pod.name = u /\ q.pod.uid = u /\ q.pod.node = "" /\ q.pod.claim = "c1"
      BY <1>2, <2>1 DEF Unplaced
    <3> QED
      BY <1>4, <1>5, <2>1, <3>1, <3>2 DEF Identified, Said
  <2>4. Judged(q)
    <3> SUFFICES ASSUME NEW known, NEW told \in BOOLEAN, Knows(known, q, told)
                 PROVE  FirstMatch(podDetectors, bound, known) =
                          Matched(OwnTrouble(q, told, known.claim))
      BY <2>1 DEF Judged
    <3>1. FirstMatch(podDetectors, bound, known) =
             IF known.claim = "Pending" THEN {pending} ELSE {unplaced}
      BY <1>2, UnplacedMatch DEF Knows, unplaced
    <3>2. OwnTrouble(q, told, known.claim) =
             IF known.claim = "Pending" THEN pending ELSE unplaced
      BY <2>1 DEF OwnTrouble
    <3> HIDE DEF pending
    <3> QED
      BY <1>4, <3>1, <3>2 DEF Matched
  <2> QED
    BY <2>2, <2>3, <2>4 DEF Described
<1> QED
  BY <1>3, <1>6, <1>7

\* Whoever Kubelet describes, the diagnosis does.
LEMMA PatientDescribed ==
  ASSUME NEW u, Usual(u), NEW n \in Nodes, NEW q \in Patients(u, n)
  PROVE  Described(q, u, n)
BY CrashingDescribed, OutOfMemoryDescribed, NotStartingDescribed, UnlivelyDescribed, HeldDescribed,
   NotCreatedDescribed, NotPlacedDescribed, NotReadyDescribed, OverDescribed, DeletedDescribed,
   RecoveredDescribed
   DEF Patients

----------------------------------------------------------------------------
(* The pods of a diagnosis *)

\* They have names of their own, and are in a trouble that Kubelet describes.
LEMMA SickFacts ==
  ASSUME target \in Cases
  PROVE  /\ Sick \in Seq(ToSet(Sick)) /\ DOMAIN Sick = 1 .. Len(Sick) /\ Len(Sick) \in Nat
         /\ \A u \in DOMAIN Sick :
               /\ Usual(Sick[u].pod.name)
               /\ \E n \in Nodes : Described(Sick[u], Sick[u].pod.name, n)
         /\ \A u, v \in DOMAIN Sick : Sick[u].pod.name = Sick[v].pod.name => u = v
<1>1. /\ target.current \in Seq(ToSet(target.current)) /\ target.old \in Seq(ToSet(target.old))
      /\ \A q \in ToSet(Sick) :
            /\ q.pod.name \notin {"", "before"}
            /\ \E n \in Nodes : q \in Patients(q.pod.name, n)
      /\ \A u, v \in DOMAIN Sick : Sick[u].pod.name = Sick[v].pod.name => u = v
  BY CasesAssumption DEF Sick
<1>2. Sick \in Seq(ToSet(target.current) \union ToSet(target.old))
  <2> DEFINE S == ToSet(target.current) \union ToSet(target.old)
  <2>1. target.current \in Seq(S) /\ target.old \in Seq(S)
    <3>1. ToSet(target.current) \subseteq S /\ ToSet(target.old) \subseteq S
      OBVIOUS
    <3> HIDE DEF S
    <3> QED
      BY <1>1, <3>1, SeqWiden
  <2> HIDE DEF S
  <2>2. Sick \in Seq(S)
    BY <2>1 DEF Sick
  <2> QED
    BY <2>2 DEF S
<1>3. DOMAIN Sick = 1 .. Len(Sick) /\ Len(Sick) \in Nat
  BY <1>2
<1>4. Sick \in Seq(ToSet(Sick))
  <2>1. \A u \in 1 .. Len(Sick) : Sick[u] \in ToSet(Sick)
    BY <1>3 DEF ToSet
  <2> QED
    BY <1>2, <2>1
<1>5. ASSUME NEW u \in DOMAIN Sick
      PROVE  /\ Usual(Sick[u].pod.name)
             /\ \E n \in Nodes : Described(Sick[u], Sick[u].pod.name, n)
  <2>1. Sick[u] \in ToSet(Sick)
    BY DEF ToSet
  <2>2. Usual(Sick[u].pod.name)
    BY <1>1, <2>1 DEF Usual
  <2>3. \E n \in Nodes : Sick[u] \in Patients(Sick[u].pod.name, n)
    BY <1>1, <2>1
  <2> QED
    BY <2>2, <2>3, PatientDescribed
<1> QED
  BY <1>1, <1>3, <1>4, <1>5

\* No two pods have events in common.
LEMMA ToldEvents ==
  ASSUME target \in Cases, NEW u \in DOMAIN Sick
  PROVE  LET q == Sick[u]
             told == UNION {Sick[v].events : v \in DOMAIN Sick}
         IN  EventsFor(told, q.pod.name, q.pod.uid) = EventsFor(q.events, q.pod.name, q.pod.uid)
<1> DEFINE q == Sick[u]
           told == UNION {Sick[v].events : v \in DOMAIN Sick}
<1>1. q.events \subseteq told
  OBVIOUS
<1>2. ASSUME NEW e \in told, e.name = q.pod.name
      PROVE  e \in q.events
  <2>1. PICK v \in DOMAIN Sick : e \in Sick[v].events
    BY <1>2
  <2>2. e.name = Sick[v].pod.name
    BY <2>1, SickFacts DEF Described, Identified
  <2>3. v = u
    BY <1>2, <2>2, SickFacts
  <2> QED
    BY <2>1, <2>3
<1> HIDE DEF told, q
<1>3. EventsFor(told, q.pod.name, q.pod.uid) = EventsFor(q.events, q.pod.name, q.pod.uid)
  BY <1>1, <1>2 DEF EventsFor
<1> QED
  BY <1>3 DEF told, q

\* What a diagnosis finds of a pod, by what it knows of its node and claim.
Found(u, node, claim) ==
    IF NodeNotReady(Sick[u].pod, node) # {} THEN {Trouble("NodeNotReady", Sick[u].pod.node, node)}
    ELSE IF IsCurrent(u) THEN Matched(OwnTrouble(Sick[u], listed, claim))
    ELSE IF Sick[u].apparent.signature = "PodStuckTerminating" THEN {Sick[u].apparent} ELSE {}

\* A dead node outranks everything, in both lists of detectors.
LEMMA DeadNodeFirst ==
  ASSUME NEW pod, NEW known, NodeNotReady(pod, known.node) # {}
  PROVE  /\ FirstMatch(podDetectors, pod, known) = {Trouble("NodeNotReady", pod.node, known.node)}
         /\ FirstMatch(oldPodDetectors, pod, known) = {Trouble("NodeNotReady", pod.node, known.node)}
<1>1. NodeNotReady(pod, known.node) = {Cause(pod.node, known.node)}
  BY DEF NodeNotReady, When
<1>2. Tagged("NodeNotReady", {Cause(pod.node, known.node)}) =
        {Trouble("NodeNotReady", pod.node, known.node)}
  BY TaggedOne
<1>3. Ladder(pod, known) = Tagged("NodeNotReady", NodeNotReady(pod, known.node))
  BY DEF Ladder
<1>4. /\ DOMAIN oldPodDetectors = 1 .. 2 /\ oldPodDetectors[1] = "NodeNotReady"
      /\ Detect(oldPodDetectors[1], pod, known) = NodeNotReady(pod, known.node)
  BY DEF oldPodDetectors, Detect
<1>5. FirstMatch(oldPodDetectors, pod, known) = Tagged("NodeNotReady", NodeNotReady(pod, known.node))
  <2>1. 1 \in 1 .. 2 /\ \A j \in 1 .. 2 : ~ j < 1
    OBVIOUS
  <2> DEFINE D(i) == Detect(oldPodDetectors[i], pod, known)
             M == FirstMatch(oldPodDetectors, pod, known)
  <2>2. \A i \in 1 .. 2 : D(i) # {} /\ (\A j \in 1 .. 2 : j < i => D(j) = {})
           => M = Tagged(oldPodDetectors[i], D(i))
    <3>1. DOMAIN oldPodDetectors = 1 .. 2
      BY DEF oldPodDetectors
    <3> QED
      BY <3>1, FirstOf
  <2>3. D(1) # {} /\ Tagged(oldPodDetectors[1], D(1)) = Tagged("NodeNotReady", NodeNotReady(pod, known.node))
    BY <1>4
  <2> HIDE DEF D, M
  <2>4. M = Tagged(oldPodDetectors[1], D(1))
    BY <2>1, <2>2, <2>3
  <2> QED
    BY <2>3, <2>4 DEF M
<1> QED
  BY <1>1, <1>2, <1>3, <1>5, LadderIsMatch

\* A pod of an old revision is only asked whether it is stuck, else.
LEMMA OldMatch ==
  ASSUME NEW pod, NEW known, NodeNotReady(pod, known.node) = {}
  PROVE  FirstMatch(oldPodDetectors, pod, known) =
           Tagged("PodStuckTerminating", StuckTerminating(pod, known.now))
<1>1. DOMAIN oldPodDetectors = 1 .. 2
  BY DEF oldPodDetectors
<1>2. /\ oldPodDetectors[1] = "NodeNotReady" /\ oldPodDetectors[2] = "PodStuckTerminating"
  BY DEF oldPodDetectors
<1>3. Detect(oldPodDetectors[1], pod, known) = {}
  BY <1>2 DEF Detect
<1>4. Detect(oldPodDetectors[2], pod, known) = StuckTerminating(pod, known.now)
  BY <1>2 DEF Detect
<1> DEFINE D(i) == Detect(oldPodDetectors[i], pod, known)
           M == FirstMatch(oldPodDetectors, pod, known)
<1>5. /\ \A i \in 1 .. 2 : D(i) # {} /\ (\A j \in 1 .. 2 : j < i => D(j) = {})
            => M = Tagged(oldPodDetectors[i], D(i))
      /\ (\A i \in 1 .. 2 : D(i) = {}) => M = {}
  BY <1>1, FirstOf
<1>6. D(1) = {} /\ D(2) = StuckTerminating(pod, known.now)
  BY <1>3, <1>4
<1> HIDE DEF D, M
<1>7. 2 \in 1 .. 2 /\ (\A j \in 1 .. 2 : j < 2 => j = 1) /\ (\A i \in 1 .. 2 : i = 1 \/ i = 2)
  OBVIOUS
<1>8. Tagged("PodStuckTerminating", {}) = {}
  BY TaggedOne
<1>9. M = Tagged("PodStuckTerminating", StuckTerminating(pod, known.now))
  BY <1>2, <1>5, <1>6, <1>7, <1>8
<1> QED
  BY <1>9 DEF M

\* So the detectors of a pod find that.
LEMMA PodMatch ==
  ASSUME target \in Cases, listed \in BOOLEAN, NEW u \in DOMAIN Sick, NEW node, NEW claim
  PROVE  LET detectors == IF IsCurrent(u) THEN podDetectors ELSE oldPodDetectors
             told == IF listed THEN UNION {Sick[v].events : v \in DOMAIN Sick} ELSE {}
         IN  FirstMatch(detectors, Sick[u].pod,
                        [node |-> node, claim |-> claim, events |-> told, now |-> Now]) =
               Found(u, node, claim)
<1> DEFINE q == Sick[u]
           told == IF listed THEN UNION {Sick[v].events : v \in DOMAIN Sick} ELSE {}
           known == [node |-> node, claim |-> claim, events |-> told, now |-> Now]
<1>1. PICK n \in Nodes : Described(q, q.pod.name, n)
  BY SickFacts
<1>2. known.node = node /\ known.claim = claim /\ known.now = Now /\ known.events = told
  OBVIOUS
<1>3. Knows(known, q, listed)
  <2>1. EventsFor({}, q.pod.name, q.pod.uid) = {}
    BY DEF EventsFor
  <2> QED
    BY <1>2, <2>1, ToldEvents DEF Knows
<1> HIDE DEF known, told, q
<1> DEFINE match == FirstMatch(IF IsCurrent(u) THEN podDetectors ELSE oldPodDetectors, q.pod, known)
<1>4. ASSUME NodeNotReady(q.pod, node) # {}
      PROVE  match = Found(u, node, claim)
  <2>1. match = {Trouble("NodeNotReady", q.pod.node, node)}
    BY <1>2, <1>4, DeadNodeFirst
  <2> HIDE DEF match
  <2> QED
    BY <1>4, <2>1 DEF Found, q
<1>5. ASSUME NodeNotReady(q.pod, node) = {}, IsCurrent(u)
      PROVE  match = Found(u, node, claim)
  <2>1. match = Matched(OwnTrouble(q, listed, claim))
    BY <1>1, <1>2, <1>3, <1>5 DEF Described, Judged
  <2> HIDE DEF match
  <2> QED
    BY <1>5, <2>1 DEF Found, q
<1>6. ASSUME NodeNotReady(q.pod, node) = {}, ~ IsCurrent(u)
      PROVE  match = Found(u, node, claim)
  <2>1. match =
          Tagged("PodStuckTerminating", StuckTerminating(q.pod, Now))
    BY <1>2, <1>6, OldMatch
  <2>2. match =
          IF q.apparent.signature = "PodStuckTerminating" THEN {q.apparent} ELSE {}
    BY <1>1, <2>1 DEF Described, Identified
  <2> HIDE DEF match
  <2> QED
    BY <1>6, <2>2 DEF Found, q
<1>7. match = Found(u, node, claim)
  <2> HIDE DEF match
  <2> QED
    BY <1>4, <1>5, <1>6
<1> QED
  BY <1>7 DEF known, told, q

----------------------------------------------------------------------------
(* Reads *)

\* What is cached was true at some instant since the first pod had its turn, and
\* what could not be read is excused.
ReadsOK(r) ==
    /\ r = [cache |-> r.cache, denied |-> r.denied, degraded |-> r.degraded, failed |-> r.failed]
    /\ DOMAIN r.cache = Names
    /\ \A n \in Names :
          /\ r.cache[n] \in Conditions(n) \union {"unread", ""}
          /\ r.cache[n] \in Conditions(n) => <<n, r.cache[n]>> \in held
          /\ r.cache[n] = "" => Resource(n) \in r.degraded \/ n \in r.failed
    /\ r.denied \subseteq r.degraded /\ r.denied \subseteq {"nodes", "claims", "logs"}

\* Reading on, nothing that was read is read again, and no excuse is taken back.
ReadsOn(r, s) ==
    /\ r.denied \subseteq s.denied /\ r.degraded \subseteq s.degraded /\ r.failed \subseteq s.failed
    /\ s.degraded \ r.degraded \subseteq {"nodes", "claims", "logs"}
    /\ \A n \in Names : r.cache[n] # "unread" => s.cache[n] = r.cache[n]

\* What a name that was asked for is known to be.
Asked(r, name) ==
    name # "" => /\ Resource(name) \notin r.denied => r.cache[name] # "unread"
                 /\ Got(r, name) = (IF Resource(name) \in r.denied THEN "" ELSE r.cache[name])

\* Resources, and the words of the cache.
LEMMA Resources ==
  ASSUME NEW n
  PROVE  /\ Resource(n) \in {"nodes", "claims", "logs"}
         /\ "unread" \notin Conditions(n) /\ "" \notin Conditions(n)
BY DEF Resource, Conditions

\* One read.
LEMMA GetFacts ==
  ASSUME NEW r, ReadsOK(r), \A n \in Names : world[n] \in Conditions(n) /\ <<n, world[n]>> \in held,
         NEW name \in Names \union {""}, NEW answer \in AnswersIf(Fresh(r, name))
  PROVE  LET s == Get(r, name, answer)
         IN  ReadsOK(s) /\ ReadsOn(r, s) /\ Asked(s, name)
<1> DEFINE s == Get(r, name, answer)
<1>1. CASE ~ Fresh(r, name)
  <2>1. s = r
    BY <1>1 DEF Get
  <2>2. ReadsOn(r, r)
    BY DEF ReadsOn
  <2>3. Asked(r, name)
    BY <1>1 DEF Asked, Fresh, Got
  <2> QED
    BY <2>1, <2>2, <2>3
<1>2. CASE Fresh(r, name)
  <2>1. /\ name \in Names /\ name # "" /\ Resource(name) \notin r.denied
        /\ r.cache[name] = "unread"
    BY <1>2 DEF Fresh, Names
  <2>2. Resource(name) \in {"nodes", "claims", "logs"} /\ "unread" \notin Conditions(name)
        /\ "" \notin Conditions(name)
    BY Resources
  <2>3. CASE answer = "ok"
    <3>1. s = [r EXCEPT !.cache[name] = world[name]]
      BY <1>2, <2>3 DEF Get
    <3>2. /\ s.denied = r.denied /\ s.degraded = r.degraded /\ s.failed = r.failed
          /\ s.cache = [r.cache EXCEPT ![name] = world[name]]
          /\ s = [cache |-> s.cache, denied |-> s.denied, degraded |-> s.degraded, failed |-> s.failed]
      BY <3>1 DEF ReadsOK
    <3>3. DOMAIN s.cache = Names /\ s.cache[name] = world[name]
          /\ \A n \in Names : n # name => s.cache[n] = r.cache[n]
      BY <2>1, <3>2 DEF ReadsOK
    <3> HIDE DEF s
    <3>4. ReadsOK(s)
      <4>1. world[name] \in Conditions(name) /\ <<name, world[name]>> \in held
        BY <2>1
      <4>2. ASSUME NEW n \in Names
            PROVE  /\ s.cache[n] \in Conditions(n) \union {"unread", ""}
                   /\ s.cache[n] \in Conditions(n) => <<n, s.cache[n]>> \in held
                   /\ s.cache[n] = "" => Resource(n) \in s.degraded \/ n \in s.failed
        <5>1. CASE n = name
          BY <2>2, <3>3, <4>1, <5>1
        <5>2. CASE n # name
          <6>1. s.cache[n] = r.cache[n]
            BY <3>3, <5>2
          <6> QED
            BY <3>2, <6>1 DEF ReadsOK
        <5> QED
          BY <5>1, <5>2
      <4> QED
        BY <3>2, <3>3, <4>2 DEF ReadsOK
    <3>5. ReadsOn(r, s)
      BY <2>1, <3>2, <3>3 DEF ReadsOn
    <3>6. Asked(s, name)
      BY <2>1, <2>2, <3>2, <3>3, Resources DEF Asked, Got
    <3> QED
      BY <3>4, <3>5, <3>6 DEF s
  <2>4. CASE answer = "denied"
    <3> DEFINE t == [r EXCEPT !.cache[name] = ""]
    <3>0. t = [r EXCEPT !.cache[name] = ""]
      OBVIOUS
    <3>1. s = Denied(t, Resource(name))
      BY <1>2, <2>4 DEF Get
    <3> HIDE DEF t, s
    <3>2. /\ t.denied = r.denied /\ t.degraded = r.degraded /\ t.failed = r.failed
          /\ t.cache = [r.cache EXCEPT ![name] = ""]
          /\ t = [cache |-> t.cache, denied |-> t.denied, degraded |-> t.degraded, failed |-> t.failed]
      BY <3>0 DEF ReadsOK
    <3>3. /\ s.denied = r.denied \union {Resource(name)}
          /\ s.degraded = r.degraded \union {Resource(name)} /\ s.failed = r.failed
          /\ s.cache = t.cache
          /\ s = [cache |-> s.cache, denied |-> s.denied, degraded |-> s.degraded, failed |-> s.failed]
      BY <3>1, <3>2 DEF Denied
    <3>4. DOMAIN s.cache = Names /\ s.cache[name] = ""
          /\ \A n \in Names : n # name => s.cache[n] = r.cache[n]
      <4>1. DOMAIN r.cache = Names
        BY DEF ReadsOK
      <4>2. s.cache = [r.cache EXCEPT ![name] = ""]
        BY <3>2, <3>3
      <4> QED
        BY <2>1, <4>1, <4>2
    <3> HIDE DEF s
    <3>5. ReadsOK(s)
      BY <2>1, <2>2, <3>3, <3>4 DEF ReadsOK
    <3>6. ReadsOn(r, s)
      BY <2>1, <2>2, <3>3, <3>4 DEF ReadsOn
    <3>7. Asked(s, name)
      BY <2>1, <2>2, <3>3, <3>4 DEF Asked, Got
    <3> QED
      BY <3>5, <3>6, <3>7 DEF s
  <2>5. CASE answer = "error"
    <3>1. s = [r EXCEPT !.cache[name] = "", !.failed = @ \union {name}]
      BY <1>2, <2>5 DEF Get
    <3>2. /\ s.denied = r.denied /\ s.degraded = r.degraded /\ s.failed = r.failed \union {name}
          /\ s.cache = [r.cache EXCEPT ![name] = ""]
          /\ s = [cache |-> s.cache, denied |-> s.denied, degraded |-> s.degraded, failed |-> s.failed]
      BY <3>1 DEF ReadsOK
    <3>3. DOMAIN s.cache = Names /\ s.cache[name] = ""
          /\ \A n \in Names : n # name => s.cache[n] = r.cache[n]
      BY <2>1, <3>2 DEF ReadsOK
    <3> HIDE DEF s
    <3>4. ReadsOK(s)
      BY <2>1, <2>2, <3>2, <3>3 DEF ReadsOK
    <3>5. ReadsOn(r, s)
      BY <2>1, <3>2, <3>3 DEF ReadsOn
    <3>6. Asked(s, name)
      BY <2>1, <2>2, <3>2, <3>3 DEF Asked, Got
    <3> QED
      BY <3>4, <3>5, <3>6 DEF s
  <2> QED
    BY <1>2, <2>3, <2>4, <2>5 DEF AnswersIf, Answers
<1> QED
  BY <1>1, <1>2

\* What is known of a name that was asked for was true, or is excused.
LEMMA AskedIsTrue ==
  ASSUME NEW r, ReadsOK(r), NEW name \in Names, name # "", Asked(r, name)
  PROVE  /\ Got(r, name) \in Conditions(name) \union {""}
         /\ Got(r, name) \in Conditions(name) => <<name, Got(r, name)>> \in held
         /\ Got(r, name) = "" => Resource(name) \in r.degraded \/ name \in r.failed
<1>1. "" \notin Conditions(name)
  BY Resources
<1> QED
  BY <1>1 DEF ReadsOK, Asked

\* And it stays known when something else is read.
LEMMA AskedStays ==
  ASSUME NEW r, NEW s, ReadsOK(r), ReadsOK(s), ReadsOn(r, s), NEW name \in Names, Asked(r, name)
  PROVE  Asked(s, name)
BY DEF ReadsOn, Asked, Got

\* The log of a crash.
LEMMA GetLogFacts ==
  ASSUME NEW r, ReadsOK(r), NEW u, NEW answer \in AnswersIf("logs" \notin r.denied)
  PROVE  LET s == GetLog(r, u, answer)
         IN  /\ ReadsOK(s) /\ ReadsOn(r, s)
             /\ s.cache = r.cache
             /\ \A c, now :
                   \/ GotLog(r, c, now, answer) = LogOf(now, ReadsPrevious(c))
                   \/ GotLog(r, c, now, answer) = NoLog /\ ("logs" \in s.degraded \/ u \in s.failed)
<1> DEFINE s == GetLog(r, u, answer)
<1>1. CASE "logs" \in r.denied
  <2>1. s = r
    BY <1>1 DEF GetLog
  <2>2. \A c, now : GotLog(r, c, now, answer) = NoLog
    BY <1>1 DEF GotLog
  <2>3. "logs" \in r.degraded
    BY <1>1 DEF ReadsOK
  <2> QED
    BY <2>1, <2>2, <2>3 DEF ReadsOn
<1>2. CASE "logs" \notin r.denied /\ answer = "ok"
  <2>1. s = r
    BY <1>2 DEF GetLog
  <2>2. \A c, now : GotLog(r, c, now, answer) = LogOf(now, ReadsPrevious(c))
    BY <1>2 DEF GotLog
  <2> QED
    BY <2>1, <2>2 DEF ReadsOn
<1>3. CASE "logs" \notin r.denied /\ answer = "denied"
  <2>1. s = Denied(r, "logs")
    BY <1>3 DEF GetLog
  <2>2. /\ s.denied = r.denied \union {"logs"} /\ s.degraded = r.degraded \union {"logs"}
        /\ s.failed = r.failed /\ s.cache = r.cache
        /\ s = [cache |-> s.cache, denied |-> s.denied, degraded |-> s.degraded, failed |-> s.failed]
    BY <2>1 DEF Denied, ReadsOK
  <2>3. \A c, now : GotLog(r, c, now, answer) = NoLog
    BY <1>3 DEF GotLog
  <2> HIDE DEF s
  <2>4. ReadsOK(s)
    BY <2>2 DEF ReadsOK
  <2>5. ReadsOn(r, s)
    BY <2>2 DEF ReadsOn
  <2> QED
    BY <2>2, <2>3, <2>4, <2>5 DEF s
<1>4. CASE "logs" \notin r.denied /\ answer = "error"
  <2>1. s = [r EXCEPT !.failed = @ \union {u}]
    BY <1>4 DEF GetLog
  <2>2. /\ s.denied = r.denied /\ s.degraded = r.degraded
        /\ s.failed = r.failed \union {u} /\ s.cache = r.cache
        /\ s = [cache |-> s.cache, denied |-> s.denied, degraded |-> s.degraded, failed |-> s.failed]
    BY <2>1 DEF ReadsOK
  <2>3. \A c, now : GotLog(r, c, now, answer) = NoLog
    BY <1>4 DEF GotLog
  <2> HIDE DEF s
  <2>4. ReadsOK(s)
    BY <2>2 DEF ReadsOK
  <2>5. ReadsOn(r, s)
    BY <2>2 DEF ReadsOn
  <2> QED
    BY <2>2, <2>3, <2>4, <2>5 DEF s
<1> QED
  BY <1>1, <1>2, <1>3, <1>4 DEF AnswersIf, Answers
----------------------------------------------------------------------------
(* The invariant *)

\* What a diagnosis asks for on behalf of a pod; a pod with a claim that is not
\* bound is on no node, and nothing keeps it from being asked about.
NodeOf(u) == IF Sick[u].pod.ready THEN "" ELSE Sick[u].pod.node

ClaimOf(u) == IF IsCurrent(u) THEN Sick[u].pod.claim ELSE ""

\* Of a name that was asked for, that condition was taken for true.
Known(r, name, condition) ==
    IF name = "" THEN condition = ""
    ELSE /\ condition \in Conditions(name) \union {""}
         /\ condition \in Conditions(name) => <<name, condition>> \in held
         /\ condition = "" => Resource(name) \in r.degraded \/ name \in r.failed
         /\ Resource(name) \notin r.degraded =>
               r.cache[name] # "unread" /\ condition = r.cache[name]

VerdictsOf(fs, name) ==
    {[signature |-> f.signature, on |-> f.on, why |-> f.why] : f \in {g \in ToSet(fs) : g.pod = name}}

\* What was said of a pod is what its detectors find by what was known then; of
\* what was not denied all pods of the diagnosis know the same.
Diagnosed(u) ==
    \E node, claim :
        /\ VerdictsOf(findings, Sick[u].pod.name) = Found(u, node, claim)
        /\ Known(reads, NodeOf(u), node) /\ Known(reads, ClaimOf(u), claim)

\* The order of the diagnosis, and what is not read before.
Stages ==
    /\ phase = "events" => ~ listed /\ reads.degraded = {}
    /\ phase # "events" => (listed <=> "events" \notin reads.degraded)
    /\ phase \in {"events", "workload"} =>
          findings = <<>> /\ turn = 1 /\ reads.degraded \subseteq {"events"}
    /\ phase = "done" => turn = Len(Sick) + 1

OnePerPod(fs) ==
    \A i, j \in DOMAIN fs : fs[i].pod # "" /\ fs[i].pod = fs[j].pod => i = j

\* A rejection of the target's pods could be read.
Readable ==
    \/ listed
    \/ target.kind = "Deployment" /\ reads.degraded \intersect {"deployment", "replicasets"} = {}

\* A finding without a pod is a rejection, and those of the target are found, unless
\* its pods are created by Jobs of which it knows nothing.
Rejected ==
    /\ \A f \in ToSet(findings) :
          f.pod = "" => \E m : Rejection(m) # "none" /\ f = WorkloadFinding(m)
    /\ \A m \in target.own :
          phase \in {"pods", "done"} /\ target.kind # "CronJob" /\ Rejection(m) # "none" /\ Readable
              => WorkloadFinding(m) \in ToSet(findings)

\* A report states a fact once.
Deduped ==
    phase = "done" => \A i, j \in DOMAIN findings : Key(findings[i]) = Key(findings[j]) => i = j

\* No container is where it was before the last crash in the snapshot.
Aged == \A u \in DOMAIN Sick : LastCrash(live[u]) >= LastCrash(Instant(Sick[u].pod))

\* The inductive invariant.
DiagnoseInv ==
    /\ TypeOK
    /\ target \in Cases
    /\ DOMAIN world = Names /\ \A n \in Names : <<n, world[n]>> \in held
    /\ ReadsOK(reads)
    /\ findings \in Seq(ToSet(findings)) /\ OnePerPod(findings)
    /\ Stages
    /\ \A u \in DOMAIN Sick : u < turn => Diagnosed(u)
    /\ Rejected /\ Deduped /\ Aged

----------------------------------------------------------------------------
(* What a finding more, or a repetition less, changes *)

\* A finding of a pod is a verdict on that pod.
LEMMA VerdictsAppend ==
  ASSUME NEW S, NEW fs \in Seq(S), NEW name, NEW own, NEW log,
         NEW t, t = Trouble(t.signature, t.on, t.why)
  PROVE  LET gs == fs \o <<Finding(own, t, log)>>
         IN  VerdictsOf(gs, name) = VerdictsOf(fs, name) \union (IF own = name THEN {t} ELSE {})
<1> DEFINE x == Finding(own, t, log)
           gs == fs \o <<x>>
           V(f) == [signature |-> f.signature, on |-> f.on, why |-> f.why]
<1>1. x.pod = own /\ V(x) = t
  BY DEF Finding, Trouble
<1> HIDE DEF x
<1>2. ToSet(gs) = ToSet(fs) \union {x}
  <2>1. gs = Append(fs, x)
    OBVIOUS
  <2> HIDE DEF gs
  <2> QED
    BY <2>1, AppendToSet, Zenon
<1> DEFINE Before == {g \in ToSet(fs) : g.pod = name}
           After == {g \in ToSet(gs) : g.pod = name}
<1>3. After = Before \union (IF own = name THEN {x} ELSE {})
  BY <1>1, <1>2
<1> HIDE DEF Before, After, gs
<1>4. {V(f) : f \in After} = {V(f) : f \in Before} \union (IF own = name THEN {t} ELSE {})
  <2>1. CASE own = name
    <3>1. After = Before \union {x}
      BY <1>3, <2>1
    <3>2. {V(f) : f \in Before \union {x}} = {V(f) : f \in Before} \union {V(x)}
      OBVIOUS
    <3> QED
      BY <1>1, <2>1, <3>1, <3>2
  <2>2. CASE own # name
    BY <1>3, <2>2
  <2> QED
    BY <2>1, <2>2
<1> QED
  BY <1>4 DEF VerdictsOf, Before, After, gs, x

\* A pod with one finding keeps it.
LEMMA VerdictsDedup ==
  ASSUME NEW S, NEW fs \in Seq(S), OnePerPod(fs)
  PROVE  LET d == DedupIdentical(fs)
         IN  /\ OnePerPod(d)
             /\ \A f \in ToSet(fs) : f.pod # "" => f \in ToSet(d)
             /\ \A name : name # "" => VerdictsOf(d, name) = VerdictsOf(fs, name)
<1> DEFINE d == DedupIdentical(fs)
<1>1. /\ d \in Seq(S)
      /\ ToSet(d) \subseteq ToSet(fs)
      /\ \A f \in ToSet(fs) : \E g \in ToSet(d) : Key(g) = Key(f)
      /\ \A i, j \in DOMAIN d : Key(d[i]) = Key(d[j]) => i = j
  BY DedupFacts
<1> HIDE DEF d
<1>2. \A f, g \in ToSet(fs) : f.pod # "" /\ f.pod = g.pod => f = g
  BY DEF OnePerPod, ToSet
<1>3. \A f, g : Key(f) = Key(g) => f.pod = g.pod
  BY DEF Key
<1>4. \A f \in ToSet(fs) : f.pod # "" => f \in ToSet(d)
  BY <1>1, <1>2, <1>3
<1>5. OnePerPod(d)
  <2> SUFFICES ASSUME NEW i \in DOMAIN d, NEW j \in DOMAIN d, d[i].pod # "", d[i].pod = d[j].pod
               PROVE  i = j
    BY DEF OnePerPod
  <2>1. d[i] \in ToSet(fs) /\ d[j] \in ToSet(fs)
    BY <1>1 DEF ToSet
  <2> QED
    BY <1>1, <1>2, <2>1
<1>6. ASSUME NEW name, name # "" PROVE VerdictsOf(d, name) = VerdictsOf(fs, name)
  <2>1. {g \in ToSet(d) : g.pod = name} = {g \in ToSet(fs) : g.pod = name}
    BY <1>1, <1>4, <1>6
  <2> QED
    BY <2>1 DEF VerdictsOf
<1> QED
  BY <1>4, <1>5, <1>6 DEF d

----------------------------------------------------------------------------
(* What is known of a node or a claim *)

\* Reading on takes nothing back.
LEMMA KnownStays ==
  ASSUME NEW r, NEW s, ReadsOn(r, s), NEW name \in Names \union {""}, NEW c, Known(r, name, c)
  PROVE  Known(s, name, c)
<1>1. CASE name = ""
  BY <1>1 DEF Known
<1>2. CASE name # ""
  BY <1>2 DEF Known, ReadsOn
<1> QED
  BY <1>1, <1>2

\* What was asked for is known.
LEMMA AskedIsKnown ==
  ASSUME NEW r, ReadsOK(r), NEW name \in Names \union {""}, Asked(r, name)
  PROVE  Known(r, name, Got(r, name))
<1>1. CASE name = ""
  BY <1>1 DEF Known, Got
<1>2. CASE name # ""
  <2>1. /\ Got(r, name) \in Conditions(name) \union {""}
        /\ Got(r, name) \in Conditions(name) => <<name, Got(r, name)>> \in held
        /\ Got(r, name) = "" => Resource(name) \in r.degraded \/ name \in r.failed
    BY <1>2, AskedIsTrue
  <2>2. Resource(name) \notin r.degraded =>
            r.cache[name] # "unread" /\ Got(r, name) = r.cache[name]
    BY <1>2 DEF ReadsOK, Asked
  <2> QED
    BY <1>2, <2>1, <2>2 DEF Known
<1> QED
  BY <1>1, <1>2

\* A diagnosis asks for what belongs to its pods.
LEMMA AskedNames ==
  ASSUME target \in Cases, NEW u \in DOMAIN Sick
  PROVE  NodeOf(u) \in Names \union {""} /\ ClaimOf(u) \in Names \union {""}
<1>1. Sick[u] \in ToSet(Sick)
  BY DEF ToSet
<1>2. {Sick[u].pod.node, Sick[u].pod.claim} \subseteq
        UNION {{q.pod.node, q.pod.claim} : q \in ToSet(Sick)}
  BY <1>1
<1>3. Sick[u].pod.node \in Names \union {""} /\ Sick[u].pod.claim \in Names \union {""}
  <2> DEFINE All == UNION {{q.pod.node, q.pod.claim} : q \in ToSet(Sick)}
  <2>1. Names = All \ {""}
    BY DEF Names
  <2>2. {Sick[u].pod.node, Sick[u].pod.claim} \subseteq All
    BY <1>2
  <2> HIDE DEF All
  <2> QED
    BY <2>1, <2>2
<1> QED
  BY <1>3 DEF NodeOf, ClaimOf

\* A pod with a claim is on no node and not stuck, so it is asked about its claim.
LEMMA ClaimIsAsked ==
  ASSUME target \in Cases, NEW u \in DOMAIN Sick, NEW node
  PROVE  ClaimOf(u) = IF \/ ~ IsCurrent(u)
                         \/ NodeNotReady(Sick[u].pod, node) # {}
                         \/ StuckTerminating(Sick[u].pod, Now) # {} THEN "" ELSE Sick[u].pod.claim
<1> DEFINE q == Sick[u]
<1>1. PICK n \in Nodes : Identified(q, q.pod.name, n)
  BY SickFacts DEF Described
<1> HIDE DEF q
<1>2. CASE q.needs = "claims"
  <2>1. q.pod.node = "" /\ q.apparent = Trouble("PVCPending", "c1", "Pending")
    BY <1>1, <1>2 DEF Identified
  <2>2. NodeNotReady(q.pod, node) = {}
    BY <2>1 DEF NodeNotReady, When
  <2>3. Tagged("PodStuckTerminating", StuckTerminating(q.pod, Now)) = {}
    <3>1. q.apparent.signature # "PodStuckTerminating"
      <4>1. Trouble("PVCPending", "c1", "Pending").signature = "PVCPending"
        BY DEF Trouble
      <4> QED
        BY <2>1, <4>1
    <3> QED
      BY <1>1, <3>1 DEF Identified
  <2>4. StuckTerminating(q.pod, Now) = {}
    BY <2>3 DEF Tagged
  <2> QED
    BY <2>2, <2>4 DEF ClaimOf, q
<1>3. CASE q.needs # "claims"
  <2>1. q.pod.claim = ""
    BY <1>1, <1>3 DEF Identified
  <2> QED
    BY <2>1 DEF ClaimOf, q
<1> QED
  BY <1>2, <1>3

\* A pod has no finding, or one.
LEMMA FoundShape ==
  ASSUME NEW u, NEW node, NEW claim
  PROVE  Found(u, node, claim) = {} \/ \E t : Found(u, node, claim) = {t}
<1> DEFINE p == Sick[u].pod
<1>1. CASE NodeNotReady(p, node) # {}
  <2>1. Found(u, node, claim) = {Trouble("NodeNotReady", p.node, node)}
    BY <1>1 DEF Found
  <2> QED
    BY <2>1
<1>2. CASE NodeNotReady(p, node) = {} /\ IsCurrent(u)
  <2>1. Found(u, node, claim) = Matched(OwnTrouble(Sick[u], listed, claim))
    BY <1>2 DEF Found
  <2> QED
    BY <2>1 DEF Matched
<1>3. CASE NodeNotReady(p, node) = {} /\ ~ IsCurrent(u)
  <2>1. Found(u, node, claim) = {} \/ Found(u, node, claim) = {Sick[u].apparent}
    BY <1>3 DEF Found
  <2> QED
    BY <2>1
<1> QED
  BY <1>1, <1>2, <1>3

\* A match is made of its signature and its cause; one that shows a log has a
\* container that crashed.
LEMMA MatchShape ==
  ASSUME NEW detectors, NEW pod, NEW known, NEW t \in FirstMatch(detectors, pod, known)
  PROVE  /\ t = Trouble(t.signature, t.on, t.why)
         /\ t.signature \in {"CrashLoopBackOff", "ContainerFailed"} => Logged(t.signature, pod) # {}
<1>1. PICK i \in DOMAIN detectors : \E c \in Detect(detectors[i], pod, known) :
          t = [signature |-> detectors[i], on |-> c.on, why |-> c.why]
  BY DEF FirstMatch
<1>2. PICK c \in Detect(detectors[i], pod, known) :
          t = [signature |-> detectors[i], on |-> c.on, why |-> c.why]
  BY <1>1
<1>3. t = Trouble(t.signature, t.on, t.why) /\ t.signature = detectors[i]
  BY <1>2 DEF Trouble
<1>4. Detect(t.signature, pod, known) # {}
  BY <1>2, <1>3
<1>5. CASE t.signature = "CrashLoopBackOff"
  <2>1. \E events : CrashLoop(pod, events) # {}
    BY <1>4, <1>5 DEF Detect
  <2>2. CrashLooping(pod) # {}
    BY <2>1 DEF CrashLoop
  <2> QED
    BY <1>3, <1>5, <2>2 DEF Logged
<1>6. CASE t.signature = "ContainerFailed"
  <2>1. ContainerFailed(pod) # {}
    BY <1>4, <1>6 DEF Detect
  <2>2. FailedContainer(pod) # {}
    BY <2>1 DEF ContainerFailed
  <2> QED
    BY <1>3, <1>6, <2>2 DEF Logged
<1> QED
  BY <1>3, <1>5, <1>6

----------------------------------------------------------------------------
(* One pod has its turn *)

\* The log that goes with a finding is what the kubelet may return by now, and not
\* of an instance that was gone before the crash in the snapshot, unless it could
\* not be read.
LogOK(r, t, u, log) ==
    t.signature \in {"CrashLoopBackOff", "ContainerFailed"} =>
        \/ /\ LogMayBe(log, Instant(Sick[u].pod), live[u])
           /\ log # NoLog => log >= LastCrash(Instant(Sick[u].pod))
        \/ log = NoLog /\ ("logs" \in r.degraded \/ Sick[u].pod.name \in r.failed)

\* The finding of a pod, if there is one.
Adds(r, u, match) ==
    \/ match = {} /\ findings' = findings
    \/ \E t, log :
          /\ match = {t} /\ t = Trouble(t.signature, t.on, t.why) /\ LogOK(r, t, u, log)
          /\ findings' = Append(findings, Finding(Sick[u].pod.name, t, log))

\* A container is asked for the instance that died by an instant, and answers at a
\* later one.
LEMMA LogIsRecent ==
  ASSUME NEW taken \in Instants, NEW now \in Instants, LastCrash(now) >= LastCrash(taken),
         NEW log, log = LogOf(now, taken.state # "terminated")
  PROVE  LogMayBe(log, taken, now) /\ (log # NoLog => log >= LastCrash(taken))
<1>1. /\ now.state \in {"running", "terminated", "waiting"} /\ now.restarts \in Nat
      /\ taken.restarts \in Nat /\ LastCrash(taken) \in Int
  BY DEF Instants, LastCrash
<1>2. CASE now.state = "running"
  <2>1. LastCrash(now) = now.restarts - 1
    BY <1>2 DEF LastCrash
  <2>2. CASE taken.state = "terminated"
    <3>1. log = now.restarts
      BY <1>2, <2>2 DEF LogOf
    <3> QED
      BY <1>1, <1>2, <2>1, <2>2, <3>1 DEF LogMayBe
  <2>3. CASE taken.state # "terminated"
    <3>1. log = now.restarts - 1
      BY <1>2, <2>3 DEF LogOf
    <3> QED
      BY <2>1, <3>1 DEF LogMayBe
  <2> QED
    BY <2>2, <2>3
<1>3. CASE now.state = "terminated"
  <2>1. CASE taken.state = "terminated"
    <3>1. log = LastCrash(now)
      BY <1>3, <2>1 DEF LogOf, LastCrash
    <3> QED
      BY <3>1 DEF LogMayBe
  <2>2. CASE taken.state # "terminated"
    <3>1. log = NoLog
      BY <1>3, <2>2 DEF LogOf
    <3> QED
      BY <1>3, <2>2, <3>1 DEF LogMayBe
  <2> QED
    BY <2>1, <2>2
<1>4. CASE now.state = "waiting"
  <2>1. CASE taken.state = "terminated"
    <3>1. log = NoLog
      BY <1>4, <2>1 DEF LogOf
    <3> QED
      BY <1>4, <2>1, <3>1 DEF LogMayBe
  <2>2. CASE taken.state # "terminated"
    <3>1. log = LastCrash(now)
      BY <1>4, <2>2 DEF LogOf, LastCrash
    <3> QED
      BY <3>1 DEF LogMayBe
  <2> QED
    BY <2>1, <2>2
<1> QED
  BY <1>1, <1>2, <1>3, <1>4

\* A log is read of the container that the finding is about.
LEMMA LogOfMatch ==
  ASSUME target \in Cases, NEW u \in DOMAIN Sick, NEW r, ReadsOK(r), NEW t,
         live[u] \in Instants, LastCrash(live[u]) >= LastCrash(Instant(Sick[u].pod)),
         t.signature \in {"CrashLoopBackOff", "ContainerFailed"} =>
             Logged(t.signature, Sick[u].pod) # {},
         NEW crashed, crashed = Logged(t.signature, Sick[u].pod),
         NEW answer \in AnswersIf(crashed # {} /\ "logs" \notin r.denied)
  PROVE  LET s == IF crashed = {} THEN r ELSE GetLog(r, Sick[u].pod.name, answer)
             log == IF crashed = {} THEN NoLog
                    ELSE GotLog(r, Sick[u].pod.containers[CHOOSE i \in crashed : TRUE],
                                live[u], answer)
         IN  ReadsOK(s) /\ ReadsOn(r, s) /\ LogOK(s, t, u, log)
<1>1. CASE crashed = {}
  <2>1. ReadsOn(r, r)
    BY DEF ReadsOn
  <2> QED
    BY <1>1, <2>1 DEF LogOK
<1>2. CASE crashed # {}
  <2> DEFINE q == Sick[u]
             s == GetLog(r, q.pod.name, answer)
             i == CHOOSE j \in crashed : TRUE
             c == q.pod.containers[i]
             log == GotLog(r, c, live[u], answer)
  <2>1. i \in crashed
    BY <1>2
  <2>2. crashed \subseteq CrashLooping(q.pod) \union FailedContainer(q.pod)
    BY DEF Logged
  <2>3. answer \in AnswersIf("logs" \notin r.denied)
    BY <1>2
  <2> DEFINE taken == Instant(q.pod)
  <2>4. AsksOfMain(q.pod)
    BY SickFacts DEF Described
  <2> HIDE DEF q, i
  <2>5. taken \in Instants /\ ReadsPrevious(c) = (taken.state # "terminated")
    BY <2>1, <2>2, <2>4 DEF AsksOfMain, ReadsPrevious
  <2>6. /\ ReadsOK(s) /\ ReadsOn(r, s)
        /\ \/ log = LogOf(live[u], ReadsPrevious(c))
           \/ log = NoLog /\ ("logs" \in s.degraded \/ q.pod.name \in s.failed)
    BY <2>3, GetLogFacts
  <2> HIDE DEF s, log, c
  <2>7. LogOK(s, t, u, log)
    <3>1. CASE log = LogOf(live[u], ReadsPrevious(c))
      <4>1. log = LogOf(live[u], taken.state # "terminated")
        BY <2>5, <3>1
      <4>2. LastCrash(live[u]) >= LastCrash(taken)
        BY DEF q
      <4> HIDE DEF taken
      <4>3. LogMayBe(log, taken, live[u]) /\ (log # NoLog => log >= LastCrash(taken))
        BY <2>5, <4>1, <4>2, LogIsRecent
      <4> QED
        BY <4>3 DEF LogOK, taken, q
    <3> QED
      BY <2>6, <3>1 DEF LogOK, q
  <2> QED
    BY <1>2, <2>6, <2>7 DEF s, log, c, i, q
<1> QED
  BY <1>1, <1>2

\* Its node and its claim are known afterwards, and the finding is what follows.
LEMMA PodIsDiagnosed ==
  ASSUME DiagnoseInv, DiagnosePod
  PROVE  /\ turn \in DOMAIN Sick
         /\ ReadsOK(reads') /\ ReadsOn(reads, reads')
         /\ \E node, claim :
               /\ Known(reads', NodeOf(turn), node) /\ Known(reads', ClaimOf(turn), claim)
               /\ Adds(reads', turn, Found(turn, node, claim))
<1> DEFINE pod == Sick[turn].pod
           detectors == IF IsCurrent(turn) THEN podDetectors ELSE oldPodDetectors
           told == IF listed THEN UNION {Sick[u].events : u \in DOMAIN Sick} ELSE {}
           node == NodeOf(turn)
           First(a) == Get(reads, node, a)
           claim(a) == IF \/ ~ IsCurrent(turn)
                          \/ NodeNotReady(pod, Got(First(a), node)) # {}
                          \/ StuckTerminating(pod, Now) # {} THEN "" ELSE pod.claim
           Second(a, b) == Get(First(a), claim(a), b)
           Match(a, b) == FirstMatch(detectors, pod,
                            [node |-> Got(Second(a, b), node), claim |-> Got(Second(a, b), claim(a)),
                             events |-> told, now |-> Now])
           Crashed(a, b) == UNION {Logged(f.signature, pod) : f \in Match(a, b)}
           Third(a, b, c) == IF Crashed(a, b) = {} THEN Second(a, b)
                             ELSE GetLog(Second(a, b), pod.name, c)
           Log(a, b, c) == IF Crashed(a, b) = {} THEN NoLog
                           ELSE GotLog(Second(a, b),
                                       pod.containers[CHOOSE i \in Crashed(a, b) : TRUE],
                                       live[turn], c)
<1>1. /\ phase = "pods" /\ turn <= Len(Sick)
      /\ \E a \in AnswersIf(Fresh(reads, node)) : \E b \in AnswersIf(Fresh(First(a), claim(a))) :
         \E c \in AnswersIf(Crashed(a, b) # {} /\ "logs" \notin Second(a, b).denied) :
            /\ reads' = Third(a, b, c)
            /\ findings' = findings \o SetToSeq({Finding(pod.name, f, Log(a, b, c)) : f \in Match(a, b)})
  BY DEF DiagnosePod, NodeOf
<1>2. target \in Cases /\ listed \in BOOLEAN /\ ReadsOK(reads) /\ findings \in Seq(ToSet(findings))
      /\ \A n \in Names : world[n] \in Conditions(n) /\ <<n, world[n]>> \in held
  BY DEF DiagnoseInv, TypeOK
<1>3. turn \in DOMAIN Sick
  <2>1. turn \in 1 .. Len(Sick) + 1 /\ DOMAIN Sick = 1 .. Len(Sick) /\ Len(Sick) \in Nat
    BY <1>2, SickFacts DEF DiagnoseInv, TypeOK
  <2>2. turn <= Len(Sick)
    BY <1>1
  <2> QED
    BY <2>1, <2>2
<1>4. node \in Names \union {""} /\ ClaimOf(turn) \in Names \union {""}
  BY <1>2, <1>3, AskedNames
<1>5. \A a : claim(a) = ClaimOf(turn)
  BY <1>2, <1>3, ClaimIsAsked
<1>6. PICK a \in AnswersIf(Fresh(reads, node)) : \E b \in AnswersIf(Fresh(First(a), claim(a))) :
         \E c \in AnswersIf(Crashed(a, b) # {} /\ "logs" \notin Second(a, b).denied) :
            /\ reads' = Third(a, b, c)
            /\ findings' = findings \o SetToSeq({Finding(pod.name, f, Log(a, b, c)) : f \in Match(a, b)})
  <2> HIDE DEF First, claim, Second, Match, Crashed, Third, Log, node, pod
  <2> QED
    BY <1>1
<1>7. PICK b \in AnswersIf(Fresh(First(a), claim(a))) :
         \E c \in AnswersIf(Crashed(a, b) # {} /\ "logs" \notin Second(a, b).denied) :
            /\ reads' = Third(a, b, c)
            /\ findings' = findings \o SetToSeq({Finding(pod.name, f, Log(a, b, c)) : f \in Match(a, b)})
  <2> HIDE DEF First, claim, Second, Match, Crashed, Third, Log, node, pod
  <2> QED
    BY <1>6
<1>8. PICK c \in AnswersIf(Crashed(a, b) # {} /\ "logs" \notin Second(a, b).denied) :
            /\ reads' = Third(a, b, c)
            /\ findings' = findings \o SetToSeq({Finding(pod.name, f, Log(a, b, c)) : f \in Match(a, b)})
  <2> HIDE DEF First, claim, Second, Match, Crashed, Third, Log, node, pod
  <2> QED
    BY <1>7
<1> DEFINE first == First(a)
           second == Second(a, b)
           third == Third(a, b, c)
           match == Match(a, b)
           crashed == Crashed(a, b)
           log == Log(a, b, c)
           knownNode == Got(second, node)
           knownClaim == Got(second, ClaimOf(turn))
<1>9. ReadsOK(first) /\ ReadsOn(reads, first) /\ Asked(first, node)
  <2> HIDE DEF node
  <2> QED
    BY <1>2, <1>4, GetFacts
<1>10. second = Get(first, ClaimOf(turn), b) /\ b \in AnswersIf(Fresh(first, ClaimOf(turn)))
  <2> HIDE DEF claim, First
  <2> QED
    BY <1>5
<1>11. ReadsOK(second) /\ ReadsOn(first, second) /\ Asked(second, ClaimOf(turn))
  <2> HIDE DEF first, second
  <2> QED
    BY <1>2, <1>4, <1>9, <1>10, GetFacts
<1>12. Asked(second, node)
  <2> HIDE DEF first, second, node
  <2>1. CASE node = ""
    BY <2>1 DEF Asked
  <2> QED
    BY <1>4, <1>9, <1>11, <2>1, AskedStays
<1>13. Known(second, node, knownNode) /\ Known(second, ClaimOf(turn), knownClaim)
  <2> HIDE DEF second, node
  <2> QED
    BY <1>4, <1>11, <1>12, AskedIsKnown
<1>14. match = Found(turn, knownNode, knownClaim)
  <2>1. match = FirstMatch(detectors, pod, [node |-> knownNode, claim |-> knownClaim,
                                            events |-> told, now |-> Now])
    <3> HIDE DEF Second, node, told, detectors, pod
    <3>1. claim(a) = ClaimOf(turn)
      BY <1>5
    <3> HIDE DEF claim
    <3> QED
      BY <3>1
  <2> HIDE DEF match, knownNode, knownClaim
  <2> QED
    BY <1>2, <1>3, <2>1, PodMatch
<1>15. \A t \in match : /\ t = Trouble(t.signature, t.on, t.why)
                        /\ t.signature \in {"CrashLoopBackOff", "ContainerFailed"} =>
                              Logged(t.signature, pod) # {}
  <2> HIDE DEF detectors, pod, node, claim, Second, told
  <2> QED
    BY MatchShape
<1>16. /\ crashed = UNION {Logged(f.signature, pod) : f \in match}
       /\ third = IF crashed = {} THEN second ELSE GetLog(second, pod.name, c)
       /\ log = IF crashed = {} THEN NoLog
                ELSE GotLog(second, pod.containers[CHOOSE i \in crashed : TRUE], live[turn], c)
       /\ c \in AnswersIf(crashed # {} /\ "logs" \notin second.denied)
       /\ reads' = third
       /\ findings' = findings \o SetToSeq({Finding(pod.name, f, log) : f \in match})
  <2> HIDE DEF Match, Second, pod
  <2> QED
    BY <1>8
<1> HIDE DEF first, second, third, match, crashed, log, knownNode, knownClaim, node
<1>17. /\ ReadsOK(third) /\ ReadsOn(second, third)
       /\ Adds(third, turn, match)
  <2>1. CASE match = {}
    <3>1. crashed = {}
      BY <1>16, <2>1
    <3>2. third = second
      BY <1>16, <3>1
    <3>3. findings' = findings \o SetToSeq({})
      BY <1>16, <2>1
    <3>4. findings' = findings
      <4>1. findings' = findings \o <<>>
        BY <3>3, SetToSeqSmall
      <4>2. findings \in Seq(ToSet(findings))
        BY <1>2
      <4> QED
        BY <4>1, <4>2, ConcatSmall
    <3> QED
      BY <1>11, <2>1, <3>2, <3>4 DEF Adds, ReadsOn
  <2>2. ASSUME NEW t, match = {t}
        PROVE  /\ ReadsOK(third) /\ ReadsOn(second, third)
               /\ Adds(third, turn, match)
    <3>1. crashed = Logged(t.signature, pod)
      BY <1>16, <2>2
    <3>2. t = Trouble(t.signature, t.on, t.why)
          /\ (t.signature \in {"CrashLoopBackOff", "ContainerFailed"} => Logged(t.signature, pod) # {})
      BY <1>15, <2>2
    <3>3. ReadsOK(third) /\ ReadsOn(second, third) /\ LogOK(third, t, turn, log)
      <4>1. live[turn] \in Instants /\ LastCrash(live[turn]) >= LastCrash(Instant(Sick[turn].pod))
        BY <1>3 DEF DiagnoseInv, TypeOK, Aged
      <4> QED
        BY <1>2, <1>3, <1>11, <1>16, <3>1, <3>2, <4>1, LogOfMatch
    <3>4. {Finding(pod.name, f, log) : f \in {t}} = {Finding(pod.name, t, log)}
      OBVIOUS
    <3>5. findings' = findings \o <<Finding(pod.name, t, log)>>
      <4>1. findings' = findings \o SetToSeq({Finding(pod.name, t, log)})
        BY <1>16, <2>2, <3>4
      <4> QED
        BY <4>1, SetToSeqSmall
    <3>6. findings' = Append(findings, Finding(pod.name, t, log))
      <4>1. findings \in Seq(ToSet(findings))
        BY <1>2
      <4>2. ASSUME NEW x PROVE findings \o <<x>> = Append(findings, x)
        BY <4>1, ConcatSmall
      <4> QED
        BY <3>5, <4>2
    <3> QED
      BY <2>2, <3>2, <3>3, <3>6 DEF Adds
  <2> QED
    BY <1>14, <2>1, <2>2, FoundShape
<1>18. ReadsOn(reads, third)
  BY <1>9, <1>11, <1>17 DEF ReadsOn
<1>19. Known(third, node, knownNode) /\ Known(third, ClaimOf(turn), knownClaim)
  BY <1>4, <1>13, <1>17, KnownStays
<1> QED
  BY <1>3, <1>14, <1>16, <1>17, <1>18, <1>19 DEF node

----------------------------------------------------------------------------
(* What the invariant says of a report *)

\* Every pod had its turn.
LEMMA AllDiagnosed ==
  ASSUME DiagnoseInv, phase = "done", NEW u \in DOMAIN Sick
  PROVE  Diagnosed(u)
<1>1. DOMAIN Sick = 1 .. Len(Sick) /\ Len(Sick) \in Nat
  BY SickFacts DEF DiagnoseInv
<1>2. turn = Len(Sick) + 1
  BY DEF DiagnoseInv, Stages
<1>3. u < turn
  BY <1>1, <1>2
<1> QED
  BY <1>3 DEF DiagnoseInv

\* What a claim and a node can be.
LEMMA ConditionsOf ==
  /\ \A n \in Nodes : n # "" /\ Conditions(n) = {"True", "False", "Unknown"}
  /\ Conditions("c1") = {"Pending", "Bound"}
BY DiagnoseAssumption DEF Conditions

\* When a node is the cause.
LEMMA NodeIsCause ==
  ASSUME NEW pod, NEW node
  PROVE  NodeNotReady(pod, node) # {} <=>
             pod.node # "" /\ ~ pod.ready /\ node \in {"False", "Unknown"}
BY DEF NodeNotReady, When

\* A node that is the cause was dead.
LEMMA DeadNodeIsRight ==
  ASSUME target \in Cases, NEW u \in DOMAIN Sick, NEW node,
         NodeNotReady(Sick[u].pod, node) # {}, Known(reads, NodeOf(u), node)
  PROVE  Trouble("NodeNotReady", Sick[u].pod.node, node) \in RightVerdicts(u)
<1> DEFINE pod == Sick[u].pod
<1>1. PICK n \in Nodes : Identified(Sick[u], pod.name, n)
  BY SickFacts DEF Described
<1>2. pod.node # "" /\ ~ pod.ready /\ node \in {"False", "Unknown"}
  BY NodeIsCause
<1>3. pod.node = n /\ NodeOf(u) = pod.node
  BY <1>1, <1>2 DEF Identified, NodeOf
<1>4. <<pod.node, node>> \in held
  BY <1>2, <1>3, ConditionsOf DEF Known
<1>5. node \in {d \in {"False", "Unknown"} : (pod.node # "" /\ ~ pod.ready) /\ <<pod.node, d>> \in held}
  BY <1>2, <1>4
<1> QED
  BY <1>5 DEF RightVerdicts

\* A node that is not the cause was well, or the report admits not knowing.
LEMMA OtherwiseNodeWasWell ==
  ASSUME target \in Cases, NEW u \in DOMAIN Sick, NEW node,
         NodeNotReady(Sick[u].pod, node) = {}, Known(reads, NodeOf(u), node),
         Sick[u].pod.node # "", ~ Sick[u].pod.ready
  PROVE  <<Sick[u].pod.node, "True">> \in held \/ Excused(Sick[u].pod.node)
<1> DEFINE pod == Sick[u].pod
<1>1. PICK n \in Nodes : Identified(Sick[u], pod.name, n)
  BY SickFacts DEF Described
<1>2. node \notin {"False", "Unknown"}
  BY NodeIsCause
<1>3. pod.node = n /\ NodeOf(u) = pod.node
  BY <1>1 DEF Identified, NodeOf
<1>4. node \in {"True", ""}
  BY <1>2, <1>3, ConditionsOf DEF Known
<1> QED
  BY <1>3, <1>4, ConditionsOf DEF Known, Excused

\* What is said of a pod that runs the current revision is right by what could
\* be read.
LEMMA OwnIsRight ==
  ASSUME target \in Cases, listed <=> "events" \notin reads.degraded, listed \in BOOLEAN,
         NEW u \in DOMAIN Sick, IsCurrent(u), NEW claim, Known(reads, ClaimOf(u), claim)
  PROVE  OwnTrouble(Sick[u], listed, claim) \in OwnTroubles(u)
<1> DEFINE q == Sick[u]
           t == OwnTrouble(q, listed, claim)
<1>1. PICK n \in Nodes : Identified(q, q.pod.name, n)
  BY SickFacts DEF Described
<1>2. q.needs \in {"", "events", "claims"}
  BY <1>1 DEF Identified
<1>3. CASE q.needs = ""
  <2>1. t = q.apparent
    BY <1>3 DEF OwnTrouble
  <2>2. OwnTroubles(u) = {q.truth, q.apparent}
    BY <1>3 DEF OwnTroubles
  <2> QED
    BY <2>1, <2>2
<1>4. CASE q.needs = "events"
  <2>1. t = IF listed THEN q.apparent ELSE q.otherwise
    BY <1>4 DEF OwnTrouble
  <2>2. OwnTroubles(u) =
          IF "events" \in reads.degraded THEN {q.otherwise} ELSE {q.truth, q.apparent}
    BY <1>4 DEF OwnTroubles
  <2> QED
    BY <2>1, <2>2
<1>5. CASE q.needs = "claims"
  <2>1. t = IF claim = "Pending" THEN q.truth ELSE q.otherwise
    BY <1>1, <1>5 DEF OwnTrouble, Identified
  <2>2. OwnTroubles(u) =
          {x \in {q.truth, q.otherwise} :
              IF x = q.truth THEN <<q.pod.claim, "Pending">> \in held
              ELSE <<q.pod.claim, "Bound">> \in held \/ Excused(q.pod.claim)}
    BY <1>5 DEF OwnTroubles
  <2>3. q.pod.claim = "c1" /\ ClaimOf(u) = "c1" /\ q.otherwise # q.truth
    BY <1>1, <1>5 DEF Identified, ClaimOf
  <2> HIDE DEF q, t
  <2>4. claim \in {"Pending", "Bound", ""}
    BY <2>3, ConditionsOf DEF Known
  <2>5. claim = "Pending" => <<q.pod.claim, "Pending">> \in held
    BY <2>3, ConditionsOf DEF Known
  <2>6. claim # "Pending" => <<q.pod.claim, "Bound">> \in held \/ Excused(q.pod.claim)
    BY <2>3, <2>4, ConditionsOf DEF Known, Excused
  <2> QED
    BY <2>1, <2>2, <2>3, <2>5, <2>6 DEF q, t
<1> QED
  BY <1>2, <1>3, <1>4, <1>5

\* So every verdict is right.
LEMMA VerdictsAreRight ==
  ASSUME DiagnoseInv, phase = "done", NEW u \in DOMAIN Sick
  PROVE  (IF Verdicts(u) = {} THEN {None} ELSE Verdicts(u)) \subseteq RightVerdicts(u)
<1>1. target \in Cases /\ listed \in BOOLEAN /\ (listed <=> "events" \notin reads.degraded)
  BY DEF DiagnoseInv, TypeOK, Stages
<1>2. PICK node, claim :
         /\ VerdictsOf(findings, Sick[u].pod.name) = Found(u, node, claim)
         /\ Known(reads, NodeOf(u), node) /\ Known(reads, ClaimOf(u), claim)
  BY AllDiagnosed DEF Diagnosed
<1>3. Verdicts(u) = Found(u, node, claim)
  BY <1>2 DEF Verdicts, VerdictsOf
<1>4. CASE NodeNotReady(Sick[u].pod, node) # {}
  <2>1. Verdicts(u) = {Trouble("NodeNotReady", Sick[u].pod.node, node)}
    BY <1>3, <1>4 DEF Found
  <2> QED
    BY <1>1, <1>2, <1>4, <2>1, DeadNodeIsRight
<1>5. CASE NodeNotReady(Sick[u].pod, node) = {}
  <2>1. \A t \in OwnTroubles(u) : t \in RightVerdicts(u)
    BY <1>1, <1>2, <1>5, OtherwiseNodeWasWell DEF RightVerdicts
  <2>2. CASE IsCurrent(u)
    <3> DEFINE t == OwnTrouble(Sick[u], listed, claim)
    <3>1. t \in OwnTroubles(u)
      BY <1>1, <1>2, <2>2, OwnIsRight
    <3>2. Verdicts(u) = Matched(t)
      BY <1>3, <1>5, <2>2 DEF Found
    <3> HIDE DEF t
    <3>3. (IF Verdicts(u) = {} THEN {None} ELSE Verdicts(u)) = {t}
      BY <3>2 DEF Matched
    <3> QED
      BY <2>1, <3>1, <3>3
  <2>3. CASE ~ IsCurrent(u)
    <3> DEFINE told == Sick[u].apparent
    <3>1. (IF told.signature = "PodStuckTerminating" THEN told ELSE None) \in OwnTroubles(u)
      BY <2>3 DEF OwnTroubles
    <3>2. Verdicts(u) = IF told.signature = "PodStuckTerminating" THEN {told} ELSE {}
      BY <1>3, <1>5, <2>3 DEF Found
    <3> HIDE DEF told
    <3> QED
      BY <2>1, <3>1, <3>2
  <2> QED
    BY <2>2, <2>3
<1> QED
  BY <1>4, <1>5

\* A set of places of which two are always the same holds one at most.
LEMMA AtMostOne ==
  ASSUME NEW S, \A i, j \in S : i = j
  PROVE  /\ Cardinality(S) <= 1
         /\ S # {} => Cardinality(S) = 1
<1>1. CASE S = {}
  BY <1>1, FS_EmptySet
<1>2. CASE S # {}
  <2>1. PICK i : i \in S
    BY <1>2
  <2>2. S = {i}
    BY <2>1
  <2>3. Cardinality({i}) = 1
    BY FS_Singleton
  <2> QED
    BY <1>2, <2>2, <2>3
<1> QED
  BY <1>1, <1>2

\* One finding, and it is right.
LEMMA RootCauseFollows == DiagnoseInv => RootCause
<1> SUFFICES ASSUME DiagnoseInv, phase = "done", NEW u \in DOMAIN Sick
             PROVE  /\ Cardinality({i \in DOMAIN findings :
                                       findings[i].pod = Sick[u].pod.name}) <= 1
                    /\ (IF Verdicts(u) = {} THEN {None} ELSE Verdicts(u)) \subseteq RightVerdicts(u)
  BY DEF RootCause
<1>1. Sick[u].pod.name # ""
  BY SickFacts DEF DiagnoseInv, Usual
<1> DEFINE S == {i \in DOMAIN findings : findings[i].pod = Sick[u].pod.name}
<1>2. \A i, j \in S : i = j
  BY <1>1 DEF DiagnoseInv, OnePerPod
<1>3. Cardinality(S) <= 1
  <2> HIDE DEF S
  <2> QED
    BY <1>2, AtMostOne
<1> QED
  BY <1>3, VerdictsAreRight

\* Unless the node is the cause, one of the pod's own troubles is.
LEMMA FoundIsOwn ==
  ASSUME NEW u, NEW node, NEW claim, NodeNotReady(Sick[u].pod, node) = {},
         NEW name, NEW n, Identified(Sick[u], name, n)
  PROVE  Found(u, node, claim) \subseteq Said(Sick[u])
<1>1. OwnTrouble(Sick[u], listed, claim) \in Said(Sick[u]) /\ Sick[u].apparent \in Said(Sick[u])
  BY DEF OwnTrouble, Identified, Said
<1> QED
  BY <1>1 DEF Found, Matched

\* What is blamed on a node, by what all pods know of it.
NodeBlame(name) ==
    IF name # "" /\ reads.cache[name] \in {"False", "Unknown"}
    THEN {Trouble("NodeNotReady", name, reads.cache[name])} ELSE {}

\* A sick pod gets a verdict about its node exactly when the node is not ready or
\* unknown, if nodes can be read.
LEMMA NodeIsBlamed ==
  ASSUME DiagnoseInv, phase = "done", NEW u \in DOMAIN Sick, ~ Sick[u].pod.ready,
         "nodes" \notin reads.degraded
  PROVE  {f \in Verdicts(u) : f.signature = "NodeNotReady"} = NodeBlame(Sick[u].pod.node)
<1> DEFINE q == Sick[u]
<1>1. PICK n \in Nodes : Identified(q, q.pod.name, n)
  BY SickFacts DEF Described, DiagnoseInv
<1>2. PICK node, claim :
         VerdictsOf(findings, q.pod.name) = Found(u, node, claim) /\ Known(reads, NodeOf(u), node)
  BY AllDiagnosed DEF Diagnosed
<1>3. Verdicts(u) = Found(u, node, claim)
  BY <1>2 DEF Verdicts, VerdictsOf
<1>4. NodeOf(u) = q.pod.node /\ q.pod.node \in {"", n}
  BY <1>1 DEF NodeOf, Identified
<1>5. q.pod.node # "" => node = reads.cache[q.pod.node]
  BY <1>2, <1>4 DEF Known, Resource
<1>6. NodeNotReady(q.pod, node) # {} <=> q.pod.node # "" /\ node \in {"False", "Unknown"}
  BY NodeIsCause
<1>7. CASE NodeNotReady(q.pod, node) # {}
  <2>1. Verdicts(u) = {Trouble("NodeNotReady", q.pod.node, node)}
    BY <1>3, <1>7 DEF Found
  <2>2. Trouble("NodeNotReady", q.pod.node, node).signature = "NodeNotReady"
    BY DEF Trouble
  <2>3. NodeBlame(q.pod.node) = {Trouble("NodeNotReady", q.pod.node, node)}
    BY <1>5, <1>6, <1>7 DEF NodeBlame
  <2> QED
    BY <2>1, <2>2, <2>3
<1>8. CASE NodeNotReady(q.pod, node) = {}
  <2>1. Verdicts(u) \subseteq Said(q)
    <3>1. Found(u, node, claim) \subseteq Said(q)
      BY <1>1, <1>8, FoundIsOwn, Zenon
    <3> QED
      BY <1>3, <3>1
  <2>2. \A t \in Said(q) : t.signature # "NodeNotReady"
    BY <1>1 DEF Identified
  <2>3. NodeBlame(q.pod.node) = {}
    BY <1>5, <1>6, <1>8 DEF NodeBlame
  <2> QED
    BY <2>1, <2>2, <2>3
<1> QED
  BY <1>7, <1>8

\* And on a claim.
ClaimBlame(name) ==
    IF name # "" /\ reads.cache[name] = "Pending"
    THEN {Trouble("PVCPending", "c1", "Pending")} ELSE {}

\* A sick pod of the current revision gets a verdict about its claim exactly when the
\* claim is pending, if claims can be read.
LEMMA ClaimIsBlamed ==
  ASSUME DiagnoseInv, phase = "done", NEW u \in DOMAIN Sick, IsCurrent(u),
         "claims" \notin reads.degraded
  PROVE  {f \in Verdicts(u) : f.signature = "PVCPending"} = ClaimBlame(Sick[u].pod.claim)
<1> DEFINE q == Sick[u]
<1>1. PICK n \in Nodes : Identified(q, q.pod.name, n)
  BY SickFacts DEF Described, DiagnoseInv
<1>2. PICK node, claim :
         VerdictsOf(findings, q.pod.name) = Found(u, node, claim) /\ Known(reads, ClaimOf(u), claim)
  BY AllDiagnosed DEF Diagnosed
<1>3. Verdicts(u) = Found(u, node, claim)
  BY <1>2 DEF Verdicts, VerdictsOf
<1>4. ClaimOf(u) = q.pod.claim
  BY DEF ClaimOf
<1>5. Trouble("PVCPending", "c1", "Pending").signature = "PVCPending"
  BY DEF Trouble
<1>6. \A t \in Said(q) : t.signature = "PVCPending" => q.needs = "claims" /\ t = q.apparent
  BY <1>1 DEF Identified
<1>7. CASE q.needs # "claims"
  <2>1. ClaimBlame(q.pod.claim) = {}
    <3>1. q.pod.claim = ""
      BY <1>1, <1>7 DEF Identified
    <3> QED
      BY <3>1 DEF ClaimBlame
  <2>2. CASE NodeNotReady(q.pod, node) # {}
    <3>1. Verdicts(u) = {Trouble("NodeNotReady", q.pod.node, node)}
      BY <1>3, <2>2 DEF Found
    <3>2. Trouble("NodeNotReady", q.pod.node, node).signature # "PVCPending"
      BY DEF Trouble
    <3> QED
      BY <2>1, <3>1, <3>2
  <2>3. CASE NodeNotReady(q.pod, node) = {}
    <3>1. Verdicts(u) \subseteq Said(q)
      <4>1. Found(u, node, claim) \subseteq Said(q)
        BY <1>1, <2>3, FoundIsOwn, Zenon
      <4> QED
        BY <1>3, <4>1
    <3> QED
      BY <1>6, <1>7, <2>1, <3>1
  <2> QED
    BY <2>2, <2>3
<1>8. CASE q.needs = "claims"
  <2>1. /\ q.pod.claim = "c1" /\ q.pod.node = "" /\ q.otherwise # q.apparent
        /\ q.otherwise \in Said(q)
    BY <1>1, <1>8 DEF Identified, Said
  <2>2. q.apparent = Trouble("PVCPending", "c1", "Pending")
    BY <1>1, <1>8 DEF Identified
  <2>3. claim = reads.cache["c1"]
    BY <1>2, <1>4, <2>1, DiagnoseAssumption DEF Known, Resource
  <2>4. NodeNotReady(q.pod, node) = {}
    BY <2>1, NodeIsCause
  <2> DEFINE t == OwnTrouble(q, listed, claim)
  <2>5. Verdicts(u) = Matched(t)
    BY <1>3, <2>4 DEF Found
  <2>6. t = IF claim = "Pending" THEN q.apparent ELSE q.otherwise
    BY <1>8 DEF OwnTrouble
  <2>7. q.apparent # None
    <3>1. None.signature = "none"
      BY DEF None
    <3> QED
      BY <1>5, <2>2, <3>1
  <2>8. ClaimBlame(q.pod.claim) = IF claim = "Pending" THEN {q.apparent} ELSE {}
    BY <2>1, <2>2, <2>3 DEF ClaimBlame
  <2> HIDE DEF t, q
  <2>9. CASE claim = "Pending"
    <3>1. Verdicts(u) = {q.apparent}
      BY <2>5, <2>6, <2>7, <2>9 DEF Matched
    <3>2. q.apparent.signature = "PVCPending"
      BY <1>5, <2>2
    <3> QED
      BY <2>8, <2>9, <3>1, <3>2 DEF q
  <2>10. CASE claim # "Pending"
    <3>1. Verdicts(u) \subseteq {q.otherwise}
      BY <2>5, <2>6, <2>10 DEF Matched
    <3>2. q.otherwise.signature # "PVCPending"
      BY <1>6, <2>1
    <3> QED
      BY <2>8, <2>10, <3>1, <3>2 DEF q
  <2> QED
    BY <2>9, <2>10
<1> QED
  BY <1>7, <1>8

\* Pods that share a node or a claim blame it alike.
LEMMA SharedCauseFollows == DiagnoseInv => SharedCauseIsShared
<1> DEFINE Blames(w, signature) == {f \in Verdicts(w) : f.signature = signature}
<1> SUFFICES ASSUME DiagnoseInv, phase = "done", NEW u \in DOMAIN Sick, NEW v \in DOMAIN Sick
             PROVE  /\ /\ Sick[u].pod.node = Sick[v].pod.node /\ ~ Sick[u].pod.ready
                       /\ ~ Sick[v].pod.ready /\ "nodes" \notin reads.degraded
                       => Blames(u, "NodeNotReady") = Blames(v, "NodeNotReady")
                    /\ /\ Sick[u].pod.claim = Sick[v].pod.claim /\ Sick[u].pod.node = Sick[v].pod.node
                       /\ IsCurrent(u) /\ IsCurrent(v) /\ "claims" \notin reads.degraded
                       => Blames(u, "PVCPending") = Blames(v, "PVCPending")
  BY DEF SharedCauseIsShared
<1>1. ASSUME Sick[u].pod.node = Sick[v].pod.node, ~ Sick[u].pod.ready,
             ~ Sick[v].pod.ready, "nodes" \notin reads.degraded
      PROVE  Blames(u, "NodeNotReady") = Blames(v, "NodeNotReady")
  BY <1>1, NodeIsBlamed
<1>2. ASSUME Sick[u].pod.claim = Sick[v].pod.claim, IsCurrent(u), IsCurrent(v),
             "claims" \notin reads.degraded
      PROVE  Blames(u, "PVCPending") = Blames(v, "PVCPending")
  BY <1>2, ClaimIsBlamed
<1> QED
  BY <1>1, <1>2

\* A rejection of the target's pods that could be read is in the report, once.
LEMMA RejectionsFollow == DiagnoseInv => RejectionsAreNamed
<1> SUFFICES ASSUME DiagnoseInv, phase = "done", target.kind # "CronJob", NEW m \in target.own,
                    Rejection(m) # "none", Readable
             PROVE  Cardinality({i \in DOMAIN findings :
                        findings[i].pod = "" /\ findings[i].on = m
                            /\ findings[i].signature = Rejection(m)}) = 1
  BY DEF RejectionsAreNamed, Readable
<1> DEFINE S == {i \in DOMAIN findings :
                    findings[i].pod = "" /\ findings[i].on = m
                        /\ findings[i].signature = Rejection(m)}
<1>1. \A x : /\ WorkloadFinding(x).pod = "" /\ WorkloadFinding(x).on = x
             /\ WorkloadFinding(x).signature = Rejection(x)
  BY DEF WorkloadFinding, Finding, Trouble
<1>2. S # {}
  <2>1. WorkloadFinding(m) \in ToSet(findings)
    BY DEF DiagnoseInv, Rejected
  <2>2. PICK i \in DOMAIN findings : findings[i] = WorkloadFinding(m)
    BY <2>1 DEF ToSet
  <2>3. i \in S
    BY <1>1, <2>2
  <2> QED
    BY <2>3
<1>3. ASSUME NEW i \in S, NEW j \in S PROVE i = j
  <2>1. ASSUME NEW k \in S PROVE findings[k] = WorkloadFinding(m)
    <3>1. findings[k] \in ToSet(findings) /\ findings[k].pod = "" /\ findings[k].on = m
      BY <2>1 DEF ToSet
    <3>2. PICK x : findings[k] = WorkloadFinding(x)
      BY <3>1 DEF DiagnoseInv, Rejected
    <3> QED
      BY <1>1, <3>1, <3>2
  <2>2. Key(findings[i]) = Key(findings[j])
    BY <2>1
  <2> QED
    BY <2>2 DEF DiagnoseInv, Deduped
<1>4. Cardinality(S) = 1
  <2> HIDE DEF S
  <2> QED
    BY <1>2, <1>3, AtMostOne
<1> QED
  BY <1>4

----------------------------------------------------------------------------
(* Every step keeps the invariant *)

\* The pods are the same throughout.
LEMMA SameTarget ==
  ASSUME target' = target
  PROVE  /\ Sick' = Sick /\ Names' = Names
         /\ \A u : NodeOf(u)' = NodeOf(u) /\ ClaimOf(u)' = ClaimOf(u)
BY DEF Sick, Names, NodeOf, ClaimOf, IsCurrent

\* A read is as good later as it was.
LEMMA ReadsOKNext ==
  ASSUME target' = target, held \subseteq held', ReadsOK(reads')
  PROVE  ReadsOK(reads)'
<1>1. Names' = Names
  BY SameTarget
<1> QED
  BY <1>1 DEF ReadsOK

\* A pod that gets a finding by what is known is diagnosed.
LEMMA DiagnosedNext ==
  ASSUME target' = target, listed' = listed, held \subseteq held',
         NEW u, NEW node, NEW claim,
         Known(reads', NodeOf(u), node), Known(reads', ClaimOf(u), claim),
         VerdictsOf(findings', Sick[u].pod.name) = Found(u, node, claim)
  PROVE  Diagnosed(u)'
<1>1. Sick' = Sick /\ NodeOf(u)' = NodeOf(u) /\ ClaimOf(u)' = ClaimOf(u)
  BY SameTarget
<1>2. Found(u, node, claim)' = Found(u, node, claim)
  BY <1>1 DEF Found, IsCurrent
<1>3. VerdictsOf(findings, Sick[u].pod.name)' = Found(u, node, claim)'
  BY <1>1, <1>2
<1>4. Known(reads, NodeOf(u), node)' /\ Known(reads, ClaimOf(u), claim)'
  BY <1>1 DEF Known
<1> QED
  BY <1>3, <1>4 DEF Diagnosed

\* One that was diagnosed stays so.
LEMMA DiagnosedStays ==
  ASSUME target' = target, target \in Cases, listed' = listed, held \subseteq held',
         ReadsOn(reads, reads'),
         NEW u \in DOMAIN Sick, Diagnosed(u),
         VerdictsOf(findings', Sick[u].pod.name) = VerdictsOf(findings, Sick[u].pod.name)
  PROVE  Diagnosed(u)'
<1>1. PICK node, claim :
         /\ VerdictsOf(findings, Sick[u].pod.name) = Found(u, node, claim)
         /\ Known(reads, NodeOf(u), node) /\ Known(reads, ClaimOf(u), claim)
  BY DEF Diagnosed
<1>2. NodeOf(u) \in Names \union {""} /\ ClaimOf(u) \in Names \union {""}
  BY AskedNames
<1>3. Known(reads', NodeOf(u), node) /\ Known(reads', ClaimOf(u), claim)
  BY <1>1, <1>2, KnownStays
<1> QED
  BY <1>1, <1>3, DiagnosedNext

\* There is a page, and a bound.
LEMMA Bounds == Pages \in Nat /\ Pages # 0 /\ MaxMoves \in Nat
BY DiagnoseAssumption

\* Nothing is found yet.
LEMMA InitInv == Init => DiagnoseInv
<1> SUFFICES ASSUME Init PROVE DiagnoseInv
  OBVIOUS
<1>1. /\ target \in Cases /\ phase = "events" /\ page = 1 /\ listed = FALSE /\ turn = 1 /\ moves = 0
      /\ findings = <<>>
  BY DEF Init
<1>2. /\ DOMAIN world = Names
      /\ \A n \in Names : world[n] \in Conditions(n) /\ <<n, world[n]>> \in held
  BY DEF Init
<1>3. /\ reads.cache = [n \in Names |-> "unread"] /\ reads.denied = {}
      /\ reads.degraded = {} /\ reads.failed = {}
      /\ reads = [cache |-> reads.cache, denied |-> reads.denied,
                  degraded |-> reads.degraded, failed |-> reads.failed]
  BY DEF Init
<1>4. ToSet(findings) = {} /\ findings \in Seq(ToSet(findings)) /\ DOMAIN findings = {}
  BY <1>1 DEF ToSet
<1>5. Len(Sick) \in Nat /\ DOMAIN Sick = 1 .. Len(Sick)
  BY <1>1, SickFacts
<1>6. ReadsOK(reads)
  BY <1>3, Resources DEF ReadsOK
<1>10. live \in [DOMAIN Sick -> Instants] /\ Aged
  <2>1. live = [u \in DOMAIN Sick |-> Instant(Sick[u].pod)]
    BY DEF Init
  <2>2. \A u \in DOMAIN Sick : Instant(Sick[u].pod) \in Instants
    BY <1>1, SickFacts DEF Described, AsksOfMain
  <2>3. \A x \in Instants : LastCrash(x) \in Int
    BY DEF Instants, LastCrash
  <2>4. live \in [DOMAIN Sick -> Instants]
    BY <2>1, <2>2
  <2>5. \A u \in DOMAIN Sick : LastCrash(live[u]) >= LastCrash(Instant(Sick[u].pod))
    <3> SUFFICES ASSUME NEW u \in DOMAIN Sick
                 PROVE  LastCrash(live[u]) >= LastCrash(Instant(Sick[u].pod))
      OBVIOUS
    <3>1. live[u] = Instant(Sick[u].pod)
      BY <2>1
    <3>2. LastCrash(Instant(Sick[u].pod)) \in Int
      BY <2>2, <2>3
    <3> QED
      BY <3>1, <3>2
  <2> QED
    BY <2>4, <2>5 DEF Aged
<1>7. TypeOK
  <2>1. page \in 1 .. Pages /\ moves \in 0 .. MaxMoves /\ turn \in 1 .. Len(Sick) + 1
    <3>1. page = 1 /\ moves = 0 /\ turn = 1
      BY <1>1
    <3> QED
      BY <1>5, <3>1, Bounds
  <2> QED
    BY <1>1, <1>2, <1>3, <1>4, <1>10, <2>1 DEF TypeOK
<1>8. Stages /\ Rejected /\ Deduped /\ OnePerPod(findings)
  BY <1>1, <1>3, <1>4 DEF Stages, Rejected, Deduped, OnePerPod
<1>9. \A u \in DOMAIN Sick : ~ u < turn
  BY <1>1, <1>5
<1> QED
  BY <1>1, <1>2, <1>4, <1>6, <1>7, <1>8, <1>9, <1>10 DEF DiagnoseInv

\* Nodes and claims change: what was known of them was true.
LEMMA WorldMovesKeeps == DiagnoseInv /\ WorldMoves => DiagnoseInv'
<1> SUFFICES ASSUME DiagnoseInv, WorldMoves PROVE DiagnoseInv'
  OBVIOUS
<1>1. UNCHANGED <<target, live, phase, page, listed, turn, reads, findings>> /\ held \subseteq held'
      /\ moves' = moves + 1 /\ moves < MaxMoves
  BY DEF WorldMoves
<1>2. Sick' = Sick /\ Names' = Names
  BY <1>1, SameTarget
<1>3. /\ DOMAIN world' = Names
      /\ \A n \in Names : world'[n] \in Conditions(n) /\ <<n, world'[n]>> \in held'
  <2>1. PICK n \in Names, c \in {"True", "False", "Unknown", "Pending", "Bound"} :
          /\ c \in Conditions(n) \ {world[n]}
          /\ world' = [world EXCEPT ![n] = c]
          /\ held' = held \union {<<n, c>>}
    BY DEF WorldMoves
  <2>2. /\ DOMAIN world = Names
        /\ \A m \in Names : world[m] \in Conditions(m) /\ <<m, world[m]>> \in held
    BY DEF DiagnoseInv, TypeOK
  <2>3. DOMAIN world' = Names /\ world'[n] = c /\ \A m \in Names : m # n => world'[m] = world[m]
    BY <2>1, <2>2
  <2>4. c \in Conditions(n) /\ <<n, c>> \in held'
    BY <2>1
  <2> QED
    BY <1>1, <2>2, <2>3, <2>4
<1>4. TypeOK'
  <2>1. moves' \in 0 .. MaxMoves
    <3>1. moves \in 0 .. MaxMoves
      BY DEF DiagnoseInv, TypeOK
    <3> QED
      <4>1. moves' = moves + 1 /\ moves < MaxMoves
        BY <1>1
      <4> QED
        BY <3>1, <4>1, Bounds
  <2>2. (\A n \in Names : world[n] \in Conditions(n))'
    BY <1>2, <1>3 DEF Conditions
  <2>3. TypeOK
    BY DEF DiagnoseInv
  <2> QED
    BY <1>1, <1>2, <2>1, <2>2, <2>3 DEF TypeOK, Conditions
<1>5. ReadsOK(reads)'
  <2>1. ReadsOK(reads')
    BY <1>1 DEF DiagnoseInv
  <2> QED
    BY <1>1, <2>1, ReadsOKNext
<1>6. ASSUME NEW u \in DOMAIN Sick, u < turn PROVE Diagnosed(u)'
  <2>1. Diagnosed(u) /\ target \in Cases
    BY <1>6 DEF DiagnoseInv
  <2>2. ReadsOn(reads, reads')
    BY <1>1 DEF ReadsOn
  <2> QED
    BY <1>1, <2>1, <2>2, DiagnosedStays
<1>7. (findings \in Seq(ToSet(findings)))' /\ OnePerPod(findings)'
  BY <1>1 DEF DiagnoseInv, OnePerPod
<1>8. Stages' /\ Rejected' /\ Deduped'
  BY <1>1, <1>2 DEF DiagnoseInv, Stages, Rejected, Deduped, Readable
<1>9. Aged'
  BY <1>1, <1>2 DEF DiagnoseInv, Aged
<1>10. (target \in Cases)' /\ (\A u \in DOMAIN Sick : u < turn => Diagnosed(u))'
  BY <1>1, <1>2, <1>6 DEF DiagnoseInv
<1> QED
  BY <1>2, <1>3, <1>4, <1>5, <1>7, <1>8, <1>9, <1>10 DEF DiagnoseInv

\* A container only goes on in its cycle.
LEMMA CycleGoesOn ==
  ASSUME NEW now \in Instants, NEW next \in NextInstants(now)
  PROVE  next \in Instants /\ LastCrash(next) >= LastCrash(now)
<1> DEFINE k == now.restarts
           at(state, restarts) == [state |-> state, restarts |-> restarts]
<1>1. now.state \in {"running", "terminated", "waiting"} /\ k \in Nat
  BY DEF Instants
<1>2. \A state \in {"running", "terminated", "waiting"} : \A r \in Nat :
          at(state, r) \in Instants /\ at(state, r).state = state /\ at(state, r).restarts = r
  BY DEF Instants
<1>3. CASE now.state = "running"
  <2>1. next = at("terminated", k)
    BY <1>3 DEF NextInstants
  <2> QED
    BY <1>1, <1>2, <1>3, <2>1 DEF LastCrash
<1>4. CASE now.state = "terminated"
  <2>1. next \in {at("running", k + 1), at("waiting", k)}
    BY <1>4 DEF NextInstants
  <2> QED
    BY <1>1, <1>2, <1>4, <2>1 DEF LastCrash
<1>5. CASE now.state = "waiting"
  <2>1. next = at("running", k + 1)
    BY <1>5 DEF NextInstants
  <2> QED
    BY <1>1, <1>2, <1>5, <2>1 DEF LastCrash
<1> QED
  BY <1>1, <1>3, <1>4, <1>5

\* Containers die and are restarted: nothing that was said is about that.
LEMMA ContainerMovesKeeps == DiagnoseInv /\ ContainerMoves => DiagnoseInv'
<1> SUFFICES ASSUME DiagnoseInv, ContainerMoves PROVE DiagnoseInv'
  OBVIOUS
<1>1. /\ UNCHANGED <<target, world, phase, page, listed, turn, reads, findings, held>>
      /\ moves' = moves + 1 /\ moves < MaxMoves
  BY DEF ContainerMoves
<1>2. Sick' = Sick /\ Names' = Names
  BY <1>1, SameTarget
<1>3. live' \in [DOMAIN Sick -> Instants] /\ Aged'
  <2>1. PICK u \in turn .. Len(Sick) : \E now \in NextInstants(live[u]) : live' = [live EXCEPT ![u] = now]
    BY DEF ContainerMoves
  <2>2. PICK now \in NextInstants(live[u]) : live' = [live EXCEPT ![u] = now]
    BY <2>1
  <2>3. /\ live \in [DOMAIN Sick -> Instants] /\ turn \in 1 .. Len(Sick) + 1
        /\ DOMAIN Sick = 1 .. Len(Sick) /\ Len(Sick) \in Nat
        /\ \A v \in DOMAIN Sick : LastCrash(live[v]) >= LastCrash(Instant(Sick[v].pod))
    BY SickFacts DEF DiagnoseInv, TypeOK, Aged
  <2>4. u \in DOMAIN Sick
    BY <2>3
  <2>5. live[u] \in Instants
    BY <2>3, <2>4
  <2>6. now \in Instants /\ LastCrash(now) >= LastCrash(live[u])
    BY <2>5, CycleGoesOn
  <2>7. live' \in [DOMAIN Sick -> Instants]
    BY <2>2, <2>3, <2>4, <2>6
  <2>8. ASSUME NEW v \in DOMAIN Sick
        PROVE  LastCrash(live'[v]) >= LastCrash(Instant(Sick[v].pod))
    <3>1. CASE v = u
      <4>1. live'[v] = now
        BY <2>2, <2>3, <3>1
      <4>2. \A x \in Instants : LastCrash(x) \in Int
        BY DEF Instants, LastCrash
      <4>3. Instant(Sick[u].pod) \in Instants
        BY <2>4, SickFacts DEF DiagnoseInv, Described, AsksOfMain
      <4>4. LastCrash(live[u]) >= LastCrash(Instant(Sick[u].pod))
        BY <2>3, <2>4
      <4>5. LastCrash(now) \in Int /\ LastCrash(live[u]) \in Int /\ LastCrash(Instant(Sick[u].pod)) \in Int
        BY <2>5, <2>6, <4>2, <4>3
      <4> QED
        BY <2>6, <3>1, <4>1, <4>4, <4>5
    <3>2. CASE v # u
      <4>1. live'[v] = live[v]
        BY <2>2, <2>3, <3>2
      <4> QED
        BY <2>3, <4>1
    <3> QED
      BY <3>1, <3>2
  <2> QED
    BY <1>2, <2>7, <2>8 DEF Aged
<1>4. TypeOK'
  <2>1. moves' \in 0 .. MaxMoves
    <3>1. moves \in 0 .. MaxMoves /\ moves' = moves + 1 /\ moves < MaxMoves
      BY <1>1 DEF DiagnoseInv, TypeOK
    <3> QED
      BY <3>1, Bounds
  <2>2. \A n \in Names : Conditions(n)' = Conditions(n)
    BY DEF Conditions
  <2>3. TypeOK
    BY DEF DiagnoseInv
  <2> QED
    BY <1>1, <1>2, <1>3, <2>1, <2>2, <2>3 DEF TypeOK
<1>5. ReadsOK(reads)'
  BY <1>1, ReadsOKNext DEF DiagnoseInv
<1>6. ASSUME NEW u \in DOMAIN Sick, u < turn PROVE Diagnosed(u)'
  <2>1. Diagnosed(u) /\ target \in Cases
    BY <1>6 DEF DiagnoseInv
  <2>2. ReadsOn(reads, reads')
    BY <1>1 DEF ReadsOn
  <2> QED
    BY <1>1, <2>1, <2>2, DiagnosedStays
<1>7. Stages' /\ Rejected' /\ Deduped'
  BY <1>1, <1>2 DEF DiagnoseInv, Stages, Rejected, Deduped, Readable
<1>8. (\A u \in DOMAIN Sick : u < turn => Diagnosed(u))'
  BY <1>1, <1>2, <1>6
<1>9. (/\ target \in Cases /\ DOMAIN world = Names /\ \A n \in Names : <<n, world[n]>> \in held
       /\ findings \in Seq(ToSet(findings)) /\ OnePerPod(findings))'
  BY <1>1, <1>2 DEF DiagnoseInv, OnePerPod
<1> QED
  BY <1>3, <1>4, <1>5, <1>7, <1>8, <1>9 DEF DiagnoseInv

\* The list of events comes, or is missing: nothing is found meanwhile.
LEMMA ListsEventsKeeps == DiagnoseInv /\ ListsEvents => DiagnoseInv'
<1> SUFFICES ASSUME DiagnoseInv, ListsEvents PROVE DiagnoseInv'
  OBVIOUS
<1>1. UNCHANGED <<target, world, live, moves, turn, findings, held>> /\ phase = "events"
  BY DEF ListsEvents
<1>2. Sick' = Sick /\ Names' = Names
  BY <1>1, SameTarget
<1>3. /\ target \in Cases /\ findings = <<>> /\ turn = 1 /\ reads.degraded = {} /\ listed = FALSE
      /\ page \in 1 .. Pages /\ ReadsOK(reads) /\ TypeOK
      /\ DOMAIN world = Names /\ \A n \in Names : <<n, world[n]>> \in held
  BY <1>1 DEF DiagnoseInv, Stages, TypeOK
<1>4. DOMAIN Sick = 1 .. Len(Sick) /\ Len(Sick) \in Nat
  BY <1>3, SickFacts
<1>5. /\ phase' \in {"events", "workload"} /\ listed' \in BOOLEAN /\ page' \in 1 .. Pages
      /\ phase' = "events" => reads' = reads /\ listed' = FALSE
      /\ phase' = "workload" => \/ reads' = reads /\ listed' = TRUE
                                \/ /\ reads' = [reads EXCEPT !.degraded = @ \union {"events"}]
                                   /\ listed' = FALSE
  <2>1. CASE /\ phase' = "workload" /\ page' = 1 /\ listed' = listed
             /\ reads' = [reads EXCEPT !.degraded = @ \union {"events"}]
    <3>1. page' \in 1 .. Pages
      <4>1. page' = 1
        BY <2>1
      <4> QED
        BY <4>1, Bounds
    <3> QED
      BY <1>3, <2>1, <3>1
  <2>2. CASE page = Pages /\ phase' = "workload" /\ listed' = TRUE /\ page' = 1 /\ reads' = reads
    <3>1. page' \in 1 .. Pages
      <4>1. page' = 1
        BY <2>2
      <4> QED
        BY <4>1, Bounds
    <3> QED
      BY <1>3, <2>2, <3>1
  <2>3. CASE page # Pages /\ page' = page + 1 /\ phase' = phase /\ listed' = listed /\ reads' = reads
    <3>1. page' \in 1 .. Pages
      <4>1. page # Pages /\ page' = page + 1 /\ page \in 1 .. Pages
        BY <1>3, <2>3
      <4> QED
        BY <4>1, Bounds
    <3> QED
      BY <1>1, <1>3, <2>3, <3>1
  <2> QED
    BY <2>1, <2>2, <2>3 DEF ListsEvents
<1>6. /\ reads'.degraded \subseteq {"events"} /\ (listed' => reads'.degraded = {})
      /\ phase' = "workload" /\ ~ listed' => reads'.degraded = {"events"}
      /\ phase' = "events" => reads'.degraded = {}
      /\ reads'.cache = reads.cache /\ reads'.denied = reads.denied /\ reads'.failed = reads.failed
      /\ reads.degraded \subseteq reads'.degraded
      /\ reads' = [cache |-> reads'.cache, denied |-> reads'.denied,
                   degraded |-> reads'.degraded, failed |-> reads'.failed]
  <2>1. CASE reads' = reads
    BY <1>3, <1>5, <2>1 DEF ReadsOK
  <2>2. CASE reads' = [reads EXCEPT !.degraded = @ \union {"events"}]
    <3>1. /\ reads'.degraded = reads.degraded \union {"events"}
          /\ reads'.cache = reads.cache /\ reads'.denied = reads.denied /\ reads'.failed = reads.failed
          /\ reads' = [cache |-> reads'.cache, denied |-> reads'.denied,
                       degraded |-> reads'.degraded, failed |-> reads'.failed]
      BY <1>3, <2>2 DEF ReadsOK
    <3> QED
      BY <1>3, <1>5, <3>1
  <2> QED
    BY <1>5, <2>1, <2>2
<1>7. ReadsOK(reads)'
  <2>1. ReadsOK(reads')
    BY <1>3, <1>6 DEF ReadsOK
  <2> QED
    BY <1>1, <2>1, ReadsOKNext
<1>8. ToSet(findings') = {} /\ findings' \in Seq(ToSet(findings')) /\ DOMAIN findings' = {}
  BY <1>1, <1>3 DEF ToSet
<1>9. TypeOK'
  <2>1. \A n \in Names : Conditions(n)' = Conditions(n)
    BY DEF Conditions
  <2> QED
    BY <1>1, <1>2, <1>3, <1>5, <1>6, <1>8, <2>1 DEF TypeOK
<1>10. Stages'
  BY <1>1, <1>3, <1>5, <1>6 DEF Stages
<1>11. Rejected' /\ Deduped' /\ OnePerPod(findings)'
  BY <1>5, <1>8 DEF Rejected, Deduped, OnePerPod
<1>15. Aged'
  BY <1>1, <1>2 DEF DiagnoseInv, Aged
<1>12. (\A u \in DOMAIN Sick : u < turn => Diagnosed(u))'
  <2>1. \A u \in DOMAIN Sick : ~ u < turn
    BY <1>3, <1>4
  <2> QED
    BY <1>1, <1>2, <2>1
<1>13. (target \in Cases /\ DOMAIN world = Names /\ \A n \in Names : <<n, world[n]>> \in held)'
  BY <1>1, <1>2, <1>3
<1>14. (findings \in Seq(ToSet(findings)))'
  BY <1>8
<1> QED
  BY <1>7, <1>9, <1>10, <1>11, <1>12, <1>13, <1>14, <1>15 DEF DiagnoseInv

\* The images of a finite set are finitely many.
LEMMA MessagesAreFinite ==
  ASSUME NEW S, IsFiniteSet(S)
  PROVE  IsFiniteSet({x.message : x \in S})
<1> DEFINE T == {x.message : x \in S}
           f == [x \in S |-> x.message]
<1>1. f \in [S -> T] /\ \A t \in T : \E x \in S : f[x] = t
  OBVIOUS
<1> HIDE DEF f, T
<1>2. f \in Surjection(S, T)
  BY <1>1 DEF Surjection
<1>3. IsFiniteSet(T)
  BY <1>2, FS_Surjection
<1> QED
  BY <1>3 DEF T

\* What the controller said of the target's own pods is among what is read.
LEMMA MessagesAreRead ==
  ASSUME target \in Cases, NEW conditionsRead
  PROVE  \E M : /\ CreateFailureMessages(conditionsRead) \in Seq(M)
                /\ /\ target.kind # "CronJob"
                   /\ listed \/ (target.kind = "Deployment" /\ conditionsRead)
                   => target.own \subseteq ToSet(CreateFailureMessages(conditionsRead))
<1> DEFINE Others == {f.message : f \in target.foreign}
           M == target.own \union Others
<1>1. IsFiniteSet(target.own) /\ IsFiniteSet(Others)
  BY CasesAssumption, MessagesAreFinite
<1>2. IsFiniteSet(M)
  BY <1>1, FS_Union
<1>3. ReplicaSetFailures \subseteq M /\ target.own \subseteq ReplicaSetFailures
  <2>1. ASSUME NEW m \in target.own PROVE m \in ReplicaSetFailures
    <3>1. [owner |-> "target", message |-> m] \in {r \in ReplicaSets : r.owner = "target"}
      BY DEF ReplicaSets
    <3>2. [owner |-> "target", message |-> m].message = m
      OBVIOUS
    <3> QED
      BY <3>1, <3>2 DEF ReplicaSetFailures
  <2>2. ASSUME NEW m \in ReplicaSetFailures PROVE m \in M
    <3>1. PICK r \in ReplicaSets : m = r.message
      BY DEF ReplicaSetFailures
    <3>2. CASE r \in {[owner |-> "target", message |-> x] : x \in target.own}
      BY <3>1, <3>2
    <3>3. CASE r \in {[owner |-> "other", message |-> f.message] :
                         f \in {g \in target.foreign : g.kind = "ReplicaSet"}}
      BY <3>1, <3>3
    <3> QED
      BY <3>1, <3>2, <3>3 DEF ReplicaSets
  <2> QED
    BY <2>1, <2>2
<1>4. EventMessages \subseteq M /\ (target.kind # "CronJob" => target.own \subseteq EventMessages)
  <2>1. ASSUME target.kind # "CronJob", NEW m \in target.own PROVE m \in EventMessages
    <3> DEFINE e == [kind |-> Reporter[target.kind], message |-> m]
    <3>1. e.kind \in {"ReplicaSet", target.kind} /\ e.message = m
      <4>1. target.kind \in DOMAIN Reporter
        BY CasesAssumption
      <4>2. Reporter[target.kind] \in {"ReplicaSet", target.kind}
        BY <2>1, <4>1 DEF Reporter
      <4> QED
        BY <4>2
    <3>2. e \in FailedCreates
      BY DEF FailedCreates
    <3> HIDE DEF e
    <3> QED
      BY <3>1, <3>2 DEF EventMessages
  <2>2. ASSUME NEW m \in EventMessages PROVE m \in M
    <3>1. PICK e \in FailedCreates : m = e.message
      BY DEF EventMessages
    <3>2. CASE e \in {[kind |-> Reporter[target.kind], message |-> x] : x \in target.own}
      BY <3>1, <3>2
    <3>3. CASE e \in target.foreign
      BY <3>1, <3>3
    <3> QED
      BY <3>1, <3>2, <3>3 DEF FailedCreates
  <2> QED
    BY <2>1, <2>2
<1> HIDE DEF M
<1>5. IsFiniteSet(ReplicaSetFailures) /\ IsFiniteSet(EventMessages)
  BY <1>2, <1>3, <1>4, FS_Subset
<1>6. /\ SetToSeq(ReplicaSetFailures) \in Seq(M) /\ ToSet(SetToSeq(ReplicaSetFailures)) = ReplicaSetFailures
      /\ SetToSeq(EventMessages) \in Seq(M) /\ ToSet(SetToSeq(EventMessages)) = EventMessages
  <2>1. /\ SetToSeq(ReplicaSetFailures) \in Seq(ReplicaSetFailures)
        /\ ToSet(SetToSeq(ReplicaSetFailures)) = ReplicaSetFailures
    BY <1>5, SetToSeqOf
  <2>2. /\ SetToSeq(EventMessages) \in Seq(EventMessages)
        /\ ToSet(SetToSeq(EventMessages)) = EventMessages
    BY <1>5, SetToSeqOf
  <2> QED
    BY <1>3, <1>4, <2>1, <2>2, SeqWiden
<1> DEFINE fromConditions == target.kind = "Deployment" /\ conditionsRead
           first == IF fromConditions THEN SetToSeq(ReplicaSetFailures) ELSE <<>>
           second == IF listed THEN SetToSeq(EventMessages) ELSE <<>>
<1>7. first \in Seq(M) /\ second \in Seq(M)
  <2>1. <<>> \in Seq(M)
    OBVIOUS
  <2> QED
    BY <1>6, <2>1
<1>8. CreateFailureMessages(conditionsRead) = first \o second
  BY DEF CreateFailureMessages
<1>9. /\ fromConditions => ToSet(first) = ReplicaSetFailures
      /\ listed => ToSet(second) = EventMessages
  BY <1>6
<1> HIDE DEF first, second
<1>10. first \o second \in Seq(M) /\ ToSet(first \o second) = ToSet(first) \union ToSet(second)
  BY <1>7, ToSetConcat
<1> QED
  BY <1>3, <1>4, <1>8, <1>9, <1>10

\* The rejections are found, and nothing else yet.
LEMMA WorkloadFindingsKeeps == DiagnoseInv /\ WorkloadFindings => DiagnoseInv'
<1> SUFFICES ASSUME DiagnoseInv, WorkloadFindings PROVE DiagnoseInv'
  OBVIOUS
<1>1. /\ UNCHANGED <<target, world, live, moves, page, listed, turn, held>>
      /\ phase = "workload" /\ phase' = "pods"
  BY DEF WorkloadFindings
<1>2. Sick' = Sick /\ Names' = Names
  BY <1>1, SameTarget
<1>3. /\ target \in Cases /\ turn = 1 /\ reads.degraded \subseteq {"events"}
      /\ (listed <=> "events" \notin reads.degraded)
      /\ ReadsOK(reads) /\ TypeOK /\ listed \in BOOLEAN
      /\ DOMAIN world = Names /\ \A n \in Names : <<n, world[n]>> \in held
  BY <1>1 DEF DiagnoseInv, Stages, TypeOK
<1>4. DOMAIN Sick = 1 .. Len(Sick) /\ Len(Sick) \in Nat
  BY <1>3, SickFacts
<1>5. PICK missing \in {{}, {"deployment"}, {"replicasets"}} :
        /\ findings' = Rejections(CreateFailureMessages(missing = {}))
        /\ reads' = [reads EXCEPT !.degraded = @ \union missing]
  BY DEF WorkloadFindings
<1>6. /\ reads'.degraded = reads.degraded \union missing
      /\ reads'.cache = reads.cache /\ reads'.denied = reads.denied /\ reads'.failed = reads.failed
      /\ reads' = [cache |-> reads'.cache, denied |-> reads'.denied,
                   degraded |-> reads'.degraded, failed |-> reads'.failed]
  BY <1>3, <1>5 DEF ReadsOK
<1>7. ReadsOK(reads)'
  <2>1. ReadsOK(reads')
    BY <1>3, <1>6 DEF ReadsOK
  <2> QED
    BY <1>1, <2>1, ReadsOKNext
<1> DEFINE messages == CreateFailureMessages(missing = {})
<1>8. PICK M : /\ messages \in Seq(M)
               /\ /\ target.kind # "CronJob"
                  /\ listed \/ (target.kind = "Deployment" /\ missing = {})
                  => target.own \subseteq ToSet(messages)
  BY <1>3, MessagesAreRead
<1> HIDE DEF messages
<1>9. /\ findings' \in Seq({WorkloadFinding(m) : m \in M})
      /\ ToSet(findings') = {WorkloadFinding(m) : m \in {x \in ToSet(messages) : Rejection(x) # "none"}}
  BY <1>5, <1>8, RejectionFacts DEF messages
<1>10. \A f \in ToSet(findings') : \E m : Rejection(m) # "none" /\ f = WorkloadFinding(m)
  BY <1>9
<1>11. \A m : WorkloadFinding(m).pod = ""
  BY DEF WorkloadFinding, Finding
<1>12. \A f \in ToSet(findings') : f.pod = ""
  BY <1>10, <1>11
<1>13. (findings \in Seq(ToSet(findings)) /\ OnePerPod(findings))'
  <2>1. findings' \in Seq(ToSet(findings'))
    BY <1>9, SeqOfOwn
  <2>2. \A i \in DOMAIN findings' : findings'[i].pod = ""
    BY <1>12 DEF ToSet
  <2> QED
    BY <2>1, <2>2 DEF OnePerPod
<1>14. Rejected'
  <2>1. Readable' => listed \/ (target.kind = "Deployment" /\ missing = {})
    BY <1>1, <1>5, <1>6 DEF Readable
  <2>2. ASSUME NEW m \in target.own, target.kind # "CronJob", Rejection(m) # "none", Readable'
        PROVE  WorkloadFinding(m) \in ToSet(findings')
    <3>1. m \in {x \in ToSet(messages) : Rejection(x) # "none"}
      BY <1>8, <2>1, <2>2
    <3> QED
      BY <1>9, <3>1
  <2> QED
    BY <1>1, <1>10, <2>2 DEF Rejected
<1>15. TypeOK'
  <2>1. \A n \in Names : Conditions(n)' = Conditions(n)
    BY DEF Conditions
  <2> QED
    BY <1>1, <1>2, <1>3, <1>6, <1>12, <2>1 DEF TypeOK
<1>16. Stages' /\ Deduped'
  BY <1>1, <1>3, <1>5, <1>6 DEF Stages, Deduped
<1>17. Aged'
  BY <1>1, <1>2 DEF DiagnoseInv, Aged
<1>18. (\A u \in DOMAIN Sick : u < turn => Diagnosed(u))'
  <2>1. \A u \in DOMAIN Sick : ~ u < turn
    BY <1>3, <1>4
  <2> QED
    BY <1>1, <1>2, <2>1
<1>19. (target \in Cases /\ DOMAIN world = Names /\ \A n \in Names : <<n, world[n]>> \in held)'
  BY <1>1, <1>2, <1>3
<1> QED
  BY <1>7, <1>13, <1>14, <1>15, <1>16, <1>17, <1>18, <1>19 DEF DiagnoseInv

\* Repetitions go, and nothing that was said is lost.
LEMMA ReportsKeeps == DiagnoseInv /\ Reports => DiagnoseInv'
<1> SUFFICES ASSUME DiagnoseInv, Reports PROVE DiagnoseInv'
  OBVIOUS
<1>1. /\ UNCHANGED <<target, world, live, moves, page, listed, turn, reads, held>>
      /\ phase = "pods" /\ phase' = "done" /\ turn > Len(Sick)
      /\ findings' = DedupIdentical(findings)
  BY DEF Reports
<1>2. Sick' = Sick /\ Names' = Names
  BY <1>1, SameTarget
<1>3. /\ target \in Cases /\ TypeOK /\ ReadsOK(reads) /\ Stages /\ Rejected /\ Aged
      /\ findings \in Seq(ToSet(findings)) /\ OnePerPod(findings)
      /\ DOMAIN world = Names /\ \A n \in Names : <<n, world[n]>> \in held
  BY DEF DiagnoseInv
<1>4. /\ findings' \in Seq(ToSet(findings))
      /\ ToSet(findings') \subseteq ToSet(findings)
      /\ \A f \in ToSet(findings) : \E g \in ToSet(findings') : Key(g) = Key(f)
      /\ \A i, j \in DOMAIN findings' : Key(findings'[i]) = Key(findings'[j]) => i = j
  BY <1>1, <1>3, DedupFacts
<1>5. /\ OnePerPod(findings')
      /\ \A name : name # "" => VerdictsOf(findings', name) = VerdictsOf(findings, name)
  BY <1>1, <1>3, VerdictsDedup
<1>6. TypeOK'
  <2>1. \A n \in Names : Conditions(n)' = Conditions(n)
    BY DEF Conditions
  <2> QED
    BY <1>1, <1>2, <1>3, <1>4, <2>1 DEF TypeOK
<1>7. ReadsOK(reads)'
  BY <1>1, <1>3, ReadsOKNext
<1>8. Stages'
  <2>1. turn' = Len(Sick') + 1
    <3>1. turn \in 1 .. Len(Sick) + 1 /\ turn > Len(Sick) /\ Len(Sick) \in Nat
      BY <1>1, <1>3, SickFacts DEF TypeOK
    <3>2. turn = Len(Sick) + 1
      BY <3>1
    <3> QED
      BY <1>1, <1>2, <3>2
  <2> QED
    BY <1>1, <1>3, <2>1 DEF Stages
<1>9. ASSUME NEW u \in DOMAIN Sick, u < turn PROVE Diagnosed(u)'
  <2>1. Diagnosed(u) /\ Sick[u].pod.name # ""
    BY <1>3, <1>9, SickFacts DEF DiagnoseInv, Usual
  <2>2. ReadsOn(reads, reads')
    BY <1>1 DEF ReadsOn
  <2> QED
    BY <1>1, <1>3, <1>5, <2>1, <2>2, DiagnosedStays
<1>10. Rejected'
  <2>1. \A f \in ToSet(findings') : f.pod = "" => \E m : Rejection(m) # "none" /\ f = WorkloadFinding(m)
    BY <1>3, <1>4 DEF Rejected
  <2>2. ASSUME NEW m \in target.own, target.kind # "CronJob", Rejection(m) # "none", Readable
        PROVE  WorkloadFinding(m) \in ToSet(findings')
    <3>1. \A x : WorkloadFinding(x).pod = "" /\ WorkloadFinding(x).on = x
      BY DEF WorkloadFinding, Finding, Trouble
    <3>2. WorkloadFinding(m) \in ToSet(findings)
      BY <1>1, <1>3, <2>2 DEF Rejected
    <3>3. PICK g \in ToSet(findings') : Key(g) = Key(WorkloadFinding(m))
      BY <1>4, <3>2
    <3>4. g.pod = "" /\ g.on = m
      BY <3>1, <3>3 DEF Key
    <3>5. PICK x : g = WorkloadFinding(x)
      BY <2>1, <3>4
    <3> QED
      BY <3>1, <3>4, <3>5
  <2>3. Readable' = Readable
    BY <1>1 DEF Readable
  <2> QED
    BY <1>1, <2>1, <2>2, <2>3 DEF Rejected
<1>11. Deduped' /\ Aged'
  BY <1>1, <1>2, <1>3, <1>4 DEF Deduped, Aged
<1>12. (findings \in Seq(ToSet(findings)) /\ OnePerPod(findings))'
  <2>1. findings' \in Seq(ToSet(findings'))
    BY <1>4, SeqOfOwn
  <2> QED
    BY <1>5, <2>1 DEF OnePerPod
<1>13. (\A u \in DOMAIN Sick : u < turn => Diagnosed(u))'
  BY <1>1, <1>2, <1>9
<1>14. (target \in Cases /\ DOMAIN world = Names /\ \A n \in Names : <<n, world[n]>> \in held)'
  BY <1>1, <1>2, <1>3
<1> QED
  BY <1>6, <1>7, <1>8, <1>10, <1>11, <1>12, <1>13, <1>14 DEF DiagnoseInv

\* What the findings are after a pod had its turn.
LEMMA AddsFacts ==
  ASSUME DiagnoseInv, NEW r, NEW match, turn \in DOMAIN Sick, Adds(r, turn, match)
  PROVE  /\ findings' \in Seq(ToSet(findings')) /\ OnePerPod(findings')
         /\ ToSet(findings) \subseteq ToSet(findings')
         /\ \A f \in ToSet(findings) : f.pod # Sick[turn].pod.name
         /\ \A f \in ToSet(findings') \ ToSet(findings) :
               f.pod = Sick[turn].pod.name /\ LogOK(r, f, turn, f.log)
         /\ VerdictsOf(findings', Sick[turn].pod.name) = match
         /\ \A name : name # Sick[turn].pod.name =>
               VerdictsOf(findings', name) = VerdictsOf(findings, name)
<1> DEFINE own == Sick[turn].pod.name
<1>1. findings \in Seq(ToSet(findings)) /\ OnePerPod(findings) /\ own # "" /\ Len(Sick) \in Nat
      /\ target \in Cases /\ DOMAIN Sick = 1 .. Len(Sick)
  BY SickFacts DEF DiagnoseInv, Usual
<1>2. \A f \in ToSet(findings) : f.pod # own
  <2> SUFFICES ASSUME NEW f \in ToSet(findings), f.pod = own PROVE FALSE
    OBVIOUS
  <2>1. PICK u \in 1 .. turn - 1 : f.pod = Sick[u].pod.name
    BY <1>1 DEF DiagnoseInv, TypeOK
  <2>2. u \in DOMAIN Sick /\ u # turn
    <3>1. u \in 1 .. turn - 1 /\ turn \in 1 .. Len(Sick) /\ Len(Sick) \in Nat
      BY <1>1, <2>1
    <3>2. u \in 1 .. Len(Sick) /\ u # turn
      BY <3>1
    <3> QED
      BY <1>1, <3>2
  <2> QED
    BY <1>1, <2>1, <2>2, SickFacts
<1>3. VerdictsOf(findings, own) = {}
  BY <1>2 DEF VerdictsOf
<1>4. CASE match = {} /\ findings' = findings
  BY <1>1, <1>2, <1>3, <1>4
<1>5. ASSUME NEW t, NEW log, match = {t}, t = Trouble(t.signature, t.on, t.why), LogOK(r, t, turn, log),
             findings' = Append(findings, Finding(own, t, log))
      PROVE  /\ findings' \in Seq(ToSet(findings')) /\ OnePerPod(findings')
             /\ ToSet(findings) \subseteq ToSet(findings')
             /\ \A f \in ToSet(findings') \ ToSet(findings) : f.pod = own /\ LogOK(r, f, turn, f.log)
             /\ VerdictsOf(findings', own) = match
             /\ \A name : name # own => VerdictsOf(findings', name) = VerdictsOf(findings, name)
  <2> DEFINE x == Finding(own, t, log)
  <2>1. x.pod = own /\ x.log = log /\ x.signature = t.signature
    BY DEF Finding
  <2> HIDE DEF x, own
  <2>2. /\ findings' \in Seq(ToSet(findings) \union {x})
        /\ DOMAIN findings = 1 .. Len(findings) /\ DOMAIN findings' = 1 .. Len(findings) + 1
        /\ Len(findings) \in Nat /\ findings'[Len(findings) + 1] = x
        /\ \A i \in DOMAIN findings : findings'[i] = findings[i]
    <3> DEFINE S == ToSet(findings)
    <3>1. findings \in Seq(S) /\ findings' = Append(findings, x)
      BY <1>1, <1>5 DEF x, own
    <3> HIDE DEF S
    <3>2. findings' \in Seq(S \union {x})
          /\ DOMAIN findings = 1 .. Len(findings) /\ DOMAIN findings' = 1 .. Len(findings) + 1
          /\ Len(findings) \in Nat /\ findings'[Len(findings) + 1] = x
          /\ \A i \in DOMAIN findings : findings'[i] = findings[i]
      BY <3>1, AppendFacts
    <3> QED
      BY <3>2 DEF S
  <2>3. ToSet(findings') = ToSet(findings) \union {x}
    BY <1>1, <1>5, AppendToSet, Zenon DEF x
  <2>4. OnePerPod(findings')
    <3>1. \A i \in DOMAIN findings : findings[i].pod # own
      BY <1>2 DEF ToSet
    <3>2. \A i \in DOMAIN findings' : i \in DOMAIN findings \/ i = Len(findings) + 1
      BY <2>2
    <3>3. \A i, j \in DOMAIN findings : findings[i].pod # "" /\ findings[i].pod = findings[j].pod => i = j
      BY <1>1 DEF OnePerPod
    <3>4. \A i, j \in DOMAIN findings' :
              findings'[i].pod # "" /\ findings'[i].pod = findings'[j].pod => i = j
      BY <2>1, <2>2, <3>1, <3>2, <3>3
    <3> QED
      BY <3>4 DEF OnePerPod
  <2>5. \A f \in ToSet(findings') \ ToSet(findings) : f.pod = own /\ LogOK(r, f, turn, f.log)
    <3>1. LogOK(r, x, turn, x.log)
      BY <1>5, <2>1 DEF LogOK
    <3> QED
      BY <2>1, <2>3, <3>1
  <2>6. \A name : VerdictsOf(findings', name) =
                    VerdictsOf(findings, name) \union (IF own = name THEN {t} ELSE {})
    <3>1. findings' = findings \o <<x>>
      BY <1>1, <1>5, ConcatSmall DEF x
    <3> SUFFICES ASSUME NEW name
                 PROVE  VerdictsOf(findings', name) =
                          VerdictsOf(findings, name) \union (IF own = name THEN {t} ELSE {})
      OBVIOUS
    <3>2. VerdictsOf(findings \o <<Finding(own, t, log)>>, name) =
            VerdictsOf(findings, name) \union (IF own = name THEN {t} ELSE {})
      <4> DEFINE S == ToSet(findings)
      <4>1. findings \in Seq(S)
        BY <1>1
      <4> HIDE DEF S
      <4> QED
        BY <1>5, <4>1, VerdictsAppend
    <3> QED
      BY <3>1, <3>2 DEF x
  <2>7. findings' \in Seq(ToSet(findings'))
    BY <2>2, SeqOfOwn
  <2>8. VerdictsOf(findings', own) = match
    BY <1>3, <1>5, <2>6 DEF own
  <2>9. \A name : name # own => VerdictsOf(findings', name) = VerdictsOf(findings, name)
    BY <2>6
  <2> QED
    BY <2>3, <2>4, <2>5, <2>7, <2>8, <2>9 DEF own
<1>6. CASE \E t, log :
          /\ match = {t} /\ t = Trouble(t.signature, t.on, t.why) /\ LogOK(r, t, turn, log)
          /\ findings' = Append(findings, Finding(own, t, log))
  BY <1>2, <1>5, <1>6
<1> QED
  BY <1>2, <1>4, <1>6 DEF Adds

\* A pod has its turn: its node and its claim are known, its finding is right, and
\* nothing that is known of the pods before it changes.
LEMMA DiagnosePodKeeps == DiagnoseInv /\ DiagnosePod => DiagnoseInv'
<1> SUFFICES ASSUME DiagnoseInv, DiagnosePod PROVE DiagnoseInv'
  OBVIOUS
<1>1. /\ UNCHANGED <<target, world, live, moves, phase, page, listed, held>>
      /\ phase = "pods" /\ turn' = turn + 1
  BY DEF DiagnosePod
<1>2. Sick' = Sick /\ Names' = Names
  BY <1>1, SameTarget
<1>3. /\ target \in Cases /\ TypeOK /\ ReadsOK(reads) /\ Stages /\ Rejected
      /\ findings \in Seq(ToSet(findings)) /\ OnePerPod(findings)
      /\ DOMAIN world = Names /\ \A n \in Names : <<n, world[n]>> \in held
  BY DEF DiagnoseInv
<1>4. /\ turn \in DOMAIN Sick
      /\ ReadsOK(reads') /\ ReadsOn(reads, reads')
  BY PodIsDiagnosed
<1>5. PICK node, claim :
         /\ Known(reads', NodeOf(turn), node) /\ Known(reads', ClaimOf(turn), claim)
         /\ Adds(reads', turn, Found(turn, node, claim))
  BY PodIsDiagnosed
<1> DEFINE own == Sick[turn].pod.name
<1>6. /\ findings' \in Seq(ToSet(findings')) /\ OnePerPod(findings')
      /\ ToSet(findings) \subseteq ToSet(findings')
      /\ \A f \in ToSet(findings') \ ToSet(findings) : f.pod = own /\ LogOK(reads', f, turn, f.log)
      /\ VerdictsOf(findings', own) = Found(turn, node, claim)
      /\ \A name : name # own => VerdictsOf(findings', name) = VerdictsOf(findings, name)
  BY <1>4, <1>5, AddsFacts
<1>7. /\ own # "" /\ Len(Sick) \in Nat /\ DOMAIN Sick = 1 .. Len(Sick)
      /\ \A u, v \in DOMAIN Sick : Sick[u].pod.name = Sick[v].pod.name => u = v
  BY <1>3, <1>4, SickFacts DEF Usual
<1>8. turn \in Nat /\ turn \in 1 .. turn' - 1 /\ turn' \in 1 .. Len(Sick) + 1
      /\ 1 .. turn - 1 \subseteq 1 .. turn' - 1
      /\ \A u \in DOMAIN Sick : u < turn' => u < turn \/ u = turn
  <2>1. turn \in 1 .. Len(Sick) /\ turn' = turn + 1 /\ Len(Sick) \in Nat /\ DOMAIN Sick = 1 .. Len(Sick)
    BY <1>1, <1>4, <1>7
  <2> QED
    BY <2>1
<1>9. TypeOK'
  <2>1. \A n \in Names : Conditions(n)' = Conditions(n)
    BY DEF Conditions
  <2>2. \A f \in ToSet(findings') : f.pod = "" \/ \E u \in 1 .. turn' - 1 : f.pod = Sick[u].pod.name
    <3> SUFFICES ASSUME NEW f \in ToSet(findings'), f.pod # ""
                 PROVE  \E u \in 1 .. turn' - 1 : f.pod = Sick[u].pod.name
      OBVIOUS
    <3>1. CASE f \in ToSet(findings)
      <4>1. PICK u \in 1 .. turn - 1 : f.pod = Sick[u].pod.name
        BY <1>3, <3>1 DEF TypeOK
      <4> QED
        BY <1>8, <4>1
    <3>2. CASE f \notin ToSet(findings)
      <4>1. f.pod = Sick[turn].pod.name
        BY <1>6, <3>2
      <4> QED
        BY <1>8, <4>1
    <3> QED
      BY <3>1, <3>2
  <2>3. /\ \A n \in Names : reads'.cache[n] \in Conditions(n) \union {"unread", ""}
        /\ reads'.denied \subseteq {"nodes", "claims", "logs"}
    BY <1>4 DEF ReadsOK
  <2> QED
    BY <1>1, <1>2, <1>3, <1>8, <2>1, <2>2, <2>3 DEF TypeOK
<1>10. ReadsOK(reads)'
  BY <1>1, <1>4, ReadsOKNext
<1>11. Stages' /\ Deduped'
  <2>1. listed' <=> "events" \notin reads'.degraded
    BY <1>1, <1>3, <1>4 DEF Stages, ReadsOn
  <2> QED
    BY <1>1, <2>1 DEF Stages, Deduped
<1>12. ASSUME NEW u \in DOMAIN Sick, u < turn' PROVE Diagnosed(u)'
  <2>1. CASE u = turn
    BY <1>1, <1>5, <1>6, <2>1, DiagnosedNext
  <2>2. CASE u # turn
    <3>1. Diagnosed(u)
      BY <1>8, <1>12, <2>2 DEF DiagnoseInv
    <3>2. Sick[u].pod.name # own
      BY <1>4, <1>7, <2>2
    <3>3. VerdictsOf(findings', Sick[u].pod.name) = VerdictsOf(findings, Sick[u].pod.name)
      BY <1>6, <3>2
    <3> QED
      BY <1>1, <1>3, <1>4, <3>1, <3>3, DiagnosedStays
  <2> QED
    BY <2>1, <2>2
<1>13. Rejected'
  <2>1. Readable' => Readable
    BY <1>1, <1>4 DEF Readable, ReadsOn
  <2>2. \A f \in ToSet(findings') : f.pod = "" => f \in ToSet(findings)
    BY <1>6, <1>7
  <2> QED
    BY <1>1, <1>3, <1>6, <2>1, <2>2 DEF Rejected
<1>14. Aged'
  BY <1>1, <1>2 DEF DiagnoseInv, Aged
<1>15. (findings \in Seq(ToSet(findings)) /\ OnePerPod(findings))'
  BY <1>6 DEF OnePerPod
<1>16. (\A u \in DOMAIN Sick : u < turn => Diagnosed(u))'
  BY <1>2, <1>12
<1>17. (target \in Cases /\ DOMAIN world = Names /\ \A n \in Names : <<n, world[n]>> \in held)'
  BY <1>1, <1>2, <1>3
<1> QED
  BY <1>9, <1>10, <1>11, <1>13, <1>14, <1>15, <1>16, <1>17 DEF DiagnoseInv

\* A diagnosis that does nothing keeps everything.
LEMMA StutterKeeps == DiagnoseInv /\ UNCHANGED vars => DiagnoseInv'
<1> SUFFICES ASSUME DiagnoseInv, UNCHANGED vars PROVE DiagnoseInv'
  OBVIOUS
<1>1. UNCHANGED <<target, world, live, moves, phase, page, listed, turn, reads, findings, held>>
  BY DEF vars
<1>2. Sick' = Sick /\ Names' = Names
  BY <1>1, SameTarget
<1>3. /\ TypeOK' /\ Stages' /\ Rejected' /\ Deduped' /\ Aged'
  BY <1>1, <1>2 DEF DiagnoseInv, TypeOK, Conditions, Stages, Rejected, Readable, Deduped, Aged
<1>4. ReadsOK(reads)'
  BY <1>1, ReadsOKNext DEF DiagnoseInv
<1>5. ASSUME NEW u \in DOMAIN Sick, u < turn PROVE Diagnosed(u)'
  <2>1. Diagnosed(u) /\ target \in Cases
    BY <1>5 DEF DiagnoseInv
  <2>2. ReadsOn(reads, reads')
    BY <1>1 DEF ReadsOn
  <2> QED
    BY <1>1, <2>1, <2>2, DiagnosedStays
<1>6. (\A u \in DOMAIN Sick : u < turn => Diagnosed(u))'
  BY <1>1, <1>2, <1>5
<1>7. (/\ target \in Cases /\ DOMAIN world = Names /\ \A n \in Names : <<n, world[n]>> \in held
       /\ findings \in Seq(ToSet(findings)) /\ OnePerPod(findings))'
  BY <1>1, <1>2 DEF DiagnoseInv, OnePerPod
<1> QED
  BY <1>3, <1>4, <1>6, <1>7 DEF DiagnoseInv

----------------------------------------------------------------------------
(* Theorems *)

\* The invariant holds of every diagnosis.
THEOREM Invariant == Spec => []DiagnoseInv
<1>1. DiagnoseInv /\ [Next]_vars => DiagnoseInv'
  BY WorldMovesKeeps, ContainerMovesKeeps, ListsEventsKeeps, WorkloadFindingsKeeps, DiagnosePodKeeps, ReportsKeeps,
     StutterKeeps DEF Next
<1> QED
  BY InitInv, <1>1, PTL DEF Spec

\* The types of a diagnosis; a finding is of a pod that had its turn.
THEOREM TypeCorrect == Spec => []TypeOK
<1>1. DiagnoseInv => TypeOK
  BY DEF DiagnoseInv
<1> QED
  BY Invariant, <1>1, PTL

\* Each pod gets one finding at most, and it names the deepest cause that could be
\* read, for every trouble that Kubelet describes at every instant of it, in any
\* company; two detectors lag, where RootCause says so (podDetectors,
\* detectCrashLoop, detectStuckTerminating, waitingToStart, Report.Degraded).
THEOREM RootCauseCorrect == Spec => []RootCause
BY Invariant, RootCauseFollows, PTL

\* Pods that share a node or a claim blame it in the same words, or none of them does
\* (the cache of the diagnosis, internal/signatures/diagnose.go).
THEOREM SharedCauseCorrect == Spec => []SharedCauseIsShared
BY Invariant, SharedCauseFollows, PTL

\* A rejection of the target's own pods that a condition or an event tells of is in
\* the report exactly once, whatever the target is but a CronJob (workloadFindings,
\* createFailureMessages, dedupIdentical).
THEOREM RejectionsCorrect == Spec => []RejectionsAreNamed
BY Invariant, RejectionsFollow, PTL

\* A log that is shown is that of the container's last crash at the time of the read,
\* wherever in its cycle it went since the snapshot, but for the two races that
\* LogMayBe names (fetchCrashLogs).
THEOREM LogCorrect == Spec => LogIsOfLastCrash
<1> DEFINE LogStep ==
        turn' > turn =>
          \A f \in ToSet(findings') :
              f.pod = Sick[turn].pod.name /\ f.signature \in {"CrashLoopBackOff", "ContainerFailed"} =>
                  LET taken == Instant(Sick[turn].pod)
                  IN  \/ /\ LogMayBe(f.log, taken, live[turn])
                         /\ f.log # NoLog => f.log >= LastCrash(taken)
                      \/ f.log = NoLog /\ ("logs" \in reads'.degraded \/ f.pod \in reads'.failed)
<1>1. DiagnoseInv /\ DiagnosePod => LogStep
  <2> SUFFICES ASSUME DiagnoseInv, DiagnosePod, NEW f \in ToSet(findings'),
                      f.pod = Sick[turn].pod.name,
                      f.signature \in {"CrashLoopBackOff", "ContainerFailed"}
               PROVE  \/ /\ LogMayBe(f.log, Instant(Sick[turn].pod), live[turn])
                         /\ f.log # NoLog => f.log >= LastCrash(Instant(Sick[turn].pod))
                      \/ f.log = NoLog /\ ("logs" \in reads'.degraded \/ f.pod \in reads'.failed)
    OBVIOUS
  <2>1. turn \in DOMAIN Sick
    BY PodIsDiagnosed
  <2>2. PICK node, claim : Adds(reads', turn, Found(turn, node, claim))
    BY PodIsDiagnosed
  <2>3. f \notin ToSet(findings) /\ LogOK(reads', f, turn, f.log)
    BY <2>1, <2>2, AddsFacts
  <2> QED
    BY <2>3 DEF LogOK
<1>2. DiagnoseInv /\ turn' = turn => LogStep
  <2> SUFFICES ASSUME DiagnoseInv, turn' = turn PROVE ~ turn' > turn
    OBVIOUS
  <2>1. turn \in 1 .. Len(Sick) + 1 /\ Len(Sick) \in Nat
    BY SickFacts DEF DiagnoseInv, TypeOK
  <2>2. turn \in Int
    BY <2>1
  <2> QED
    BY <2>2
<1>3. Next => DiagnosePod \/ turn' = turn
  BY DEF Next, WorldMoves, ContainerMoves, ListsEvents, WorkloadFindings, Reports
<1> HIDE DEF LogStep
<1>4. DiagnoseInv /\ [Next]_vars => [LogStep]_vars
  BY <1>1, <1>2, <1>3
<1>5. Spec => [][LogStep]_vars
  BY Invariant, <1>4, PTL DEF Spec
<1> QED
  BY <1>5, PTL DEF LogIsOfLastCrash, LogStep
=============================================================================
