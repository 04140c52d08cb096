---------------------------- MODULE MonitorProofs ----------------------------
(***************************************************************************)
(* What trimming keeps, counts and drops, for every verdict and budget,    *)
(* and what that makes of the verdicts of a monitor loop.                  *)
(***************************************************************************)
EXTENDS Monitor, SequenceFacts

----------------------------------------------------------------------------
(* Trimming *)

\* Entries that carry evidence, as failures and advisories do.
HasEvidence(es) ==
    /\ \E S : es \in Seq(S)
    /\ \A i \in DOMAIN es : "evidence" \in DOMAIN es[i] /\ es[i].evidence \in Seq(Nat)

\* What is trimmed.
IsVerdict(v) ==
    /\ {"status", "header", "transitions", "baseline", "contexts", "degraded", "earlyExit",
        "namespaces", "failures", "advisories", "truncated"} = DOMAIN v
    /\ {"failures", "evidence", "namespaces", "advisories"} = DOMAIN v.truncated
    /\ \E S : v.namespaces \in Seq(S)
    /\ HasEvidence(v.failures) /\ HasEvidence(v.advisories)

\* What no trimming touches.
SameSkeleton(v, w) ==
    /\ v.status = w.status /\ v.header = w.header /\ v.transitions = w.transitions
    /\ v.baseline = w.baseline /\ v.contexts = w.contexts /\ v.degraded = w.degraded
    /\ v.earlyExit = w.earlyExit

\* They are counted by a natural number.
LEMMA EntriesAre ==
    ASSUME NEW es, HasEvidence(es)
    PROVE  /\ DOMAIN es = 1 .. Len(es) /\ Len(es) \in Nat
           /\ \A i \in DOMAIN es : "evidence" \in DOMAIN es[i] /\ es[i].evidence \in Seq(Nat)
BY DEF HasEvidence

\* The number of pieces is a number, and none if nothing has any.
LEMMA PiecesFacts ==
    ASSUME NEW es, HasEvidence(es)
    PROVE  /\ PiecesOf(es) \in Int
           /\ (\A i \in DOMAIN es : es[i].evidence = <<>>) => PiecesOf(es) = 0
<1> DEFINE s == [i \in DOMAIN es |-> Len(es[i].evidence)]
<1>1. DOMAIN es = 1 .. Len(es) /\ Len(es) \in Nat
  BY DEF HasEvidence
<1>2. \A i \in DOMAIN es : Len(es[i].evidence) \in Int /\ (es[i].evidence = <<>> => Len(es[i].evidence) = 0)
  BY DEF HasEvidence
<1>3. s \in Seq(Int) /\ DOMAIN s = DOMAIN es
  BY <1>1, <1>2
<1>4. (\A i \in DOMAIN es : es[i].evidence = <<>>) => \A i \in DOMAIN s : s[i] = 0
  BY <1>2, <1>3
<1>5. PiecesOf(es) = Sum(s)
  BY DEF PiecesOf
<1> HIDE DEF s
<1> QED
  BY <1>3, <1>4, <1>5, SumFacts

\* The size of a verdict is that of its parts.
LEMMA SameSize ==
    ASSUME NEW v, NEW w, v.contexts = w.contexts, v.degraded = w.degraded,
           v.transitions = w.transitions, v.namespaces = w.namespaces,
           v.failures = w.failures, v.advisories = w.advisories
    PROVE  Tokens(v) = Tokens(w)
BY Zenon DEF Tokens

\* The longest prefix of one of the lengths is all of it if that is one of them,
\* and of one of them unless it is empty.
LEMMA LongestFacts ==
    ASSUME NEW S, NEW s \in Seq(S), NEW M, M \subseteq DOMAIN s
    PROVE  \E k \in 0 .. Len(s) :
              /\ LongestPrefix(s, M) = SubSeq(s, 1, k)
              /\ k # 0 => k \in M
              /\ Len(s) \in M => k = Len(s)
<1> DEFINE k == Max(M \union {0})
<1>1. Len(s) \in Nat /\ M \union {0} \subseteq 0 .. Len(s) /\ M \union {0} # {}
  OBVIOUS
<1>2. k \in M \union {0} /\ \A m \in M \union {0} : k >= m
  <2> HIDE DEF k
  <2> QED
    BY <1>1, MaxFacts DEF k
<1>3. LongestPrefix(s, M) = SubSeq(s, 1, k)
  BY DEF LongestPrefix
<1> HIDE DEF k
<1> QED
  BY <1>1, <1>2, <1>3

\* Advisories with their evidence up to a place, bare from there on.
StrippedAt(adv, k) == [i \in 1 .. Len(adv) |-> IF i < k THEN adv[i] ELSE Bare(adv[i])]

\* They still are entries.
LEMMA StrippedFacts ==
    ASSUME NEW adv, HasEvidence(adv), NEW k \in 1 .. Len(adv) + 1
    PROVE  /\ HasEvidence(StrippedAt(adv, k))
           /\ DOMAIN StrippedAt(adv, k) = 1 .. Len(adv) /\ Len(StrippedAt(adv, k)) = Len(adv)
           /\ k = 1 => \A i \in DOMAIN adv : StrippedAt(adv, k)[i].evidence = <<>>
<1> DEFINE s == StrippedAt(adv, k)
<1>1. DOMAIN adv = 1 .. Len(adv) /\ Len(adv) \in Nat
  BY EntriesAre
<1>2. /\ DOMAIN s = 1 .. Len(adv)
      /\ \A i \in 1 .. Len(adv) : s[i] = IF i < k THEN adv[i] ELSE Bare(adv[i])
  BY <1>1 DEF StrippedAt
<1>3. \A i \in 1 .. Len(adv) : "evidence" \in DOMAIN adv[i] /\ adv[i].evidence \in Seq(Nat)
  BY <1>1, EntriesAre
<1>4. ASSUME NEW e, "evidence" \in DOMAIN e
      PROVE  "evidence" \in DOMAIN Bare(e) /\ Bare(e).evidence = <<>> /\ Bare(e).evidence \in Seq(Nat)
  BY <1>4 DEF Bare
<1>5. \A i \in 1 .. Len(adv) : "evidence" \in DOMAIN s[i] /\ s[i].evidence \in Seq(Nat)
  BY <1>2, <1>3, <1>4
<1>6. s \in Seq({s[i] : i \in 1 .. Len(adv)})
  <2> DEFINE R == {s[j] : j \in 1 .. Len(adv)}
  <2>1. \A i \in 1 .. Len(adv) : s[i] \in R
    OBVIOUS
  <2>2. s = [i \in 1 .. Len(adv) |-> s[i]]
    BY DEF StrippedAt
  <2> HIDE DEF s, R
  <2>3. s \in Seq(R)
    BY <1>1, <2>1, <2>2
  <2> QED
    BY <2>3 DEF R
<1>7. k = 1 => \A i \in 1 .. Len(adv) : s[i].evidence = <<>>
  <2> SUFFICES ASSUME k = 1, NEW i \in 1 .. Len(adv) PROVE s[i].evidence = <<>>
    OBVIOUS
  <2>1. ~ (i < k)
    BY <1>1
  <2>2. s[i] = Bare(adv[i])
    BY <1>2, <2>1
  <2> QED
    BY <1>3, <1>4, <2>2
<1>8. Len(s) = Len(adv)
  <2>1. PICK S : s \in Seq(S)
    BY <1>6
  <2> HIDE DEF s
  <2> QED
    BY <1>1, <1>2, <2>1
<1>9. HasEvidence(s)
  <2>1. \E S : s \in Seq(S)
    BY <1>6
  <2> HIDE DEF s
  <2> QED
    BY <1>2, <1>5, <2>1 DEF HasEvidence
<1> HIDE DEF s
<1> QED
  BY <1>1, <1>2, <1>7, <1>8, <1>9 DEF s

\* A prefix of entries is one of entries.
LEMMA PrefixHasEvidence ==
    ASSUME NEW es, HasEvidence(es), NEW k \in 0 .. Len(es)
    PROVE  /\ HasEvidence(SubSeq(es, 1, k)) /\ Len(SubSeq(es, 1, k)) = k
           /\ DOMAIN SubSeq(es, 1, k) = 1 .. k
           /\ \A i \in 1 .. k : SubSeq(es, 1, k)[i] = es[i]
           /\ k = Len(es) => SubSeq(es, 1, k) = es
           /\ SubSeq(es, 1, k) = <<>> <=> k = 0
<1>1. PICK S : es \in Seq(S)
  BY DEF HasEvidence
<1> DEFINE p == SubSeq(es, 1, k)
<1>2. /\ p \in Seq(S) /\ Len(p) = k
      /\ DOMAIN p = 1 .. k /\ DOMAIN p \subseteq DOMAIN es
      /\ \A i \in 1 .. k : p[i] = es[i]
      /\ k = Len(es) => p = es
      /\ p = <<>> <=> k = 0
  BY <1>1, PrefixFacts
<1> HIDE DEF p
<1>3. \E T : p \in Seq(T)
  BY <1>2
<1>4. HasEvidence(p)
  BY <1>2, <1>3 DEF HasEvidence
<1> QED
  BY <1>2, <1>4 DEF p

\* The advisories of t are the first of v's, with their evidence or without.
FewerAdvisories(t, v) ==
    \A j \in DOMAIN t.advisories :
        /\ j \in DOMAIN v.advisories
        /\ t.advisories[j] \in {v.advisories[j], Bare(v.advisories[j])}

\* Advisories lose their evidence, then go from the end: either the verdict fits
\* then or there are none left, and what went is counted.
LEMMA TrimAdvisoriesFacts ==
    ASSUME NEW v, IsVerdict(v), NEW tokens
    PROVE  LET q == TrimAdvisories(v, tokens)
           IN  /\ IsVerdict(q) /\ SameSkeleton(q, v)
               /\ q.namespaces = v.namespaces /\ q.failures = v.failures
               /\ q.truncated.failures = v.truncated.failures
               /\ q.truncated.namespaces = v.truncated.namespaces
               /\ Len(q.advisories) + q.truncated.advisories = Len(v.advisories)
               /\ PiecesOf(q.advisories) + q.truncated.evidence = PiecesOf(v.advisories)
               /\ q.truncated.evidence \in Int
               /\ q.advisories = <<>> \/ Tokens(q) <= tokens
               /\ FewerAdvisories(q, v)
<1> DEFINE adv == v.advisories
           n == Len(adv)
           With(es) == [v EXCEPT !.advisories = es]
           fits == {k \in 1 .. n + 1 : Tokens(With(StrippedAt(adv, k))) <= tokens}
           last == Max(fits \union {1})
           stripped == StrippedAt(adv, last)
           M == {k \in 1 .. n : Tokens(With(SubSeq(stripped, 1, k))) <= tokens}
           kept == LongestPrefix(stripped, M)
           q == TrimAdvisories(v, tokens)
<1>1. HasEvidence(adv) /\ n \in Nat /\ DOMAIN adv = 1 .. n
  BY EntriesAre DEF IsVerdict
<1>2. q = [v EXCEPT !.advisories = kept,
                    !.truncated.evidence = PiecesOf(adv) - PiecesOf(stripped),
                    !.truncated.advisories = n - Len(kept)]
  BY Zenon DEF TrimAdvisories, StrippedAt
<1>3. last \in 1 .. n + 1 /\ (last \in fits \/ last = 1)
  <2>1. fits \union {1} \subseteq 0 .. n + 1 /\ fits \union {1} # {} /\ n + 1 \in Nat
    BY <1>1
  <2>2. last \in fits \union {1}
    <3> HIDE DEF fits, n
    <3> QED
      BY <2>1, MaxFacts
  <2> HIDE DEF last
  <2> QED
    BY <1>1, <2>2
<1>4. /\ HasEvidence(stripped) /\ DOMAIN stripped = 1 .. n /\ Len(stripped) = n
      /\ last = 1 => \A i \in 1 .. n : stripped[i].evidence = <<>>
  <2> HIDE DEF last
  <2> QED
    BY <1>1, <1>3, StrippedFacts
<1>5. PICK k \in 0 .. n : /\ kept = SubSeq(stripped, 1, k)
                          /\ k # 0 => k \in M
                          /\ n \in M => k = n
  <2>1. PICK S : stripped \in Seq(S)
    BY <1>4 DEF HasEvidence
  <2>2. M \subseteq DOMAIN stripped
    BY <1>4
  <2> HIDE DEF stripped, M, n
  <2> QED
    BY <1>4, <2>1, <2>2, LongestFacts
<1>a. \A i \in 1 .. n : stripped[i] \in {adv[i], Bare(adv[i])}
  <2> HIDE DEF last, adv
  <2> QED
    BY <1>1 DEF StrippedAt
<1> HIDE DEF kept, stripped, q
<1>6. /\ HasEvidence(kept) /\ Len(kept) = k /\ DOMAIN kept = 1 .. k
      /\ \A i \in 1 .. k : kept[i] = stripped[i]
      /\ k = n => kept = stripped
      /\ kept = <<>> <=> k = 0
  BY <1>4, <1>5, PrefixHasEvidence
<1>7. PiecesOf(kept) = PiecesOf(stripped)
  <2>1. CASE last = 1
    <3>1. \A i \in DOMAIN stripped : stripped[i].evidence = <<>>
      BY <1>4, <2>1
    <3>2. \A i \in DOMAIN kept : kept[i].evidence = <<>>
      BY <1>1, <1>4, <1>6, <2>1
    <3> QED
      BY <1>4, <1>6, <3>1, <3>2, PiecesFacts
  <2>2. CASE last \in fits
    <3>1. Tokens(With(stripped)) <= tokens
      BY <2>2 DEF stripped
    <3>2. SubSeq(stripped, 1, n) = stripped
      <4>1. n \in 0 .. Len(stripped)
        BY <1>1, <1>4
      <4> HIDE DEF n
      <4> QED
        BY <1>4, <4>1, PrefixHasEvidence
    <3>3. n # 0 => n \in M
      <4>1. Tokens(With(SubSeq(stripped, 1, n))) <= tokens
        <5> HIDE DEF n, With
        <5> QED
          BY <3>1, <3>2
      <4> HIDE DEF stripped, With
      <4>2. n # 0 => n \in 1 .. n
        BY <1>1
      <4> HIDE DEF n
      <4> QED
        BY <4>1, <4>2
    <3>4. k = n
      <4> HIDE DEF M
      <4> QED
        BY <1>1, <1>5, <3>3
    <3> QED
      BY <1>6, <3>4
  <2> QED
    BY <1>3, <2>1, <2>2
<1>8. PiecesOf(adv) \in Int /\ PiecesOf(kept) \in Int
  BY <1>1, <1>6, PiecesFacts
<1> HIDE DEF M, fits, last
<1>9. /\ DOMAIN q = DOMAIN v
      /\ q.advisories = kept
      /\ DOMAIN q.truncated = DOMAIN v.truncated
      /\ q.truncated.evidence = PiecesOf(adv) - PiecesOf(stripped)
      /\ q.truncated.advisories = n - Len(kept)
      /\ q.truncated.failures = v.truncated.failures
      /\ q.truncated.namespaces = v.truncated.namespaces
      /\ q.namespaces = v.namespaces /\ q.failures = v.failures
      /\ SameSkeleton(q, v)
  <2> HIDE DEF adv, n
  <2> QED
    BY <1>2 DEF IsVerdict, SameSkeleton
<1>10. IsVerdict(q)
  BY <1>6, <1>9 DEF IsVerdict
<1>11. q.advisories = <<>> \/ Tokens(q) <= tokens
  <2> SUFFICES ASSUME k # 0 PROVE Tokens(q) <= tokens
    BY <1>6, <1>9
  <2>1. Tokens(With(kept)) <= tokens
    BY <1>5 DEF M
  <2>2. /\ With(kept).advisories = kept /\ With(kept).failures = v.failures
        /\ With(kept).namespaces = v.namespaces /\ With(kept).contexts = v.contexts
        /\ With(kept).degraded = v.degraded /\ With(kept).transitions = v.transitions
    BY DEF IsVerdict
  <2> HIDE DEF With
  <2>3. Tokens(With(kept)) = Tokens(q)
    BY <1>9, <2>2, SameSize DEF SameSkeleton
  <2> QED
    BY <2>1, <2>3
<1>12. Len(q.advisories) + q.truncated.advisories = n
  BY <1>1, <1>6, <1>9
<1>13. /\ PiecesOf(q.advisories) + q.truncated.evidence = PiecesOf(adv)
       /\ q.truncated.evidence \in Int
  BY <1>7, <1>8, <1>9
<1>14. FewerAdvisories(q, v)
  BY <1>1, <1>a, <1>6, <1>9 DEF FewerAdvisories
<1> QED
  BY <1>9, <1>10, <1>11, <1>12, <1>13, <1>14 DEF q

\* Namespaces go from the end, and the rest of the verdict stays.
LEMMA TrimNamespacesFacts ==
    ASSUME NEW v, IsVerdict(v), NEW tokens
    PROVE  LET t == TrimNamespaces(v, tokens)
           IN  /\ IsVerdict(t) /\ SameSkeleton(t, v)
               /\ t.failures = v.failures /\ t.advisories = v.advisories
               /\ t.truncated = v.truncated
               /\ Len(t.namespaces) \in 0 .. Len(v.namespaces)
               /\ t.namespaces = SubSeq(v.namespaces, 1, Len(t.namespaces))
               /\ t.namespaces = <<>> \/ Tokens(t) <= tokens
<1> DEFINE t == TrimNamespaces(v, tokens)
           With(s) == [v EXCEPT !.namespaces = s]
           M == {k \in DOMAIN v.namespaces : Tokens(With(SubSeq(v.namespaces, 1, k))) <= tokens}
           kept == LongestPrefix(v.namespaces, M)
<1>1. t = With(kept)
  BY Zenon DEF TrimNamespaces
<1>2. PICK S : v.namespaces \in Seq(S)
  BY DEF IsVerdict
<1>3. PICK k \in 0 .. Len(v.namespaces) : /\ kept = SubSeq(v.namespaces, 1, k)
                                          /\ k # 0 => k \in M
  <2>1. M \subseteq DOMAIN v.namespaces
    OBVIOUS
  <2> HIDE DEF M
  <2> QED
    BY <1>2, <2>1, LongestFacts
<1> HIDE DEF kept
<1>4. kept \in Seq(S) /\ Len(kept) = k /\ (kept = <<>> <=> k = 0)
  BY <1>2, <1>3, PrefixFacts
<1>5. k # 0 => Tokens(With(kept)) <= tokens
  BY <1>3
<1> HIDE DEF M
<1>6. /\ t.namespaces = kept
      /\ DOMAIN t = DOMAIN v /\ SameSkeleton(t, v)
      /\ t.failures = v.failures /\ t.advisories = v.advisories
      /\ t.truncated = v.truncated
  <2> HIDE DEF t
  <2> QED
    BY <1>1 DEF IsVerdict, SameSkeleton
<1> HIDE DEF With, t
<1>7. IsVerdict(t)
  BY <1>4, <1>6 DEF IsVerdict
<1> QED
  BY <1>1, <1>3, <1>4, <1>5, <1>6, <1>7 DEF t

\* Failures go from the end, and the rest of the verdict stays.
LEMMA TrimFailuresFacts ==
    ASSUME NEW v, IsVerdict(v), NEW tokens
    PROVE  LET t == TrimFailures(v, tokens)
           IN  /\ IsVerdict(t) /\ SameSkeleton(t, v)
               /\ t.namespaces = v.namespaces /\ t.advisories = v.advisories
               /\ t.truncated = v.truncated
               /\ Len(t.failures) \in 0 .. Len(v.failures)
               /\ t.failures = SubSeq(v.failures, 1, Len(t.failures))
               /\ t.failures = <<>> \/ Tokens(t) <= tokens
               /\ Tokens(v) <= tokens => t.failures = v.failures
<1> DEFINE t == TrimFailures(v, tokens)
           With(s) == [v EXCEPT !.failures = s]
           M == {k \in DOMAIN v.failures : Tokens(With(SubSeq(v.failures, 1, k))) <= tokens}
           kept == LongestPrefix(v.failures, M)
           n == Len(v.failures)
<1>1. t = With(kept)
  BY Zenon DEF TrimFailures
<1>2. HasEvidence(v.failures) /\ n \in Nat /\ DOMAIN v.failures = 1 .. n
  BY EntriesAre DEF IsVerdict
<1>3. PICK k \in 0 .. n : /\ kept = SubSeq(v.failures, 1, k)
                          /\ k # 0 => k \in M
                          /\ n \in M => k = n
  <2>1. M \subseteq DOMAIN v.failures
    OBVIOUS
  <2>2. PICK S : v.failures \in Seq(S)
    BY <1>2 DEF HasEvidence
  <2> HIDE DEF M
  <2> QED
    BY <2>1, <2>2, LongestFacts
<1> HIDE DEF kept
<1>4. /\ HasEvidence(kept) /\ Len(kept) = k /\ (kept = <<>> <=> k = 0)
      /\ k = n => kept = v.failures
  BY <1>2, <1>3, PrefixHasEvidence
<1>5. k # 0 => Tokens(With(kept)) <= tokens
  BY <1>3
<1>6. Tokens(v) <= tokens => kept = v.failures
  <2> SUFFICES ASSUME Tokens(v) <= tokens PROVE kept = v.failures
    OBVIOUS
  <2>1. SubSeq(v.failures, 1, n) = v.failures
    <3>1. n \in 0 .. Len(v.failures)
      BY <1>2
    <3> HIDE DEF n
    <3> QED
      BY <1>2, <3>1, PrefixHasEvidence DEF n
  <2>2. Tokens(With(v.failures)) = Tokens(v)
    BY SameSize DEF IsVerdict
  <2>3. Tokens(With(SubSeq(v.failures, 1, n))) <= tokens
    <3> HIDE DEF n, With
    <3> QED
      BY <2>1, <2>2
  <2>4. n # 0 => n \in M
    <3>1. n # 0 => n \in DOMAIN v.failures
      BY <1>2
    <3> HIDE DEF n, With
    <3> QED
      BY <2>3, <3>1
  <2> HIDE DEF M
  <2>5. k = n
    BY <1>2, <1>3, <2>4
  <2> QED
    BY <1>4, <2>5
<1> HIDE DEF M
<1>7. /\ t.failures = kept
      /\ DOMAIN t = DOMAIN v /\ SameSkeleton(t, v)
      /\ t.namespaces = v.namespaces /\ t.advisories = v.advisories
      /\ t.truncated = v.truncated
  <2> HIDE DEF t
  <2> QED
    BY <1>1 DEF IsVerdict, SameSkeleton
<1> HIDE DEF With, t
<1>8. IsVerdict(t)
  BY <1>4, <1>7 DEF IsVerdict
<1> QED
  BY <1>1, <1>3, <1>4, <1>5, <1>6, <1>7, <1>8 DEF t

\* A skeleton keeps prefixes of namespaces and failures, drops a failure only
\* when no namespace is left, and fits unless nothing of either is left.
LEMMA SkeletonFacts ==
    ASSUME NEW v, IsVerdict(v), NEW tokens
    PROVE  LET t == Skeleton(v, tokens)
           IN  /\ IsVerdict(t) /\ SameSkeleton(t, v)
               /\ t.advisories = v.advisories /\ t.truncated = v.truncated
               /\ Len(t.namespaces) \in 0 .. Len(v.namespaces)
               /\ t.namespaces = SubSeq(v.namespaces, 1, Len(t.namespaces))
               /\ Len(t.failures) \in 0 .. Len(v.failures)
               /\ t.failures = SubSeq(v.failures, 1, Len(t.failures))
               /\ t.failures = v.failures \/ t.namespaces = <<>>
               /\ Tokens(t) <= tokens \/ (t.namespaces = <<>> /\ t.failures = <<>>)
<1> DEFINE u == TrimNamespaces(v, tokens)
           t == TrimFailures(u, tokens)
<1>1. /\ IsVerdict(u) /\ SameSkeleton(u, v)
      /\ u.failures = v.failures /\ u.advisories = v.advisories
      /\ u.truncated = v.truncated
      /\ Len(u.namespaces) \in 0 .. Len(v.namespaces)
      /\ u.namespaces = SubSeq(v.namespaces, 1, Len(u.namespaces))
      /\ u.namespaces = <<>> \/ Tokens(u) <= tokens
  BY TrimNamespacesFacts
<1> HIDE DEF u
<1>2. /\ IsVerdict(t) /\ SameSkeleton(t, u)
      /\ t.namespaces = u.namespaces /\ t.advisories = u.advisories
      /\ t.truncated = u.truncated
      /\ Len(t.failures) \in 0 .. Len(u.failures)
      /\ t.failures = SubSeq(u.failures, 1, Len(t.failures))
      /\ t.failures = <<>> \/ Tokens(t) <= tokens
      /\ Tokens(u) <= tokens => t.failures = u.failures
  BY <1>1, TrimFailuresFacts
<1>3. t = Skeleton(v, tokens)
  BY DEF Skeleton, u
<1> HIDE DEF t
<1>4. Tokens(u) <= tokens => Tokens(t) <= tokens
  <2> SUFFICES ASSUME Tokens(u) <= tokens PROVE Tokens(t) = Tokens(u)
    OBVIOUS
  <2> QED
    BY <1>2, SameSize DEF SameSkeleton
<1>5. SameSkeleton(t, v)
  BY <1>1, <1>2 DEF SameSkeleton
<1> QED
  BY <1>1, <1>2, <1>3, <1>4, <1>5

\* The failures of a verdict, with any evidence.
Refillable(b) ==
    {b.failures[i] : i \in DOMAIN b.failures}
    \union {[b.failures[i] EXCEPT !.evidence = s] : i \in DOMAIN b.failures, s \in Seq(Nat)}

\* A verdict with other evidence, which fits if the verdict does.
Refills(b, tokens) ==
    {w \in {b} \union {[b EXCEPT !.failures = fs] : fs \in [1 .. Len(b.failures) -> Refillable(b)]} :
        Tokens(b) <= tokens => Tokens(w) <= tokens}

\* What of a verdict stays whatever evidence its failures get.
LEMMA RefillFacts ==
    ASSUME NEW b, IsVerdict(b), NEW tokens, NEW w \in Refills(b, tokens)
    PROVE  /\ IsVerdict(w) /\ SameSkeleton(w, b)
           /\ w.namespaces = b.namespaces /\ w.advisories = b.advisories
           /\ w.truncated = b.truncated
           /\ Len(w.failures) = Len(b.failures)
           /\ w.failures \in [1 .. Len(b.failures) -> Refillable(b)]
           /\ Tokens(b) <= tokens => Tokens(w) <= tokens
<1> DEFINE n == Len(b.failures)
           E == Refillable(b)
<1>1. /\ n \in Nat /\ DOMAIN b.failures = 1 .. n
      /\ \A i \in 1 .. n : "evidence" \in DOMAIN b.failures[i] /\ b.failures[i].evidence \in Seq(Nat)
  BY EntriesAre DEF IsVerdict
<1>2. b.failures \in [1 .. n -> E]
  <2>1. \A i \in 1 .. n : b.failures[i] \in E
    BY <1>1 DEF Refillable
  <2>2. PICK S : b.failures \in Seq(S)
    BY DEF IsVerdict, HasEvidence
  <2> HIDE DEF E
  <2> QED
    BY <1>1, <2>1, <2>2
<1>3. \A e \in E : "evidence" \in DOMAIN e /\ e.evidence \in Seq(Nat)
  <2> SUFFICES ASSUME NEW e \in E PROVE "evidence" \in DOMAIN e /\ e.evidence \in Seq(Nat)
    OBVIOUS
  <2>1. ASSUME NEW i \in 1 .. n, e = b.failures[i]
        PROVE  "evidence" \in DOMAIN e /\ e.evidence \in Seq(Nat)
    BY <1>1, <2>1
  <2>2. ASSUME NEW i \in 1 .. n, NEW s \in Seq(Nat), e = [b.failures[i] EXCEPT !.evidence = s]
        PROVE  "evidence" \in DOMAIN e /\ e.evidence \in Seq(Nat)
    BY <1>1, <2>2
  <2>3. \/ \E i \in 1 .. n : e = b.failures[i]
        \/ \E i \in 1 .. n, s \in Seq(Nat) : e = [b.failures[i] EXCEPT !.evidence = s]
    BY <1>1 DEF Refillable
  <2> QED
    BY <2>1, <2>2, <2>3
<1>4. PICK fs \in [1 .. n -> E] : w.failures = fs /\ (w = b \/ w = [b EXCEPT !.failures = fs])
  <2>1. CASE w = b
    BY <1>2, <2>1
  <2>2. CASE w # b
    <3>1. PICK fs \in [1 .. n -> E] : w = [b EXCEPT !.failures = fs]
      BY <2>2 DEF Refills
    <3> HIDE DEF E
    <3>2. w.failures = fs
      BY <3>1 DEF IsVerdict
    <3> QED
      BY <3>1, <3>2
  <2> QED
    BY <2>1, <2>2
<1>5. /\ DOMAIN w = DOMAIN b /\ SameSkeleton(w, b)
      /\ w.namespaces = b.namespaces /\ w.advisories = b.advisories
      /\ w.truncated = b.truncated
  <2> HIDE DEF E
  <2> QED
    BY <1>4 DEF IsVerdict, SameSkeleton
<1>6. w.failures \in Seq(E) /\ Len(w.failures) = n /\ DOMAIN w.failures = 1 .. n
  <2> HIDE DEF E, n
  <2> QED
    BY <1>1, <1>4
<1> HIDE DEF E, n
<1>7. HasEvidence(w.failures)
  <2>1. \A i \in 1 .. n : w.failures[i] \in E
    BY <1>4
  <2> QED
    BY <1>3, <1>6, <2>1 DEF HasEvidence
<1>8. IsVerdict(w)
  BY <1>5, <1>7 DEF IsVerdict
<1>9. Tokens(b) <= tokens => Tokens(w) <= tokens
  BY DEF Refills
<1> QED
  BY <1>4, <1>5, <1>6, <1>8, <1>9 DEF E, n

\* One more piece of evidence.
LEMMA RefillOne ==
    ASSUME NEW b, IsVerdict(b), NEW tokens, NEW w \in Refills(b, tokens),
           NEW i \in 1 .. Len(b.failures), NEW x \in Nat,
           Tokens([w EXCEPT !.failures[i].evidence = Append(@, x)]) <= tokens
    PROVE  [w EXCEPT !.failures[i].evidence = Append(@, x)] \in Refills(b, tokens)
<1> DEFINE n == Len(b.failures)
           E == Refillable(b)
           s == Append(w.failures[i].evidence, x)
           one == [w.failures[i] EXCEPT !.evidence = s]
           fs == [w.failures EXCEPT ![i] = one]
           more == [w EXCEPT !.failures[i].evidence = Append(@, x)]
<1>1. /\ n \in Nat /\ DOMAIN b.failures = 1 .. n
      /\ \A j \in 1 .. n : "evidence" \in DOMAIN b.failures[j] /\ b.failures[j].evidence \in Seq(Nat)
  BY EntriesAre DEF IsVerdict
<1>2. /\ IsVerdict(w) /\ w.failures \in [1 .. n -> E]
      /\ w.failures[i].evidence \in Seq(Nat)
  <2>1. /\ IsVerdict(w) /\ Len(w.failures) = n /\ w.failures \in [1 .. n -> E]
    BY RefillFacts
  <2> HIDE DEF E, n
  <2>2. w.failures[i].evidence \in Seq(Nat)
    BY <2>1, EntriesAre DEF IsVerdict, n
  <2> QED
    BY <2>1, <2>2
<1>3. s \in Seq(Nat)
  BY <1>2
<1>4. one \in E
  <2> HIDE DEF s
  <2>1. w.failures[i] \in E
    BY <1>2
  <2>2. \A e : e \in E <=> \/ \E j \in 1 .. n : e = b.failures[j]
                          \/ \E j \in 1 .. n, r \in Seq(Nat) : e = [b.failures[j] EXCEPT !.evidence = r]
    BY <1>1 DEF Refillable
  <2>3. ASSUME NEW j \in 1 .. n, w.failures[i] = b.failures[j] PROVE one \in E
    <3>1. one = [b.failures[j] EXCEPT !.evidence = s]
      BY <2>3
    <3> HIDE DEF E, n, one
    <3> QED
      BY <1>3, <2>2, <3>1
  <2>4. ASSUME NEW j \in 1 .. n, NEW r \in Seq(Nat),
               w.failures[i] = [b.failures[j] EXCEPT !.evidence = r]
        PROVE  one \in E
    <3>1. one = [b.failures[j] EXCEPT !.evidence = s]
      BY <1>1, <2>4
    <3> HIDE DEF E, n, one
    <3> QED
      BY <1>3, <2>2, <3>1
  <2> HIDE DEF E, n, one
  <2> QED
    BY <2>1, <2>2, <2>3, <2>4
<1>5. fs \in [1 .. n -> E]
  <2> HIDE DEF E, one
  <2> QED
    BY <1>2, <1>4
<1>6. more = [w EXCEPT !.failures = fs]
  BY Zenon
<1> HIDE DEF fs
<1>7. more = [b EXCEPT !.failures = fs]
  <2>1. w = b \/ \E gs : w = [b EXCEPT !.failures = gs]
    BY DEF Refills
  <2> HIDE DEF more
  <2>2. ASSUME NEW gs, w = [b EXCEPT !.failures = gs] PROVE more = [b EXCEPT !.failures = fs]
    BY <1>6, <2>2
  <2> QED
    BY <1>6, <2>1, <2>2
<1> HIDE DEF more
<1>8. Tokens(more) <= tokens
  BY DEF more
<1>9. more \in Refills(b, tokens)
  BY <1>5, <1>7, <1>8 DEF Refills
<1> QED
  BY <1>9 DEF more

\* A round of evidence.
LEMMA GiveRoundFacts ==
    ASSUME NEW b, IsVerdict(b), NEW tokens, NEW v \in Refills(b, tokens),
           NEW all, HasEvidence(all), Len(b.failures) <= Len(all),
           NEW round \in Nat \ {0}
    PROVE  GiveRound(v, all, round, tokens) \in Refills(b, tokens)
<1> DEFINE N == Len(v.failures)
           X == Refills(b, tokens)
           More(i, now) == [now EXCEPT !.failures[i].evidence = Append(@, all[i].evidence[round])]
           Step(i, now) == IF round <= Len(all[i].evidence) /\ Tokens(More(i, now)) <= tokens
                           THEN More(i, now) ELSE now
           Runs(f) == f = [i \in 0 .. N |-> IF i = 0 THEN v ELSE Step(i, f[i - 1])]
           G == [i \in 1 .. N |-> [now \in X |-> Step(i, now)]]
           after == CHOOSE f : Runs(f)
<1>1. N \in Nat /\ N = Len(b.failures)
  BY RefillFacts, EntriesAre DEF IsVerdict
<1>2. \A i \in 1 .. N : all[i].evidence \in Seq(Nat)
  <2> HIDE DEF N
  <2>1. DOMAIN all = 1 .. Len(all) /\ Len(all) \in Nat
    BY EntriesAre
  <2>2. \A i \in 1 .. N : i \in DOMAIN all
    BY <1>1, <2>1
  <2> QED
    BY <2>2, EntriesAre
<1>3. \A i \in 1 .. N : \A now \in X : Step(i, now) \in X
  <2> SUFFICES ASSUME NEW i \in 1 .. N, NEW now \in X PROVE Step(i, now) \in X
    OBVIOUS
  <2>1. CASE round <= Len(all[i].evidence) /\ Tokens(More(i, now)) <= tokens
    <3>1. all[i].evidence[round] \in Nat
      BY <1>2, <2>1
    <3>2. More(i, now) \in X
      BY <1>1, <2>1, <3>1, RefillOne
    <3> QED
      BY <2>1, <3>2
  <2>2. CASE ~ (round <= Len(all[i].evidence) /\ Tokens(More(i, now)) <= tokens)
    BY <2>2
  <2> QED
    BY <2>1, <2>2
<1> HIDE DEF Step, X, N
<1>4. PICK f : Iterates(f, N, X, v, G)
  <2>1. v \in X
    BY DEF X
  <2>2. G \in [1 .. N -> [X -> X]]
    BY <1>3
  <2> HIDE DEF G
  <2> QED
    BY <1>1, <2>1, <2>2, Recursion
<1>5. Runs(f)
  <2>0. /\ f \in [0 .. N -> X] /\ f[0] = v
        /\ \A n \in 1 .. N : f[n] = G[n][f[n - 1]]
    BY <1>4 DEF Iterates
  <2> SUFFICES ASSUME NEW i \in 0 .. N PROVE f[i] = IF i = 0 THEN v ELSE Step(i, f[i - 1])
    BY <2>0
  <2>1. CASE i # 0
    <3>1. i \in 1 .. N /\ f[i - 1] \in X
      BY <1>1, <2>0, <2>1
    <3> QED
      BY <2>0, <2>1, <3>1
  <2> QED
    BY <2>0, <2>1
<1>6. Runs(after)
  <2> HIDE DEF Runs
  <2> QED
    BY <1>5
<1>7. GiveRound(v, all, round, tokens) = after[N]
  BY Zenon DEF GiveRound, N, Step
<1> HIDE DEF after
<1> DEFINE T == {i \in 0 .. N : after[i] \in X}
<1>8. N \in T
  <2>1. 0 \in T
    BY <1>1, <1>6 DEF X
  <2>2. ASSUME NEW n \in 0 .. N - 1, n \in T PROVE n + 1 \in T
    <3>1. n + 1 \in 0 .. N /\ n + 1 # 0 /\ (n + 1) - 1 = n /\ n + 1 \in 1 .. N
      BY <1>1
    <3>2. after[n + 1] = Step(n + 1, after[n])
      BY <1>6, <3>1
    <3> QED
      BY <1>3, <2>2, <3>1, <3>2
  <2> HIDE DEF T
  <2>3. 0 .. N \subseteq T
    BY <1>1, <2>1, <2>2, UpTo
  <2> QED
    BY <1>1, <2>3
<1> QED
  BY <1>7, <1>8 DEF X

\* All rounds of evidence.
LEMMA ReturnEvidenceFacts ==
    ASSUME NEW b, IsVerdict(b), NEW tokens,
           NEW all, HasEvidence(all), Len(b.failures) <= Len(all)
    PROVE  ReturnEvidence(b, all, tokens) \in Refills(b, tokens)
<1> DEFINE n == Len(b.failures)
           L == {Len(all[i].evidence) : i \in DOMAIN b.failures}
           N == Max({0} \union L)
           X == Refills(b, tokens)
           Step(r, now) == GiveRound(now, all, r, tokens)
           Runs(f) == f = [r \in 0 .. N |-> IF r = 0 THEN b ELSE Step(r, f[r - 1])]
           G == [r \in 1 .. N |-> [now \in X |-> Step(r, now)]]
           after == CHOOSE f : Runs(f)
<1>1. N \in Nat
  <2>1. n \in Nat /\ DOMAIN b.failures = 1 .. n
    BY EntriesAre DEF IsVerdict
  <2>2. \A i \in 1 .. n : Len(all[i].evidence) \in Nat
    <3> HIDE DEF n
    <3>1. DOMAIN all = 1 .. Len(all) /\ Len(all) \in Nat
      BY EntriesAre
    <3>2. \A i \in 1 .. n : i \in DOMAIN all
      BY <2>1, <3>1 DEF n
    <3>3. \A i \in 1 .. n : all[i].evidence \in Seq(Nat)
      BY <3>2, EntriesAre
    <3> QED
      BY <3>3
  <2>3. PICK top \in Nat : \A i \in 1 .. n : Len(all[i].evidence) <= top
    <3> DEFINE f == [i \in 1 .. n |-> Len(all[i].evidence)]
    <3>1. f \in [1 .. n -> Nat]
      BY <2>2
    <3> HIDE DEF f, n
    <3>2. PICK top \in Nat : \A i \in 1 .. n : f[i] <= top
      BY <2>1, <3>1, Bounded
    <3> QED
      BY <3>2 DEF f
  <2>4. {0} \union L \subseteq 0 .. top
    <3> HIDE DEF n
    <3> QED
      BY <2>1, <2>2, <2>3
  <2> HIDE DEF L
  <2>5. N \in {0} \union L
    BY <2>4, MaxFacts
  <2> HIDE DEF N
  <2> QED
    BY <2>4, <2>5
<1>2. \A r \in 1 .. N : \A now \in X : Step(r, now) \in X
  <2> SUFFICES ASSUME NEW r \in 1 .. N, NEW now \in X PROVE Step(r, now) \in X
    OBVIOUS
  <2>1. r \in Nat \ {0}
    <3> HIDE DEF N
    <3> QED
      BY <1>1
  <2> HIDE DEF N
  <2> QED
    BY <2>1, GiveRoundFacts
<1>3. ReturnEvidence(b, all, tokens) = after[N]
  BY Zenon DEF ReturnEvidence
<1>4. b \in X
  BY DEF Refills
<1> HIDE DEF Step, X, N
<1>5. PICK f : Iterates(f, N, X, b, G)
  <2>1. G \in [1 .. N -> [X -> X]]
    BY <1>2
  <2> HIDE DEF G
  <2> QED
    BY <1>1, <1>4, <2>1, Recursion
<1>6. Runs(f)
  <2>0. /\ f \in [0 .. N -> X] /\ f[0] = b
        /\ \A i \in 1 .. N : f[i] = G[i][f[i - 1]]
    BY <1>5 DEF Iterates
  <2> SUFFICES ASSUME NEW i \in 0 .. N PROVE f[i] = IF i = 0 THEN b ELSE Step(i, f[i - 1])
    BY <2>0
  <2>1. CASE i # 0
    <3>1. i \in 1 .. N /\ f[i - 1] \in X
      BY <1>1, <2>0, <2>1
    <3> QED
      BY <2>0, <2>1, <3>1
  <2> QED
    BY <2>0, <2>1
<1>7. Runs(after)
  <2> HIDE DEF Runs
  <2> QED
    BY <1>6
<1> HIDE DEF after
<1> DEFINE T == {i \in 0 .. N : after[i] \in X}
<1>8. N \in T
  <2>1. 0 \in T
    BY <1>1, <1>4, <1>7
  <2>2. ASSUME NEW i \in 0 .. N - 1, i \in T PROVE i + 1 \in T
    <3>1. i + 1 \in 0 .. N /\ i + 1 # 0 /\ (i + 1) - 1 = i /\ i + 1 \in 1 .. N
      BY <1>1
    <3>2. after[i + 1] = Step(i + 1, after[i])
      BY <1>7, <3>1
    <3> QED
      BY <1>2, <2>2, <3>1, <3>2
  <2> HIDE DEF T
  <2>3. 0 .. N \subseteq T
    BY <1>1, <2>1, <2>2, UpTo
  <2> QED
    BY <1>1, <2>3
<1> QED
  BY <1>3, <1>8 DEF X

\* What is emitted accounts for what was found.
Accounts(t, v) ==
    /\ Len(t.namespaces) + t.truncated.namespaces = Len(v.namespaces)
    /\ Len(t.failures) + t.truncated.failures = Len(v.failures)
    /\ Len(t.advisories) + t.truncated.advisories = Len(v.advisories)
    /\ PiecesOf(t.failures) + PiecesOf(t.advisories) + t.truncated.evidence
          = PiecesOf(SubSeq(v.failures, 1, Len(t.failures))) + PiecesOf(v.advisories)
    /\ Len(t.namespaces) \in 0 .. Len(v.namespaces)
    /\ t.namespaces = SubSeq(v.namespaces, 1, Len(t.namespaces))
    /\ FewerAdvisories(t, v)

\* Entries are lost tier by tier: advisories, then namespaces, then failures.
InTiers(t, tokens) ==
    /\ t.truncated.failures > 0 => t.namespaces = <<>>
    /\ t.truncated.namespaces + t.truncated.failures > 0 => t.advisories = <<>>
    /\ Tokens(t) <= tokens \/ (t.namespaces = <<>> /\ t.failures = <<>> /\ t.advisories = <<>>)

\* A verdict trimmed to its skeleton and refilled, with its drops counted.
LEMMA CountedFacts ==
    ASSUME NEW v, IsVerdict(v), NEW q, IsVerdict(q), NEW tokens,
           SameSkeleton(q, v), q.namespaces = v.namespaces, q.failures = v.failures,
           q.truncated.failures = 0, q.truncated.namespaces = 0,
           Len(q.advisories) + q.truncated.advisories = Len(v.advisories),
           PiecesOf(q.advisories) + q.truncated.evidence = PiecesOf(v.advisories),
           q.truncated.evidence \in Int, q.advisories = <<>>
    PROVE  LET bare == [q EXCEPT !.failures = [i \in DOMAIN @ |-> Bare(@[i])]]
               t == Counted(ReturnEvidence(Skeleton(bare, tokens), v.failures, tokens), v)
           IN  SameSkeleton(t, v) /\ Accounts(t, v) /\ InTiers(t, tokens)
<1> DEFINE bare == [q EXCEPT !.failures = [i \in DOMAIN @ |-> Bare(@[i])]]
           s == Skeleton(bare, tokens)
           r == ReturnEvidence(s, v.failures, tokens)
           t == Counted(r, v)
           n == Len(v.failures)
<1>1. HasEvidence(v.failures) /\ n \in Nat /\ DOMAIN v.failures = 1 .. n
  BY EntriesAre DEF IsVerdict
<1>2. /\ IsVerdict(bare) /\ SameSkeleton(bare, v)
      /\ bare.namespaces = v.namespaces /\ bare.advisories = q.advisories
      /\ bare.truncated = q.truncated /\ Len(bare.failures) = n
  <2>1. [i \in DOMAIN v.failures |-> Bare(v.failures[i])] = StrippedAt(v.failures, 1)
    BY <1>1 DEF StrippedAt
  <2>2. HasEvidence(StrippedAt(v.failures, 1)) /\ Len(StrippedAt(v.failures, 1)) = n
    <3>1. 1 \in 1 .. n + 1
      BY <1>1
    <3> QED
      BY <1>1, <3>1, StrippedFacts
  <2>3. bare = [q EXCEPT !.failures = StrippedAt(v.failures, 1)]
    BY <2>1, Zenon
  <2> HIDE DEF bare
  <2>4. /\ DOMAIN bare = DOMAIN q /\ bare.failures = StrippedAt(v.failures, 1)
        /\ SameSkeleton(bare, q)
        /\ bare.namespaces = v.namespaces /\ bare.advisories = q.advisories
        /\ bare.truncated = q.truncated
    BY <2>3 DEF IsVerdict, SameSkeleton
  <2>5. IsVerdict(bare)
    BY <2>2, <2>4 DEF IsVerdict
  <2> QED
    BY <2>2, <2>4, <2>5 DEF SameSkeleton
<1> HIDE DEF bare
<1>3. /\ IsVerdict(s) /\ SameSkeleton(s, bare)
      /\ s.advisories = bare.advisories /\ s.truncated = bare.truncated
      /\ Len(s.namespaces) \in 0 .. Len(bare.namespaces)
      /\ s.namespaces = SubSeq(bare.namespaces, 1, Len(s.namespaces))
      /\ Len(s.failures) \in 0 .. Len(bare.failures)
      /\ s.failures = bare.failures \/ s.namespaces = <<>>
      /\ Tokens(s) <= tokens \/ (s.namespaces = <<>> /\ s.failures = <<>>)
  BY <1>2, SkeletonFacts
<1> HIDE DEF s
<1>4. r \in Refills(s, tokens)
  <2>1. Len(s.failures) <= n
    BY <1>1, <1>2, <1>3
  <2> QED
    BY <1>1, <1>3, <2>1, ReturnEvidenceFacts
<1> HIDE DEF r
<1>5. /\ IsVerdict(r) /\ SameSkeleton(r, s)
      /\ r.namespaces = s.namespaces /\ r.advisories = s.advisories
      /\ r.truncated = s.truncated
      /\ Len(r.failures) = Len(s.failures)
      /\ Tokens(s) <= tokens => Tokens(r) <= tokens
  BY <1>3, <1>4, RefillFacts
<1> DEFINE m == Len(r.failures)
<1>6. m \in 0 .. n /\ HasEvidence(r.failures)
  BY <1>2, <1>3, <1>5 DEF IsVerdict
<1>7. PiecesOf(r.failures) \in Int /\ PiecesOf(SubSeq(v.failures, 1, m)) \in Int
  <2> HIDE DEF m
  <2>1. HasEvidence(SubSeq(v.failures, 1, m))
    BY <1>1, <1>6, PrefixHasEvidence
  <2> QED
    BY <1>6, <2>1, PiecesFacts
<1>8. /\ t.failures = r.failures /\ t.namespaces = r.namespaces /\ t.advisories = r.advisories
      /\ SameSkeleton(t, r)
      /\ t.truncated.failures = n - m
      /\ t.truncated.namespaces = Len(v.namespaces) - Len(r.namespaces)
      /\ t.truncated.advisories = r.truncated.advisories
      /\ t.truncated.evidence = r.truncated.evidence + PiecesOf(SubSeq(v.failures, 1, m))
                                  - PiecesOf(r.failures)
  <2>1. t = [r EXCEPT
              !.truncated.failures = n - m,
              !.truncated.namespaces = Len(v.namespaces) - Len(r.namespaces),
              !.truncated.evidence =
                @ + PiecesOf(SubSeq(v.failures, 1, m)) - PiecesOf(r.failures)]
    BY Zenon DEF Counted
  <2> HIDE DEF n, m, t
  <2> QED
    BY <1>5, <2>1 DEF IsVerdict, SameSkeleton
<1> HIDE DEF t
<1>9. /\ r.advisories = <<>> /\ r.truncated = q.truncated
      /\ PiecesOf(r.advisories) \in Int
      /\ Len(v.namespaces) \in Nat /\ Len(r.namespaces) \in 0 .. Len(v.namespaces)
      /\ r.namespaces = SubSeq(v.namespaces, 1, Len(r.namespaces))
  <2>1. HasEvidence(r.advisories)
    BY <1>5 DEF IsVerdict
  <2> QED
    BY <1>2, <1>3, <1>5, <2>1, PiecesFacts DEF IsVerdict
<1>10. Accounts(t, v)
  <2> DEFINE all == PiecesOf(SubSeq(v.failures, 1, m))
             some == PiecesOf(r.failures)
             notes == PiecesOf(q.advisories)
             cut == q.truncated.evidence
  <2>1. some + notes + (cut + all - some) = all + PiecesOf(v.advisories)
    <3>1. some \in Int /\ all \in Int /\ notes \in Int /\ cut \in Int
      BY <1>2, <1>3, <1>5, <1>7, <1>9
    <3>2. notes + cut = PiecesOf(v.advisories)
      OBVIOUS
    <3> HIDE DEF some, all, notes, cut
    <3> QED
      BY <3>1, <3>2
  <2>2. Len(t.namespaces) + t.truncated.namespaces = Len(v.namespaces)
    BY <1>8, <1>9
  <2>3. Len(t.failures) + t.truncated.failures = Len(v.failures)
    BY <1>1, <1>6, <1>8
  <2>4. Len(t.advisories) + t.truncated.advisories = Len(v.advisories)
    BY <1>8, <1>9
  <2>5. t.namespaces = SubSeq(v.namespaces, 1, Len(t.namespaces))
        /\ Len(t.namespaces) \in 0 .. Len(v.namespaces)
    BY <1>8, <1>9
  <2>6. PiecesOf(t.failures) + PiecesOf(t.advisories) + t.truncated.evidence
          = PiecesOf(SubSeq(v.failures, 1, Len(t.failures))) + PiecesOf(v.advisories)
    <3>1. PiecesOf(t.advisories) = notes
      BY <1>2, <1>3, <1>5, <1>8
    <3>2. t.truncated.evidence = cut + all - some
      BY <1>8, <1>9
    <3>3. PiecesOf(SubSeq(v.failures, 1, Len(t.failures))) = all /\ PiecesOf(t.failures) = some
      BY <1>8
    <3> HIDE DEF notes, cut, all, some
    <3> QED
      BY <2>1, <3>1, <3>2, <3>3
  <2>7. FewerAdvisories(t, v)
    BY <1>8, <1>9 DEF FewerAdvisories
  <2> QED
    BY <2>2, <2>3, <2>4, <2>5, <2>6, <2>7 DEF Accounts
<1>11. InTiers(t, tokens)
  <2>1. Tokens(t) = Tokens(r)
    BY <1>8, SameSize DEF SameSkeleton
  <2>2. t.advisories = <<>>
    BY <1>8, <1>9
  <2>3. t.truncated.failures > 0 => t.namespaces = <<>>
    <3>1. n - m > 0 => m # n
      <4>1. n \in Nat /\ m \in 0 .. n
        BY <1>1, <1>6
      <4> HIDE DEF n, m
      <4> QED
        BY <4>1
    <3>2. m # n => s.namespaces = <<>>
      BY <1>2, <1>3, <1>5
    <3> HIDE DEF n, m
    <3> QED
      BY <1>5, <1>8, <3>1, <3>2
  <2>4. Tokens(t) <= tokens \/ (t.namespaces = <<>> /\ t.failures = <<>>)
    <3>1. s.failures = <<>> => r.failures = <<>>
      BY <1>3, <1>5 DEF IsVerdict, HasEvidence
    <3> QED
      BY <1>3, <1>5, <1>8, <2>1, <3>1
  <2> QED
    BY <2>2, <2>3, <2>4 DEF InTiers
<1>12. SameSkeleton(t, v)
  BY <1>2, <1>3, <1>5, <1>8 DEF SameSkeleton
<1> QED
  BY <1>10, <1>11, <1>12 DEF t, r, s, bare

\* Trimming leaves the skeleton, accounts for what it drops and drops tier by
\* tier.
LEMMA ApplyFacts ==
    ASSUME NEW v, IsVerdict(v), NEW tokens,
           \A f \in DOMAIN v.truncated : v.truncated[f] = 0
    PROVE  LET t == Apply(v, tokens)
           IN  SameSkeleton(t, v) /\ Accounts(t, v) /\ (t # v => InTiers(t, tokens))
<1> DEFINE q == TrimAdvisories(v, tokens)
           bare == [q EXCEPT !.failures = [i \in DOMAIN @ |-> Bare(@[i])]]
           t == Apply(v, tokens)
<1>1. /\ v.truncated.failures = 0 /\ v.truncated.namespaces = 0
      /\ v.truncated.advisories = 0 /\ v.truncated.evidence = 0
  BY DEF IsVerdict
<1>2. /\ HasEvidence(v.failures) /\ HasEvidence(v.advisories)
      /\ Len(v.failures) \in Nat /\ Len(v.advisories) \in Nat /\ Len(v.namespaces) \in Nat
      /\ PiecesOf(v.failures) \in Int /\ PiecesOf(v.advisories) \in Int
      /\ SubSeq(v.failures, 1, Len(v.failures)) = v.failures
      /\ SubSeq(v.namespaces, 1, Len(v.namespaces)) = v.namespaces
  <2>1. HasEvidence(v.failures) /\ HasEvidence(v.advisories)
    BY DEF IsVerdict
  <2>2. Len(v.failures) \in Nat /\ Len(v.advisories) \in Nat
    BY <2>1, EntriesAre
  <2>3. SubSeq(v.failures, 1, Len(v.failures)) = v.failures
    <3>1. Len(v.failures) \in 0 .. Len(v.failures)
      BY <2>2
    <3> QED
      BY <2>1, <3>1, PrefixHasEvidence
  <2>4. PICK S : v.namespaces \in Seq(S)
    BY DEF IsVerdict
  <2>5. Len(v.namespaces) \in 0 .. Len(v.namespaces)
    BY <2>4
  <2>6. SubSeq(v.namespaces, 1, Len(v.namespaces)) = v.namespaces
    BY <2>4, <2>5, PrefixFacts
  <2> QED
    BY <2>1, <2>2, <2>3, <2>4, <2>6, PiecesFacts
<1>3. /\ IsVerdict(q) /\ SameSkeleton(q, v)
      /\ q.namespaces = v.namespaces /\ q.failures = v.failures
      /\ q.truncated.failures = v.truncated.failures
      /\ q.truncated.namespaces = v.truncated.namespaces
      /\ Len(q.advisories) + q.truncated.advisories = Len(v.advisories)
      /\ PiecesOf(q.advisories) + q.truncated.evidence = PiecesOf(v.advisories)
      /\ q.truncated.evidence \in Int
      /\ q.advisories = <<>> \/ Tokens(q) <= tokens
      /\ FewerAdvisories(q, v)
  BY TrimAdvisoriesFacts
<1>4. CASE tokens = 0 \/ Tokens(v) <= tokens
  <2>1. t = v
    BY <1>4 DEF Apply
  <2>2. Accounts(v, v)
    <3>1. /\ Len(v.namespaces) \in 0 .. Len(v.namespaces)
          /\ Len(v.namespaces) + v.truncated.namespaces = Len(v.namespaces)
          /\ Len(v.failures) + v.truncated.failures = Len(v.failures)
          /\ Len(v.advisories) + v.truncated.advisories = Len(v.advisories)
      BY <1>1, <1>2
    <3>2. PiecesOf(v.failures) + PiecesOf(v.advisories) + v.truncated.evidence
            = PiecesOf(v.failures) + PiecesOf(v.advisories)
      BY <1>1, <1>2
    <3>3. FewerAdvisories(v, v)
      BY DEF FewerAdvisories
    <3> QED
      BY <1>2, <3>1, <3>2, <3>3, Zenon DEF Accounts
  <2>3. SameSkeleton(v, v)
    BY DEF SameSkeleton
  <2> QED
    BY <2>1, <2>2, <2>3
<1>5. CASE ~ (tokens = 0 \/ Tokens(v) <= tokens) /\ Tokens(q) <= tokens
  <2>1. t = q
    BY <1>5, Zenon DEF Apply
  <2> HIDE DEF t, q
  <2>2. PiecesOf(q.advisories) \in Int
    BY <1>3, PiecesFacts DEF IsVerdict
  <2>3. PiecesOf(v.failures) + PiecesOf(q.advisories) + q.truncated.evidence
          = PiecesOf(v.failures) + PiecesOf(v.advisories)
    BY <1>2, <1>3, <2>2
  <2>4. Accounts(q, v)
    <3>1. /\ Len(q.namespaces) \in 0 .. Len(v.namespaces)
          /\ q.namespaces = SubSeq(v.namespaces, 1, Len(q.namespaces))
          /\ Len(q.namespaces) + q.truncated.namespaces = Len(v.namespaces)
          /\ Len(q.failures) + q.truncated.failures = Len(v.failures)
      BY <1>1, <1>2, <1>3
    <3>2. PiecesOf(q.failures) = PiecesOf(v.failures)
          /\ PiecesOf(SubSeq(v.failures, 1, Len(q.failures))) = PiecesOf(v.failures)
      BY <1>2, <1>3
    <3>3. PiecesOf(q.failures) + PiecesOf(q.advisories) + q.truncated.evidence
            = PiecesOf(SubSeq(v.failures, 1, Len(q.failures))) + PiecesOf(v.advisories)
      BY <2>3, <3>2
    <3> QED
      BY <1>3, <3>1, <3>3, Zenon DEF Accounts
  <2>5. InTiers(q, tokens)
    BY <1>1, <1>3, <1>5 DEF InTiers
  <2> QED
    BY <1>3, <2>1, <2>4, <2>5 DEF t
<1>6. CASE ~ (tokens = 0 \/ Tokens(v) <= tokens) /\ ~ (Tokens(q) <= tokens)
  <2>1. t = Counted(ReturnEvidence(Skeleton(bare, tokens), v.failures, tokens), v)
    BY <1>6, Zenon DEF Apply
  <2>2. SameSkeleton(t, v) /\ Accounts(t, v) /\ InTiers(t, tokens)
    <3> HIDE DEF t, q
    <3>1. q.advisories = <<>>
      BY <1>3, <1>6
    <3> QED
      BY <1>1, <1>3, <2>1, <3>1, CountedFacts
  <2> QED
    BY <2>2
<1> QED
  BY <1>4, <1>5, <1>6

----------------------------------------------------------------------------
(* A run's verdict *)

\* The loop is one of those given.
InLoop == <<mode, budget>> \in Loops

\* What is asked and watched in a loop: workloads that match.
LEMMA WatchedFacts ==
    ASSUME InLoop
    PROVE  /\ \E S : Asked \in Seq(S)
           /\ Asked # <<>>
           /\ \A c \in Range(Asked) : WatchedIn(c) \in Seq(Matched)
<1>1. /\ \E S : Contexts \in Seq(S)
      /\ Contexts # <<>>
      /\ \A c \in Range(Contexts) : \E S : Workloads[c] \in Seq(S)
      /\ mode = "target" => Workloads[Contexts[1]] # <<>>
  <2>1. /\ Contexts \in Seq(STRING) /\ Contexts # <<>>
    BY MonitorAssumption
  <2>2. mode = "target" => Workloads[Contexts[1]] # <<>>
    <3>1. <<mode, budget>>[1] = mode
      OBVIOUS
    <3> QED
      BY <3>1, MonitorAssumption, Zenon DEF InLoop
  <2>3. \A c \in Range(Contexts) : \E S : Workloads[c] \in Seq(S)
    <3> DEFINE A == Range(Contexts)
               W == [ns : STRING, name : STRING \X STRING]
    <3>1. Workloads \in [A -> Seq(W)]
      BY MonitorAssumption
    <3> HIDE DEF A, W
    <3>2. \A c \in A : Workloads[c] \in Seq(W)
      BY <3>1
    <3> QED
      BY <3>2 DEF A
  <2> QED
    BY <2>1, <2>2, <2>3
<1>2. Contexts[1] \in Range(Contexts)
  BY <1>1 DEF Range
<1>3. ASSUME NEW c \in Range(Contexts) PROVE Workloads[c] \in Seq(Matched)
  <2>1. PICK S : Workloads[c] \in Seq(S)
    BY <1>1
  <2>2. Workloads[c] \in Seq(ToSet(Workloads[c]))
    BY <2>1, SeqOfOwn
  <2>3. ToSet(Workloads[c]) \subseteq Matched
    BY DEF ToSet, Range, Matched
  <2> QED
    BY <2>2, <2>3, SeqWiden
<1>4. ASSUME NEW c \in Range(Asked)
      PROVE  WorkloadsOf(c) \in Seq(Matched) /\ (mode = "target" => WorkloadsOf(c) # <<>>)
  <2>1. CASE mode = "contexts"
    <3>1. c \in Range(Contexts)
      BY <1>4, <2>1 DEF Asked
    <3> QED
      BY <1>2, <1>3, <2>1, <3>1 DEF WorkloadsOf
  <2>2. CASE mode # "contexts"
    <3>1. c = NoContext
      BY <1>4, <2>2 DEF Asked, Range
    <3> QED
      BY <1>1, <1>2, <1>3, <3>1 DEF WorkloadsOf
  <2> QED
    BY <2>1, <2>2
<1>5. ASSUME NEW c \in Range(Asked) PROVE WatchedIn(c) \in Seq(Matched)
  <2> DEFINE s == WorkloadsOf(c)
  <2>1. s \in Seq(Matched) /\ (mode = "target" => s # <<>>)
    BY <1>4
  <2>2. WatchedIn(c) = IF mode = "target" THEN SubSeq(s, 1, 1) ELSE s
    BY DEF WatchedIn
  <2> HIDE DEF s
  <2>3. s # <<>> => SubSeq(s, 1, 1) \in Seq(Matched)
    BY <2>1
  <2> QED
    BY <2>1, <2>2, <2>3
<1>6. (\E S : Asked \in Seq(S)) /\ Asked # <<>>
  <2>1. <<NoContext>> \in Seq({NoContext}) /\ <<NoContext>> # <<>>
    OBVIOUS
  <2> QED
    BY <1>1, <2>1 DEF Asked
<1> QED
  BY <1>5, <1>6

\* Every world is one of a cluster in which each workload is in some condition;
\* there is at least one.
LEMMA SomeWorld ==
    ASSUME InLoop
    PROVE  Worlds # {}
<1> DEFINE C == Range(Asked)
           Pick(c) == [i \in 1 .. Len(WatchedIn(c)) |->
                        CHOOSE k \in Conditions[WatchedIn(c)[i].name] : TRUE]
           world == [c \in C |-> [answer |-> "none", is |-> Pick(c)]]
<1>1. ASSUME NEW c \in C PROVE [answer |-> "none", is |-> Pick(c)] \in SightsOf(c)
  <2> DEFINE n == Len(WatchedIn(c))
             f == Pick(c)
  <2>1. \A i \in 1 .. n : WatchedIn(c)[i] \in Matched
    <3>1. WatchedIn(c) \in Seq(Matched)
      BY WatchedFacts
    <3> QED
      BY <3>1
  <2>2. ASSUME NEW m \in Matched
        PROVE  /\ (CHOOSE k \in Conditions[m.name] : TRUE) \in Conditions[m.name]
               /\ Conditions[m.name] \subseteq AnyCondition
    <3>1. m.name \in DOMAIN Conditions /\ Conditions[m.name] # {}
      BY ConditionsAssumption, Zenon
    <3>2. Conditions[m.name] \in Range(Conditions)
      BY <3>1, Zenon DEF Range
    <3> QED
      BY <3>1, <3>2 DEF AnyCondition
  <2>3. \A i \in 1 .. n : /\ f[i] \in Conditions[WatchedIn(c)[i].name]
                          /\ f[i] \in AnyCondition
    BY <2>1, <2>2
  <2>4. f \in [1 .. n -> AnyCondition]
    BY <2>3
  <2> DEFINE P(g) == \A i \in 1 .. n : g[i] \in Conditions[WatchedIn(c)[i].name]
             T == {g \in [1 .. n -> AnyCondition] : P(g)}
  <2>5. {[answer |-> "none", is |-> g] : g \in T} \subseteq SightsOf(c)
    BY Zenon DEF SightsOf
  <2>6. f \in T
    <3> HIDE DEF f, n
    <3> QED
      BY <2>3, <2>4
  <2> HIDE DEF f, T
  <2>7. [answer |-> "none", is |-> f] \in SightsOf(c)
    BY <2>5, <2>6
  <2> QED
    BY <2>7 DEF f
<1>2. \A c \in C : world[c] \in SightsOf(c)
  BY <1>1
<1>3. world \in [C -> UNION {SightsOf(c) : c \in C}]
  <2> DEFINE U == UNION {SightsOf(c) : c \in C}
  <2>1. \A c \in C : world[c] \in U
    BY <1>2
  <2>2. world = [c \in C |-> world[c]]
    OBVIOUS
  <2> HIDE DEF world, U, C
  <2>3. world \in [C -> U]
    BY <2>1, <2>2
  <2> QED
    BY <2>3 DEF U
<1> HIDE DEF world
<1>4. world \in Worlds
  BY <1>2, <1>3 DEF Worlds
<1> QED
  BY <1>4

\* What is found of a context is found among its workloads.
LEMMA FoundInFacts ==
    ASSUME InLoop, NEW w, NEW c \in Range(Asked), NEW sought
    PROVE  LET found == FoundIn(w, c, sought)
           IN  /\ found \in Seq(ToSet(found))
               /\ \A i \in DOMAIN found : \E m \in Matched : found[i].name = m.name
<1> DEFINE W == WatchedIn(c)
           own == [i \in DOMAIN W |-> i]
           places == {i \in DOMAIN W : w[c].is[i] \in sought}
           found == Picked(own, places)
           Tell(k) == [context |-> c, ns |-> W[found[k]].ns, name |-> W[found[k]].name,
                       status |-> w[c].is[found[k]].status, notes |-> NotesOn(w[c].is[found[k]])]
<1>1. W \in Seq(Matched) /\ DOMAIN W = 1 .. Len(W) /\ Len(W) \in Nat
  BY WatchedFacts
<1>2. own \in Seq(DOMAIN W) /\ places \in SUBSET DOMAIN own
  BY <1>1
<1>3. found \in Seq(DOMAIN W)
  <2> HIDE DEF own, places
  <2> QED
    BY <1>2, PickedFacts
<1> HIDE DEF W, found
<1>4. CASE ~ Answered(w, c)
  <2>1. FoundIn(w, c, sought) = <<>>
    BY <1>4 DEF FoundIn
  <2>2. <<>> \in Seq(ToSet(<<>>)) /\ \A i \in DOMAIN <<>> : FALSE
    BY DEF ToSet
  <2> QED
    BY <2>1, <2>2
<1>5. CASE Answered(w, c)
  <2> DEFINE F == FoundIn(w, c, sought)
             n == Len(found)
  <2>1. F = [k \in DOMAIN found |-> Tell(k)]
    BY <1>5, Zenon DEF FoundIn, W, found
  <2>2. n \in Nat /\ DOMAIN found = 1 .. n /\ \A k \in 1 .. n : found[k] \in DOMAIN W
    BY <1>3
  <2> HIDE DEF F, Tell
  <2>3. F = [k \in 1 .. n |-> F[k]] /\ DOMAIN F = 1 .. n
    BY <2>1, <2>2
  <2>4. F \in Seq({F[k] : k \in 1 .. n})
    BY <2>2, <2>3, IsSequence
  <2>5. F \in Seq(ToSet(F))
    BY <2>4, SeqOfOwn
  <2>6. ASSUME NEW k \in DOMAIN F PROVE \E m \in Matched : F[k].name = m.name
    <3>1. F[k] = Tell(k)
      BY <2>1, <2>2, <2>3
    <3>2. Tell(k).name = W[found[k]].name
      BY DEF Tell
    <3>3. W[found[k]] \in Matched
      BY <1>1, <2>2, <2>3
    <3> QED
      BY <3>1, <3>2, <3>3
  <2> QED
    BY <2>5, <2>6 DEF F
<1> QED
  BY <1>4, <1>5

\* What is found is found among the workloads that match.
LEMMA FoundFacts ==
    ASSUME InLoop, NEW w, NEW sought
    PROVE  /\ \E S : Found(w, sought) \in Seq(S)
           /\ \A i \in DOMAIN Found(w, sought) : \E m \in Matched : Found(w, sought)[i].name = m.name
<1> DEFINE ss == [k \in DOMAIN Asked |-> FoundIn(w, Asked[k], sought)]
           S == UNION {ToSet(ss[k]) : k \in DOMAIN Asked}
<1>1. PICK A : Asked \in Seq(A)
  BY WatchedFacts
<1>2. DOMAIN Asked = 1 .. Len(Asked) /\ Len(Asked) \in Nat
      /\ \A k \in DOMAIN Asked : Asked[k] \in Range(Asked)
  BY <1>1 DEF Range
<1>3. ASSUME NEW k \in DOMAIN Asked
      PROVE  /\ ss[k] \in Seq(ToSet(ss[k]))
             /\ \A t \in ToSet(ss[k]) : \E m \in Matched : t.name = m.name
  <2>1. ss[k] = FoundIn(w, Asked[k], sought)
    OBVIOUS
  <2>2. /\ ss[k] \in Seq(ToSet(ss[k]))
        /\ \A i \in DOMAIN ss[k] : \E m \in Matched : ss[k][i].name = m.name
    BY <1>2, <2>1, FoundInFacts
  <2> HIDE DEF ss
  <2> QED
    BY <2>2 DEF ToSet
<1>4. \A k \in DOMAIN Asked : ss[k] \in Seq(S)
  <2> SUFFICES ASSUME NEW k \in DOMAIN Asked PROVE ss[k] \in Seq(S)
    OBVIOUS
  <2>1. ToSet(ss[k]) \subseteq S
    OBVIOUS
  <2> HIDE DEF ss, S
  <2> QED
    BY <1>3, <2>1, SeqWiden
<1>5. ss \in Seq(Seq(S))
  <2>1. ss = [k \in DOMAIN Asked |-> ss[k]]
    OBVIOUS
  <2> HIDE DEF ss, S
  <2> QED
    BY <1>2, <1>4, <2>1
<1>6. \A t \in S : \E m \in Matched : t.name = m.name
  BY <1>3
<1>7. Found(w, sought) = FlattenSeq(ss)
  BY DEF Found
<1> HIDE DEF ss, S
<1>8. Found(w, sought) \in Seq(S)
  BY <1>5, <1>7, FlattenUnfolds
<1> QED
  BY <1>6, <1>8

\* Findings carry the causes of what matches.
LEMMA FindingsFacts ==
    ASSUME InLoop, NEW w
    PROVE  /\ \E S : Findings(w) \in Seq(S)
           /\ \A i \in DOMAIN Findings(w) : \E m \in Matched : Findings(w)[i].cause = CauseOf[m.name]
<1> DEFINE sought == {k \in AnyCondition : k.status \in {"progressing", "failed"}}
           s == Found(w, sought)
           F == Findings(w)
           n == Len(s)
           Tell(i) == [context |-> s[i].context, ns |-> s[i].ns, name |-> s[i].name, pod |-> NoPod,
                       cause |-> CauseOf[s[i].name]]
<1>1. /\ \E S : s \in Seq(S)
      /\ \A i \in DOMAIN s : \E m \in Matched : s[i].name = m.name
  <2> HIDE DEF sought
  <2> QED
    BY FoundFacts
<1>2. F = [i \in DOMAIN s |-> Tell(i)]
  BY Zenon DEF Findings
<1> HIDE DEF s, F
<1>3. n \in Nat /\ DOMAIN s = 1 .. n
  BY <1>1
<1>4. F = [i \in 1 .. n |-> F[i]] /\ DOMAIN F = 1 .. n /\ \A i \in 1 .. n : F[i] = Tell(i)
  <2> HIDE DEF Tell
  <2> QED
    BY <1>2, <1>3
<1>5. F \in Seq({F[i] : i \in 1 .. n})
  BY <1>3, <1>4, IsSequence
<1>6. \A i \in DOMAIN F : \E m \in Matched : F[i].cause = CauseOf[m.name]
  <2> SUFFICES ASSUME NEW i \in 1 .. n PROVE \E m \in Matched : F[i].cause = CauseOf[m.name]
    BY <1>4
  <2>1. PICK m \in Matched : s[i].name = m.name
    BY <1>1, <1>3
  <2>2. F[i].cause = CauseOf[s[i].name]
    BY <1>4
  <2> QED
    BY <2>1, <2>2
<1> QED
  BY <1>5, <1>6 DEF F

\* The parts of a run's input that trimming is about.
LEMMA InputFacts ==
    ASSUME InLoop, NEW w
    PROVE  /\ \E S : Input(w).targets \in Seq(S)
           /\ HasEvidence(Input(w).failures)
           /\ HasEvidence(Input(w).advisories)
<1> DEFINE sought == {k \in AnyCondition : k.status # "absent"}
           noted == {k \in AnyCondition : NotesOn(k) # <<>>}
           killed == Found(w, noted)
           es == Collapse(Findings(w))
           fs == Input(w).failures
           advisories == Input(w).advisories
<1>1. \E S : Input(w).targets \in Seq(S)
  <2>1. Input(w).targets = Found(w, sought)
    BY Zenon DEF Input
  <2> HIDE DEF sought
  <2> QED
    BY <2>1, FoundFacts
<1>2. HasEvidence(fs)
  <2> DEFINE F == Findings(w)
             cs == [i \in DOMAIN F |-> F[i].cause]
             causes == Distinct(cs)
             n == Len(causes)
  <2>1. PICK S : F \in Seq(S)
    BY FindingsFacts
  <2>2. \A i \in DOMAIN F : \E m \in Matched : F[i].cause = CauseOf[m.name]
    BY FindingsFacts
  <2> HIDE DEF F
  <2>3. DOMAIN F = 1 .. Len(F) /\ Len(F) \in Nat /\ cs = [i \in 1 .. Len(F) |-> cs[i]]
    BY <2>1
  <2>4. cs \in Seq({cs[i] : i \in 1 .. Len(F)}) /\ DOMAIN cs = 1 .. Len(F)
    <3> HIDE DEF cs
    <3> QED
      BY <2>3, IsSequence
  <2>5. PICK T : causes \in Seq(T)
    <3> HIDE DEF cs
    <3> QED
      BY <2>4, DistinctFacts
  <2>6. ToSet(causes) = ToSet(cs)
    <3> HIDE DEF cs
    <3> QED
      BY <2>4, DistinctFacts
  <2>7. ASSUME NEW k \in DOMAIN causes PROVE EvidenceOf[causes[k]] \in Seq(Nat)
    <3>1. causes[k] \in ToSet(cs)
      <4> HIDE DEF causes, cs
      <4> QED
        BY <2>6 DEF ToSet
    <3>2. PICK i \in DOMAIN F : causes[k] = F[i].cause
      BY <2>3, <3>1 DEF ToSet
    <3>3. PICK m \in Matched : F[i].cause = CauseOf[m.name]
      BY <2>2
    <3>4. EvidenceOf[CauseOf[m.name]] \in Seq(Nat)
      BY ConditionsAssumption, Zenon
    <3> QED
      BY <3>2, <3>3, <3>4
  <2>8. /\ DOMAIN es = DOMAIN causes
        /\ \A k \in DOMAIN causes : es[k].cause = causes[k]
    BY DEF Collapse, CausesOf, Entry, F
  <2> HIDE DEF causes, es
  <2>9. n \in Nat /\ DOMAIN causes = 1 .. n
    BY <2>5
  <2> DEFINE One(i) == [cause |-> es[i].cause, affected |-> es[i].affected,
                        evidence |-> EvidenceOf[es[i].cause]]
  <2>10. fs = [i \in DOMAIN es |-> One(i)]
    BY Zenon DEF Input, es
  <2> HIDE DEF fs
  <2>11. DOMAIN fs = 1 .. n /\ fs = [i \in 1 .. n |-> fs[i]] /\ \A i \in 1 .. n : fs[i] = One(i)
    <3> HIDE DEF One, n
    <3> QED
      BY <2>8, <2>9, <2>10
  <2>12. \E R : fs \in Seq(R)
    BY <2>9, <2>11, IsSequence
  <2>13. ASSUME NEW i \in DOMAIN fs PROVE "evidence" \in DOMAIN fs[i] /\ fs[i].evidence \in Seq(Nat)
    <3>1. fs[i] = One(i) /\ es[i].cause = causes[i] /\ i \in DOMAIN causes
      BY <2>8, <2>9, <2>11
    <3> QED
      BY <2>7, <3>1
  <2> HIDE DEF One
  <2>14. HasEvidence(fs)
    BY <2>12, <2>13 DEF HasEvidence
  <2> QED
    BY <2>14 DEF fs
<1>3. HasEvidence(advisories)
  <2> DEFINE n == Len(killed)
             One(i) == [context |-> killed[i].context, ns |-> killed[i].ns,
                        name |-> killed[i].name, finished |-> killed[i].notes[1].finished,
                        reason |-> killed[i].notes[1].reason, count |-> killed[i].notes[1].count,
                        evidence |-> <<1>>]
  <2>1. advisories = [i \in DOMAIN killed |-> One(i)]
    BY Zenon DEF Input
  <2>2. PICK S : killed \in Seq(S)
    <3> HIDE DEF noted
    <3> QED
      BY FoundFacts
  <2> HIDE DEF killed, advisories
  <2>3. n \in Nat /\ DOMAIN killed = 1 .. n
    BY <2>2
  <2>4. <<1>> \in Seq(Nat)
    OBVIOUS
  <2>5. \A i : "evidence" \in DOMAIN One(i) /\ One(i).evidence \in Seq(Nat)
    BY <2>4
  <2> HIDE DEF One
  <2>6. DOMAIN advisories = 1 .. n /\ advisories = [i \in 1 .. n |-> advisories[i]] /\ \A i \in 1 .. n : advisories[i] = One(i)
    BY <2>1, <2>3
  <2>7. \E R : advisories \in Seq(R)
    BY <2>3, <2>6, IsSequence
  <2>8. HasEvidence(advisories)
    BY <2>5, <2>6, <2>7 DEF HasEvidence
  <2> QED
    BY <2>8 DEF advisories
<1> QED
  BY <1>1, <1>2, <1>3

\* Namespaces are listed with the targets in them that are not settled.
LEMMA NamespacesFacts ==
    ASSUME NEW S, NEW targets \in Seq(S)
    PROVE  LET ns == NamespaceVerdicts(targets)
           IN  /\ \E T : ns \in Seq(T)
               /\ \A k \in DOMAIN ns : \A j \in DOMAIN ns[k].targets :
                    ns[k].targets[j].status # "settled"
<1> DEFINE places == {i \in DOMAIN targets : targets[i].status # "settled"}
           listed == Picked(targets, places)
           home == [i \in DOMAIN listed |-> <<listed[i].context, listed[i].ns>>]
           own(g) == Picked(listed, {i \in DOMAIN listed : home[i] = g})
           groups == Distinct(home)
           Group(g) == [context |-> g[1], ns |-> g[2], status |-> WorstStatus(StatusesOf(own(g))),
                        targets |-> [i \in DOMAIN own(g) |->
                                        [name |-> own(g)[i].name, status |-> own(g)[i].status]]]
           ns == NamespaceVerdicts(targets)
           n == Len(groups)
<1>1. ns = [k \in DOMAIN groups |-> Group(groups[k])]
  BY Zenon DEF NamespaceVerdicts
<1>2. listed \in Seq(S) /\ \A i \in DOMAIN listed : listed[i].status # "settled"
  <2>1. places \in SUBSET DOMAIN targets
    OBVIOUS
  <2>2. listed \in Seq(S) /\ \E g : Follows(listed, targets, places, g)
    <3> HIDE DEF places
    <3> QED
      BY <2>1, PickedFacts
  <2>3. PICK g : Follows(listed, targets, places, g)
    BY <2>2
  <2> HIDE DEF listed
  <2>4. ASSUME NEW i \in DOMAIN listed PROVE listed[i].status # "settled"
    <3>1. g[i] \in places /\ listed[i] = targets[g[i]]
      <4> HIDE DEF places
      <4> QED
        BY <2>3 DEF Follows, Pairs
    <3> QED
      BY <3>1
  <2> QED
    BY <2>2, <2>4
<1> HIDE DEF listed
<1>3. DOMAIN listed = 1 .. Len(listed) /\ Len(listed) \in Nat
  BY <1>2
<1>4. home \in Seq({home[i] : i \in 1 .. Len(listed)})
  <2>1. home = [i \in 1 .. Len(listed) |-> home[i]]
    BY <1>3
  <2> HIDE DEF home
  <2> QED
    BY <1>3, <2>1, IsSequence
<1>5. PICK H : groups \in Seq(H)
  <2> HIDE DEF home
  <2> QED
    BY <1>4, DistinctFacts
<1>6. ASSUME NEW g PROVE \A i \in DOMAIN own(g) : own(g)[i].status # "settled"
  <2> DEFINE mine == {i \in DOMAIN listed : home[i] = g}
             o == Picked(listed, mine)
  <2>1. mine \in SUBSET DOMAIN listed
    OBVIOUS
  <2>2. PICK f : Follows(o, listed, mine, f)
    <3> HIDE DEF mine
    <3> QED
      BY <1>2, <2>1, PickedFacts
  <2> SUFFICES ASSUME NEW i \in DOMAIN o PROVE o[i].status # "settled"
    OBVIOUS
  <2> HIDE DEF o
  <2>3. f[i] \in DOMAIN listed /\ o[i] = listed[f[i]]
    <3>1. f[i] \in mine /\ o[i] = listed[f[i]]
      <4> HIDE DEF mine
      <4> QED
        BY <2>2 DEF Follows, Pairs
    <3> QED
      BY <3>1
  <2> QED
    BY <1>2, <2>3
<1> HIDE DEF groups, own, ns
<1>7. n \in Nat /\ DOMAIN groups = 1 .. n
  BY <1>5
<1>8. \A g : \A j \in DOMAIN Group(g).targets : Group(g).targets[j].status # "settled"
  BY <1>6
<1> HIDE DEF Group
<1>9. DOMAIN ns = 1 .. n /\ ns = [k \in 1 .. n |-> ns[k]]
      /\ \A k \in 1 .. n : ns[k] = Group(groups[k])
  BY <1>1, <1>7
<1>10. \E T : ns \in Seq(T)
  BY <1>7, <1>9, IsSequence
<1>11. \A k \in DOMAIN ns : \A j \in DOMAIN ns[k].targets : ns[k].targets[j].status # "settled"
  BY <1>8, <1>9
<1> QED
  BY <1>10, <1>11 DEF ns

\* Statuses.
LEMMA StatusesAre ==
    Statuses = {"settled", "progressing", "no_match", "permission_denied", "failed"}
<1>1. /\ DOMAIN ByRank = 1 .. 5 /\ ByRank[1] = "settled" /\ ByRank[2] = "progressing"
      /\ ByRank[3] = "no_match" /\ ByRank[4] = "permission_denied" /\ ByRank[5] = "failed"
  BY DEF ByRank
<1>2. 1 .. 5 = {1, 2, 3, 4, 5}
  OBVIOUS
<1> QED
  BY <1>1, <1>2 DEF Statuses, Range

\* A verdict before the delta and the budget.
IsFresh(v) ==
    /\ IsVerdict(v)
    /\ v.truncated = NoTruncation
    /\ v.status \in Statuses \union {Unjudged}
    /\ v.transitions = {}
    /\ \A k \in DOMAIN v.namespaces : \A j \in DOMAIN v.namespaces[k].targets :
          v.namespaces[k].targets[j].status # "settled"

\* The parts of a verdict.
IsBody(v) ==
    /\ v.status \in Statuses \union {Unjudged}
    /\ \E S : v.namespaces \in Seq(S)
    /\ HasEvidence(v.failures) /\ HasEvidence(v.advisories)
    /\ \A k \in DOMAIN v.namespaces : \A j \in DOMAIN v.namespaces[k].targets :
          v.namespaces[k].targets[j].status # "settled"

\* With a header they are a verdict.
LEMMA HeadedFacts ==
    ASSUME NEW v, IsBody(v)
    PROVE  IsFresh(Headed(v))
<1> DEFINE h == Headed(v)
<1>1. /\ DOMAIN h = {"status", "header", "transitions", "baseline", "contexts", "degraded",
                     "earlyExit", "namespaces", "failures", "advisories", "truncated"}
      /\ h.status = v.status /\ h.namespaces = v.namespaces /\ h.failures = v.failures
      /\ h.advisories = v.advisories /\ h.truncated = NoTruncation /\ h.transitions = {}
  BY DEF Headed
<1>2. DOMAIN NoTruncation = {"failures", "evidence", "namespaces", "advisories"}
  BY DEF NoTruncation
<1> HIDE DEF h
<1>3. IsVerdict(h)
  BY <1>1, <1>2 DEF IsVerdict, IsBody
<1>4. IsFresh(h)
  BY <1>1, <1>3 DEF IsFresh, IsBody
<1> QED
  BY <1>4 DEF h

\* Without entries there is nothing to say.
LEMMA ErrorBody ==
    ASSUME NEW s \in Statuses \union {Unjudged}
    PROVE  IsBody(ErrorVerdict(s))
<1> DEFINE e == ErrorVerdict(s)
<1>1. e.status = s /\ e.namespaces = <<>> /\ e.failures = <<>> /\ e.advisories = <<>>
  BY DEF ErrorVerdict
<1>2. HasEvidence(<<>>)
  <2>1. <<>> \in Seq({})
    OBVIOUS
  <2>2. \A i \in DOMAIN <<>> : FALSE
    OBVIOUS
  <2> QED
    BY <2>1, <2>2 DEF HasEvidence
<1>3. <<>> \in Seq({}) /\ \A k \in DOMAIN <<>> : FALSE
  OBVIOUS
<1> HIDE DEF e
<1>4. IsBody(e)
  BY <1>1, <1>2, <1>3 DEF IsBody
<1> QED
  BY <1>4 DEF e

\* The status of several contexts, those that were judged by their targets
\* included.
LEMMA FilledStatus ==
    ASSUME InLoop, NEW w, NEW targets, mode = "contexts"
    PROVE  LET contexts == FillContextVerdicts(Input(w).contexts, targets)
           IN  contexts # <<>> => ContextsStatus(contexts) \in Statuses
<1> DEFINE entries == Input(w).contexts
           contexts == FillContextVerdicts(entries, targets)
           own(i) == {t \in ToSet(targets) : t.context = entries[i].context}
           judged(i) == IF own(i) = {} THEN "no_match"
                        ELSE WorstStatus({t.status : t \in own(i)})
<1>1. entries = [k \in DOMAIN Asked |-> [context |-> Asked[k],
                    status |-> StatusOfError(ErrorOf(w, Asked[k]))]]
  BY Zenon DEF Input
<1>2. /\ DOMAIN entries = DOMAIN Asked /\ Asked # <<>>
      /\ \E A : Asked \in Seq(A)
  BY <1>1, WatchedFacts
<1>3. ASSUME NEW i \in DOMAIN Asked
      PROVE  /\ "status" \in DOMAIN entries[i]
             /\ entries[i].status \in Statuses \union {Unjudged}
  <2>1. entries[i] = [context |-> Asked[i], status |-> StatusOfError(ErrorOf(w, Asked[i]))]
    BY <1>1
  <2>2. \A e : StatusOfError(e) \in Statuses \union {Unjudged}
    BY StatusesAre DEF StatusOfError
  <2> HIDE DEF entries
  <2> QED
    BY <2>1, <2>2
<1>4. contexts = [i \in DOMAIN entries |->
                    IF entries[i].status # Unjudged THEN entries[i]
                    ELSE [entries[i] EXCEPT !.status = judged(i)]]
  BY Zenon DEF FillContextVerdicts
<1>5. \A i : judged(i) \in Statuses
  BY StatusesAre DEF WorstStatus
<1> HIDE DEF entries, judged, contexts
<1>6. /\ DOMAIN contexts = DOMAIN Asked
      /\ \A i \in DOMAIN Asked : contexts[i].status \in Statuses
  BY <1>2, <1>3, <1>4, <1>5
<1>7. StatusesOf(contexts) # {} /\ StatusesOf(contexts) \subseteq Statuses
  <2>1. 1 \in DOMAIN Asked
    BY <1>2
  <2> QED
    BY <1>6, <2>1 DEF StatusesOf
<1>8. ContextsStatus(contexts) \in StatusesOf(contexts)
  BY <1>7, StatusesAre, ContextsStatusFacts
<1> QED
  BY <1>7, <1>8 DEF contexts, entries

\* What a run makes of its input.
LEMMA BuildBody ==
    ASSUME InLoop, NEW w
    PROVE  IsBody(BuildFleet(Input(w))) /\ IsBody(Build(Input(w)))
<1> DEFINE in == Input(w)
           contexts == FillContextVerdicts(in.contexts, in.targets)
           v == BuildFleet(in)
           b == Build(in)
<1>1. PICK S : in.targets \in Seq(S)
  BY InputFacts
<1>2. HasEvidence(in.failures) /\ HasEvidence(in.advisories)
  BY InputFacts
<1>3. mode # "contexts" => in.contexts = <<>>
  BY Zenon DEF Input
<1>4. mode = "contexts" => (contexts # <<>> => ContextsStatus(contexts) \in Statuses)
  BY FilledStatus
<1> HIDE DEF in
<1>5. mode # "contexts" => contexts = <<>>
  BY <1>3 DEF FillContextVerdicts
<1>6. WorstStatus(StatusesOf(in.targets)) \in Statuses
  BY StatusesAre DEF WorstStatus
<1>7. /\ v.status = IF contexts # <<>> THEN ContextsStatus(contexts)
                    ELSE WorstStatus(StatusesOf(in.targets))
      /\ v.namespaces = NamespaceVerdicts(in.targets)
      /\ v.failures = in.failures /\ v.advisories = in.advisories
      /\ DOMAIN v = {"status", "contexts", "namespaces", "failures", "degraded", "advisories",
                     "earlyExit"}
  <2> HIDE DEF contexts
  <2>1. v = [status |-> IF contexts # <<>> THEN ContextsStatus(contexts)
                        ELSE WorstStatus(StatusesOf(in.targets)),
             contexts |-> contexts,
             namespaces |-> NamespaceVerdicts(in.targets),
             failures |-> in.failures,
             degraded |-> in.degraded,
             advisories |-> in.advisories,
             earlyExit |-> in.earlyExit]
    BY Zenon DEF BuildFleet, contexts
  <2> HIDE DEF v
  <2> QED
    BY <2>1
<1>8. b = [v EXCEPT !.namespaces = <<>>]
  BY DEF Build
<1> HIDE DEF v, contexts, b
<1>9. v.status \in Statuses
  BY <1>4, <1>5, <1>6, <1>7
<1>10. /\ \E T : v.namespaces \in Seq(T)
       /\ \A k \in DOMAIN v.namespaces : \A j \in DOMAIN v.namespaces[k].targets :
            v.namespaces[k].targets[j].status # "settled"
  BY <1>1, <1>7, NamespacesFacts
<1>11. IsBody(v)
  BY <1>2, <1>7, <1>9, <1>10 DEF IsBody
<1>12. b.status = v.status /\ b.namespaces = <<>> /\ b.failures = v.failures
       /\ b.advisories = v.advisories
  BY <1>7, <1>8
<1>13. <<>> \in Seq({}) /\ \A k \in DOMAIN <<>> : FALSE
  OBVIOUS
<1>14. IsBody(b)
  BY <1>11, <1>12, <1>13 DEF IsBody
<1> QED
  BY <1>11, <1>14 DEF v, b, in

\* A run's verdict is one that nothing was dropped from, and what it lists is
\* not settled.
LEMMA VerdictFacts ==
    ASSUME InLoop, NEW w
    PROVE  IsFresh(VerdictOn(w)) /\ IsFresh(NoVerdict)
<1>1. \A e : StatusOfError(e) \in Statuses \union {Unjudged}
  BY StatusesAre DEF StatusOfError
<1>2. IsFresh(NoVerdict)
  BY ErrorBody, HeadedFacts DEF NoVerdict
<1>3. CASE mode # "contexts" /\ ~ Answered(w, NoContext)
  <2> DEFINE s == StatusOfError(ErrorOf(w, NoContext))
  <2>1. VerdictOn(w) = Headed(ErrorVerdict(s))
    BY <1>3, Zenon DEF VerdictOn
  <2>2. s \in Statuses \union {Unjudged}
    BY <1>1
  <2> HIDE DEF s
  <2>3. IsBody(ErrorVerdict(s))
    BY <2>2, ErrorBody
  <2> QED
    BY <1>2, <2>1, <2>3, HeadedFacts
<1>4. CASE ~ (mode # "contexts" /\ ~ Answered(w, NoContext)) /\ mode = "target"
  <2>1. VerdictOn(w) = Headed(Build(Input(w)))
    BY <1>4, Zenon DEF VerdictOn
  <2> QED
    BY <1>2, <2>1, BuildBody, HeadedFacts
<1>5. CASE ~ (mode # "contexts" /\ ~ Answered(w, NoContext)) /\ mode # "target"
  <2>1. VerdictOn(w) = Headed(BuildFleet(Input(w)))
    BY <1>5, Zenon DEF VerdictOn
  <2> QED
    BY <1>2, <2>1, BuildBody, HeadedFacts
<1> QED
  BY <1>3, <1>4, <1>5

----------------------------------------------------------------------------
(* The invariant of the loop *)

\* A verdict that is complete, with its delta.
IsWhole(v) ==
    /\ IsVerdict(v)
    /\ v.truncated = NoTruncation
    /\ v.status \in Statuses \union {Unjudged}
    /\ \A k \in DOMAIN v.namespaces : \A j \in DOMAIN v.namespaces[k].targets :
          v.namespaces[k].targets[j].status # "settled"

\* What is on file is the last run's verdict trimmed, if that run had one.
MonitorInv ==
    /\ InLoop
    /\ seen \in Worlds
    /\ exit \in {Running} \union 0 .. 5
    /\ stored.status \in Statuses \union {Unjudged}
    /\ full # NoVerdict => IsWhole(full) /\ stored = Apply(full, budget)

\* The delta changes nothing else.
LEMMA WithDeltaFacts ==
    ASSUME NEW v, IsFresh(v)
    PROVE  LET d == WithDelta(v)
           IN  /\ IsWhole(d) /\ d.status = v.status
               /\ d.namespaces = v.namespaces
               /\ d.transitions = IF stored = NoFile THEN {} ELSE Diff(stored, v)
<1> DEFINE d == WithDelta(v)
           ts == Diff(stored, v)
<1>1. IF stored = NoFile THEN d = [v EXCEPT !.baseline = TRUE]
      ELSE d = [v EXCEPT !.transitions = ts]
  BY Zenon DEF WithDelta
<1> HIDE DEF d, ts
<1>2. IsVerdict(v) /\ v.transitions = {}
  BY DEF IsFresh
<1>3. /\ DOMAIN d = DOMAIN v /\ d.status = v.status /\ d.truncated = v.truncated
      /\ d.namespaces = v.namespaces /\ d.failures = v.failures /\ d.advisories = v.advisories
      /\ d.transitions = IF stored = NoFile THEN {} ELSE ts
  BY <1>1, <1>2 DEF IsVerdict
<1>4. IsVerdict(d)
  BY <1>2, <1>3 DEF IsVerdict
<1>5. IsWhole(d)
  BY <1>3, <1>4 DEF IsWhole, IsFresh
<1> QED
  BY <1>3, <1>5 DEF d, ts

\* Trimming a whole verdict.
LEMMA TrimmedFacts ==
    ASSUME NEW v, IsWhole(v), NEW tokens
    PROVE  LET t == Apply(v, tokens)
           IN  SameSkeleton(t, v) /\ Accounts(t, v) /\ (t # v => InTiers(t, tokens))
<1>1. \A f \in DOMAIN v.truncated : v.truncated[f] = 0
  <2>1. NoTruncation = [f \in {"failures", "evidence", "namespaces", "advisories"} |-> 0]
    BY DEF NoTruncation
  <2> QED
    BY <2>1 DEF IsWhole
<1>2. IsVerdict(v)
  BY DEF IsWhole
<1> QED
  BY <1>1, <1>2, ApplyFacts

\* An exit code is one of six.
LEMMA ExitCodes == \A s, d : ExitCode(s, d) \in 0 .. 5
BY DEF ExitCode, BaseExitCode

\* No verdict depends on nothing but the loop and what it watches.
LEMMA SameNoVerdict ==
    ASSUME mode' = mode
    PROVE  NoVerdict' = NoVerdict
BY Zenon DEF NoVerdict, Headed, Header, WatchedIn, WorkloadsOf, Asked

\* Nor do the worlds.
LEMMA SameWorlds ==
    ASSUME mode' = mode
    PROVE  Worlds' = Worlds
<1> DEFINE Sights(s) ==
             LET n == Len(s)
             IN  {[answer |-> e, is |-> [i \in 1 .. n |-> Absent]] : e \in Errors}
                 \union {[answer |-> "none", is |-> f] :
                             f \in {f \in [1 .. n -> AnyCondition] :
                                     \A i \in 1 .. n : f[i] \in Conditions[s[i].name]}}
<1>1. Asked' = Asked
  BY DEF Asked
<1>2. ASSUME NEW c PROVE SightsOf(c)' = SightsOf(c)
  <2>1. WatchedIn(c)' = WatchedIn(c)
    BY Zenon DEF WatchedIn, WorkloadsOf
  <2>2. SightsOf(c)' = Sights(WatchedIn(c)') /\ SightsOf(c) = Sights(WatchedIn(c))
    BY Zenon DEF SightsOf
  <2> HIDE DEF Sights
  <2> QED
    BY <2>1, <2>2
<1> DEFINE C == Range(Asked)
           All == UNION {SightsOf(c) : c \in C}
<1>3. Worlds = {w \in [C -> All] : \A c \in C : w[c] \in SightsOf(c)}
  BY Zenon DEF Worlds
<1>4. Worlds' = {w \in [C' -> All'] : \A c \in C' : w[c] \in SightsOf(c)'}
  BY Zenon DEF Worlds
<1>5. C' = C
  BY <1>1 DEF Range
<1>6. All' = All
  BY <1>2, <1>5
<1>7. ASSUME NEW w
      PROVE  (\A c \in C' : w[c] \in SightsOf(c)') <=> \A c \in C : w[c] \in SightsOf(c)
  BY <1>2, <1>5
<1> HIDE DEF C, All, Sights
<1> QED
  BY <1>3, <1>4, <1>5, <1>6, <1>7

\* A run leaves a whole verdict, trimmed to the budget.
LEMMA RunKeepsMonitorInv ==
    ASSUME MonitorInv, NEW w \in Worlds, Run(w)
    PROVE  MonitorInv'
<1> DEFINE v == VerdictOn(w)
<1>1. mode' = mode /\ budget' = budget /\ seen' = w
  BY DEF Run
<1>2. InLoop /\ InLoop'
  BY <1>1 DEF MonitorInv, InLoop
<1>3. IsFresh(v)
  BY <1>2, VerdictFacts
<1>4. full' = WithDelta(v) /\ stored' = Apply(full', budget)
  BY DEF Run
<1> HIDE DEF v
<1>5. IsWhole(full') /\ full'.status = v.status
  BY <1>3, <1>4, WithDeltaFacts
<1>6. stored'.status = full'.status
  BY <1>4, <1>5, TrimmedFacts DEF SameSkeleton
<1>7. stored'.status \in Statuses \union {Unjudged}
  BY <1>5, <1>6 DEF IsWhole
<1>8. exit' \in 0 .. 5
  BY ExitCodes DEF Run
<1>9. seen' \in Worlds'
  BY <1>1, SameWorlds
<1> QED
  BY <1>1, <1>2, <1>4, <1>5, <1>7, <1>8, <1>9 DEF MonitorInv

\* A run that dies leaves the file.
LEMMA DeathKeepsMonitorInv ==
    ASSUME MonitorInv, NEW w \in Worlds, RunDies(w)
    PROVE  MonitorInv'
<1>1. /\ mode' = mode /\ budget' = budget /\ seen' = seen /\ stored' = stored
      /\ full' = NoVerdict /\ exit' = 1
  BY DEF RunDies
<1>2. InLoop'
  BY <1>1 DEF MonitorInv, InLoop
<1>3. full' = NoVerdict' /\ seen' \in Worlds'
  BY <1>1, SameNoVerdict, SameWorlds DEF MonitorInv
<1> QED
  BY <1>1, <1>2, <1>3 DEF MonitorInv

\* So does the loss of the file, which is then as before the first run.
LEMMA LossKeepsMonitorInv ==
    ASSUME MonitorInv, FileLost
    PROVE  MonitorInv'
<1>1. /\ mode' = mode /\ budget' = budget /\ seen' = seen /\ stored' = NoVerdict
      /\ full' = NoVerdict /\ exit' = Running
  BY DEF FileLost, NoFile
<1>2. InLoop'
  BY <1>1 DEF MonitorInv, InLoop
<1>3. full' = NoVerdict' /\ seen' \in Worlds'
  BY <1>1, SameNoVerdict, SameWorlds DEF MonitorInv
<1>4. NoVerdict.status \in Statuses \union {Unjudged}
  <2>1. PICK w \in Worlds : TRUE
    BY DEF MonitorInv
  <2>2. IsFresh(NoVerdict)
    BY VerdictFacts DEF MonitorInv
  <2> QED
    BY <2>2 DEF IsFresh
<1> QED
  BY <1>1, <1>2, <1>3, <1>4 DEF MonitorInv

\* A loop starts without a file.
LEMMA InitMonitorInv == Init => MonitorInv
<1> SUFFICES ASSUME Init PROVE MonitorInv
  OBVIOUS
<1>1. InLoop
  <2>1. PICK loop \in Loops : mode = loop[1] /\ budget = loop[2]
    BY DEF Init
  <2>2. loop \in {"contexts", "cluster", "target"} \X Nat
    BY MonitorAssumption
  <2>3. loop = <<loop[1], loop[2]>>
    BY <2>2
  <2> QED
    BY <2>1, <2>3 DEF InLoop
<1>2. seen \in Worlds
  BY <1>1, SomeWorld DEF Init
<1>3. stored = NoVerdict /\ full = NoVerdict /\ exit = Running
  BY DEF Init, NoFile
<1>4. NoVerdict.status \in Statuses \union {Unjudged}
  BY <1>1, VerdictFacts DEF IsFresh
<1> QED
  BY <1>1, <1>2, <1>3, <1>4 DEF MonitorInv

\* Every step keeps it.
LEMMA NextKeepsMonitorInv == MonitorInv /\ [Next]_vars => MonitorInv'
<1> SUFFICES ASSUME MonitorInv, [Next]_vars PROVE MonitorInv'
  OBVIOUS
<1>1. ASSUME NEW w \in Worlds, Run(w) PROVE MonitorInv'
  BY <1>1, RunKeepsMonitorInv
<1>2. ASSUME NEW w \in Worlds, RunDies(w) PROVE MonitorInv'
  BY <1>2, DeathKeepsMonitorInv
<1>3. CASE FileLost
  BY <1>3, LossKeepsMonitorInv
<1>4. CASE UNCHANGED vars
  <2>1. /\ mode' = mode /\ budget' = budget /\ seen' = seen /\ stored' = stored
        /\ full' = full /\ exit' = exit
    BY <1>4 DEF vars
  <2>2. NoVerdict' = NoVerdict /\ seen' \in Worlds'
    BY <2>1, SameNoVerdict, SameWorlds DEF MonitorInv
  <2>3. InLoop'
    BY <2>1 DEF MonitorInv, InLoop
  <2> QED
    BY <2>1, <2>2, <2>3 DEF MonitorInv
<1> QED
  BY <1>1, <1>2, <1>3, <1>4 DEF Next

\* What is on file is always a whole verdict trimmed, if the last run had one.
LEMMA MonitorInvariant == Spec => []MonitorInv
<1> QED
  BY InitMonitorInv, NextKeepsMonitorInv, PTL DEF Spec

----------------------------------------------------------------------------
(* The theorems *)

\* Whatever the budget, the skeleton of a verdict is emitted as it was found.
THEOREM MonitorTypeCorrect == Spec => []TypeOK
<1>1. MonitorInv => TypeOK
  <2> SUFFICES ASSUME MonitorInv PROVE TypeOK
    OBVIOUS
  <2>1. full # NoVerdict => SameSkeleton(stored, full)
    BY TrimmedFacts DEF MonitorInv
  <2> QED
    BY <2>1 DEF MonitorInv, TypeOK, InLoop, SameSkeleton
<1> QED
  BY <1>1, MonitorInvariant, PTL

\* Whatever is found and whatever the budget, every drop is counted.
THEOREM DropsCountedCorrect == Spec => []DropsAreCounted
<1>1. MonitorInv => DropsAreCounted
  <2> SUFFICES ASSUME MonitorInv, full # NoVerdict PROVE DropsAreCounted
    BY DEF DropsAreCounted
  <2>1. Accounts(stored, full) /\ IsWhole(full)
    BY TrimmedFacts DEF MonitorInv
  <2>2. IsPrefix(stored.namespaces, full.namespaces)
    <3> DEFINE s == full.namespaces
               k == Len(stored.namespaces)
    <3>1. PICK S : s \in Seq(S)
      BY <2>1 DEF IsWhole, IsVerdict
    <3>2. k \in 0 .. Len(s) /\ stored.namespaces = SubSeq(s, 1, k)
      BY <2>1 DEF Accounts
    <3> HIDE DEF s, k
    <3>3. /\ SubSeq(s, 1, k) \in Seq(S) /\ Len(SubSeq(s, 1, k)) = k
          /\ DOMAIN SubSeq(s, 1, k) = 1 .. k
      BY <3>1, <3>2, PrefixFacts
    <3>4. IsPrefix(SubSeq(s, 1, k), s)
      <4>1. SubSeq(SubSeq(s, 1, k), 1, k) = SubSeq(s, 1, k)
        <5>1. k \in 0 .. Len(SubSeq(s, 1, k))
          BY <3>2, <3>3
        <5> QED
          BY <3>3, <5>1, PrefixFacts
      <4> QED
        BY <3>1, <3>2, <3>3, <4>1 DEF IsPrefix
    <3> QED
      BY <3>2, <3>4 DEF s
  <2> QED
    BY <2>1, <2>2 DEF DropsAreCounted, Accounts
<1> QED
  BY <1>1, MonitorInvariant, PTL

\* Whatever is found and whatever the budget, a failure is dropped only when no
\* namespace and no advisory is left, a namespace only when no advisory is, and the
\* verdict fits unless only its skeleton remains (budget.Apply).
THEOREM TiersCorrect == Spec => []TrimmedInTiers
<1>1. MonitorInv => TrimmedInTiers
  <2> SUFFICES ASSUME MonitorInv, Trimmed PROVE TrimmedInTiers
    BY DEF TrimmedInTiers
  <2>1. InTiers(stored, budget)
    BY TrimmedFacts DEF MonitorInv, Trimmed
  <2> QED
    BY <2>1 DEF TrimmedInTiers, InTiers
<1> QED
  BY <1>1, MonitorInvariant, PTL

\* A verdict of a run that could not enumerate its targets reports none of
\* them settled and no advisory cleared.
LEMMA BrokenDiff ==
    ASSUME NEW prev, NEW cur, ~ Checked(cur),
           \A k \in DOMAIN cur.namespaces : \A j \in DOMAIN cur.namespaces[k].targets :
              cur.namespaces[k].targets[j].status # "settled",
           NEW t \in Diff(prev, cur)
    PROVE  t.kind # "advisory-cleared" /\ (t.kind = "status" => t.to # "settled")
<1>1. ASSUME NEW k \in DOMAIN FailingList(cur) PROVE FailingList(cur)[k] # "settled"
  <2> DEFINE listed == UNION {{<<g.context, g.ns, g.targets[j]>> : j \in DOMAIN g.targets} :
                                g \in Range(cur.namespaces)}
             e == CHOOSE e \in listed : Key(e[1], e[2], e[3].name) = k
  <2>1. FailingList(cur) = [l \in {Key(x[1], x[2], x[3].name) : x \in listed} |->
                              (CHOOSE x \in listed : Key(x[1], x[2], x[3].name) = l)[3].status]
    BY Zenon DEF FailingList
  <2>2. \A x \in listed : x[3].status # "settled"
    BY DEF Range
  <2> HIDE DEF listed
  <2>3. \E x \in listed : Key(x[1], x[2], x[3].name) = k
    BY <1>1, <2>1
  <2>4. e \in listed
    BY <2>3
  <2>5. FailingList(cur)[k] = e[3].status
    BY <1>1, <2>1
  <2> QED
    BY <2>2, <2>4, <2>5
<1>2. ASSUME t \in StatusMoves(prev, cur) PROVE t.kind = "status" /\ t.to # "settled"
  <2> DEFINE ct == FailingList(cur)
  <2>1. \E k \in DOMAIN ct : \E b : t = Transition("status", k, b, ct[k])
    BY <1>2, Zenon DEF StatusMoves
  <2>2. PICK k \in DOMAIN ct : t.kind = "status" /\ t.to = ct[k]
    BY <2>1 DEF Transition
  <2> QED
    BY <1>1, <2>2
<1>3. ASSUME t \in ContextMoves(prev, cur) PROVE t.kind = "context"
  BY <1>3 DEF ContextMoves, Transition
<1>4. ASSUME t \in Moves(prev, cur)
      PROVE  t.kind # "advisory-cleared" /\ (t.kind = "status" => t.to # "settled")
  <2>1. \/ t \in StatusMoves(prev, cur) \/ t \in ContextMoves(prev, cur)
        \/ t = Transition("status", cur.header, prev.status, cur.status)
    BY <1>4, Zenon DEF Moves
  <2>2. cur.status # "settled"
    BY DEF Checked
  <2>3. ASSUME t = Transition("status", cur.header, prev.status, cur.status)
        PROVE  t.kind = "status" /\ t.to # "settled"
    BY <2>2, <2>3 DEF Transition
  <2> QED
    BY <1>2, <1>3, <2>1, <2>3
<1>5. ASSUME t \in AdvisoryMoves(prev, cur)
      PROVE  t.kind = "advisory-appeared" \/ t.kind = "new-termination"
  <2> DEFINE pa == AdvisoryIndex(prev)
             ca == AdvisoryIndex(cur)
             appeared == DOMAIN ca \ DOMAIN pa
             again == {k \in DOMAIN ca \intersect DOMAIN pa : NewTermination(pa[k], ca[k])}
             cleared == IF Checked(cur)
                        THEN DOMAIN pa \ (DOMAIN ca \union DOMAIN FailingList(cur)) ELSE {}
             none == ""
             A == {Transition("advisory-appeared", k, none, none) : k \in appeared}
             B == {Transition("new-termination", k, none, none) : k \in again}
             C == {Transition("advisory-cleared", k, none, none) : k \in cleared}
  <2>1. AdvisoryMoves(prev, cur) = A \union B \union C
    BY Zenon DEF AdvisoryMoves
  <2>2. cleared = {}
    OBVIOUS
  <2> HIDE DEF appeared, again, cleared, none
  <2>3. \A x \in A : x.kind = "advisory-appeared"
    BY DEF Transition
  <2>4. \A x \in B : x.kind = "new-termination"
    BY DEF Transition
  <2>5. C = {}
    BY <2>2
  <2> HIDE DEF A, B, C
  <2>6. t \in A \/ t \in B
    BY <1>5, <2>1, <2>5
  <2> QED
    BY <2>3, <2>4, <2>6
<1> QED
  BY <1>4, <1>5 DEF Diff

\* Whatever was on file, a run that could not be made is loud.
THEOREM LoudCorrect == Spec => BrokenCheckIsLoud
<1> DEFINE Loud == full' # NoVerdict /\ ~ Checked(stored') =>
              /\ exit' = IF stored'.status = "no_match" THEN 4 ELSE 3
              /\ \A t \in full'.transitions :
                    t.kind # "advisory-cleared" /\ (t.kind = "status" => t.to # "settled")
<1>1. MonitorInv /\ [Next]_vars => [Loud]_vars
  <2> SUFFICES ASSUME MonitorInv, Next PROVE Loud
    OBVIOUS
  <2>1. ASSUME NEW w \in Worlds, Run(w), ~ Checked(stored') PROVE Loud
    <3> DEFINE v == VerdictOn(w)
    <3>1. IsFresh(v)
      BY VerdictFacts DEF MonitorInv
    <3>2. /\ full' = WithDelta(v) /\ stored' = Apply(full', budget)
          /\ exit' = ExitCode(stored'.status, DeltaOf(stored'))
      BY <2>1 DEF Run
    <3> HIDE DEF v
    <3>3. IsWhole(full') /\ full'.status = v.status
          /\ full'.transitions = IF stored = NoFile THEN {} ELSE Diff(stored, v)
      BY <3>1, <3>2, WithDeltaFacts
    <3>4. stored'.status = v.status
      BY <3>2, <3>3, TrimmedFacts DEF SameSkeleton
    <3>5. ~ Checked(v)
      BY <2>1, <3>4 DEF Checked
    <3>6. exit' = IF stored'.status = "no_match" THEN 4 ELSE 3
      BY <2>1, <3>2 DEF Checked, ExitCode, BaseExitCode
    <3>7. ASSUME NEW t \in full'.transitions
          PROVE  t.kind # "advisory-cleared" /\ (t.kind = "status" => t.to # "settled")
      <4>1. t \in Diff(stored, v)
        BY <3>3
      <4> QED
        BY <3>1, <3>5, <4>1, BrokenDiff DEF IsFresh
    <3> QED
      BY <3>6, <3>7
  <2>2. ASSUME NEW w \in Worlds, RunDies(w) PROVE full' = NoVerdict
    BY <2>2 DEF RunDies
  <2>3. ASSUME FileLost PROVE full' = NoVerdict
    BY <2>3 DEF FileLost
  <2> QED
    BY <2>1, <2>2, <2>3 DEF Next
<1> QED
  BY <1>1, MonitorInvariant, PTL DEF Spec, BrokenCheckIsLoud

----------------------------------------------------------------------------
(* What a run finds, as sets *)

\* The members of a concatenation.
LEMMA FlattenMembers ==
    ASSUME NEW S, NEW ss \in Seq(Seq(S)), NEW t
    PROVE  t \in ToSet(FlattenSeq(ss)) <=> \E k \in DOMAIN ss : t \in ToSet(ss[k])
<1>a. PICK F : F = FlattenSeq(ss)
  OBVIOUS
<1>1. PICK f : Unfolds(F, ss, PlacesOf(ss), f)
  BY <1>a, FlattenUnfolds
<1>2. ASSUME NEW x \in DOMAIN F PROVE \E k \in DOMAIN ss : F[x] \in ToSet(ss[k])
  <2>1. f[x] \in PlacesOf(ss) /\ F[x] = ss[f[x][1]][f[x][2]]
    BY <1>1 DEF Unfolds, Pairs
  <2>2. PICK k \in DOMAIN ss : \E i \in DOMAIN ss[k] : f[x] = <<k, i>>
    BY <2>1, PlaceIs
  <2>3. PICK i \in DOMAIN ss[k] : f[x] = <<k, i>>
    BY <2>2
  <2>4. F[x] = ss[k][i]
    BY <2>1, <2>3
  <2> QED
    BY <2>4 DEF ToSet
<1>3. ASSUME NEW k \in DOMAIN ss, NEW i \in DOMAIN ss[k] PROVE ss[k][i] \in ToSet(F)
  <2>1. <<k, i>> \in PlacesOf(ss)
    BY PlaceIs
  <2>2. PICK x \in DOMAIN F : f[x] = <<k, i>>
    BY <1>1, <2>1 DEF Unfolds, Pairs
  <2>3. F[x] = ss[k][i]
    BY <1>1, <2>2 DEF Unfolds
  <2> QED
    BY <2>3 DEF ToSet
<1>4. t \in ToSet(F) <=> \E k \in DOMAIN ss : t \in ToSet(ss[k])
  <2>1. ASSUME t \in ToSet(F) PROVE \E k \in DOMAIN ss : t \in ToSet(ss[k])
    <3>1. PICK x \in DOMAIN F : t = F[x]
      BY <2>1 DEF ToSet
    <3> QED
      BY <1>2, <3>1
  <2>2. ASSUME NEW k \in DOMAIN ss, t \in ToSet(ss[k]) PROVE t \in ToSet(F)
    <3>1. PICK i \in DOMAIN ss[k] : t = ss[k][i]
      BY <2>2 DEF ToSet
    <3> QED
      BY <1>3, <3>1
  <2> QED
    BY <2>1, <2>2
<1> QED
  BY <1>4, <1>a

\* The members at the places picked.
LEMMA PickedSet ==
    ASSUME NEW S, NEW s \in Seq(S), NEW I \in SUBSET DOMAIN s, NEW t
    PROVE  t \in ToSet(Picked(s, I)) <=> \E i \in I : t = s[i]
<1> DEFINE F == Picked(s, I)
<1>1. PICK f : Follows(F, s, I, f)
  BY PickedFacts
<1> HIDE DEF F
<1>2. \A x \in DOMAIN F : f[x] \in I /\ F[x] = s[f[x]]
  BY <1>1 DEF Follows, Pairs
<1>3. \A i \in I : \E x \in DOMAIN F : F[x] = s[i]
  BY <1>1 DEF Follows, Pairs
<1>4. t \in ToSet(F) <=> \E i \in I : t = s[i]
  BY <1>2, <1>3 DEF ToSet
<1> QED
  BY <1>4 DEF F

\* A workload as a run finds it.
TargetAt(w, c, i) ==
    [context |-> c, ns |-> WatchedIn(c)[i].ns, name |-> WatchedIn(c)[i].name,
     status |-> w[c].is[i].status, notes |-> NotesOn(w[c].is[i])]

\* What is found of a context.
LEMMA FoundInSet ==
    ASSUME InLoop, NEW w, NEW c \in Range(Asked), NEW sought, NEW t
    PROVE  t \in ToSet(FoundIn(w, c, sought)) <=>
             /\ Answered(w, c)
             /\ \E i \in DOMAIN WatchedIn(c) : w[c].is[i] \in sought /\ t = TargetAt(w, c, i)
<1> DEFINE W == WatchedIn(c)
           own == [i \in DOMAIN W |-> i]
           places == {i \in DOMAIN W : w[c].is[i] \in sought}
           found == Picked(own, places)
           At(i) == TargetAt(w, c, i)
           F == FoundIn(w, c, sought)
<1>1. DOMAIN W = 1 .. Len(W) /\ Len(W) \in Nat
  <2>1. W \in Seq(Matched)
    BY WatchedFacts
  <2> HIDE DEF W
  <2> QED
    BY <2>1
<1>2. own \in Seq(DOMAIN W) /\ places \in SUBSET DOMAIN own
  BY <1>1
<1>3. \A i : i \in ToSet(found) <=> i \in places
  <2>1. \A i : i \in ToSet(found) <=> \E j \in places : i = own[j]
    <3> HIDE DEF own, places
    <3> QED
      BY <1>2, PickedSet
  <2>2. \A j \in places : own[j] = j
    OBVIOUS
  <2> HIDE DEF own, places, found
  <2> QED
    BY <2>1, <2>2
<1>4. CASE ~ Answered(w, c)
  BY <1>4 DEF FoundIn, ToSet
<1>5. CASE Answered(w, c)
  <2>1. F = [k \in DOMAIN found |-> At(found[k])]
    BY <1>5, Zenon DEF FoundIn, TargetAt
  <2> HIDE DEF At, found, F, places
  <2>2. t \in ToSet(F) <=> \E k \in DOMAIN found : t = At(found[k])
    BY <2>1 DEF ToSet
  <2>3. t \in ToSet(F) <=> \E i \in places : t = At(i)
    BY <1>3, <2>2 DEF ToSet
  <2> QED
    BY <1>5, <2>3 DEF places, F, At
<1> QED
  BY <1>4, <1>5

\* What is found.
LEMMA FoundSet ==
    ASSUME InLoop, NEW w, NEW sought, NEW t
    PROVE  t \in ToSet(Found(w, sought)) <=>
             \E c \in Range(Asked) :
                /\ Answered(w, c)
                /\ \E i \in DOMAIN WatchedIn(c) : w[c].is[i] \in sought /\ t = TargetAt(w, c, i)
<1> DEFINE ss == [k \in DOMAIN Asked |-> FoundIn(w, Asked[k], sought)]
           S == UNION {ToSet(ss[k]) : k \in DOMAIN Asked}
           Is(c) == /\ Answered(w, c)
                    /\ \E i \in DOMAIN WatchedIn(c) : w[c].is[i] \in sought /\ t = TargetAt(w, c, i)
<1>1. PICK A : Asked \in Seq(A)
  BY WatchedFacts
<1>2. /\ DOMAIN Asked = 1 .. Len(Asked) /\ Len(Asked) \in Nat
      /\ \A c : c \in Range(Asked) <=> \E k \in DOMAIN Asked : c = Asked[k]
  BY <1>1 DEF Range
<1>3. \A k \in DOMAIN Asked : ss[k] \in Seq(S)
  <2> SUFFICES ASSUME NEW k \in DOMAIN Asked PROVE ss[k] \in Seq(S)
    OBVIOUS
  <2>1. ss[k] \in Seq(ToSet(ss[k]))
    <3>1. ss[k] = FoundIn(w, Asked[k], sought)
      OBVIOUS
    <3> HIDE DEF ss
    <3> QED
      BY <1>2, <3>1, FoundInFacts
  <2>2. ToSet(ss[k]) \subseteq S
    OBVIOUS
  <2> HIDE DEF ss, S
  <2> QED
    BY <2>1, <2>2, SeqWiden
<1>4. ss \in Seq(Seq(S))
  <2>1. ss = [k \in DOMAIN Asked |-> ss[k]]
    OBVIOUS
  <2> HIDE DEF ss, S
  <2> QED
    BY <1>2, <1>3, <2>1
<1>5. Found(w, sought) = FlattenSeq(ss)
  BY DEF Found
<1>6. \A k \in DOMAIN Asked : t \in ToSet(ss[k]) <=> Is(Asked[k])
  <2> SUFFICES ASSUME NEW k \in DOMAIN Asked PROVE t \in ToSet(ss[k]) <=> Is(Asked[k])
    OBVIOUS
  <2>1. ss[k] = FoundIn(w, Asked[k], sought) /\ Asked[k] \in Range(Asked)
    BY <1>2
  <2> HIDE DEF ss
  <2> QED
    BY <2>1, FoundInSet
<1>7. DOMAIN ss = DOMAIN Asked
  OBVIOUS
<1> HIDE DEF ss, S, Is
<1>8. \A x : x \in ToSet(FlattenSeq(ss)) <=> \E k \in DOMAIN ss : x \in ToSet(ss[k])
  BY <1>4, FlattenMembers
<1>9. t \in ToSet(Found(w, sought)) <=> \E c \in Range(Asked) : Is(c)
  BY <1>2, <1>5, <1>6, <1>7, <1>8
<1> QED
  BY <1>9 DEF Is

\* A namespace entry enumerates e.
Enumerates(ns, e) ==
    \E g \in ToSet(ns) : \E j \in DOMAIN g.targets : e = <<g.context, g.ns, g.targets[j]>>

\* How a target is enumerated.
AsListed(t) == <<t.context, t.ns, [name |-> t.name, status |-> t.status]>>

\* Every target that is not settled is enumerated, and nothing else.
LEMMA NamespacesSet ==
    ASSUME NEW S, NEW targets \in Seq(S), NEW e
    PROVE  Enumerates(NamespaceVerdicts(targets), e) <=>
             \E t \in ToSet(targets) : t.status # "settled" /\ e = AsListed(t)
<1> DEFINE places == {i \in DOMAIN targets : targets[i].status # "settled"}
           listed == Picked(targets, places)
           home == [i \in DOMAIN listed |-> <<listed[i].context, listed[i].ns>>]
           own(g) == Picked(listed, {i \in DOMAIN listed : home[i] = g})
           groups == Distinct(home)
           Group(g) == [context |-> g[1], ns |-> g[2], status |-> WorstStatus(StatusesOf(own(g))),
                        targets |-> [i \in DOMAIN own(g) |->
                                        [name |-> own(g)[i].name, status |-> own(g)[i].status]]]
           ns == NamespaceVerdicts(targets)
<1>1. ns = [k \in DOMAIN groups |-> Group(groups[k])]
  BY Zenon DEF NamespaceVerdicts
<1>2. listed \in Seq(S) /\ \A t : t \in ToSet(listed) <=> t \in ToSet(targets) /\ t.status # "settled"
  <2>1. places \in SUBSET DOMAIN targets
    OBVIOUS
  <2>2. listed \in Seq(S) /\ \A t : t \in ToSet(listed) <=> \E i \in places : t = targets[i]
    <3> HIDE DEF places
    <3> QED
      BY <2>1, PickedFacts, PickedSet
  <2> HIDE DEF listed
  <2> QED
    BY <2>2 DEF ToSet
<1> HIDE DEF listed
<1>3. DOMAIN listed = 1 .. Len(listed) /\ Len(listed) \in Nat
  BY <1>2
<1>4. home \in Seq({home[i] : i \in 1 .. Len(listed)})
  <2>1. home = [i \in 1 .. Len(listed) |-> home[i]]
    BY <1>3
  <2> HIDE DEF home
  <2> QED
    BY <1>3, <2>1, IsSequence
<1>5. ToSet(groups) = ToSet(home)
  <2> HIDE DEF home
  <2> QED
    BY <1>4, DistinctFacts
<1>6. ASSUME NEW g, NEW t
      PROVE  t \in ToSet(own(g)) <=> t \in ToSet(listed) /\ <<t.context, t.ns>> = g
  <2> DEFINE mine == {i \in DOMAIN listed : home[i] = g}
  <2>1. mine \in SUBSET DOMAIN listed
    OBVIOUS
  <2>2. t \in ToSet(Picked(listed, mine)) <=> \E i \in mine : t = listed[i]
    <3> HIDE DEF mine
    <3> QED
      BY <1>2, <2>1, PickedSet
  <2>3. (\E i \in mine : t = listed[i]) <=> \E i \in DOMAIN listed : t = listed[i] /\ <<t.context, t.ns>> = g
    OBVIOUS
  <2> QED
    BY <2>2, <2>3 DEF ToSet
<1>7. ASSUME NEW g, NEW i \in DOMAIN own(g)
      PROVE  Group(g).targets[i] = [name |-> own(g)[i].name, status |-> own(g)[i].status]
  OBVIOUS
<1>8. \A g : DOMAIN Group(g).targets = DOMAIN own(g) /\ Group(g).context = g[1] /\ Group(g).ns = g[2]
  OBVIOUS
<1> HIDE DEF own, Group, ns
<1>9. ASSUME Enumerates(ns, e) PROVE \E t \in ToSet(targets) : t.status # "settled" /\ e = AsListed(t)
  <2>1. PICK k \in DOMAIN groups : \E j \in DOMAIN Group(groups[k]).targets :
               e = <<Group(groups[k]).context, Group(groups[k]).ns, Group(groups[k]).targets[j]>>
    <3> HIDE DEF groups
    <3> QED
      BY <1>1, <1>9 DEF Enumerates, ToSet
  <2> DEFINE g == groups[k]
  <2>a. PICK j \in DOMAIN own(g) : e = <<Group(g).context, Group(g).ns, Group(g).targets[j]>>
    BY <1>8, <2>1
  <2>2. e = <<g[1], g[2], [name |-> own(g)[j].name, status |-> own(g)[j].status]>>
    <3> HIDE DEF g
    <3> QED
      BY <1>7, <1>8, <2>a
  <2>3. own(g)[j] \in ToSet(own(g))
    BY DEF ToSet
  <2>4. own(g)[j] \in ToSet(listed) /\ <<own(g)[j].context, own(g)[j].ns>> = g
    <3> HIDE DEF g
    <3> QED
      BY <1>6, <2>3
  <2> HIDE DEF g
  <2>5. e = AsListed(own(g)[j])
    BY <2>2, <2>4 DEF AsListed
  <2> QED
    BY <1>2, <2>4, <2>5
<1>10. ASSUME NEW t \in ToSet(targets), t.status # "settled", e = AsListed(t) PROVE Enumerates(ns, e)
  <2> DEFINE g == <<t.context, t.ns>>
  <2>1. t \in ToSet(listed)
    BY <1>2, <1>10
  <2>2. g \in ToSet(groups)
    <3>1. PICK i \in DOMAIN listed : listed[i] = t
      BY <2>1 DEF ToSet
    <3>2. home[i] = g
      BY <3>1
    <3>3. g \in ToSet(home)
      BY <3>2 DEF ToSet
    <3> HIDE DEF groups, home
    <3> QED
      BY <1>5, <3>3
  <2> HIDE DEF groups
  <2>3. PICK k \in DOMAIN groups : groups[k] = g
    BY <2>2 DEF ToSet
  <2>4. t \in ToSet(own(g))
    BY <1>6, <2>1
  <2>5. PICK j \in DOMAIN own(g) : own(g)[j] = t
    BY <2>4 DEF ToSet
  <2>6. Group(g).targets[j] = [name |-> t.name, status |-> t.status] /\ j \in DOMAIN Group(g).targets
    BY <1>7, <1>8, <2>5
  <2>7. e = <<Group(g).context, Group(g).ns, Group(g).targets[j]>>
    BY <1>8, <1>10, <2>6 DEF AsListed
  <2>8. Group(g) \in ToSet(ns)
    BY <1>1, <2>3 DEF ToSet
  <2> HIDE DEF g
  <2> QED
    BY <2>6, <2>7, <2>8 DEF Enumerates
<1> QED
  BY <1>9, <1>10 DEF ns

----------------------------------------------------------------------------
(* What a verdict lists, and what moves in the list *)

\* The status a verdict has for a key.
StatusIn(v, k) == IF k \in DOMAIN FailingList(v) THEN FailingList(v)[k] ELSE "settled"

NoneSettled(v) == \A k \in DOMAIN FailingList(v) : FailingList(v)[k] # "settled"

\* The failing list has what is enumerated.
LEMMA FailingKeys ==
    ASSUME NEW v, NEW k
    PROVE  /\ k \in DOMAIN FailingList(v) <=>
                \E e : Enumerates(v.namespaces, e) /\ Key(e[1], e[2], e[3].name) = k
           /\ k \in DOMAIN FailingList(v) =>
                \E e : /\ Enumerates(v.namespaces, e) /\ Key(e[1], e[2], e[3].name) = k
                       /\ FailingList(v)[k] = e[3].status
<1> DEFINE ns == v.namespaces
           listed == UNION {{<<g.context, g.ns, g.targets[j]>> : j \in DOMAIN g.targets} : g \in Range(ns)}
           KeyOf(e) == Key(e[1], e[2], e[3].name)
           F == FailingList(v)
<1>1. F = [l \in {KeyOf(x) : x \in listed} |-> (CHOOSE x \in listed : KeyOf(x) = l)[3].status]
  BY Zenon DEF FailingList
<1>2. \A e : e \in listed <=> Enumerates(ns, e)
  <2> DEFINE s == ns
  <2>1. Range(s) = ToSet(s)
    BY DEF Range, ToSet
  <2> HIDE DEF s
  <2> QED
    BY <2>1 DEF Enumerates, s
<1> HIDE DEF listed, F, KeyOf
<1>3. k \in DOMAIN F <=> \E x \in listed : KeyOf(x) = k
  BY <1>1
<1>4. ASSUME k \in DOMAIN F PROVE \E x \in listed : KeyOf(x) = k /\ F[k] = x[3].status
  <2> DEFINE x == CHOOSE x \in listed : KeyOf(x) = k
  <2>1. x \in listed /\ KeyOf(x) = k
    BY <1>3, <1>4
  <2>2. F[k] = x[3].status
    BY <1>1, <1>4
  <2> HIDE DEF x
  <2> QED
    BY <2>1, <2>2
<1> QED
  BY <1>2, <1>3, <1>4 DEF F, KeyOf

\* A transition of an advisory is none of a status.
LEMMA AdvisoryKinds ==
    ASSUME NEW prev, NEW cur, NEW t \in AdvisoryMoves(prev, cur)
    PROVE  t.kind # "status"
<1> DEFINE pa == AdvisoryIndex(prev)
           ca == AdvisoryIndex(cur)
           appeared == DOMAIN ca \ DOMAIN pa
           again == {k \in DOMAIN ca \intersect DOMAIN pa : NewTermination(pa[k], ca[k])}
           cleared == IF Checked(cur)
                      THEN DOMAIN pa \ (DOMAIN ca \union DOMAIN FailingList(cur)) ELSE {}
           none == ""
           A == {Transition("advisory-appeared", k, none, none) : k \in appeared}
           B == {Transition("new-termination", k, none, none) : k \in again}
           C == {Transition("advisory-cleared", k, none, none) : k \in cleared}
<1>1. AdvisoryMoves(prev, cur) = A \union B \union C
  BY Zenon DEF AdvisoryMoves
<1> HIDE DEF appeared, again, cleared, none
<1>2. \A x \in A : x.kind = "advisory-appeared"
  BY DEF Transition
<1>3. \A x \in B : x.kind = "new-termination"
  BY DEF Transition
<1>4. \A x \in C : x.kind = "advisory-cleared"
  BY DEF Transition
<1> HIDE DEF A, B, C
<1> QED
  BY <1>1, <1>2, <1>3, <1>4

\* What is said of the status at a key that is not the header's.
LEMMA StatusMovesAt ==
    ASSUME NEW prev, NEW cur, NEW k, Checked(prev), Checked(cur),
           NoneSettled(prev), NoneSettled(cur), cur.header # k, NEW t
    PROVE  t \in Diff(prev, cur) /\ t.kind = "status" /\ t.key = k
             <=> /\ StatusIn(prev, k) # StatusIn(cur, k)
                 /\ t = Transition("status", k, StatusIn(prev, k), StatusIn(cur, k))
<1> DEFINE pt == FailingList(prev)
           ct == FailingList(cur)
           S == StatusMoves(prev, cur)
           C == ContextMoves(prev, cur)
           whole == Transition("status", cur.header, prev.status, cur.status)
           none == ""
           before(l) == IF l \in DOMAIN pt THEN pt[l] ELSE IF Checked(prev) THEN "settled" ELSE none
           moved == {l \in DOMAIN ct : before(l) # ct[l]}
           left == IF Checked(cur) THEN DOMAIN pt \ DOMAIN ct ELSE {}
<1>1. S = {Transition("status", l, before(l), ct[l]) : l \in moved}
             \union {Transition("status", l, pt[l], "settled") : l \in left}
  BY Zenon DEF StatusMoves
<1>2. \A l : before(l) = StatusIn(prev, l)
  BY DEF StatusIn
<1>3. \A l \in DOMAIN ct : ct[l] = StatusIn(cur, l)
  BY DEF StatusIn
<1>4. left = DOMAIN pt \ DOMAIN ct
  OBVIOUS
<1>5. \A l \in left : pt[l] = StatusIn(prev, l) /\ StatusIn(cur, l) = "settled" /\ pt[l] # "settled"
  BY <1>4 DEF StatusIn, NoneSettled
<1>6. \A l : l \notin DOMAIN ct /\ l \notin left => StatusIn(prev, l) = StatusIn(cur, l)
  BY <1>4 DEF StatusIn
<1>7. \A l \in DOMAIN ct : l \in moved <=> StatusIn(prev, l) # StatusIn(cur, l)
  BY <1>2, <1>3
<1>8. moved \subseteq DOMAIN ct
  OBVIOUS
<1> HIDE DEF pt, ct, S, moved, left, before
<1>9. t \in S <=> \E l \in moved \union left : t = Transition("status", l, StatusIn(prev, l), StatusIn(cur, l))
  BY <1>1, <1>2, <1>3, <1>5, <1>8
<1>10. k \in moved \union left <=> StatusIn(prev, k) # StatusIn(cur, k)
  BY <1>5, <1>6, <1>7, <1>8
<1>11. t \in S /\ t.kind = "status" /\ t.key = k
         <=> /\ StatusIn(prev, k) # StatusIn(cur, k)
             /\ t = Transition("status", k, StatusIn(prev, k), StatusIn(cur, k))
  <2>1. ASSUME t \in S, t.key = k
        PROVE  /\ StatusIn(prev, k) # StatusIn(cur, k)
               /\ t = Transition("status", k, StatusIn(prev, k), StatusIn(cur, k))
    <3>1. PICK l \in moved \union left : t = Transition("status", l, StatusIn(prev, l), StatusIn(cur, l))
      BY <1>9, <2>1
    <3>2. l = k
      BY <2>1, <3>1 DEF Transition
    <3> QED
      BY <1>10, <3>1, <3>2
  <2>2. ASSUME StatusIn(prev, k) # StatusIn(cur, k),
               t = Transition("status", k, StatusIn(prev, k), StatusIn(cur, k))
        PROVE  t \in S /\ t.kind = "status" /\ t.key = k
    <3>1. t \in S
      BY <1>9, <1>10, <2>2
    <3>2. t.kind = "status" /\ t.key = k
      BY <2>2 DEF Transition
    <3> QED
      BY <3>1, <3>2
  <2> QED
    BY <2>1, <2>2
<1>12. t \in C => t.kind # "status"
  BY DEF ContextMoves, Transition
<1>13. whole.key # k
  BY DEF Transition
<1>14. Moves(prev, cur) = (IF S \union C = {} /\ prev.status # cur.status THEN {whole} ELSE S \union C)
  BY Zenon DEF Moves, S
<1>15. Diff(prev, cur) = Moves(prev, cur) \union AdvisoryMoves(prev, cur)
  BY DEF Diff
<1>16. t \in AdvisoryMoves(prev, cur) => t.kind # "status"
  BY AdvisoryKinds
<1> HIDE DEF C, whole
<1>17. ASSUME t \in Diff(prev, cur), t.kind = "status", t.key = k PROVE t \in S
  <2>1. t \in S \/ t \in C \/ t = whole
    BY <1>14, <1>15, <1>16, <1>17
  <2> QED
    BY <1>12, <1>13, <1>17, <2>1
<1>18. ASSUME t \in S PROVE t \in Diff(prev, cur)
  BY <1>14, <1>15, <1>18
<1> QED
  BY <1>11, <1>17, <1>18

\* What is said of the status when nothing is enumerated.
LEMMA StatusOfWhole ==
    ASSUME NEW prev, NEW cur,
           prev.namespaces = <<>>, cur.namespaces = <<>>,
           prev.contexts = <<>>, cur.contexts = <<>>, NEW t
    PROVE  t \in Diff(prev, cur) /\ t.kind = "status" /\ t.key = cur.header
             <=> /\ prev.status # cur.status
                 /\ t = Transition("status", cur.header, prev.status, cur.status)
<1> DEFINE S == StatusMoves(prev, cur)
           C == ContextMoves(prev, cur)
           whole == Transition("status", cur.header, prev.status, cur.status)
<1>1. ASSUME NEW v, v.namespaces = <<>>, v.contexts = <<>>
      PROVE  DOMAIN FailingList(v) = {} /\ DOMAIN Rollup(v) = {}
  <2>1. \A e : ~ Enumerates(v.namespaces, e)
    BY <1>1 DEF Enumerates, ToSet
  <2>2. DOMAIN FailingList(v) = {}
    BY <2>1, FailingKeys
  <2>3. DOMAIN Rollup(v) = {}
    BY <1>1 DEF Rollup, Range
  <2> QED
    BY <2>2, <2>3
<1>2. DOMAIN FailingList(prev) = {} /\ DOMAIN FailingList(cur) = {}
  BY <1>1
<1>3. DOMAIN Rollup(prev) = {} /\ DOMAIN Rollup(cur) = {}
  BY <1>1
<1>4. S = {}
  <2> DEFINE pt == FailingList(prev)
             ct == FailingList(cur)
             none == ""
             before(l) == IF l \in DOMAIN pt THEN pt[l] ELSE IF Checked(prev) THEN "settled" ELSE none
             moved == {l \in DOMAIN ct : before(l) # ct[l]}
             left == IF Checked(cur) THEN DOMAIN pt \ DOMAIN ct ELSE {}
  <2>1. S = {Transition("status", l, before(l), ct[l]) : l \in moved}
               \union {Transition("status", l, pt[l], "settled") : l \in left}
    BY Zenon DEF StatusMoves
  <2>2. moved = {} /\ left = {}
    BY <1>2
  <2> HIDE DEF moved, left, pt, ct, before
  <2> QED
    BY <2>1, <2>2
<1>5. C = {}
  BY <1>3 DEF ContextMoves
<1>6. Moves(prev, cur) = (IF S \union C = {} /\ prev.status # cur.status THEN {whole} ELSE S \union C)
  BY Zenon DEF Moves
<1>7. Diff(prev, cur) = Moves(prev, cur) \union AdvisoryMoves(prev, cur)
  BY DEF Diff
<1>8. t \in AdvisoryMoves(prev, cur) => t.kind # "status"
  BY AdvisoryKinds
<1>9. whole.kind = "status" /\ whole.key = cur.header
  BY DEF Transition
<1> HIDE DEF S, C
<1> QED
  BY <1>4, <1>5, <1>6, <1>7, <1>8, <1>9

----------------------------------------------------------------------------
(* A workload in the list of a run *)

\* The key of a workload that is watched.
KeyAt(c, i) == <<c, WatchedIn(c)[i].ns, WatchedIn(c)[i].name>>

\* In a context that answered a workload is in one of its conditions.
LEMMA ConditionAt ==
    ASSUME InLoop, NEW w \in Worlds, NEW c \in Range(Asked), Answered(w, c),
           NEW i \in DOMAIN WatchedIn(c)
    PROVE  /\ w[c].is[i] \in AnyCondition
           /\ w[c].is[i].status \in TargetStatuses \union {"absent"}
           /\ w[c].is[i].pods \in PodLists /\ w[c].is[i].since \in Nat
<1> DEFINE n == Len(WatchedIn(c))
           C == Range(Asked)
           All == UNION {SightsOf(d) : d \in C}
           none == "none"
           T == {f \in [1 .. n -> AnyCondition] :
                    \A j \in 1 .. n : f[j] \in Conditions[WatchedIn(c)[j].name]}
           blind == [j \in 1 .. n |-> Absent]
<1>1. WatchedIn(c) \in Seq(Matched) /\ i \in 1 .. n /\ WatchedIn(c)[i] \in Matched
  BY WatchedFacts
<1>2. w[c] \in SightsOf(c)
  <2>1. Worlds = {x \in [C -> All] : \A d \in C : x[d] \in SightsOf(d)}
    BY Zenon DEF Worlds
  <2> HIDE DEF All
  <2> QED
    BY <2>1
<1>3. SightsOf(c) = {[answer |-> e, is |-> blind] : e \in Errors}
                      \union {[answer |-> none, is |-> f] : f \in T}
  BY Zenon DEF SightsOf
<1>4. w[c].answer = none
  BY DEF Answered, ErrorOf
<1>5. none \notin Errors
  BY MonitorAssumption
<1> HIDE DEF blind, T, none
<1>6. PICK f \in T : w[c].is = f
  BY <1>2, <1>3, <1>4, <1>5
<1>7. f[i] \in AnyCondition /\ f[i] \in Conditions[WatchedIn(c)[i].name]
  <2> HIDE DEF n
  <2> QED
    BY <1>1 DEF T
<1>8. \A m \in Matched : \A k \in Conditions[m.name] :
        /\ k.status \in TargetStatuses \union {"absent"}
        /\ k.pods \in PodLists /\ k.since \in Nat
  BY ConditionsAssumption, Zenon
<1> QED
  BY <1>1, <1>6, <1>7, <1>8

\* A named target is watched alone.
LEMMA OneWorkload ==
    ASSUME InLoop, mode = "target", NEW c \in Range(Asked)
    PROVE  DOMAIN WatchedIn(c) = {1}
<1> DEFINE s == WorkloadsOf(c)
<1>1. WatchedIn(c) = SubSeq(s, 1, 1) /\ WatchedIn(c) \in Seq(Matched)
  BY WatchedFacts DEF WatchedIn
<1> HIDE DEF s
<1>2. Len(SubSeq(s, 1, 1)) = 1
  BY <1>1
<1>3. DOMAIN WatchedIn(c) = 1 .. 1
  BY <1>1, <1>2
<1> QED
  BY <1>3

\* What matches is watched once.
LEMMA KeysApart ==
    ASSUME InLoop, NEW c \in Range(Asked),
           NEW i \in DOMAIN WatchedIn(c), NEW j \in DOMAIN WatchedIn(c), KeyAt(c, i) = KeyAt(c, j)
    PROVE  i = j
<1> SUFFICES ASSUME mode # "target" PROVE i = j
  BY OneWorkload
<1> DEFINE W == [ns : STRING, name : STRING \X STRING]
<1>1. PICK d \in Range(Contexts) : WatchedIn(c) = Workloads[d]
  <2>1. Contexts[1] \in Range(Contexts)
    BY MonitorAssumption DEF Range
  <2>2. CASE mode = "contexts"
    BY <2>1, <2>2 DEF WatchedIn, WorkloadsOf, Asked
  <2>3. CASE mode # "contexts"
    <3>1. c = NoContext
      BY <2>3 DEF Asked, Range
    <3> QED
      BY <2>1, <3>1 DEF WatchedIn, WorkloadsOf
  <2> QED
    BY <2>2, <2>3
<1>2. IsInjective(Workloads[d])
  BY WorkloadsAssumption
<1>3. Workloads[d] \in Seq(W)
  <2> DEFINE A == Range(Contexts)
  <2>1. Workloads \in [A -> Seq(W)]
    BY MonitorAssumption
  <2> HIDE DEF A, W
  <2> QED
    BY <2>1 DEF A
<1> DEFINE s == Workloads[d]
<1>4. i \in DOMAIN s /\ j \in DOMAIN s
  BY <1>1
<1>5. s[i] \in W /\ s[j] \in W
  <2> HIDE DEF W
  <2> QED
    BY <1>3, <1>4
<1>6. s[i].ns = s[j].ns /\ s[i].name = s[j].name
  BY <1>1 DEF KeyAt
<1>7. \A a \in W, b \in W : a.ns = b.ns /\ a.name = b.name => a = b
  OBVIOUS
<1> HIDE DEF W
<1>8. s[i] = s[j]
  BY <1>5, <1>6, <1>7
<1> QED
  BY <1>2, <1>4, <1>8 DEF IsInjective

\* What is enumerated of a world: the workloads that are not settled.
LEMMA EnumeratedOn ==
    ASSUME InLoop, mode # "target", NEW w, mode = "contexts" \/ Answered(w, NoContext), NEW e
    PROVE  Enumerates(VerdictOn(w).namespaces, e) <=>
             \E c \in Range(Asked) :
                /\ Answered(w, c)
                /\ \E i \in DOMAIN WatchedIn(c) :
                     /\ w[c].is[i] \in AnyCondition
                     /\ w[c].is[i].status \notin {"absent", "settled"}
                     /\ e = <<c, WatchedIn(c)[i].ns,
                              [name |-> WatchedIn(c)[i].name, status |-> w[c].is[i].status]>>
<1> DEFINE sought == {k \in AnyCondition : k.status # "absent"}
           targets == Input(w).targets
           ns == NamespaceVerdicts(targets)
<1>1. VerdictOn(w).namespaces = ns
  <2>1. VerdictOn(w) = Headed(BuildFleet(Input(w)))
    BY Zenon DEF VerdictOn
  <2>2. \A v : Headed(v).namespaces = v.namespaces
    BY DEF Headed
  <2>3. BuildFleet(Input(w)).namespaces = ns
    <3> DEFINE in == Input(w)
    <3> HIDE DEF in
    <3>1. BuildFleet(in).namespaces = NamespaceVerdicts(in.targets)
      BY DEF BuildFleet
    <3> QED
      BY <3>1 DEF in
  <2> HIDE DEF ns
  <2> QED
    BY <2>1, <2>2, <2>3
<1>2. targets = Found(w, sought)
  BY Zenon DEF Input
<1>3. PICK S : targets \in Seq(S)
  BY InputFacts
<1> HIDE DEF targets, sought
<1>4. Enumerates(ns, e) <=> \E t \in ToSet(targets) : t.status # "settled" /\ e = AsListed(t)
  BY <1>3, NamespacesSet
<1>5. \A t : t \in ToSet(targets) <=>
        \E c \in Range(Asked) :
          /\ Answered(w, c)
          /\ \E i \in DOMAIN WatchedIn(c) : w[c].is[i] \in sought /\ t = TargetAt(w, c, i)
  BY <1>2, FoundSet
<1>6. \A c, i : /\ TargetAt(w, c, i).status = w[c].is[i].status
                /\ AsListed(TargetAt(w, c, i)) =
                     <<c, WatchedIn(c)[i].ns,
                       [name |-> WatchedIn(c)[i].name, status |-> w[c].is[i].status]>>
  BY DEF TargetAt, AsListed
<1>7. \A k : k \in sought <=> k \in AnyCondition /\ k.status # "absent"
  BY DEF sought
<1> HIDE DEF ns
<1>8. ASSUME Enumerates(ns, e)
      PROVE  \E c \in Range(Asked) :
                /\ Answered(w, c)
                /\ \E i \in DOMAIN WatchedIn(c) :
                     /\ w[c].is[i] \in sought
                     /\ TargetAt(w, c, i).status # "settled"
                     /\ e = AsListed(TargetAt(w, c, i))
  <2>1. PICK t \in ToSet(targets) : t.status # "settled" /\ e = AsListed(t)
    BY <1>4, <1>8
  <2>2. PICK c \in Range(Asked) :
          /\ Answered(w, c)
          /\ \E i \in DOMAIN WatchedIn(c) : w[c].is[i] \in sought /\ t = TargetAt(w, c, i)
    BY <1>5, <2>1
  <2>3. PICK i \in DOMAIN WatchedIn(c) : w[c].is[i] \in sought /\ t = TargetAt(w, c, i)
    BY <2>2
  <2> QED
    BY <2>1, <2>2, <2>3
<1>9. ASSUME NEW c \in Range(Asked), Answered(w, c), NEW i \in DOMAIN WatchedIn(c),
             w[c].is[i] \in sought, TargetAt(w, c, i).status # "settled",
             e = AsListed(TargetAt(w, c, i))
      PROVE  Enumerates(ns, e)
  <2>1. TargetAt(w, c, i) \in ToSet(targets)
    BY <1>5, <1>9
  <2> QED
    BY <1>4, <1>9, <2>1
<1>10. Enumerates(ns, e) <=>
          \E c \in Range(Asked) :
                /\ Answered(w, c)
                /\ \E i \in DOMAIN WatchedIn(c) :
                     /\ w[c].is[i] \in sought
                     /\ TargetAt(w, c, i).status # "settled"
                     /\ e = AsListed(TargetAt(w, c, i))
  BY <1>8, <1>9
<1> QED
  BY <1>1, <1>6, <1>7, <1>10

\* The status that a verdict has for a workload is the one it is in.
LEMMA StatusAt ==
    ASSUME InLoop, mode # "target", NEW w \in Worlds, NEW c \in Range(Asked), Answered(w, c),
           NEW i \in DOMAIN WatchedIn(c)
    PROVE  StatusIn(VerdictOn(w), KeyAt(c, i)) =
             IF w[c].is[i].status = "absent" THEN "settled" ELSE w[c].is[i].status
<1> DEFINE k == KeyAt(c, i)
           status == w[c].is[i].status
           v == VerdictOn(w)
<1>1. mode = "contexts" \/ Answered(w, NoContext)
  <2>1. mode # "contexts" => c = NoContext
    BY DEF Asked, Range
  <2> QED
    BY <2>1
<1>2. ASSUME NEW e, Enumerates(v.namespaces, e), Key(e[1], e[2], e[3].name) = k
      PROVE  e[3].status = status /\ status \notin {"absent", "settled"}
  <2>1. PICK d \in Range(Asked) :
                /\ Answered(w, d)
                /\ \E j \in DOMAIN WatchedIn(d) :
                     /\ w[d].is[j] \in AnyCondition
                     /\ w[d].is[j].status \notin {"absent", "settled"}
                     /\ e = <<d, WatchedIn(d)[j].ns,
                              [name |-> WatchedIn(d)[j].name, status |-> w[d].is[j].status]>>
    BY <1>1, <1>2, EnumeratedOn
  <2>2. PICK j \in DOMAIN WatchedIn(d) :
                     /\ w[d].is[j].status \notin {"absent", "settled"}
                     /\ e = <<d, WatchedIn(d)[j].ns,
                              [name |-> WatchedIn(d)[j].name, status |-> w[d].is[j].status]>>
    BY <2>1
  <2>3. Key(e[1], e[2], e[3].name) = KeyAt(d, j) /\ e[3].status = w[d].is[j].status
    BY <2>2 DEF Key, KeyAt
  <2>4. d = c
    BY <1>2, <2>3 DEF KeyAt
  <2>5. j = i
    BY <1>2, <2>3, <2>4, KeysApart
  <2> QED
    BY <2>2, <2>3, <2>4, <2>5
<1>3. ASSUME status \notin {"absent", "settled"}
      PROVE  \E e : Enumerates(v.namespaces, e) /\ Key(e[1], e[2], e[3].name) = k
  <2> DEFINE e == <<c, WatchedIn(c)[i].ns, [name |-> WatchedIn(c)[i].name, status |-> status]>>
  <2>1. w[c].is[i] \in AnyCondition
    BY ConditionAt
  <2>2. Key(e[1], e[2], e[3].name) = k
    BY DEF Key, KeyAt
  <2>3. Enumerates(v.namespaces, e)
    BY <1>1, <1>3, <2>1, EnumeratedOn
  <2> HIDE DEF e, k
  <2> QED
    BY <2>2, <2>3
<1> HIDE DEF v, k, status
<1>4. k \in DOMAIN FailingList(v) <=> status \notin {"absent", "settled"}
  BY <1>2, <1>3, FailingKeys
<1>5. k \in DOMAIN FailingList(v) => FailingList(v)[k] = status
  BY <1>2, FailingKeys
<1>6. StatusIn(v, k) = IF status = "absent" THEN "settled" ELSE status
  BY <1>4, <1>5 DEF StatusIn
<1> QED
  BY <1>6 DEF v, k, status

----------------------------------------------------------------------------
(* What is unchanged by a step that keeps the loop *)

\* What a run finds in a world depends on nothing else but the loop.
LEMMA SameFound ==
    ASSUME mode' = mode, NEW w, NEW sought
    PROVE  /\ Asked' = Asked
           /\ \A c : WatchedIn(c)' = WatchedIn(c)
           /\ \A c : ErrorOf(w, c)' = ErrorOf(w, c)
           /\ \A c : Answered(w, c)' <=> Answered(w, c)
           /\ Found(w, sought)' = Found(w, sought)
<1>1. Asked' = Asked
  BY DEF Asked
<1>2. ASSUME NEW c PROVE WatchedIn(c)' = WatchedIn(c)
  BY Zenon DEF WatchedIn, WorkloadsOf
<1>3. ASSUME NEW c
      PROVE  /\ ErrorOf(w, c)' = ErrorOf(w, c)
             /\ Answered(w, c)' <=> Answered(w, c)
  <2> DEFINE Error(s) == IF w[c].answer # "none" THEN w[c].answer
                         ELSE IF \A i \in DOMAIN s : w[c].is[i].status = "absent"
                         THEN "no_match" ELSE "none"
  <2>1. ErrorOf(w, c)' = Error(WatchedIn(c)') /\ ErrorOf(w, c) = Error(WatchedIn(c))
    BY Zenon DEF ErrorOf
  <2> HIDE DEF Error
  <2>2. ErrorOf(w, c)' = ErrorOf(w, c)
    BY <1>2, <2>1
  <2>3. (Answered(w, c)' <=> ErrorOf(w, c)' = "none") /\ (Answered(w, c) <=> ErrorOf(w, c) = "none")
    BY Zenon DEF Answered
  <2> QED
    BY <2>2, <2>3
<1>4. ASSUME NEW c PROVE FoundIn(w, c, sought)' = FoundIn(w, c, sought)
  <2> DEFINE In(s, answered) ==
               IF ~ answered THEN <<>>
               ELSE LET found == Picked([i \in DOMAIN s |-> i],
                                        {i \in DOMAIN s : w[c].is[i] \in sought})
                    IN  [k \in DOMAIN found |->
                           LET workload == s[found[k]]
                               condition == w[c].is[found[k]]
                           IN  [context |-> c, ns |-> workload.ns, name |-> workload.name,
                                status |-> condition.status, notes |-> NotesOn(condition)]]
  <2>1. /\ FoundIn(w, c, sought)' = In(WatchedIn(c)', Answered(w, c)')
        /\ FoundIn(w, c, sought) = In(WatchedIn(c), Answered(w, c))
    BY Zenon DEF FoundIn
  <2>2. WatchedIn(c)' = WatchedIn(c)
    BY <1>2
  <2>3. Answered(w, c)' <=> Answered(w, c)
    BY <1>3
  <2> HIDE DEF In
  <2>4. CASE Answered(w, c)
    <3>1. In(WatchedIn(c)', Answered(w, c)') = In(WatchedIn(c), TRUE)
      BY <2>2, <2>3, <2>4, Zenon DEF In
    <3>2. In(WatchedIn(c), Answered(w, c)) = In(WatchedIn(c), TRUE)
      BY <2>4, Zenon DEF In
    <3> QED
      BY <2>1, <3>1, <3>2
  <2>5. CASE ~ Answered(w, c)
    <3>1. FoundIn(w, c, sought)' = <<>>
      BY <2>1, <2>3, <2>5 DEF In
    <3>2. FoundIn(w, c, sought) = <<>>
      BY <2>1, <2>5 DEF In
    <3> QED
      BY <3>1, <3>2
  <2> QED
    BY <2>4, <2>5
<1>5. Found(w, sought)' = Found(w, sought)
  <2> DEFINE A == Asked
             ss == [k \in DOMAIN A |-> FoundIn(w, A[k], sought)]
  <2>1. ss' = [k \in DOMAIN A' |-> FoundIn(w, A[k], sought)']
    OBVIOUS
  <2>2. Found(w, sought)' = FlattenSeq(ss') /\ Found(w, sought) = FlattenSeq(ss)
    BY DEF Found
  <2> QED
    BY <1>1, <1>4, <2>1, <2>2
<1> QED
  BY <1>1, <1>2, <1>3, <1>5

\* So is its verdict.
LEMMA SameVerdict ==
    ASSUME mode' = mode, NEW w
    PROVE  VerdictOn(w)' = VerdictOn(w)
<1> DEFINE slow == {k \in AnyCondition : k.status \in {"progressing", "failed"}}
           there == {k \in AnyCondition : k.status # "absent"}
           noted == {k \in AnyCondition : NotesOn(k) # <<>>}
<1>1. Asked' = Asked /\ \A c : ErrorOf(w, c)' = ErrorOf(w, c)
  BY SameFound
<1>2. Answered(w, NoContext)' <=> Answered(w, NoContext)
  BY SameFound
<1>3. Findings(w)' = Findings(w)
  <2> DEFINE F(s) == [i \in DOMAIN s |->
                        LET t == s[i]
                        IN  [context |-> t.context, ns |-> t.ns, name |-> t.name, pod |-> NoPod,
                             cause |-> CauseOf[t.name]]]
  <2>1. Findings(w)' = F(Found(w, slow)') /\ Findings(w) = F(Found(w, slow))
    BY Zenon DEF Findings
  <2> HIDE DEF F, slow
  <2>2. Found(w, slow)' = Found(w, slow)
    BY SameFound DEF slow
  <2> QED
    BY <2>1, <2>2
<1>4. Input(w)' = Input(w)
  <2> DEFINE In(cs, ts, fs, as) ==
        [contexts |-> cs, targets |-> ts,
         failures |-> LET entries == Collapse(fs)
                      IN  [i \in DOMAIN entries |->
                            [cause |-> entries[i].cause, affected |-> entries[i].affected,
                             evidence |-> EvidenceOf[entries[i].cause]]],
         degraded |-> <<>>,
         advisories |-> LET killed == as
                        IN  [i \in DOMAIN killed |->
                                LET t == killed[i]
                                IN  [context |-> t.context, ns |-> t.ns, name |-> t.name,
                                     finished |-> t.notes[1].finished, reason |-> t.notes[1].reason,
                                     count |-> t.notes[1].count, evidence |-> <<1>>]],
         earlyExit |-> FALSE]
             cs == IF mode # "contexts" THEN <<>>
                   ELSE [k \in DOMAIN Asked |-> [context |-> Asked[k],
                             status |-> StatusOfError(ErrorOf(w, Asked[k]))]]
  <2>1. /\ Input(w)' = In(cs', Found(w, there)', Findings(w)', Found(w, noted)')
        /\ Input(w) = In(cs, Found(w, there), Findings(w), Found(w, noted))
    BY Zenon DEF Input
  <2>2. cs' = cs
    BY <1>1
  <2> HIDE DEF In, cs, there, noted
  <2>3. Found(w, there)' = Found(w, there) /\ Found(w, noted)' = Found(w, noted)
    BY SameFound DEF there, noted
  <2> QED
    BY <1>3, <2>1, <2>2, <2>3
<1>5. ASSUME NEW v PROVE Headed(v)' = Headed(v)
  BY Zenon DEF Headed, Header, WatchedIn, WorkloadsOf, Asked
<1>6. CASE mode # "contexts" /\ ~ Answered(w, NoContext)
  <2> DEFINE e == ErrorVerdict(StatusOfError(ErrorOf(w, NoContext)))
  <2>1. VerdictOn(w) = Headed(e) /\ VerdictOn(w)' = Headed(e)'
    BY <1>2, <1>6, Zenon DEF VerdictOn
  <2>2. e' = e
    BY <1>1, Zenon
  <2> QED
    BY <1>5, <2>1, <2>2
<1>7. CASE ~ (mode # "contexts" /\ ~ Answered(w, NoContext)) /\ mode = "target"
  <2> DEFINE e == Build(Input(w))
  <2>1. VerdictOn(w) = Headed(e) /\ VerdictOn(w)' = Headed(e)'
    BY <1>2, <1>7, Zenon DEF VerdictOn
  <2>2. e' = e
    BY <1>4, Zenon
  <2> QED
    BY <1>5, <2>1, <2>2
<1>8. CASE ~ (mode # "contexts" /\ ~ Answered(w, NoContext)) /\ mode # "target"
  <2> DEFINE e == BuildFleet(Input(w))
  <2>1. VerdictOn(w) = Headed(e) /\ VerdictOn(w)' = Headed(e)'
    BY <1>2, <1>8, Zenon DEF VerdictOn
  <2>2. e' = e
    BY <1>4, Zenon
  <2> QED
    BY <1>5, <2>1, <2>2
<1> QED
  BY <1>6, <1>7, <1>8

----------------------------------------------------------------------------
(* The file *)

\* Two verdicts that found the same.
SameFindings(u, v) ==
    /\ u.status = v.status /\ u.header = v.header /\ u.contexts = v.contexts
    /\ u.namespaces = v.namespaces /\ u.advisories = v.advisories

\* What the file has was found in the world that was seen last, by a run that was
\* made; without a budget it is all that was found.
Records(v, w) ==
    /\ ~ Dies(w)
    /\ DOMAIN AdvisoryIndex(v) \subseteq DOMAIN AdvisoryIndex(VerdictOn(w))
    /\ budget = 0 => SameFindings(v, VerdictOn(w))

FileInv == stored # NoFile => \E w \in Worlds : w = seen /\ Records(stored, w)

\* What an index of advisories has.
LEMMA AdvisedKeys ==
    ASSUME NEW v, NEW k
    PROVE  /\ k \in DOMAIN AdvisoryIndex(v) <=>
                \E a \in ToSet(v.advisories) : Key(a.context, a.ns, a.name) = k
           /\ k \in DOMAIN AdvisoryIndex(v) =>
                /\ AdvisoryIndex(v)[k] \in ToSet(v.advisories)
                /\ LET a == AdvisoryIndex(v)[k] IN Key(a.context, a.ns, a.name) = k
<1> DEFINE S == Range(v.advisories)
           KeyOf(a) == Key(a.context, a.ns, a.name)
           F == AdvisoryIndex(v)
<1>1. ToSet(v.advisories) = S
  BY DEF Range, ToSet
<1>2. F = [l \in {KeyOf(a) : a \in S} |-> CHOOSE a \in S : KeyOf(a) = l]
  BY DEF AdvisoryIndex
<1> HIDE DEF S, F, KeyOf
<1>3. k \in DOMAIN F <=> \E a \in S : KeyOf(a) = k
  BY <1>2
<1>4. k \in DOMAIN F => F[k] \in S /\ KeyOf(F[k]) = k
  BY <1>2, <1>3
<1> QED
  BY <1>1, <1>3, <1>4 DEF F, KeyOf

\* Trimming forgets advisories and changes none.
LEMMA TrimmedIndex ==
    ASSUME NEW t, NEW v, FewerAdvisories(t, v), HasEvidence(v.advisories),
           \A j \in DOMAIN v.advisories : {"context", "ns", "name"} \subseteq DOMAIN v.advisories[j]
    PROVE  DOMAIN AdvisoryIndex(t) \subseteq DOMAIN AdvisoryIndex(v)
<1> SUFFICES ASSUME NEW k \in DOMAIN AdvisoryIndex(t) PROVE k \in DOMAIN AdvisoryIndex(v)
  OBVIOUS
<1>1. PICK a \in ToSet(t.advisories) : Key(a.context, a.ns, a.name) = k
  BY AdvisedKeys
<1>2. PICK j \in DOMAIN t.advisories : a = t.advisories[j]
  BY DEF ToSet
<1> DEFINE b == v.advisories[j]
<1>3. j \in DOMAIN v.advisories /\ a \in {b, Bare(b)}
  BY <1>2 DEF FewerAdvisories
<1>4. a.context = b.context /\ a.ns = b.ns /\ a.name = b.name
  <2>1. {"context", "ns", "name"} \subseteq DOMAIN b
    BY <1>3
  <2> HIDE DEF b
  <2> QED
    BY <1>3, <2>1 DEF Bare
<1>5. b \in ToSet(v.advisories)
  BY <1>3 DEF ToSet
<1> HIDE DEF b
<1> QED
  BY <1>1, <1>4, <1>5, AdvisedKeys

\* The delta changes no finding, and is there if a file is.
LEMMA DeltaKeepsFindings ==
    ASSUME NEW v, IsFresh(v)
    PROVE  /\ SameFindings(WithDelta(v), v)
           /\ stored = NoFile => WithDelta(v).baseline
           /\ stored # NoFile => WithDelta(v).transitions = Diff(stored, v)
<1> DEFINE d == WithDelta(v)
           ts == Diff(stored, v)
<1>1. IF stored = NoFile THEN d = [v EXCEPT !.baseline = TRUE]
      ELSE d = [v EXCEPT !.transitions = ts]
  BY Zenon DEF WithDelta
<1>2. IsVerdict(v)
  BY DEF IsFresh
<1> HIDE DEF d, ts
<1> QED
  BY <1>1, <1>2 DEF IsVerdict, SameFindings, d, ts

\* A workload that was killed and is settled is advised on.
LEMMA AdvisedOn ==
    ASSUME InLoop, NEW w, NEW a
    PROVE  a \in ToSet(VerdictOn(w).advisories) <=>
             /\ mode = "contexts" \/ Answered(w, NoContext)
             /\ \E t \in ToSet(Found(w, {k \in AnyCondition : NotesOn(k) # <<>>})) :
                   a = [context |-> t.context, ns |-> t.ns, name |-> t.name,
                        finished |-> t.notes[1].finished, reason |-> t.notes[1].reason,
                        count |-> t.notes[1].count, evidence |-> <<1>>]
<1> DEFINE killed == Found(w, {k \in AnyCondition : NotesOn(k) # <<>>})
           One(t) == [context |-> t.context, ns |-> t.ns, name |-> t.name,
                      finished |-> t.notes[1].finished, reason |-> t.notes[1].reason,
                      count |-> t.notes[1].count, evidence |-> <<1>>]
           v == VerdictOn(w)
           in == Input(w)
<1>1. in.advisories = [i \in DOMAIN killed |-> One(killed[i])]
  BY Zenon DEF Input
<1> HIDE DEF killed, One
<1>2. a \in ToSet(in.advisories) <=> \E t \in ToSet(killed) : a = One(t)
  BY <1>1 DEF ToSet
<1> HIDE DEF in
<1>3. \A u : Headed(u).advisories = u.advisories
  BY DEF Headed
<1>4. BuildFleet(in).advisories = in.advisories /\ "advisories" \in DOMAIN BuildFleet(in)
  BY DEF BuildFleet
<1>5. Build(in).advisories = in.advisories
  <2> DEFINE b == BuildFleet(in)
  <2>1. Build(in) = [b EXCEPT !.namespaces = <<>>]
    BY DEF Build
  <2> HIDE DEF b
  <2> QED
    BY <1>4, <2>1 DEF b
<1>6. CASE mode # "contexts" /\ ~ Answered(w, NoContext)
  <2>1. \E s : v = Headed(ErrorVerdict(s))
    BY <1>6, Zenon DEF VerdictOn
  <2>2. \A s : ErrorVerdict(s).advisories = <<>>
    BY DEF ErrorVerdict
  <2>3. v.advisories = <<>>
    BY <1>3, <2>1, <2>2
  <2> HIDE DEF v
  <2>4. a \notin ToSet(v.advisories)
    BY <2>3 DEF ToSet
  <2> QED
    BY <1>6, <2>4 DEF v
<1>7. CASE ~ (mode # "contexts" /\ ~ Answered(w, NoContext))
  <2>1. v = Headed(Build(in)) \/ v = Headed(BuildFleet(in))
    BY <1>7, Zenon DEF VerdictOn, in
  <2>2. v.advisories = in.advisories
    BY <1>3, <1>4, <1>5, <2>1
  <2> HIDE DEF v
  <2> QED
    BY <1>2, <1>7, <2>2 DEF v, killed, One
<1> QED
  BY <1>6, <1>7

\* A run leaves it.
LEMMA RunKeepsFileInv ==
    ASSUME MonitorInv, NEW w \in Worlds, Run(w)
    PROVE  FileInv'
<1> DEFINE v == VerdictOn(w)
           forgets == DOMAIN AdvisoryIndex(stored') \subseteq DOMAIN AdvisoryIndex(v)
<1>1. mode' = mode /\ budget' = budget /\ seen' = w /\ ~ Dies(w)
  BY DEF Run
<1>2. full' = WithDelta(v) /\ stored' = Apply(full', budget)
  BY DEF Run
<1>3. IsFresh(v)
  BY VerdictFacts DEF MonitorInv
<1>4. v' = v
  BY <1>1, SameVerdict
<1>5. w \in Worlds'
  BY <1>1, SameWorlds
<1>6. budget' = 0 => stored' = full'
  BY <1>1, <1>2 DEF Apply
<1>7. \A j \in DOMAIN v.advisories : {"context", "ns", "name"} \subseteq DOMAIN v.advisories[j]
  <2> SUFFICES ASSUME NEW a \in ToSet(v.advisories)
               PROVE  {"context", "ns", "name"} \subseteq DOMAIN a
    BY DEF ToSet
  <2> DEFINE killed == ToSet(Found(w, {k \in AnyCondition : NotesOn(k) # <<>>}))
  <2>1. \E t \in killed :
          a = [context |-> t.context, ns |-> t.ns, name |-> t.name,
               finished |-> t.notes[1].finished, reason |-> t.notes[1].reason,
               count |-> t.notes[1].count, evidence |-> <<1>>]
    BY AdvisedOn, Zenon DEF MonitorInv
  <2> HIDE DEF killed, v
  <2> QED
    BY <2>1
<1> HIDE DEF v
<1>8. SameFindings(full', v) /\ IsWhole(full')
  BY <1>2, <1>3, DeltaKeepsFindings, WithDeltaFacts
<1>9. forgets
  <2>1. FewerAdvisories(stored', full')
    BY <1>2, <1>8, TrimmedFacts DEF Accounts
  <2>2. full'.advisories = v.advisories
    BY <1>8 DEF SameFindings
  <2>3. FewerAdvisories(stored', v)
    BY <2>1, <2>2 DEF FewerAdvisories
  <2>4. HasEvidence(v.advisories)
    BY <1>3 DEF IsFresh, IsVerdict
  <2> QED
    BY <1>7, <2>3, <2>4, TrimmedIndex
<1>10. budget' = 0 => SameFindings(stored', v)
  BY <1>6, <1>8
<1>11. ~ Dies(w)'
  <2>1. ErrorOf(w, NoContext)' = ErrorOf(w, NoContext)
    BY <1>1, SameFound
  <2> QED
    BY <1>1, <2>1 DEF Dies
<1>12. DOMAIN AdvisoryIndex(stored)' \subseteq DOMAIN AdvisoryIndex(VerdictOn(w))'
  <2>1. AdvisoryIndex(VerdictOn(w))' = AdvisoryIndex(VerdictOn(w)')
    BY DEF AdvisoryIndex
  <2>2. AdvisoryIndex(stored)' = AdvisoryIndex(stored')
    BY DEF AdvisoryIndex
  <2> QED
    BY <1>4, <1>9, <2>1, <2>2 DEF v
<1>13. budget' = 0 => SameFindings(stored, VerdictOn(w))'
  BY <1>4, <1>10 DEF SameFindings, v
<1>14. Records(stored, w)'
  BY <1>11, <1>12, <1>13 DEF Records
<1> QED
  BY <1>1, <1>5, <1>14 DEF FileInv

\* So does everything else.
LEMMA NextKeepsFileInv ==
    MonitorInv /\ FileInv /\ [Next]_vars => FileInv'
<1> SUFFICES ASSUME MonitorInv, FileInv, [Next]_vars PROVE FileInv'
  OBVIOUS
<1>1. ASSUME NEW w \in Worlds, Run(w) PROVE FileInv'
  BY <1>1, RunKeepsFileInv
<1>2. ASSUME mode' = mode, budget' = budget, stored' = stored, seen' = seen PROVE FileInv'
  <2> SUFFICES ASSUME stored' # NoFile'
               PROVE  \E w \in Worlds' : w = seen' /\ Records(stored, w)'
    BY DEF FileInv
  <2>1. NoFile' = NoFile
    BY <1>2, SameNoVerdict DEF NoFile
  <2>2. PICK w \in Worlds : w = seen /\ Records(stored, w)
    BY <1>2, <2>1 DEF FileInv
  <2>3. VerdictOn(w)' = VerdictOn(w) /\ w \in Worlds'
        /\ ErrorOf(w, NoContext)' = ErrorOf(w, NoContext)
    BY <1>2, SameVerdict, SameWorlds, SameFound
  <2>4. Dies(w)' <=> Dies(w)
    BY <1>2, <2>3 DEF Dies
  <2>5. DOMAIN AdvisoryIndex(stored)' \subseteq DOMAIN AdvisoryIndex(VerdictOn(w))'
    <3>1. AdvisoryIndex(VerdictOn(w))' = AdvisoryIndex(VerdictOn(w)')
      BY DEF AdvisoryIndex
    <3>2. AdvisoryIndex(stored)' = AdvisoryIndex(stored')
      BY DEF AdvisoryIndex
    <3> QED
      BY <1>2, <2>2, <2>3, <3>1, <3>2 DEF Records
  <2>6. budget' = 0 => SameFindings(stored, VerdictOn(w))'
    BY <1>2, <2>2, <2>3 DEF Records, SameFindings
  <2>7. Records(stored, w)'
    BY <2>2, <2>4, <2>5, <2>6 DEF Records
  <2> QED
    BY <1>2, <2>2, <2>3, <2>7
<1>3. ASSUME NEW w \in Worlds, RunDies(w) PROVE FileInv'
  BY <1>2, <1>3 DEF RunDies
<1>4. ASSUME FileLost PROVE FileInv'
  <2>1. mode' = mode /\ stored' = NoFile
    BY <1>4 DEF FileLost
  <2>2. NoFile' = NoFile
    BY <2>1, SameNoVerdict DEF NoFile
  <2> QED
    BY <2>1, <2>2 DEF FileInv
<1>5. CASE UNCHANGED vars
  BY <1>2, <1>5 DEF vars
<1> QED
  BY <1>1, <1>3, <1>4, <1>5 DEF Next

\* The file always has what was seen last.
LEMMA FileInvariant == Spec => [](MonitorInv /\ FileInv)
<1>1. Init => FileInv
  BY DEF Init, FileInv
<1> QED
  BY <1>1, InitMonitorInv, NextKeepsMonitorInv, NextKeepsFileInv, PTL DEF Spec

\* The verdict on a named target that was found.
LEMMA TargetVerdict ==
    ASSUME InLoop, mode = "target", NEW w \in Worlds, NEW c \in Range(Asked), Answered(w, c),
           NEW i \in DOMAIN WatchedIn(c)
    PROVE  LET v == VerdictOn(w)
           IN  /\ v.namespaces = <<>> /\ v.contexts = <<>> /\ v.header = KeyAt(c, i)
               /\ v.status = IF w[c].is[i].status = "absent" THEN "settled" ELSE w[c].is[i].status
<1> DEFINE sought == {k \in AnyCondition : k.status # "absent"}
           in == Input(w)
           status == w[c].is[i].status
           v == VerdictOn(w)
<1>1. c = NoContext
  BY DEF Asked, Range
<1>2. i = 1 /\ DOMAIN WatchedIn(c) = {1}
  BY OneWorkload
<1>3. status # "absent"
  BY <1>2 DEF Answered, ErrorOf
<1>4. w[c].is[i] \in sought /\ status \in TargetStatuses
  BY <1>3, ConditionAt
<1>5. in.targets = Found(w, sought)
  BY Zenon DEF Input
<1>6. in.contexts = <<>>
  BY Zenon DEF Input
<1> HIDE DEF sought, in, status
<1>7. \A t : t \in ToSet(in.targets) <=> t = TargetAt(w, c, 1)
  <2>1. \A d : d \in Range(Asked) <=> d = c
    BY <1>1 DEF Asked, Range
  <2>2. \A t : t \in ToSet(in.targets) <=>
          \E d \in Range(Asked) :
            /\ Answered(w, d)
            /\ \E j \in DOMAIN WatchedIn(d) : w[d].is[j] \in sought /\ t = TargetAt(w, d, j)
    BY <1>5, FoundSet
  <2> QED
    BY <1>2, <1>4, <2>1, <2>2
<1>8. TargetAt(w, c, 1).status = status
  BY <1>2 DEF TargetAt, status
<1>9. StatusesOf(in.targets) = {status}
  BY <1>7, <1>8 DEF StatusesOf, ToSet
<1>10. WorstStatus({status}) = status
  BY <1>4 DEF WorstStatus, TargetStatuses
<1>11. FillContextVerdicts(in.contexts, in.targets) = <<>>
  BY <1>6 DEF FillContextVerdicts
<1>12. /\ BuildFleet(in).status = status /\ BuildFleet(in).contexts = <<>>
       /\ DOMAIN BuildFleet(in) = {"status", "contexts", "namespaces", "failures", "degraded",
                                   "advisories", "earlyExit"}
  BY <1>9, <1>10, <1>11 DEF BuildFleet
<1>13. Build(in).status = status /\ Build(in).contexts = <<>> /\ Build(in).namespaces = <<>>
  <2> DEFINE b == BuildFleet(in)
  <2>1. Build(in) = [b EXCEPT !.namespaces = <<>>]
    BY DEF Build
  <2> HIDE DEF b
  <2> QED
    BY <1>12, <2>1 DEF b
<1>14. v = Headed(Build(in))
  BY <1>1, Zenon DEF VerdictOn, in
<1>15. \A u : /\ Headed(u).status = u.status /\ Headed(u).contexts = u.contexts
              /\ Headed(u).namespaces = u.namespaces /\ Headed(u).header = Header
  BY DEF Headed
<1>16. Header = KeyAt(c, i)
  BY <1>1, <1>2 DEF Header, Key, KeyAt
<1> HIDE DEF v
<1> QED
  BY <1>3, <1>13, <1>14, <1>15, <1>16 DEF v, status

----------------------------------------------------------------------------
(* Transitions *)

\* The failing list is that of the namespaces.
LEMMA SameStatusIn ==
    ASSUME NEW u, NEW v, u.namespaces = v.namespaces
    PROVE  (\A k : StatusIn(u, k) = StatusIn(v, k)) /\ (NoneSettled(u) <=> NoneSettled(v))
<1> DEFINE F(ns) ==
             LET listed == UNION {{<<g.context, g.ns, g.targets[j]>> : j \in DOMAIN g.targets} :
                                     g \in Range(ns)}
             IN  [k \in {Key(e[1], e[2], e[3].name) : e \in listed} |->
                     (CHOOSE e \in listed : Key(e[1], e[2], e[3].name) = k)[3].status]
<1>1. FailingList(u) = F(u.namespaces) /\ FailingList(v) = F(v.namespaces)
  BY Zenon DEF FailingList
<1> HIDE DEF F
<1>2. FailingList(u) = FailingList(v)
  BY <1>1
<1> QED
  BY <1>2 DEF StatusIn, NoneSettled

\* A run's verdict enumerates nothing that is settled.
LEMMA FreshNoneSettled ==
    ASSUME NEW v, IsFresh(v)
    PROVE  NoneSettled(v)
<1>1. ASSUME NEW e, Enumerates(v.namespaces, e) PROVE e[3].status # "settled"
  <2>1. PICK g \in ToSet(v.namespaces) : \E j \in DOMAIN g.targets : e = <<g.context, g.ns, g.targets[j]>>
    BY <1>1 DEF Enumerates
  <2>2. PICK k \in DOMAIN v.namespaces : g = v.namespaces[k]
    BY <2>1 DEF ToSet
  <2>3. PICK j \in DOMAIN g.targets : e = <<g.context, g.ns, g.targets[j]>>
    BY <2>1
  <2>4. e[3] = g.targets[j]
    BY <2>3
  <2> QED
    BY <2>2, <2>3, <2>4 DEF IsFresh
<1> QED
  BY <1>1, FailingKeys DEF NoneSettled

\* Of two runs over a file that lost nothing, the transition of a workload that both
\* could see is the difference between what they saw.
LEMMA TransitionsAt ==
    ASSUME MonitorInv, FileInv, NEW w \in Worlds, Run(w), Compared', Checked(stored),
           Checked(stored'), budget = 0,
           NEW c \in Range(Asked), NEW i \in DOMAIN WatchedIn(c),
           Answered(seen, c), Answered(w, c), NEW t
    PROVE  t \in full'.transitions /\ t.kind = "status" /\ t.key = KeyAt(c, i)
             <=> /\ Shown(seen, <<c, i>>)[1] # Shown(w, <<c, i>>)[1]
                 /\ t = Transition("status", KeyAt(c, i), Shown(seen, <<c, i>>)[1],
                                   Shown(w, <<c, i>>)[1])
<1> DEFINE v == VerdictOn(w)
           old == VerdictOn(seen)
           k == KeyAt(c, i)
           from == Shown(seen, <<c, i>>)[1]
           to == Shown(w, <<c, i>>)[1]
           was == seen[c].is[i].status
           is == w[c].is[i].status
<1>1. IsFresh(v) /\ InLoop /\ seen \in Worlds
  BY VerdictFacts DEF MonitorInv
<1>2. full' = WithDelta(v) /\ stored' = full'
  BY DEF Run, Apply
<1>3. from = IF was = "absent" THEN "settled" ELSE was
  BY Zenon DEF Shown
<1>4. to = IF is = "absent" THEN "settled" ELSE is
  BY Zenon DEF Shown
<1> HIDE DEF v, old, from, to, was, is
<1>5. stored # NoFile
  BY <1>1, <1>2, DeltaKeepsFindings DEF Compared
<1>6. full'.transitions = Diff(stored, v) /\ SameFindings(full', v)
  BY <1>1, <1>2, <1>5, DeltaKeepsFindings
<1>7. SameFindings(stored, old)
  BY <1>5 DEF FileInv, Records, old
<1>8. CASE mode = "target"
  <2>1. /\ v.namespaces = <<>> /\ v.contexts = <<>> /\ v.header = k /\ v.status = to
    BY <1>1, <1>4, <1>8, TargetVerdict DEF v, is
  <2>2. old.namespaces = <<>> /\ old.contexts = <<>> /\ old.status = from
    BY <1>1, <1>3, <1>8, TargetVerdict DEF old, was
  <2>3. stored.namespaces = <<>> /\ stored.contexts = <<>> /\ stored.status = from
    BY <1>7, <2>2 DEF SameFindings
  <2> HIDE DEF k
  <2>4. t \in Diff(stored, v) /\ t.kind = "status" /\ t.key = k
           <=> from # to /\ t = Transition("status", k, from, to)
    BY <2>1, <2>3, StatusOfWhole
  <2> QED
    BY <1>6, <2>4 DEF k, from, to
<1>9. CASE mode # "target"
  <2>1. StatusIn(v, k) = to
    BY <1>1, <1>4, <1>9, StatusAt DEF v, is
  <2>2. StatusIn(old, k) = from
    BY <1>1, <1>3, <1>9, StatusAt DEF old, was
  <2>3. IsFresh(old)
    BY <1>1, VerdictFacts DEF old
  <2>4. StatusIn(stored, k) = from /\ NoneSettled(stored) /\ NoneSettled(v)
    <3> HIDE DEF k
    <3> QED
      BY <1>1, <1>7, <2>2, <2>3, SameStatusIn, FreshNoneSettled DEF SameFindings
  <2>5. v.header # k
    <3>1. WatchedIn(c)[i] \in Matched
      BY <1>1, WatchedFacts
    <3>2. WatchedIn(c)[i].ns # "*"
      BY <3>1, WorkloadsAssumption
    <3>3. \A u : Headed(u).header = Header
      BY DEF Headed
    <3>4. \E u : v = Headed(u)
      BY Zenon DEF VerdictOn, v
    <3>5. Header = Key(IF Len(Asked) = 1 THEN Asked[1] ELSE NoContext, "*", "workloads")
      BY <1>9 DEF Header
    <3> QED
      BY <3>2, <3>3, <3>4, <3>5 DEF Key, KeyAt
  <2>6. Checked(v)
    BY <1>2, <1>6 DEF Checked, SameFindings
  <2> HIDE DEF k
  <2>7. t \in Diff(stored, v) /\ t.kind = "status" /\ t.key = k
           <=> from # to /\ t = Transition("status", k, from, to)
    <3>1. t \in Diff(stored, v) /\ t.kind = "status" /\ t.key = k
             <=> /\ StatusIn(stored, k) # StatusIn(v, k)
                 /\ t = Transition("status", k, StatusIn(stored, k), StatusIn(v, k))
      BY <2>4, <2>5, <2>6, StatusMovesAt
    <3> QED
      BY <2>1, <2>4, <3>1
  <2> QED
    BY <1>6, <2>7 DEF k, from, to
<1> QED
  BY <1>8, <1>9

\* Whatever is watched, what a run without a budget says has moved is what moved.
THEOREM TransitionsCorrect == Spec => TransitionsAreTrue
<1> DEFINE True ==
             Compared' /\ Checked(stored) /\ Checked(stored') /\ budget = 0 =>
                \A p \in Places : Answered(seen, p[1]) /\ Answered(seen', p[1]) =>
                    LET from == Shown(seen, p)[1]
                        to == Shown(seen', p)[1]
                    IN  IF from = to THEN StatusTransitions(p) = {}
                        ELSE \E t \in StatusTransitions(p) :
                                StatusTransitions(p) = {t} /\ t.from = from /\ t.to = to
<1>1. MonitorInv /\ FileInv /\ [Next]_vars => [True]_vars
  <2> SUFFICES ASSUME MonitorInv, FileInv, Next PROVE True
    OBVIOUS
  <2>1. ASSUME NEW w \in Worlds, Run(w), Compared', Checked(stored), Checked(stored'), budget = 0,
               NEW p \in Places, Answered(seen, p[1]), Answered(seen', p[1])
        PROVE  LET from == Shown(seen, p)[1]
                   to == Shown(seen', p)[1]
               IN  IF from = to THEN StatusTransitions(p) = {}
                   ELSE \E t \in StatusTransitions(p) :
                           StatusTransitions(p) = {t} /\ t.from = from /\ t.to = to
    <3> DEFINE from == Shown(seen, p)[1]
               to == Shown(seen', p)[1]
               T == StatusTransitions(p)
    <3>1. PICK c \in Range(Asked) : \E i \in DOMAIN WatchedIn(c) : p = <<c, i>>
      BY <2>1 DEF Places
    <3>2. PICK i \in DOMAIN WatchedIn(c) : p = <<c, i>>
      BY <3>1
    <3> DEFINE move == Transition("status", KeyAt(c, i), from, to)
    <3>3. seen' = w /\ p[1] = c /\ p[2] = i
      BY <2>1, <3>2 DEF Run
    <3>4. \A t : t \in T <=> from # to /\ t = move
      <4>1. \A t : t \in T <=> t \in full'.transitions /\ t.kind = "status" /\ t.key = KeyAt(c, i)
        BY <3>3, Zenon DEF StatusTransitions, KeyAt
      <4>2. Answered(seen, c) /\ Answered(w, c)
        BY <2>1, <3>3
      <4>3. \A t : t \in full'.transitions /\ t.kind = "status" /\ t.key = KeyAt(c, i)
                     <=> from # to /\ t = move
        BY <2>1, <3>2, <3>3, <4>2, TransitionsAt
      <4> HIDE DEF T, move, from, to
      <4> QED
        BY <4>1, <4>3
    <3>5. move.from = from /\ move.to = to
      BY DEF Transition
    <3> HIDE DEF T, move, from, to
    <3>6. CASE from = to
      <4>1. T = {}
        BY <3>4, <3>6
      <4> QED
        BY <3>6, <4>1 DEF T, from, to
    <3>7. CASE from # to
      <4>1. move \in T /\ T = {move}
        BY <3>4, <3>7
      <4>2. \E t \in T : T = {t} /\ t.from = from /\ t.to = to
        BY <3>5, <4>1
      <4> QED
        BY <3>7, <4>2 DEF T, from, to
    <3> QED
      BY <3>6, <3>7
  <2>2. ASSUME NEW w \in Worlds, RunDies(w) PROVE full' = NoVerdict /\ mode' = mode
    BY <2>2 DEF RunDies
  <2>3. ASSUME FileLost PROVE full' = NoVerdict /\ mode' = mode
    BY <2>3 DEF FileLost
  <2>4. mode' = mode /\ full' = NoVerdict => ~ Compared'
    BY SameNoVerdict DEF Compared
  <2> QED
    BY <2>1, <2>2, <2>3, <2>4 DEF Next
<1> QED
  BY <1>1, FileInvariant, PTL DEF Spec, TransitionsAreTrue

----------------------------------------------------------------------------
(* Terminations *)

\* Among finitely many numbers one is the largest and, of those, the first.
LEMMA FirstLargest ==
    ASSUME NEW N \in Nat \ {0}, NEW f \in [1 .. N -> Nat]
    PROVE  \E i \in 1 .. N : \A j \in 1 .. N : f[i] > f[j] \/ (f[i] = f[j] /\ i <= j)
<1> DEFINE Leads(m, i) == \A j \in 1 .. m : f[i] > f[j] \/ (f[i] = f[j] /\ i <= j)
           T == {m \in 0 .. N : m > 0 => \E i \in 1 .. m : Leads(m, i)}
<1>1. 0 \in T
  OBVIOUS
<1>2. ASSUME NEW m \in 0 .. N - 1, m \in T PROVE m + 1 \in T
  <2>1. CASE m = 0
    <3>1. Leads(1, 1)
      OBVIOUS
    <3> QED
      BY <2>1, <3>1
  <2>2. CASE m > 0
    <3>1. PICK i \in 1 .. m : Leads(m, i)
      BY <1>2, <2>2
    <3>2. f[m + 1] \in Nat /\ f[i] \in Nat /\ \A j \in 1 .. m : f[j] \in Nat
      OBVIOUS
    <3>3. CASE f[m + 1] > f[i]
      <4>1. ASSUME NEW j \in 1 .. m PROVE f[m + 1] > f[j]
        BY <3>1, <3>2, <3>3
      <4>2. Leads(m + 1, m + 1)
        BY <4>1
      <4> QED
        BY <4>2
    <3>4. CASE ~ (f[m + 1] > f[i])
      <4>1. f[i] > f[m + 1] \/ (f[i] = f[m + 1] /\ i <= m + 1)
        BY <3>2, <3>4
      <4>2. Leads(m + 1, i)
        BY <3>1, <4>1
      <4> QED
        BY <4>2
    <3> QED
      BY <3>3, <3>4
  <2> QED
    BY <2>1, <2>2
<1> HIDE DEF T
<1>3. 0 .. N \subseteq T
  BY <1>1, <1>2, UpTo
<1>4. N \in T
  BY <1>3
<1> QED
  BY <1>4 DEF T

\* One of several terminations finished last.
LEMMA SomeLast ==
    ASSUME NEW s \in Seq(Terminations), s # <<>>
    PROVE  \E i \in DOMAIN s : \A j \in DOMAIN s :
              \/ s[i].finished > s[j].finished
              \/ s[i].finished = s[j].finished /\ i <= j
<1> DEFINE N == Len(s)
           f == [i \in 1 .. N |-> s[i].finished]
<1>1. N \in Nat \ {0} /\ DOMAIN s = 1 .. N
  OBVIOUS
<1>2. \A x \in Terminations : x.finished \in Nat
  BY DEF Terminations
<1>3. f \in [1 .. N -> Nat] /\ \A i \in 1 .. N : f[i] = s[i].finished
  BY <1>2
<1> HIDE DEF N, f
<1>4. \E i \in 1 .. N : \A j \in 1 .. N : f[i] > f[j] \/ (f[i] = f[j] /\ i <= j)
  BY <1>1, <1>3, FirstLargest
<1>5. PICK i \in 1 .. N : \A j \in 1 .. N : f[i] > f[j] \/ (f[i] = f[j] /\ i <= j)
  BY <1>4
<1>6. ASSUME NEW j \in 1 .. N
      PROVE  \/ s[i].finished > s[j].finished
             \/ s[i].finished = s[j].finished /\ i <= j
  <2>1. f[i] = s[i].finished /\ f[j] = s[j].finished
    BY <1>3
  <2> QED
    BY <1>5, <2>1
<1>7. i \in DOMAIN s
  BY <1>1
<1> QED
  BY <1>1, <1>6, <1>7, Zenon

\* A note is about a container that ended.
LEMMA NoteFacts ==
    ASSUME NEW pods \in PodLists, NEW since \in Nat, RecentRestarts(pods, since) # <<>>
    PROVE  RecentRestarts(pods, since)[1].finished \in Nat \ {0}
<1> DEFINE ss == [i \in DOMAIN pods |-> AllStatuses(pods[i])]
           all == FlattenSeq(ss)
           places == {i \in DOMAIN all : InWindow(all[i], since)}
           recent == RecentTerminations(pods, since)
           first == CHOOSE i \in DOMAIN recent :
                      \A j \in DOMAIN recent : \/ recent[i].finished > recent[j].finished
                                               \/ recent[i].finished = recent[j].finished /\ i <= j
           last == FreshestTermination(pods, since)
<1>1. ss \in Seq(Seq(Terminations))
  <2> DEFINE P == [init : Seq(Terminations), main : Seq(Terminations)]
  <2>1. pods \in Seq(P)
    BY DEF PodLists
  <2>2. \A p \in P : AllStatuses(p) \in Seq(Terminations)
    BY DEF AllStatuses
  <2> HIDE DEF P
  <2>3. Len(pods) \in Nat /\ DOMAIN pods = 1 .. Len(pods) /\ \A i \in 1 .. Len(pods) : pods[i] \in P
    BY <2>1
  <2> QED
    BY <2>2, <2>3
<1>2. all \in Seq(Terminations)
  <2> HIDE DEF ss
  <2> QED
    BY <1>1, FlattenUnfolds
<1>3. recent = Picked(all, places)
  BY Zenon DEF RecentTerminations
<1>4. places \in SUBSET DOMAIN all
  OBVIOUS
<1> HIDE DEF all, recent
<1>5. recent \in Seq(Terminations) /\ \E g : Follows(recent, all, places, g)
  <2> HIDE DEF places
  <2> QED
    BY <1>2, <1>3, <1>4, PickedFacts
<1>6. \A x \in DOMAIN recent : recent[x].finished # 0
  <2>1. PICK g : Follows(recent, all, places, g)
    BY <1>5
  <2>2. \A x \in DOMAIN recent : g[x] \in places /\ recent[x] = all[g[x]]
    BY <2>1 DEF Follows, Pairs
  <2>3. \A i \in places : all[i].finished # 0
    BY DEF InWindow
  <2> HIDE DEF places
  <2> QED
    BY <2>2, <2>3
<1>7. recent # <<>> /\ RecentRestarts(pods, since)[1].finished = last.finished
  <2>1. recent # <<>>
    BY DEF RecentRestarts, recent
  <2>2. RecentRestarts(pods, since) =
          <<[finished |-> last.finished, reason |-> last.reason, count |-> Len(recent)]>>
    BY <2>1, Zenon DEF RecentRestarts, recent
  <2> HIDE DEF last
  <2> QED
    BY <2>1, <2>2
<1>8. last = recent[first]
  BY Zenon DEF FreshestTermination, recent
<1>9. first \in DOMAIN recent
  BY <1>5, <1>7, SomeLast
<1>10. \A x \in Terminations : x.finished \in Nat
  BY DEF Terminations
<1> HIDE DEF first, last
<1> QED
  BY <1>5, <1>6, <1>7, <1>8, <1>9, <1>10

\* Only what is settled is noted.
LEMMA NotesFacts ==
    ASSUME InLoop, NEW w \in Worlds, NEW c \in Range(Asked), Answered(w, c),
           NEW i \in DOMAIN WatchedIn(c)
    PROVE  LET k == w[c].is[i]
           IN  /\ NotesOn(k) # <<>> => k.status = "settled" /\ Freshest(k) = NotesOn(k)[1].finished
               /\ NotesOn(k) # <<>> <=> Freshest(k) # 0
<1> DEFINE k == w[c].is[i]
<1>1. k.pods \in PodLists /\ k.since \in Nat
  BY ConditionAt
<1> HIDE DEF k
<1>2. NotesOn(k) # <<>> => k.status = "settled" /\ NotesOn(k) = RecentRestarts(k.pods, k.since)
  BY DEF NotesOn
<1>3. NotesOn(k) # <<>> => NotesOn(k)[1].finished # 0
  BY <1>1, <1>2, NoteFacts
<1>4. (NotesOn(k) = <<>> => Freshest(k) = 0)
      /\ (NotesOn(k) # <<>> => Freshest(k) = NotesOn(k)[1].finished)
  BY Zenon DEF Freshest
<1> QED
  BY <1>2, <1>3, <1>4 DEF k

----------------------------------------------------------------------------
(* Advisories *)

\* What the index of a run's advisories has for a workload: the freshest termination, if
\* the run could see it.
LEMMA AdvisedAt ==
    ASSUME InLoop, NEW w \in Worlds, NEW c \in Range(Asked), NEW i \in DOMAIN WatchedIn(c)
    PROVE  LET F == AdvisoryIndex(VerdictOn(w))
           IN  /\ KeyAt(c, i) \in DOMAIN F <=> Answered(w, c) /\ Freshest(w[c].is[i]) # 0
               /\ KeyAt(c, i) \in DOMAIN F => F[KeyAt(c, i)].finished = Freshest(w[c].is[i])
<1> DEFINE Noted == {k \in AnyCondition : NotesOn(k) # <<>>}
           killed == ToSet(Found(w, Noted))
           Adv(t) == [context |-> t.context, ns |-> t.ns, name |-> t.name,
                      finished |-> t.notes[1].finished, reason |-> t.notes[1].reason,
                      count |-> t.notes[1].count, evidence |-> <<1>>]
           A == ToSet(VerdictOn(w).advisories)
           F == AdvisoryIndex(VerdictOn(w))
           k == KeyAt(c, i)
           own == TargetAt(w, c, i)
           notes == NotesOn(w[c].is[i])
<1>1. \A a : a \in A <=> (mode = "contexts" \/ Answered(w, NoContext)) /\ \E t \in killed : a = Adv(t)
  BY AdvisedOn
<1>2. \A t : t \in killed <=>
        \E d \in Range(Asked) :
          /\ Answered(w, d)
          /\ \E j \in DOMAIN WatchedIn(d) : w[d].is[j] \in Noted /\ t = TargetAt(w, d, j)
  BY FoundSet
<1>3. mode = "contexts" \/ c = NoContext
  BY DEF Asked, Range
<1>4. own.notes = notes /\ own.context = c /\ Key(own.context, own.ns, own.name) = k
  BY DEF TargetAt, Key, KeyAt
<1>5. \A t : Adv(t).finished = t.notes[1].finished
             /\ Key(Adv(t).context, Adv(t).ns, Adv(t).name) = Key(t.context, t.ns, t.name)
  OBVIOUS
<1>6. Answered(w, c) => w[c].is[i] \in AnyCondition
  BY ConditionAt
<1>7. w[c].is[i] \in Noted <=> w[c].is[i] \in AnyCondition /\ notes # <<>>
  OBVIOUS
<1>8. ASSUME NEW d \in Range(Asked), NEW j \in DOMAIN WatchedIn(d),
             Key(TargetAt(w, d, j).context, TargetAt(w, d, j).ns, TargetAt(w, d, j).name) = k
      PROVE  d = c /\ j = i
  <2>1. KeyAt(d, j) = KeyAt(c, i)
    BY <1>8 DEF TargetAt, Key, KeyAt
  <2>2. d = c
    BY <2>1 DEF KeyAt
  <2> QED
    BY <2>1, <2>2, KeysApart
<1>9. Answered(w, c) => (notes # <<>> <=> Freshest(w[c].is[i]) # 0)
                        /\ (notes # <<>> => Freshest(w[c].is[i]) = notes[1].finished)
  BY NotesFacts
<1> HIDE DEF Noted, killed, Adv, A, F, k, own, notes
<1>10. ASSUME NEW a \in A, Key(a.context, a.ns, a.name) = k
       PROVE  Answered(w, c) /\ notes # <<>> /\ a = Adv(own)
  <2>1. PICK t \in killed : a = Adv(t)
    BY <1>1
  <2>2. PICK d \in Range(Asked) :
          /\ Answered(w, d)
          /\ \E j \in DOMAIN WatchedIn(d) : w[d].is[j] \in Noted /\ t = TargetAt(w, d, j)
    BY <1>2
  <2>3. PICK j \in DOMAIN WatchedIn(d) : w[d].is[j] \in Noted /\ t = TargetAt(w, d, j)
    BY <2>2
  <2>4. Key(t.context, t.ns, t.name) = k
    BY <1>5, <1>10, <2>1
  <2>5. d = c /\ j = i
    BY <1>8, <2>3, <2>4
  <2> QED
    BY <1>7, <2>1, <2>2, <2>3, <2>5 DEF own
<1>11. ASSUME Answered(w, c), notes # <<>>
       PROVE  Adv(own) \in A /\ Key(Adv(own).context, Adv(own).ns, Adv(own).name) = k
  <2>1. own \in killed
    BY <1>2, <1>6, <1>7, <1>11 DEF own
  <2>2. mode = "contexts" \/ Answered(w, NoContext)
    BY <1>3, <1>11
  <2> QED
    BY <1>1, <1>4, <1>5, <2>1, <2>2
<1>12. /\ k \in DOMAIN F <=> \E a \in A : Key(a.context, a.ns, a.name) = k
       /\ k \in DOMAIN F => F[k] \in A /\ Key(F[k].context, F[k].ns, F[k].name) = k
  BY AdvisedKeys DEF F, A
<1>13. k \in DOMAIN F <=> Answered(w, c) /\ notes # <<>>
  BY <1>10, <1>11, <1>12
<1>14. k \in DOMAIN F => F[k].finished = notes[1].finished
  BY <1>4, <1>5, <1>10, <1>12
<1> QED
  BY <1>9, <1>13, <1>14 DEF F, k

\* A transition of a status or a context clears nothing, and an advisory is cleared
\* that was there, is no longer and is on nothing that fails.
LEMMA ClearedKeys ==
    ASSUME NEW prev, NEW cur, NEW t \in Diff(prev, cur), t.kind = "advisory-cleared"
    PROVE  /\ Checked(cur)
           /\ t.key \in DOMAIN AdvisoryIndex(prev)
           /\ t.key \notin DOMAIN AdvisoryIndex(cur)
           /\ t.key \notin DOMAIN FailingList(cur)
<1> DEFINE pa == AdvisoryIndex(prev)
           ca == AdvisoryIndex(cur)
           failing == DOMAIN FailingList(cur)
           appeared == DOMAIN ca \ DOMAIN pa
           again == {k \in DOMAIN ca \intersect DOMAIN pa : NewTermination(pa[k], ca[k])}
           cleared == IF Checked(cur) THEN DOMAIN pa \ (DOMAIN ca \union failing) ELSE {}
           none == ""
           A == {Transition("advisory-appeared", k, none, none) : k \in appeared}
           B == {Transition("new-termination", k, none, none) : k \in again}
           C == {Transition("advisory-cleared", k, none, none) : k \in cleared}
<1>1. AdvisoryMoves(prev, cur) = A \union B \union C
  BY Zenon DEF AdvisoryMoves
<1>2. t \notin Moves(prev, cur)
  <2> DEFINE S == StatusMoves(prev, cur)
             D == ContextMoves(prev, cur)
             whole == Transition("status", cur.header, prev.status, cur.status)
  <2>1. \A u \in S : u.kind = "status"
    <3> DEFINE pt == FailingList(prev)
               ct == FailingList(cur)
               before(l) == IF l \in DOMAIN pt THEN pt[l] ELSE IF Checked(prev) THEN "settled" ELSE none
               moved == {l \in DOMAIN ct : before(l) # ct[l]}
               left == IF Checked(cur) THEN DOMAIN pt \ DOMAIN ct ELSE {}
    <3>1. S = {Transition("status", l, before(l), ct[l]) : l \in moved}
                 \union {Transition("status", l, pt[l], "settled") : l \in left}
      BY Zenon DEF StatusMoves
    <3> HIDE DEF S, moved, left, before, pt, ct
    <3> QED
      BY <3>1 DEF Transition
  <2>2. \A u \in D : u.kind = "context"
    <3> DEFINE pc == Rollup(prev)
               cc == Rollup(cur)
               moved == {d \in DOMAIN pc \intersect DOMAIN cc : pc[d] # cc[d]}
    <3>1. D = {Transition("context", d, pc[d], cc[d]) : d \in moved}
      BY Zenon DEF ContextMoves
    <3> HIDE DEF D, moved, pc, cc
    <3> QED
      BY <3>1 DEF Transition
  <2>3. Moves(prev, cur) \subseteq S \union D \union {whole}
    BY DEF Moves
  <2>4. whole.kind = "status"
    BY DEF Transition
  <2> HIDE DEF S, D, whole
  <2> QED
    BY <2>1, <2>2, <2>3, <2>4
<1>3. t \in A \union B \union C
  BY <1>1, <1>2 DEF Diff
<1> HIDE DEF pa, ca, failing, appeared, again, cleared, none
<1>4. (\A u \in A \union B : u.kind # "advisory-cleared") /\ \A u \in C : u.key \in cleared
  BY DEF Transition
<1>5. t.key \in cleared
  <2> HIDE DEF A, B, C
  <2> QED
    BY <1>3, <1>4
<1> QED
  BY <1>5 DEF cleared, pa, ca, failing

\* A run that reports a workload's advisory cleared found it well, and the run before
\* had seen it killed.
LEMMA ClearedAt ==
    ASSUME MonitorInv, FileInv, NEW w \in Worlds, Run(w), Compared', mode # "target",
           NEW c \in Range(Asked), NEW i \in DOMAIN WatchedIn(c), Answered(w, c),
           NEW t \in full'.transitions, t.kind = "advisory-cleared", t.key = KeyAt(c, i)
    PROVE  Shown(w, <<c, i>>) = <<"settled", 0>> /\ Shown(seen, <<c, i>>)[2] # 0
<1> DEFINE v == VerdictOn(w)
           old == VerdictOn(seen)
           k == KeyAt(c, i)
           status == w[c].is[i].status
           fresh == Freshest(w[c].is[i])
           was == Freshest(seen[c].is[i])
<1>1. IsFresh(v) /\ InLoop /\ seen \in Worlds
  BY VerdictFacts DEF MonitorInv
<1>2. full' = WithDelta(v)
  BY DEF Run
<1>3. stored # NoFile
  BY <1>1, <1>2, DeltaKeepsFindings DEF Compared
<1>4. full'.transitions = Diff(stored, v)
  BY <1>1, <1>2, <1>3, DeltaKeepsFindings
<1>5. /\ k \in DOMAIN AdvisoryIndex(stored)
      /\ k \notin DOMAIN AdvisoryIndex(v)
      /\ k \notin DOMAIN FailingList(v)
  BY <1>4, ClearedKeys
<1>6. k \in DOMAIN AdvisoryIndex(old)
  BY <1>3, <1>5 DEF FileInv, Records
<1>7. Answered(seen, c) /\ was # 0
  BY <1>1, <1>6, AdvisedAt
<1>8. fresh = 0
  BY <1>1, <1>5, AdvisedAt
<1>9. (IF status = "absent" THEN "settled" ELSE status) = "settled"
  BY <1>1, <1>5, StatusAt DEF StatusIn
<1>10. Shown(w, <<c, i>>) = <<IF status = "absent" THEN "settled" ELSE status, fresh>>
  BY Zenon DEF Shown
<1>11. Shown(seen, <<c, i>>)[2] = was
  BY <1>7, Zenon DEF Shown
<1> QED
  BY <1>7, <1>8, <1>9, <1>10, <1>11

\* Only what was killed and is well is reported cleared.
THEOREM ClearedCorrect == Spec => ClearedIsHealthy
<1> DEFINE Healthy ==
             Compared' /\ mode # "target" =>
                \A p \in Places :
                    LET w == WatchedIn(p[1])[p[2]]
                    IN  (/\ Answered(seen', p[1])
                         /\ \E t \in full'.transitions :
                                t.kind = "advisory-cleared" /\ t.key = <<p[1], w.ns, w.name>>)
                        => Shown(seen', p) = <<"settled", 0>> /\ Shown(seen, p)[2] # 0
<1>1. MonitorInv /\ FileInv /\ [Next]_vars => [Healthy]_vars
  <2> SUFFICES ASSUME MonitorInv, FileInv, Next PROVE Healthy
    OBVIOUS
  <2>1. ASSUME NEW w \in Worlds, Run(w), Compared', mode # "target", NEW p \in Places,
               Answered(seen', p[1]), NEW t \in full'.transitions, t.kind = "advisory-cleared",
               t.key = <<p[1], WatchedIn(p[1])[p[2]].ns, WatchedIn(p[1])[p[2]].name>>
        PROVE  Shown(seen', p) = <<"settled", 0>> /\ Shown(seen, p)[2] # 0
    <3>1. PICK c \in Range(Asked) : \E i \in DOMAIN WatchedIn(c) : p = <<c, i>>
      BY <2>1 DEF Places
    <3>2. PICK i \in DOMAIN WatchedIn(c) : p = <<c, i>>
      BY <3>1
    <3>3. seen' = w /\ p[1] = c /\ p[2] = i
      BY <2>1, <3>2 DEF Run
    <3>4. Answered(w, c)
      BY <2>1, <3>3
    <3>5. t.key = KeyAt(c, i)
      BY <2>1, <3>3 DEF KeyAt
    <3> QED
      BY <2>1, <3>2, <3>3, <3>4, <3>5, ClearedAt
  <2>2. ASSUME NEW w \in Worlds, RunDies(w) PROVE full' = NoVerdict /\ mode' = mode
    BY <2>2 DEF RunDies
  <2>3. ASSUME FileLost PROVE full' = NoVerdict /\ mode' = mode
    BY <2>3 DEF FileLost
  <2>4. mode' = mode /\ full' = NoVerdict => ~ Compared'
    BY SameNoVerdict DEF Compared
  <2> QED
    BY <2>1, <2>2, <2>3, <2>4 DEF Next
<1> QED
  BY <1>1, FileInvariant, PTL DEF Spec, ClearedIsHealthy

----------------------------------------------------------------------------
(* When nothing moved *)

\* Two verdicts between which nothing moved.
SameStory(prev, cur) ==
    /\ prev.status = cur.status
    /\ \A k : StatusIn(prev, k) = StatusIn(cur, k)
    /\ \A c \in DOMAIN Rollup(prev) \intersect DOMAIN Rollup(cur) : Rollup(prev)[c] = Rollup(cur)[c]
    /\ DOMAIN AdvisoryIndex(cur) \subseteq DOMAIN AdvisoryIndex(prev)
    /\ \A k \in DOMAIN AdvisoryIndex(cur) :
          AdvisoryIndex(prev)[k].finished = AdvisoryIndex(cur)[k].finished
    /\ DOMAIN AdvisoryIndex(prev) \subseteq DOMAIN AdvisoryIndex(cur) \union DOMAIN FailingList(cur)

\* The status of the whole is part of it, whatever the runs could check.
LEMMA WholeMoves ==
    ASSUME NEW prev, NEW cur, Diff(prev, cur) = {}
    PROVE  prev.status = cur.status /\ StatusMoves(prev, cur) = {} /\ ContextMoves(prev, cur) = {}
           /\ AdvisoryMoves(prev, cur) = {}
<1> DEFINE S == StatusMoves(prev, cur)
           C == ContextMoves(prev, cur)
           A == AdvisoryMoves(prev, cur)
           whole == Transition("status", cur.header, prev.status, cur.status)
<1>1. Moves(prev, cur) = (IF S \union C = {} /\ prev.status # cur.status THEN {whole} ELSE S \union C)
  BY Zenon DEF Moves
<1>2. Moves(prev, cur) \union A = {}
  BY DEF Diff
<1> HIDE DEF S, C, A, whole
<1>3. S = {} /\ C = {} /\ A = {} /\ prev.status = cur.status
  BY <1>1, <1>2
<1> QED
  BY <1>3 DEF S, C, A

\* No status moved: each is what it was.
LEMMA NoStatusMoves ==
    ASSUME NEW prev, NEW cur, Checked(prev), Checked(cur), NoneSettled(prev), NoneSettled(cur)
    PROVE  StatusMoves(prev, cur) = {} <=> \A k : StatusIn(prev, k) = StatusIn(cur, k)
<1> DEFINE pt == FailingList(prev)
           ct == FailingList(cur)
           S == StatusMoves(prev, cur)
           none == ""
           before(l) == IF l \in DOMAIN pt THEN pt[l] ELSE IF Checked(prev) THEN "settled" ELSE none
           moved == {l \in DOMAIN ct : before(l) # ct[l]}
           left == IF Checked(cur) THEN DOMAIN pt \ DOMAIN ct ELSE {}
<1>1. S = {Transition("status", l, before(l), ct[l]) : l \in moved}
             \union {Transition("status", l, pt[l], "settled") : l \in left}
  BY Zenon DEF StatusMoves
<1>2. \A l : before(l) = StatusIn(prev, l)
  BY DEF StatusIn
<1>3. \A l \in DOMAIN ct : ct[l] = StatusIn(cur, l)
  BY DEF StatusIn
<1>4. left = DOMAIN pt \ DOMAIN ct
  OBVIOUS
<1>5. \A l \in left : pt[l] = StatusIn(prev, l) /\ StatusIn(cur, l) = "settled" /\ pt[l] # "settled"
  BY <1>4 DEF StatusIn, NoneSettled
<1>6. \A l : l \notin DOMAIN ct /\ l \notin left => StatusIn(prev, l) = StatusIn(cur, l)
  BY <1>4 DEF StatusIn
<1>7. \A l \in DOMAIN ct : l \in moved <=> StatusIn(prev, l) # StatusIn(cur, l)
  BY <1>2, <1>3
<1>8. moved \subseteq DOMAIN ct
  OBVIOUS
<1> HIDE DEF pt, ct, moved, left, before, S
<1>9. S = {} <=> moved = {} /\ left = {}
  BY <1>1
<1>10. moved = {} /\ left = {} <=> \A k : StatusIn(prev, k) = StatusIn(cur, k)
  BY <1>5, <1>6, <1>7, <1>8
<1> QED
  BY <1>9, <1>10 DEF S

\* No advisory moved: each was there with the same termination, and what is gone is on
\* something that fails.
LEMMA NoAdvisoryMoves ==
    ASSUME NEW prev, NEW cur, Checked(cur)
    PROVE  AdvisoryMoves(prev, cur) = {} <=>
             /\ DOMAIN AdvisoryIndex(cur) \subseteq DOMAIN AdvisoryIndex(prev)
             /\ \A k \in DOMAIN AdvisoryIndex(cur) :
                   AdvisoryIndex(prev)[k].finished = AdvisoryIndex(cur)[k].finished
             /\ DOMAIN AdvisoryIndex(prev)
                   \subseteq DOMAIN AdvisoryIndex(cur) \union DOMAIN FailingList(cur)
<1> DEFINE pa == AdvisoryIndex(prev)
           ca == AdvisoryIndex(cur)
           failing == DOMAIN FailingList(cur)
           moves == AdvisoryMoves(prev, cur)
           appeared == DOMAIN ca \ DOMAIN pa
           again == {k \in DOMAIN ca \intersect DOMAIN pa : NewTermination(pa[k], ca[k])}
           cleared == IF Checked(cur) THEN DOMAIN pa \ (DOMAIN ca \union failing) ELSE {}
           none == ""
           A == {Transition("advisory-appeared", k, none, none) : k \in appeared}
           B == {Transition("new-termination", k, none, none) : k \in again}
           C == {Transition("advisory-cleared", k, none, none) : k \in cleared}
<1>1. moves = A \union B \union C
  BY Zenon DEF AdvisoryMoves
<1> HIDE DEF failing, none, moves
<1>2. again = {k \in DOMAIN ca \intersect DOMAIN pa : pa[k].finished # ca[k].finished}
  BY DEF NewTermination
<1>3. cleared = DOMAIN pa \ (DOMAIN ca \union failing)
  OBVIOUS
<1> HIDE DEF pa, ca, again, cleared
<1>4. moves = {} <=> appeared = {} /\ again = {} /\ cleared = {}
  <2> HIDE DEF appeared
  <2> QED
    BY <1>1
<1>5. appeared = {} /\ again = {} /\ cleared = {} <=>
        /\ DOMAIN ca \subseteq DOMAIN pa
        /\ \A k \in DOMAIN ca : pa[k].finished = ca[k].finished
        /\ DOMAIN pa \subseteq DOMAIN ca \union failing
  BY <1>2, <1>3
<1> QED
  BY <1>4, <1>5 DEF pa, ca, failing, moves

\* No context moved.
LEMMA NoContextMoves ==
    ASSUME NEW prev, NEW cur
    PROVE  ContextMoves(prev, cur) = {} <=>
             \A c \in DOMAIN Rollup(prev) \intersect DOMAIN Rollup(cur) :
                Rollup(prev)[c] = Rollup(cur)[c]
<1> DEFINE pc == Rollup(prev)
           cc == Rollup(cur)
           moved == {c \in DOMAIN pc \intersect DOMAIN cc : pc[c] # cc[c]}
           C == ContextMoves(prev, cur)
<1>1. C = {Transition("context", c, pc[c], cc[c]) : c \in moved}
  BY Zenon DEF ContextMoves
<1> HIDE DEF pc, cc, C
<1>2. C = {} <=> moved = {}
  BY <1>1
<1>3. moved = {} <=> \A c \in DOMAIN pc \intersect DOMAIN cc : pc[c] = cc[c]
  OBVIOUS
<1> QED
  BY <1>2, <1>3 DEF pc, cc, C

\* A delta is empty exactly if the two verdicts tell the same.
LEMMA QuietDiff ==
    ASSUME NEW prev, NEW cur, Checked(cur), NoneSettled(prev), NoneSettled(cur)
    PROVE  Diff(prev, cur) = {} <=> SameStory(prev, cur)
<1>1. ASSUME Diff(prev, cur) = {} PROVE SameStory(prev, cur)
  <2>1. /\ prev.status = cur.status /\ StatusMoves(prev, cur) = {}
        /\ ContextMoves(prev, cur) = {} /\ AdvisoryMoves(prev, cur) = {}
    BY <1>1, WholeMoves
  <2>2. Checked(prev)
    BY <2>1 DEF Checked
  <2> QED
    BY <2>1, <2>2, NoStatusMoves, NoContextMoves, NoAdvisoryMoves DEF SameStory
<1>2. ASSUME SameStory(prev, cur) PROVE Diff(prev, cur) = {}
  <2>1. prev.status = cur.status /\ Checked(prev)
    BY <1>2 DEF SameStory, Checked
  <2>2. /\ StatusMoves(prev, cur) = {} /\ ContextMoves(prev, cur) = {}
        /\ AdvisoryMoves(prev, cur) = {}
    BY <1>2, <2>1, NoStatusMoves, NoContextMoves, NoAdvisoryMoves DEF SameStory
  <2> DEFINE S == StatusMoves(prev, cur)
             C == ContextMoves(prev, cur)
             whole == Transition("status", cur.header, prev.status, cur.status)
  <2>3. Moves(prev, cur) = (IF S \union C = {} /\ prev.status # cur.status THEN {whole} ELSE S \union C)
    BY Zenon DEF Moves
  <2> HIDE DEF whole
  <2>4. Moves(prev, cur) = {}
    BY <2>1, <2>2, <2>3
  <2> QED
    BY <2>2, <2>4 DEF Diff
<1> QED
  BY <1>1, <1>2

----------------------------------------------------------------------------
(* The statuses of contexts *)

\* The statuses that a context's workloads are shown with.
ShownIn(w, c) == {Shown(w, <<c, i>>)[1] : i \in DOMAIN WatchedIn(c)}

\* The status of a context.
StatusOfContext(w, c) ==
    IF Answered(w, c) THEN WorstStatus(ShownIn(w, c)) ELSE StatusOfError(ErrorOf(w, c))

\* What a context may answer.
LEMMA ErrorsAre ==
    ASSUME InLoop, NEW w \in Worlds, NEW c \in Range(Asked)
    PROVE  ErrorOf(w, c) \in {"none", "no_match", "permission", "other"}
<1> DEFINE n == Len(WatchedIn(c))
           C == Range(Asked)
           All == UNION {SightsOf(d) : d \in C}
           none == "none"
           T == {f \in [1 .. n -> AnyCondition] :
                    \A j \in 1 .. n : f[j] \in Conditions[WatchedIn(c)[j].name]}
           blind == [j \in 1 .. n |-> Absent]
<1>1. w[c] \in SightsOf(c)
  <2>1. Worlds = {f \in [C -> All] : \A d \in C : f[d] \in SightsOf(d)}
    BY Zenon DEF Worlds
  <2> HIDE DEF All, C
  <2> QED
    BY <2>1 DEF C
<1>2. SightsOf(c) = {[answer |-> e, is |-> blind] : e \in Errors}
                      \union {[answer |-> none, is |-> f] : f \in T}
  BY Zenon DEF SightsOf
<1> HIDE DEF T, blind
<1>3. w[c].answer \in Errors \union {none}
  BY <1>1, <1>2
<1>4. Errors \subseteq {"no_match", "permission", "other"}
  BY MonitorAssumption
<1> QED
  BY <1>3, <1>4 DEF ErrorOf

\* An error has a status, another for each.
LEMMA ErrorStatuses ==
    /\ StatusOfError("no_match") = "no_match"
    /\ StatusOfError("permission") = "permission_denied"
    /\ StatusOfError("other") = "failed"
    /\ StatusOfError("none") = Unjudged
    /\ Unjudged \notin {"no_match", "permission_denied", "failed"}
<1>1. StatusOfError("no_match") = "no_match"
  BY DEF StatusOfError
<1>2. StatusOfError("permission") = "permission_denied"
  BY DEF StatusOfError
<1>3. StatusOfError("other") = "failed"
  BY DEF StatusOfError
<1>4. StatusOfError("none") = Unjudged
  BY DEF StatusOfError
<1>5. Unjudged # "no_match" /\ Unjudged # "permission_denied" /\ Unjudged # "failed"
  BY Zenon DEF Unjudged
<1> QED
  BY <1>1, <1>2, <1>3, <1>4, <1>5

\* What is gone does not count.
LEMMA WorstShown ==
    ASSUME InLoop, NEW w \in Worlds, NEW c \in Range(Asked), Answered(w, c),
           NEW S, \A s : s \in S <=> \E i \in DOMAIN WatchedIn(c) :
                                       w[c].is[i].status # "absent" /\ s = w[c].is[i].status
    PROVE  WorstStatus(S) = WorstStatus(ShownIn(w, c))
<1> DEFINE T == ShownIn(w, c)
           D == DOMAIN WatchedIn(c)
           is(i) == w[c].is[i].status
           shown(i) == Shown(w, <<c, i>>)[1]
<1>1. \A i : shown(i) = IF is(i) = "absent" THEN "settled" ELSE is(i)
  BY Zenon DEF Shown
<1>2. \A s : s \in T <=> \E i \in D : s = shown(i)
  BY DEF ShownIn
<1>3. \A s \in {"failed", "progressing"} : s \in S <=> s \in T
  <2> HIDE DEF T, D, is, shown
  <2>1. \A s : s \in S <=> \E i \in D : is(i) # "absent" /\ s = is(i)
    BY DEF D, is
  <2> QED
    BY <1>1, <1>2, <2>1
<1> HIDE DEF T
<1>4. WorstStatus(S) = WorstStatus(T)
  BY <1>3 DEF WorstStatus
<1> QED
  BY <1>4 DEF T

\* The statuses of a context's targets.
TargetStatusesIn(w, c) == {t.status : t \in {t \in ToSet(Input(w).targets) : t.context = c}}

\* They are those of the workloads that are there.
LEMMA TargetsOf ==
    ASSUME InLoop, NEW w \in Worlds, NEW c \in Range(Asked), NEW s
    PROVE  s \in TargetStatusesIn(w, c) <=>
             /\ Answered(w, c)
             /\ \E i \in DOMAIN WatchedIn(c) :
                  w[c].is[i].status # "absent" /\ s = w[c].is[i].status
<1> DEFINE sought == {k \in AnyCondition : k.status # "absent"}
           targets == ToSet(Input(w).targets)
<1>1. Input(w).targets = Found(w, sought)
  BY Zenon DEF Input
<1>2. \A t : t \in targets <=>
        \E d \in Range(Asked) :
          /\ Answered(w, d)
          /\ \E i \in DOMAIN WatchedIn(d) : w[d].is[i] \in sought /\ t = TargetAt(w, d, i)
  BY <1>1, FoundSet
<1>3. \A d, i : TargetAt(w, d, i).context = d /\ TargetAt(w, d, i).status = w[d].is[i].status
  BY DEF TargetAt
<1>4. Answered(w, c) => \A i \in DOMAIN WatchedIn(c) : w[c].is[i] \in AnyCondition
  BY ConditionAt
<1> HIDE DEF targets
<1>5. ASSUME NEW t \in targets, t.context = c, s = t.status
      PROVE  /\ Answered(w, c)
             /\ \E i \in DOMAIN WatchedIn(c) :
                  w[c].is[i].status # "absent" /\ s = w[c].is[i].status
  <2>1. PICK d \in Range(Asked) :
          /\ Answered(w, d)
          /\ \E i \in DOMAIN WatchedIn(d) : w[d].is[i] \in sought /\ t = TargetAt(w, d, i)
    BY <1>2
  <2>2. PICK i \in DOMAIN WatchedIn(d) : w[d].is[i] \in sought /\ t = TargetAt(w, d, i)
    BY <2>1
  <2>3. d = c
    BY <1>3, <1>5, <2>2
  <2> QED
    BY <1>3, <1>5, <2>1, <2>2, <2>3
<1>6. ASSUME Answered(w, c), NEW i \in DOMAIN WatchedIn(c),
             w[c].is[i].status # "absent", s = w[c].is[i].status
      PROVE  \E t \in targets : t.context = c /\ s = t.status
  <2>1. TargetAt(w, c, i) \in targets
    BY <1>2, <1>4, <1>6
  <2> QED
    BY <1>3, <1>6, <2>1
<1>7. s \in TargetStatusesIn(w, c) <=> \E t \in targets : t.context = c /\ s = t.status
  BY DEF TargetStatusesIn, targets
<1> QED
  BY <1>5, <1>6, <1>7

\* Over several contexts a verdict has the status of each.
LEMMA ContextsAre ==
    ASSUME InLoop, mode = "contexts", NEW w \in Worlds
    PROVE  LET v == VerdictOn(w)
           IN  /\ v.contexts = [k \in DOMAIN Asked |->
                                  [context |-> Asked[k], status |-> StatusOfContext(w, Asked[k])]]
               /\ v.status = ContextsStatus(v.contexts)
<1> DEFINE in == Input(w)
           entries == in.contexts
           Own(c) == {t \in ToSet(in.targets) : t.context = c}
           Judged(c) == IF Own(c) = {} THEN "no_match" ELSE WorstStatus({t.status : t \in Own(c)})
           contexts == FillContextVerdicts(entries, in.targets)
           v == VerdictOn(w)
<1>1. entries = [k \in DOMAIN Asked |-> [context |-> Asked[k],
                    status |-> StatusOfError(ErrorOf(w, Asked[k]))]]
  BY Zenon DEF Input
<1>2. contexts = [i \in DOMAIN entries |->
                    IF entries[i].status # Unjudged THEN entries[i]
                    ELSE [entries[i] EXCEPT !.status = Judged(entries[i].context)]]
  BY Zenon DEF FillContextVerdicts
<1>3. ASSUME NEW k \in DOMAIN Asked, Answered(w, Asked[k])
      PROVE  Judged(Asked[k]) = WorstStatus(ShownIn(w, Asked[k]))
  <2> DEFINE c == Asked[k]
             S == {t.status : t \in Own(c)}
  <2>1. c \in Range(Asked)
    BY DEF Range
  <2>2. \A s : s \in S <=> \E i \in DOMAIN WatchedIn(c) :
                             w[c].is[i].status # "absent" /\ s = w[c].is[i].status
    <3>1. S = TargetStatusesIn(w, c)
      BY DEF TargetStatusesIn
    <3> HIDE DEF S, c
    <3> QED
      BY <1>3, <2>1, <3>1, TargetsOf DEF c
  <2>3. \E i \in DOMAIN WatchedIn(c) : w[c].is[i].status # "absent"
    BY <1>3 DEF Answered, ErrorOf
  <2>4. Own(c) # {}
    <3>1. S # {}
      <4> HIDE DEF S
      <4> QED
        BY <2>2, <2>3
    <3> QED
      BY <3>1
  <2>5. WorstStatus(S) = WorstStatus(ShownIn(w, c))
    <3> HIDE DEF S, c
    <3> QED
      BY <1>3, <2>1, <2>2, WorstShown DEF c
  <2> QED
    BY <2>4, <2>5
<1> HIDE DEF in, Judged
<1>4. ASSUME NEW k \in DOMAIN Asked
      PROVE  /\ k \in DOMAIN entries
             /\ contexts[k] = [context |-> Asked[k], status |-> StatusOfContext(w, Asked[k])]
  <2> DEFINE c == Asked[k]
             e == ErrorOf(w, c)
             One == [context |-> c, status |-> StatusOfError(e)]
  <2>1. c \in Range(Asked)
    BY DEF Range
  <2>2. e \in {"none", "no_match", "permission", "other"}
    BY <2>1, ErrorsAre
  <2>3. Answered(w, c) <=> e = "none"
    BY DEF Answered
  <2>4. k \in DOMAIN entries /\ entries[k] = One
    BY <1>1
  <2>5. contexts[k] = IF One.status # Unjudged THEN One
                      ELSE [One EXCEPT !.status = Judged(One.context)]
    <3> HIDE DEF entries, contexts, One
    <3> QED
      BY <1>2, <2>4
  <2>6. One.status = Unjudged <=> Answered(w, c)
    <3> HIDE DEF e
    <3> QED
      BY <2>2, <2>3, ErrorStatuses
  <2>7. One.context = c
    OBVIOUS
  <2>8. [One EXCEPT !.status = Judged(c)] = [context |-> c, status |-> Judged(c)]
    OBVIOUS
  <2>9. Answered(w, c) => Judged(c) = WorstStatus(ShownIn(w, c))
    BY <1>3
  <2> HIDE DEF contexts, entries
  <2>10. CASE Answered(w, c)
    <3>1. contexts[k] = [context |-> c, status |-> Judged(c)]
      <4> HIDE DEF One
      <4> QED
        BY <2>5, <2>6, <2>7, <2>8, <2>10
    <3> QED
      BY <2>4, <2>9, <2>10, <3>1 DEF StatusOfContext
  <2>11. CASE ~ Answered(w, c)
    <3>1. contexts[k] = One
      <4> HIDE DEF One
      <4> QED
        BY <2>5, <2>6, <2>11
    <3> QED
      BY <2>4, <2>11, <3>1 DEF StatusOfContext
  <2> QED
    BY <2>10, <2>11
<1>5. contexts = [k \in DOMAIN Asked |->
                    [context |-> Asked[k], status |-> StatusOfContext(w, Asked[k])]]
  <2>1. DOMAIN entries = DOMAIN Asked
    BY <1>1
  <2>2. contexts = [k \in DOMAIN Asked |-> contexts[k]]
    <3> HIDE DEF entries
    <3> QED
      BY <1>2, <2>1
  <2> HIDE DEF contexts
  <2> QED
    BY <1>4, <2>2
<1>6. contexts # <<>>
  <2>1. 1 \in DOMAIN Asked
    BY WatchedFacts
  <2> QED
    BY <1>5, <2>1
<1>7. v = Headed(BuildFleet(in))
  BY Zenon DEF VerdictOn, in
<1>8. BuildFleet(in).contexts = contexts /\ BuildFleet(in).status = ContextsStatus(contexts)
  <2> HIDE DEF contexts
  <2>1. BuildFleet(in) =
          [status |-> IF contexts # <<>> THEN ContextsStatus(contexts)
                      ELSE WorstStatus(StatusesOf(in.targets)),
           contexts |-> contexts,
           namespaces |-> NamespaceVerdicts(in.targets),
           failures |-> in.failures,
           degraded |-> in.degraded,
           advisories |-> in.advisories,
           earlyExit |-> in.earlyExit]
    BY Zenon DEF BuildFleet, contexts
  <2> QED
    BY <1>6, <2>1
<1>9. \A u : Headed(u).status = u.status /\ Headed(u).contexts = u.contexts
  BY DEF Headed
<1> HIDE DEF contexts, v
<1>10. v.contexts = contexts /\ v.status = ContextsStatus(contexts)
  BY <1>7, <1>8, <1>9
<1> QED
  BY <1>5, <1>10 DEF v

\* In one cluster a verdict has the worst of what its workloads are shown with.
LEMMA OneContext ==
    ASSUME InLoop, mode # "contexts", NEW w \in Worlds, Answered(w, NoContext)
    PROVE  LET v == VerdictOn(w)
           IN  v.contexts = <<>> /\ v.status = WorstStatus(ShownIn(w, NoContext))
<1> DEFINE in == Input(w)
           c == NoContext
           S == StatusesOf(in.targets)
           b == BuildFleet(in)
           v == VerdictOn(w)
<1>1. Range(Asked) = {c}
  BY DEF Asked, Range
<1>2. \A t \in ToSet(in.targets) : t.context = c
  <2> DEFINE sought == {k \in AnyCondition : k.status # "absent"}
  <2>1. in.targets = Found(w, sought)
    BY Zenon DEF Input
  <2>2. \A d, i : TargetAt(w, d, i).context = d
    BY DEF TargetAt
  <2> HIDE DEF sought, in
  <2> QED
    BY <1>1, <2>1, <2>2, FoundSet
<1>3. S = TargetStatusesIn(w, c)
  <2> HIDE DEF in
  <2> QED
    BY <1>2 DEF StatusesOf, ToSet, TargetStatusesIn, in
<1> HIDE DEF S
<1>4. \A s : s \in S <=> \E i \in DOMAIN WatchedIn(c) :
                           w[c].is[i].status # "absent" /\ s = w[c].is[i].status
  BY <1>1, <1>3, TargetsOf
<1>5. WorstStatus(S) = WorstStatus(ShownIn(w, c))
  BY <1>1, <1>4, WorstShown
<1>6. in.contexts = <<>>
  BY Zenon DEF Input
<1> HIDE DEF in
<1>7. FillContextVerdicts(in.contexts, in.targets) = <<>>
  BY <1>6 DEF FillContextVerdicts
<1>8. /\ b.status = WorstStatus(S) /\ b.contexts = <<>>
      /\ DOMAIN b = {"status", "contexts", "namespaces", "failures", "degraded", "advisories",
                     "earlyExit"}
  BY <1>7 DEF BuildFleet, S
<1>9. Build(in) = [b EXCEPT !.namespaces = <<>>]
  BY DEF Build
<1>10. v = Headed(b) \/ v = Headed(Build(in))
  BY Zenon DEF VerdictOn, in
<1> HIDE DEF b
<1>11. Build(in).status = WorstStatus(S) /\ Build(in).contexts = <<>>
  BY <1>8, <1>9
<1>12. \A u : Headed(u).status = u.status /\ Headed(u).contexts = u.contexts
  BY DEF Headed
<1> HIDE DEF v
<1> QED
  BY <1>5, <1>8, <1>10, <1>11, <1>12 DEF v

----------------------------------------------------------------------------
(* What two worlds look like *)

\* Two worlds look the same.
SameSights(u, w) ==
    \A c \in Range(Asked) :
        /\ ErrorOf(u, c) = ErrorOf(w, c)
        /\ \A i \in DOMAIN WatchedIn(c) : Shown(u, <<c, i>>) = Shown(w, <<c, i>>)

\* That is what a verdict can tell of them.
LEMMA ToldApart ==
    ASSUME NEW u, NEW w
    PROVE  Told(u) = Told(w) <=> SameSights(u, w)
<1> DEFINE EU == [c \in Range(Asked) |-> ErrorOf(u, c)]
           EW == [c \in Range(Asked) |-> ErrorOf(w, c)]
           PU == [p \in Places |-> Shown(u, p)]
           PW == [p \in Places |-> Shown(w, p)]
<1>1. Told(u) = [errors |-> EU, places |-> PU] /\ Told(w) = [errors |-> EW, places |-> PW]
  BY Zenon DEF Told
<1>2. EU = EW <=> \A c \in Range(Asked) : ErrorOf(u, c) = ErrorOf(w, c)
  <2>1. ASSUME EU = EW, NEW c \in Range(Asked) PROVE ErrorOf(u, c) = ErrorOf(w, c)
    <3>1. EU[c] = ErrorOf(u, c) /\ EW[c] = ErrorOf(w, c)
      OBVIOUS
    <3> HIDE DEF EU, EW
    <3> QED
      BY <2>1, <3>1
  <2>2. ASSUME \A c \in Range(Asked) : ErrorOf(u, c) = ErrorOf(w, c) PROVE EU = EW
    BY <2>2
  <2> QED
    BY <2>1, <2>2
<1>3. PU = PW <=> \A p \in Places : Shown(u, p) = Shown(w, p)
  <2>1. ASSUME PU = PW, NEW p \in Places PROVE Shown(u, p) = Shown(w, p)
    <3>1. PU[p] = Shown(u, p) /\ PW[p] = Shown(w, p)
      OBVIOUS
    <3> HIDE DEF PU, PW
    <3> QED
      BY <2>1, <3>1
  <2>2. ASSUME \A p \in Places : Shown(u, p) = Shown(w, p) PROVE PU = PW
    BY <2>2
  <2> QED
    BY <2>1, <2>2
<1>4. (\A p \in Places : Shown(u, p) = Shown(w, p)) <=>
        \A c \in Range(Asked) : \A i \in DOMAIN WatchedIn(c) :
            Shown(u, <<c, i>>) = Shown(w, <<c, i>>)
  BY DEF Places
<1> HIDE DEF EU, EW, PU, PW
<1>5. Told(u) = Told(w) <=> EU = EW /\ PU = PW
  BY <1>1
<1> QED
  BY <1>2, <1>3, <1>4, <1>5 DEF SameSights

\* What can be told of a workload is its status and its freshest termination.
LEMMA ShownParts ==
    ASSUME NEW u, NEW w, NEW c, NEW i, ErrorOf(u, c) = ErrorOf(w, c)
    PROVE  Shown(u, <<c, i>>) = Shown(w, <<c, i>>) <=>
             (Answered(w, c) => /\ Shown(u, <<c, i>>)[1] = Shown(w, <<c, i>>)[1]
                                /\ Freshest(u[c].is[i]) = Freshest(w[c].is[i]))
<1> DEFINE Status(k) == IF k.status = "absent" THEN "settled" ELSE k.status
           st(x) == Status(x[c].is[i])
           fr(x) == Freshest(x[c].is[i])
           of(x) == Shown(x, <<c, i>>)
           none == <<"unknown", 0>>
<1>1. \A x : of(x) = IF ~ Answered(x, c) THEN none ELSE <<st(x), fr(x)>>
  BY Zenon DEF Shown
<1>2. Answered(u, c) <=> Answered(w, c)
  BY DEF Answered
<1> HIDE DEF st, fr, of, none
<1>3. CASE ~ Answered(w, c)
  <2>1. of(u) = of(w)
    BY <1>1, <1>2, <1>3
  <2> QED
    BY <1>3, <2>1 DEF of
<1>4. CASE Answered(w, c)
  <2>1. of(u) = <<st(u), fr(u)>> /\ of(w) = <<st(w), fr(w)>>
    BY <1>1, <1>2, <1>4
  <2>2. of(u) = of(w) <=> of(u)[1] = of(w)[1] /\ fr(u) = fr(w)
    BY <2>1
  <2> QED
    BY <1>4, <2>2 DEF of, fr
<1> QED
  BY <1>3, <1>4

\* The status that a workload is shown with.
LEMMA ShownStatus ==
    ASSUME NEW w, NEW c, NEW i, Answered(w, c)
    PROVE  Shown(w, <<c, i>>)[1] =
             IF w[c].is[i].status = "absent" THEN "settled" ELSE w[c].is[i].status
BY Zenon DEF Shown

\* Every advisory is on a workload that is watched.
LEMMA AdvisedSomewhere ==
    ASSUME InLoop, NEW w, NEW k \in DOMAIN AdvisoryIndex(VerdictOn(w))
    PROVE  \E c \in Range(Asked) : \E i \in DOMAIN WatchedIn(c) : k = KeyAt(c, i)
<1> DEFINE killed == ToSet(Found(w, {l \in AnyCondition : NotesOn(l) # <<>>}))
           Adv(t) == [context |-> t.context, ns |-> t.ns, name |-> t.name,
                      finished |-> t.notes[1].finished, reason |-> t.notes[1].reason,
                      count |-> t.notes[1].count, evidence |-> <<1>>]
           A == ToSet(VerdictOn(w).advisories)
<1>1. \A a : a \in A <=> (mode = "contexts" \/ Answered(w, NoContext)) /\ \E t \in killed : a = Adv(t)
  BY AdvisedOn
<1>2. PICK a \in A : Key(a.context, a.ns, a.name) = k
  BY AdvisedKeys
<1> HIDE DEF A
<1>3. PICK t \in killed : a = Adv(t)
  BY <1>1
<1>4. Key(t.context, t.ns, t.name) = k
  BY <1>2, <1>3
<1>5. PICK c \in Range(Asked) : \E i \in DOMAIN WatchedIn(c) : t = TargetAt(w, c, i)
  BY FoundSet
<1>6. PICK i \in DOMAIN WatchedIn(c) : t = TargetAt(w, c, i)
  BY <1>5
<1> QED
  BY <1>4, <1>6 DEF TargetAt, Key, KeyAt

\* Every target that is enumerated is a workload that is watched in a context that
\* answered, and none is if it was named.
LEMMA FailingSomewhere ==
    ASSUME InLoop, NEW w \in Worlds, mode = "contexts" \/ Answered(w, NoContext),
           NEW k \in DOMAIN FailingList(VerdictOn(w))
    PROVE  /\ mode # "target"
           /\ \E c \in Range(Asked) : Answered(w, c) /\ \E i \in DOMAIN WatchedIn(c) : k = KeyAt(c, i)
<1>1. PICK e : Enumerates(VerdictOn(w).namespaces, e) /\ Key(e[1], e[2], e[3].name) = k
  BY FailingKeys
<1>2. mode # "target"
  <2> SUFFICES ASSUME mode = "target" PROVE FALSE
    OBVIOUS
  <2>1. NoContext \in Range(Asked) /\ DOMAIN WatchedIn(NoContext) = {1}
    <3>1. NoContext \in Range(Asked)
      BY DEF Asked, Range
    <3> QED
      BY <3>1, OneWorkload
  <2>2. VerdictOn(w).namespaces = <<>>
    BY <2>1, TargetVerdict
  <2> QED
    BY <1>1, <2>2 DEF Enumerates, ToSet
<1>3. PICK c \in Range(Asked) :
        /\ Answered(w, c)
        /\ \E i \in DOMAIN WatchedIn(c) :
             e = <<c, WatchedIn(c)[i].ns,
                   [name |-> WatchedIn(c)[i].name, status |-> w[c].is[i].status]>>
  BY <1>1, <1>2, EnumeratedOn
<1>4. PICK i \in DOMAIN WatchedIn(c) :
             e = <<c, WatchedIn(c)[i].ns,
                   [name |-> WatchedIn(c)[i].name, status |-> w[c].is[i].status]>>
  BY <1>3
<1>5. k = KeyAt(c, i)
  BY <1>1, <1>4 DEF Key, KeyAt
<1> QED
  BY <1>2, <1>3, <1>5

\* The contexts of a run are the contexts asked for, each with its status.
LEMMA RollupIs ==
    ASSUME InLoop, mode = "contexts", NEW w \in Worlds
    PROVE  /\ DOMAIN Rollup(VerdictOn(w)) = Range(Asked)
           /\ \A c \in Range(Asked) : Rollup(VerdictOn(w))[c] = StatusOfContext(w, c)
<1> DEFINE v == VerdictOn(w)
           One(c) == [context |-> c, status |-> StatusOfContext(w, c)]
           E == Range(v.contexts)
           R == Rollup(v)
<1>1. v.contexts = [k \in DOMAIN Asked |-> One(Asked[k])]
  BY ContextsAre
<1>2. R = [c \in {e.context : e \in E} |-> (CHOOSE e \in E : e.context = c).status]
  BY Zenon DEF Rollup
<1> HIDE DEF v
<1>3. E = {One(c) : c \in Range(Asked)}
  BY <1>1 DEF Range
<1>4. \A c : One(c).context = c /\ One(c).status = StatusOfContext(w, c)
  OBVIOUS
<1> HIDE DEF One, E, R
<1>5. {e.context : e \in E} = Range(Asked)
  BY <1>3, <1>4
<1>6. ASSUME NEW c \in Range(Asked) PROVE (CHOOSE e \in E : e.context = c).status = StatusOfContext(w, c)
  <2> DEFINE x == CHOOSE e \in E : e.context = c
  <2>1. One(c) \in E /\ One(c).context = c
    BY <1>3, <1>4
  <2>2. x \in E /\ x.context = c
    BY <2>1
  <2> HIDE DEF x
  <2>3. x = One(c)
    BY <1>3, <1>4, <2>2
  <2>4. x.status = StatusOfContext(w, c)
    BY <1>4, <2>3
  <2> QED
    BY <2>4 DEF x
<1>7. DOMAIN R = Range(Asked) /\ \A c \in Range(Asked) : R[c] = StatusOfContext(w, c)
  BY <1>2, <1>5, <1>6
<1> QED
  BY <1>7 DEF R, v

\* A run of one cluster that could be made found its workloads.
LEMMA MadeRuns ==
    ASSUME InLoop, mode # "contexts", NEW w \in Worlds, ~ Dies(w), Checked(VerdictOn(w))
    PROVE  Answered(w, NoContext)
<1> SUFFICES ASSUME ~ Answered(w, NoContext) PROVE FALSE
  OBVIOUS
<1> DEFINE e == ErrorOf(w, NoContext)
           s == StatusOfError(e)
<1>1. NoContext \in Range(Asked)
  BY DEF Asked, Range
<1>2. e \in {"no_match", "permission"}
  BY <1>1, ErrorsAre DEF Dies, Answered
<1>3. s \in {"no_match", "permission_denied"}
  BY <1>2, ErrorStatuses
<1>4. VerdictOn(w) = Headed(ErrorVerdict(s))
  BY Zenon DEF VerdictOn
<1> HIDE DEF s
<1>5. Headed(ErrorVerdict(s)).status = s
  BY DEF Headed, ErrorVerdict
<1> QED
  BY <1>3, <1>4, <1>5 DEF Checked

\* What the verdicts on two worlds that look the same tell is the same.
LEMMA SameStoryIfSame ==
    ASSUME InLoop, NEW u \in Worlds, NEW w \in Worlds, SameSights(u, w),
           mode = "contexts" \/ Answered(w, NoContext)
    PROVE  SameStory(VerdictOn(u), VerdictOn(w))
<1> DEFINE p == VerdictOn(u)
           v == VerdictOn(w)
<1>1. \A c \in Range(Asked) : /\ ErrorOf(u, c) = ErrorOf(w, c)
                              /\ Answered(u, c) <=> Answered(w, c)
  BY DEF SameSights, Answered
<1>2. mode # "contexts" => NoContext \in Range(Asked)
  BY DEF Asked, Range
<1>3. mode = "contexts" \/ Answered(u, NoContext)
  BY <1>1, <1>2
<1>4. ASSUME NEW c \in Range(Asked), NEW i \in DOMAIN WatchedIn(c), Answered(w, c)
      PROVE  /\ Shown(u, <<c, i>>)[1] = Shown(w, <<c, i>>)[1]
             /\ Freshest(u[c].is[i]) = Freshest(w[c].is[i])
  BY <1>1, <1>4, ShownParts DEF SameSights
<1>5. \A c \in Range(Asked) : ShownIn(u, c) = ShownIn(w, c)
  BY DEF SameSights, ShownIn
<1>6. \A c \in Range(Asked) : StatusOfContext(u, c) = StatusOfContext(w, c)
  BY <1>1, <1>5 DEF StatusOfContext
<1>7. p.status = v.status /\ \A c \in DOMAIN Rollup(p) \intersect DOMAIN Rollup(v) : Rollup(p)[c] = Rollup(v)[c]
  <2>1. CASE mode = "contexts"
    <3>1. p.contexts = v.contexts
      <4>1. \A k \in DOMAIN Asked : Asked[k] \in Range(Asked)
        BY DEF Range
      <4>2. [k \in DOMAIN Asked |-> [context |-> Asked[k], status |-> StatusOfContext(u, Asked[k])]]
            = [k \in DOMAIN Asked |-> [context |-> Asked[k], status |-> StatusOfContext(w, Asked[k])]]
        BY <1>6, <4>1
      <4> QED
        BY <2>1, <4>2, ContextsAre
    <3>2. p.status = v.status
      BY <2>1, <3>1, ContextsAre
    <3>3. /\ DOMAIN Rollup(p) = Range(Asked)
          /\ \A c \in Range(Asked) : Rollup(p)[c] = Rollup(v)[c]
      BY <1>6, <2>1, RollupIs
    <3> QED
      BY <3>2, <3>3
  <2>2. CASE mode # "contexts"
    <3>1. p.contexts = <<>> /\ p.status = v.status
      BY <1>2, <1>3, <1>5, <2>2, OneContext
    <3> HIDE DEF p, v
    <3>2. DOMAIN Rollup(p) = {}
      BY <3>1 DEF Rollup, Range
    <3> QED
      BY <3>1, <3>2
  <2> QED
    BY <2>1, <2>2
<1>8. ASSUME NEW k PROVE StatusIn(p, k) = StatusIn(v, k)
  <2>1. ASSUME mode # "target", NEW c \in Range(Asked), Answered(w, c), NEW i \in DOMAIN WatchedIn(c),
               k = KeyAt(c, i)
        PROVE  StatusIn(p, k) = StatusIn(v, k)
    <3>1. Answered(u, c)
      BY <1>1, <2>1
    <3>2. StatusIn(p, k) = Shown(u, <<c, i>>)[1]
      BY <2>1, <3>1, ShownStatus, StatusAt
    <3>3. StatusIn(v, k) = Shown(w, <<c, i>>)[1]
      BY <2>1, ShownStatus, StatusAt
    <3> QED
      BY <1>4, <2>1, <3>2, <3>3
  <2>2. CASE k \in DOMAIN FailingList(p)
    <3>1. /\ mode # "target"
          /\ \E c \in Range(Asked) : Answered(u, c) /\ \E i \in DOMAIN WatchedIn(c) : k = KeyAt(c, i)
      BY <1>3, <2>2, FailingSomewhere
    <3> HIDE DEF p, v
    <3> QED
      BY <1>1, <2>1, <3>1
  <2>3. CASE k \in DOMAIN FailingList(v)
    <3>1. /\ mode # "target"
          /\ \E c \in Range(Asked) : Answered(w, c) /\ \E i \in DOMAIN WatchedIn(c) : k = KeyAt(c, i)
      BY <2>3, FailingSomewhere
    <3> HIDE DEF p, v
    <3> QED
      BY <2>1, <3>1
  <2>4. CASE k \notin DOMAIN FailingList(p) /\ k \notin DOMAIN FailingList(v)
    BY <2>4 DEF StatusIn
  <2> QED
    BY <2>2, <2>3, <2>4
<1>9. /\ DOMAIN AdvisoryIndex(v) = DOMAIN AdvisoryIndex(p)
      /\ \A k \in DOMAIN AdvisoryIndex(v) :
            AdvisoryIndex(p)[k].finished = AdvisoryIndex(v)[k].finished
  <2>1. ASSUME NEW c \in Range(Asked), NEW i \in DOMAIN WatchedIn(c)
        PROVE  LET k == KeyAt(c, i)
               IN  /\ k \in DOMAIN AdvisoryIndex(v) <=> k \in DOMAIN AdvisoryIndex(p)
                   /\ k \in DOMAIN AdvisoryIndex(v) =>
                        AdvisoryIndex(p)[k].finished = AdvisoryIndex(v)[k].finished
    <3> DEFINE k == KeyAt(c, i)
    <3>1. /\ k \in DOMAIN AdvisoryIndex(v) <=> Answered(w, c) /\ Freshest(w[c].is[i]) # 0
          /\ k \in DOMAIN AdvisoryIndex(v) => AdvisoryIndex(v)[k].finished = Freshest(w[c].is[i])
      BY AdvisedAt
    <3>2. /\ k \in DOMAIN AdvisoryIndex(p) <=> Answered(u, c) /\ Freshest(u[c].is[i]) # 0
          /\ k \in DOMAIN AdvisoryIndex(p) => AdvisoryIndex(p)[k].finished = Freshest(u[c].is[i])
      BY AdvisedAt
    <3> HIDE DEF p, v, k
    <3>3. /\ k \in DOMAIN AdvisoryIndex(v) <=> k \in DOMAIN AdvisoryIndex(p)
          /\ k \in DOMAIN AdvisoryIndex(v) =>
               AdvisoryIndex(p)[k].finished = AdvisoryIndex(v)[k].finished
      BY <1>1, <1>4, <3>1, <3>2
    <3> QED
      BY <3>3 DEF k
  <2>2. \A k \in DOMAIN AdvisoryIndex(v) :
           \E c \in Range(Asked) : \E i \in DOMAIN WatchedIn(c) : k = KeyAt(c, i)
    BY AdvisedSomewhere
  <2>3. \A k \in DOMAIN AdvisoryIndex(p) :
           \E c \in Range(Asked) : \E i \in DOMAIN WatchedIn(c) : k = KeyAt(c, i)
    BY AdvisedSomewhere
  <2> DEFINE pa == AdvisoryIndex(p)
             ca == AdvisoryIndex(v)
  <2>4. ASSUME NEW c \in Range(Asked), NEW i \in DOMAIN WatchedIn(c), NEW k, k = KeyAt(c, i)
        PROVE  /\ k \in DOMAIN ca <=> k \in DOMAIN pa
               /\ k \in DOMAIN ca => pa[k].finished = ca[k].finished
    BY <2>1, <2>4
  <2> HIDE DEF pa, ca
  <2>5. ASSUME NEW k, k \in DOMAIN ca \/ k \in DOMAIN pa
        PROVE  /\ k \in DOMAIN ca /\ k \in DOMAIN pa
               /\ pa[k].finished = ca[k].finished
    <3>1. \E c \in Range(Asked) : \E i \in DOMAIN WatchedIn(c) : k = KeyAt(c, i)
      BY <2>2, <2>3, <2>5 DEF pa, ca
    <3>2. PICK c \in Range(Asked) : \E i \in DOMAIN WatchedIn(c) : k = KeyAt(c, i)
      BY <3>1
    <3>3. PICK i \in DOMAIN WatchedIn(c) : k = KeyAt(c, i)
      BY <3>2
    <3> QED
      BY <2>4, <2>5, <3>3
  <2>6. DOMAIN ca = DOMAIN pa /\ \A k \in DOMAIN ca : pa[k].finished = ca[k].finished
    BY <2>5
  <2> QED
    BY <2>6 DEF pa, ca
<1> HIDE DEF p, v
<1>10. SameStory(p, v)
  BY <1>7, <1>8, <1>9 DEF SameStory
<1> QED
  BY <1>10 DEF p, v

\* Two contexts of one status that enumerate the same had the same error, if any.
LEMMA SameErrors ==
    ASSUME InLoop, NEW u \in Worlds, NEW w \in Worlds, mode = "contexts", NEW c \in Range(Asked),
           StatusOfContext(u, c) = StatusOfContext(w, c), Answered(w, c),
           \A k : StatusIn(VerdictOn(u), k) = StatusIn(VerdictOn(w), k)
    PROVE  Answered(u, c)
<1> SUFFICES ASSUME ~ Answered(u, c) PROVE FALSE
  OBVIOUS
<1> DEFINE e == ErrorOf(u, c)
           S == ShownIn(w, c)
<1>1. e \in {"no_match", "permission", "other"}
  BY ErrorsAre DEF Answered
<1>2. StatusOfError(e) = WorstStatus(S)
  BY DEF StatusOfContext
<1>3. WorstStatus(S) \in {"failed", "progressing", "settled"} /\ (WorstStatus(S) = "failed" <=> "failed" \in S)
  BY DEF WorstStatus
<1>4. StatusOfError(e) \in {"no_match", "permission_denied", "failed"}
  <2> HIDE DEF e
  <2> QED
    BY <1>1, ErrorStatuses
<1>5. "failed" \in S
  BY <1>2, <1>3, <1>4
<1>6. PICK i \in DOMAIN WatchedIn(c) : Shown(w, <<c, i>>)[1] = "failed"
  BY <1>5 DEF ShownIn
<1>7. StatusIn(VerdictOn(w), KeyAt(c, i)) = "failed"
  BY <1>6, ShownStatus, StatusAt
<1>8. StatusIn(VerdictOn(u), KeyAt(c, i)) = "failed"
  BY <1>7
<1>9. KeyAt(c, i) \in DOMAIN FailingList(VerdictOn(u))
  BY <1>8 DEF StatusIn
<1>10. PICK d \in Range(Asked) : Answered(u, d) /\ \E j \in DOMAIN WatchedIn(d) : KeyAt(c, i) = KeyAt(d, j)
  BY <1>9, FailingSomewhere
<1>11. d = c
  BY <1>10 DEF KeyAt
<1> QED
  BY <1>10, <1>11

\* What the verdicts on two worlds tell is the same only if these look the same.
LEMMA SameOnlyIfSame ==
    ASSUME InLoop, NEW u \in Worlds, NEW w \in Worlds, SameStory(VerdictOn(u), VerdictOn(w)),
           mode # "contexts" => Answered(u, NoContext) /\ Answered(w, NoContext)
    PROVE  SameSights(u, w)
<1> DEFINE p == VerdictOn(u)
           v == VerdictOn(w)
<1>1. \A k : StatusIn(p, k) = StatusIn(v, k)
  BY DEF SameStory
<1>2. ASSUME NEW c \in Range(Asked) PROVE ErrorOf(u, c) = ErrorOf(w, c)
  <2>1. CASE mode # "contexts"
    <3>1. c = NoContext
      BY <2>1 DEF Asked, Range
    <3> QED
      BY <2>1, <3>1 DEF Answered
  <2>2. CASE mode = "contexts"
    <3>1. StatusOfContext(u, c) = StatusOfContext(w, c)
      BY <2>2, RollupIs DEF SameStory
    <3>2. Answered(u, c) <=> Answered(w, c)
      BY <1>1, <2>2, <3>1, SameErrors
    <3>3. CASE Answered(w, c)
      BY <3>2, <3>3 DEF Answered
    <3>4. CASE ~ Answered(w, c)
      <4>1. StatusOfError(ErrorOf(u, c)) = StatusOfError(ErrorOf(w, c))
        BY <3>1, <3>2, <3>4 DEF StatusOfContext
      <4>2. /\ ErrorOf(u, c) \in {"no_match", "permission", "other"}
            /\ ErrorOf(w, c) \in {"no_match", "permission", "other"}
        BY <3>2, <3>4, ErrorsAre DEF Answered
      <4> QED
        BY <4>1, <4>2, ErrorStatuses
    <3> QED
      BY <3>3, <3>4
  <2> QED
    BY <2>1, <2>2
<1>3. ASSUME NEW c \in Range(Asked), NEW i \in DOMAIN WatchedIn(c), Answered(w, c)
      PROVE  /\ Shown(u, <<c, i>>)[1] = Shown(w, <<c, i>>)[1]
             /\ Freshest(u[c].is[i]) = Freshest(w[c].is[i])
  <2> DEFINE k == KeyAt(c, i)
             from == Shown(u, <<c, i>>)[1]
             to == Shown(w, <<c, i>>)[1]
  <2>1. Answered(u, c)
    BY <1>2, <1>3 DEF Answered
  <2>2. from = IF u[c].is[i].status = "absent" THEN "settled" ELSE u[c].is[i].status
    BY <2>1, ShownStatus
  <2>3. to = IF w[c].is[i].status = "absent" THEN "settled" ELSE w[c].is[i].status
    BY <1>3, ShownStatus
  <2>4. from = to
    <3>1. CASE mode = "target"
      <4>1. p.status = from /\ v.status = to
        BY <1>3, <2>1, <2>2, <2>3, <3>1, TargetVerdict
      <4> QED
        BY <4>1 DEF SameStory
    <3>2. CASE mode # "target"
      BY <1>1, <1>3, <2>1, <2>2, <2>3, <3>2, StatusAt
    <3> QED
      BY <3>1, <3>2
  <2>5. /\ k \in DOMAIN AdvisoryIndex(v) <=> Freshest(w[c].is[i]) # 0
        /\ k \in DOMAIN AdvisoryIndex(v) => AdvisoryIndex(v)[k].finished = Freshest(w[c].is[i])
    BY <1>3, AdvisedAt
  <2>6. /\ k \in DOMAIN AdvisoryIndex(p) <=> Freshest(u[c].is[i]) # 0
        /\ k \in DOMAIN AdvisoryIndex(p) => AdvisoryIndex(p)[k].finished = Freshest(u[c].is[i])
    BY <2>1, AdvisedAt
  <2>7. ASSUME k \in DOMAIN FailingList(v) PROVE Freshest(u[c].is[i]) = 0
    <3>1. mode # "target"
      BY <1>3, <2>7, FailingSomewhere DEF Asked, Range
    <3>2. StatusIn(v, k) # "settled"
      <4>1. NoneSettled(v)
        BY VerdictFacts, FreshNoneSettled
      <4> QED
        BY <2>7, <4>1 DEF StatusIn, NoneSettled
    <3>3. StatusIn(v, k) = to
      BY <1>3, <2>3, <3>1, StatusAt
    <3>4. u[c].is[i].status # "settled"
      BY <2>2, <2>4, <3>2, <3>3
    <3> QED
      BY <2>1, <3>4, NotesFacts
  <2>8. Freshest(u[c].is[i]) = Freshest(w[c].is[i])
    <3> HIDE DEF k, p, v
    <3> QED
      BY <2>5, <2>6, <2>7 DEF SameStory, p, v
  <2> QED
    BY <2>4, <2>8
<1> QED
  BY <1>2, <1>3, ShownParts DEF SameSights

\* A verdict tells what it found, and nothing else.
LEMMA SameFindingsTell ==
    ASSUME NEW u, NEW v, NEW cur, SameFindings(u, v)
    PROVE  SameStory(u, cur) <=> SameStory(v, cur)
<1> DEFINE RollupOf(es) == [c \in {e.context : e \in Range(es)} |->
                              (CHOOSE e \in Range(es) : e.context = c).status]
           IndexOf(es) == [k \in {Key(a.context, a.ns, a.name) : a \in Range(es)} |->
                             (CHOOSE a \in Range(es) : Key(a.context, a.ns, a.name) = k)]
<1>1. Rollup(u) = RollupOf(u.contexts) /\ Rollup(v) = RollupOf(v.contexts)
  BY Zenon DEF Rollup
<1>2. AdvisoryIndex(u) = IndexOf(u.advisories) /\ AdvisoryIndex(v) = IndexOf(v.advisories)
  BY Zenon DEF AdvisoryIndex
<1> HIDE DEF RollupOf, IndexOf
<1>3. Rollup(u) = Rollup(v) /\ AdvisoryIndex(u) = AdvisoryIndex(v) /\ u.status = v.status
  BY <1>1, <1>2 DEF SameFindings
<1>4. \A k : StatusIn(u, k) = StatusIn(v, k)
  BY SameStatusIn DEF SameFindings
<1> QED
  BY <1>3, <1>4 DEF SameStory

\* With the whole verdict on file a run that could be made says that nothing moved
\* exactly if it saw what the one before saw.
LEMMA QuietAt ==
    ASSUME MonitorInv, FileInv, NEW w \in Worlds, Run(w), Compared', Checked(stored'), budget = 0
    PROVE  full'.transitions = {} <=> Told(w) = Told(seen)
<1> DEFINE v == VerdictOn(w)
           old == VerdictOn(seen)
<1>1. IsFresh(v) /\ IsFresh(old) /\ InLoop /\ seen \in Worlds /\ ~ Dies(w)
  BY VerdictFacts DEF MonitorInv, Run
<1>2. full' = WithDelta(v) /\ stored' = full'
  BY DEF Run, Apply
<1> HIDE DEF v
<1>3. stored # NoFile
  BY <1>1, <1>2, DeltaKeepsFindings DEF Compared
<1>4. full'.transitions = Diff(stored, v) /\ SameFindings(full', v)
  BY <1>1, <1>2, <1>3, DeltaKeepsFindings
<1>5. Checked(v)
  BY <1>2, <1>4 DEF Checked, SameFindings
<1>6. SameFindings(stored, old) /\ ~ Dies(seen)
  BY <1>3 DEF FileInv, Records
<1>7. NoneSettled(stored) /\ NoneSettled(v)
  <2> HIDE DEF old
  <2> QED
    BY <1>1, <1>6, SameStatusIn, FreshNoneSettled DEF SameFindings
<1>8. Diff(stored, v) = {} <=> SameStory(old, v)
  <2> HIDE DEF old
  <2> QED
    BY <1>5, <1>6, <1>7, QuietDiff, SameFindingsTell
<1>9. mode # "contexts" => Answered(w, NoContext)
  BY <1>1, <1>5, MadeRuns DEF v
<1>10. ASSUME SameStory(old, v) PROVE SameSights(seen, w)
  <2>1. Checked(old)
    BY <1>5, <1>10 DEF Checked, SameStory
  <2>2. mode # "contexts" => Answered(seen, NoContext)
    BY <1>1, <1>6, <2>1, MadeRuns
  <2> QED
    BY <1>1, <1>9, <1>10, <2>2, SameOnlyIfSame DEF v
<1>11. ASSUME SameSights(seen, w) PROVE SameStory(old, v)
  BY <1>1, <1>9, <1>11, SameStoryIfSame DEF v
<1> QED
  BY <1>4, <1>8, <1>10, <1>11, ToldApart

\* A monitor without a budget is quiet exactly when the clusters are.
THEOREM QuietCorrect == Spec => QuietIffStill
<1> DEFINE Quiet == Compared' /\ Checked(stored') /\ budget = 0 => StillIsQuiet
<1>1. MonitorInv /\ FileInv /\ [Next]_vars => [Quiet]_vars
  <2> SUFFICES ASSUME MonitorInv, FileInv, Next PROVE Quiet
    OBVIOUS
  <2>1. ASSUME NEW w \in Worlds, Run(w), Compared', Checked(stored'), budget = 0
        PROVE  StillIsQuiet
    <3>1. seen' = w
      BY <2>1 DEF Run
    <3>2. full'.transitions = {} <=> Told(w) = Told(seen)
      BY <2>1, QuietAt
    <3> QED
      BY <3>1, <3>2 DEF StillIsQuiet
  <2>2. ASSUME NEW w \in Worlds, RunDies(w) PROVE full' = NoVerdict /\ mode' = mode
    BY <2>2 DEF RunDies
  <2>3. ASSUME FileLost PROVE full' = NoVerdict /\ mode' = mode
    BY <2>3 DEF FileLost
  <2>4. mode' = mode /\ full' = NoVerdict => ~ Compared'
    BY SameNoVerdict DEF Compared
  <2> QED
    BY <2>1, <2>2, <2>3, <2>4 DEF Next
<1> QED
  BY <1>1, FileInvariant, PTL DEF Spec, QuietIffStill
=============================================================================
