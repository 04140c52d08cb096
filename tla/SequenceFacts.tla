---------------------------- MODULE SequenceFacts ----------------------------
(***************************************************************************)
(* Induction over the natural numbers, and what it shows of the sequence   *)
(* helpers that the models are built from; the order of the statuses of a  *)
(* verdict.                                                                *)
(*                                                                         *)
(* The induction rule is about a set of numbers rather than a predicate,   *)
(* so that it can be cited for {n \in Nat : ...} like any other fact.      *)
(***************************************************************************)
EXTENDS Verdict, FiniteSets, FiniteSetTheorems,
        FunctionTheorems, WellFoundedInduction, SequenceTheorems, TLAPS

\* A set that has 0 and with every number the next has every natural number: a
\* smallest counterexample m would make 0 .. m minimal, by inclusion, among the
\* intervals up to a counterexample, and m - 1 gives a smaller one.
LEMMA Induction ==
  ASSUME NEW S, 0 \in S, \A n \in Nat : n \in S => n + 1 \in S
  PROVE  Nat \subseteq S
<1> SUFFICES ASSUME NEW t \in Nat, t \notin S PROVE FALSE
  OBVIOUS
<1> DEFINE Bad == {n \in 0 .. t : n \notin S}
           Ups == {0 .. n : n \in Bad}
<1>1. Ups \subseteq SUBSET (0 .. t) /\ Ups # {}
  <2>1. t \in Bad
    OBVIOUS
  <2>2. ASSUME NEW n \in Bad PROVE 0 .. n \subseteq 0 .. t
    OBVIOUS
  <2> QED
    BY <2>1, <2>2
<1>2. IsWellFoundedOn(StrictSubsetOrdering(0 .. t), SUBSET (0 .. t))
  <2>1. IsFiniteSet(0 .. t)
    BY FS_Interval
  <2>2. FiniteSubsetsOf(0 .. t) = SUBSET (0 .. t)
    BY <2>1, FS_Subset DEF FiniteSubsetsOf
  <2> QED
    BY <2>1, <2>2, FS_StrictSubsetOrderingWellFounded
<1>3. PICK x \in Ups : \A y \in Ups : ~ (<<y, x>> \in StrictSubsetOrdering(0 .. t))
  <2> HIDE DEF Ups
  <2> QED
    BY <1>1, <1>2, WFMin
<1>4. PICK m \in Bad : x = 0 .. m
  OBVIOUS
<1>5. m # 0 /\ m \in Nat /\ m <= t /\ m \notin S
  OBVIOUS
<1>6. m - 1 \in Nat /\ m - 1 \notin S /\ m - 1 \in Bad
  BY <1>5
<1>7. 0 .. (m - 1) \subseteq 0 .. m /\ m \notin 0 .. (m - 1) /\ m \in 0 .. m
  BY <1>5
<1>8. <<0 .. (m - 1), x>> \in StrictSubsetOrdering(0 .. t)
  BY <1>1, <1>4, <1>6, <1>7 DEF StrictSubsetOrdering
<1> QED
  BY <1>3, <1>6, <1>8

----------------------------------------------------------------------------
(* Sequences *)

\* A finite set as a sequence has each of its elements at one place.
LEMMA SetToSeqOf ==
  ASSUME NEW S, IsFiniteSet(S)
  PROVE  /\ SetToSeq(S) \in Seq(S)
         /\ Len(SetToSeq(S)) = Cardinality(S)
         /\ ToSet(SetToSeq(S)) = S
         /\ IsInjective(SetToSeq(S))
<1> DEFINE n == Cardinality(S)
           f == SetToSeq(S)
<1>1. n \in Nat /\ \E g \in [1 .. n -> S] : IsInjective(g)
  <2>1. n \in Nat /\ ExistsBijection(1 .. n, S)
    BY FS_CardinalityType
  <2>2. PICK g \in Bijection(1 .. n, S) : TRUE
    BY <2>1 DEF ExistsBijection
  <2> QED
    BY <2>1, <2>2 DEF Bijection, Injection
<1>2. f \in [1 .. n -> S] /\ IsInjective(f)
  BY <1>1 DEF SetToSeq
<1>3. f \in Seq(S) /\ Len(f) = n
  BY <1>1, <1>2
<1>4. f \in Surjection(1 .. n, S)
  <2>1. f \in Injection(1 .. n, S)
    BY <1>2 DEF Injection
  <2>2. Cardinality(1 .. n) = n
    BY <1>1, FS_Interval
  <2> QED
    BY <2>1, <2>2, FS_Injection
<1>5. ToSet(f) = S
  BY <1>2, <1>4 DEF Surjection, ToSet
<1> QED
  BY <1>2, <1>3, <1>5

\* The sequence of nothing, and that of one thing.
LEMMA SetToSeqSmall ==
  /\ SetToSeq({}) = <<>>
  /\ \A x : SetToSeq({x}) = <<x>>
<1>1. SetToSeq({}) = <<>>
  BY FS_EmptySet, SetToSeqOf
<1>2. ASSUME NEW x PROVE SetToSeq({x}) = <<x>>
  <2>1. SetToSeq({x}) \in Seq({x}) /\ Len(SetToSeq({x})) = 1
    BY FS_Singleton, SetToSeqOf
  <2> QED
    BY <2>1
<1> QED
  BY <1>1, <1>2

\* A sequence over a set is one over any larger set.
LEMMA SeqWiden ==
  ASSUME NEW S, NEW T, S \subseteq T, NEW s \in Seq(S)
  PROVE  s \in Seq(T)
OBVIOUS

\* What is in two sequences is in the one after the other.
LEMMA ToSetConcat ==
  ASSUME NEW S, NEW s \in Seq(S), NEW t \in Seq(S)
  PROVE  ToSet(s \o t) = ToSet(s) \union ToSet(t)
<1>1. ASSUME NEW i \in DOMAIN (s \o t) PROVE (s \o t)[i] \in ToSet(s) \union ToSet(t)
  BY DEF ToSet
<1>2. ASSUME NEW i \in DOMAIN s PROVE i \in DOMAIN (s \o t) /\ (s \o t)[i] = s[i]
  OBVIOUS
<1>3. ASSUME NEW i \in DOMAIN t
      PROVE  Len(s) + i \in DOMAIN (s \o t) /\ (s \o t)[Len(s) + i] = t[i]
  OBVIOUS
<1>4. ToSet(s) \subseteq ToSet(s \o t)
  BY <1>2 DEF ToSet
<1>5. ToSet(t) \subseteq ToSet(s \o t)
  BY <1>3 DEF ToSet
<1>6. ToSet(s \o t) \subseteq ToSet(s) \union ToSet(t)
  <2> SUFFICES ASSUME NEW x \in ToSet(s \o t) PROVE x \in ToSet(s) \union ToSet(t)
    OBVIOUS
  <2>1. PICK i \in DOMAIN (s \o t) : x = (s \o t)[i]
    BY DEF ToSet
  <2> QED
    BY <1>1, <2>1
<1> QED
  BY <1>4, <1>5, <1>6

\* Nothing, or one thing, after a sequence.
LEMMA ConcatSmall ==
  ASSUME NEW S, NEW s \in Seq(S)
  PROVE  s \o <<>> = s /\ \A x : s \o <<x>> = Append(s, x)
<1>1. s \o <<>> = s
  OBVIOUS
<1>2. ASSUME NEW x PROVE s \o <<x>> = Append(s, x)
  <2> DEFINE T == S \union {x}
  <2>1. s \in Seq(T) /\ x \in T
    <3>1. S \subseteq T /\ x \in T
      OBVIOUS
    <3> HIDE DEF T
    <3> QED
      BY <3>1, SeqWiden
  <2> HIDE DEF T
  <2> QED
    BY <2>1
<1> QED
  BY <1>1, <1>2

\* One more at the end.
LEMMA AppendFacts ==
  ASSUME NEW S, NEW s \in Seq(S), NEW x
  PROVE  /\ Append(s, x) \in Seq(S \union {x})
         /\ DOMAIN s = 1 .. Len(s) /\ DOMAIN Append(s, x) = 1 .. Len(s) + 1 /\ Len(s) \in Nat
         /\ Append(s, x)[Len(s) + 1] = x
         /\ \A i \in DOMAIN s : Append(s, x)[i] = s[i]
<1> DEFINE T == S \union {x}
<1>1. s \in Seq(T) /\ x \in T
  <2>1. S \subseteq T /\ x \in T
    OBVIOUS
  <2> HIDE DEF T
  <2> QED
    BY <2>1, SeqWiden
<1> HIDE DEF T
<1>2. Append(s, x) \in Seq(T)
  BY <1>1
<1> QED
  BY <1>1, <1>2 DEF T

\* It is one thing more.
LEMMA AppendToSet ==
  ASSUME NEW S, NEW s \in Seq(S), NEW x
  PROVE  ToSet(Append(s, x)) = ToSet(s) \union {x}
<1> DEFINE t == Append(s, x)
<1>1. /\ DOMAIN s = 1 .. Len(s) /\ DOMAIN t = 1 .. Len(s) + 1 /\ Len(s) \in Nat
      /\ t[Len(s) + 1] = x
      /\ \A i \in DOMAIN s : t[i] = s[i]
  BY AppendFacts
<1>2. \A i \in DOMAIN t : i \in DOMAIN s \/ i = Len(s) + 1
  BY <1>1
<1>3. \A i \in DOMAIN s : i \in DOMAIN t
  BY <1>1
<1>4. Len(s) + 1 \in DOMAIN t
  BY <1>1
<1> HIDE DEF t
<1>5. ToSet(t) = ToSet(s) \union {x}
  BY <1>1, <1>2, <1>3, <1>4 DEF ToSet
<1> QED
  BY <1>5 DEF t

\* Every sequence is one over what it holds.
LEMMA SeqOfOwn ==
  ASSUME NEW S, NEW s \in Seq(S)
  PROVE  s \in Seq(ToSet(s)) /\ ToSet(s) \subseteq S
<1>1. \A i \in 1 .. Len(s) : s[i] \in ToSet(s) /\ s[i] \in S
  BY DEF ToSet
<1> QED
  BY <1>1 DEF ToSet

----------------------------------------------------------------------------
(* Sequences of sequences *)

\* f pairs each member of A with one of B and leaves none out.
Pairs(f, A, B) ==
  /\ f \in [A -> B]
  /\ \A x, y \in A : f[x] = f[y] => x = y
  /\ \A b \in B : \E x \in A : f[x] = b

\* Where a sequence of sequences has a member, and the order of such places.
PlacesOf(ss) == UNION {{k} \X DOMAIN ss[k] : k \in DOMAIN ss}

Earlier(p, q) == p[1] < q[1] \/ (p[1] = q[1] /\ p[2] < q[2])

\* F is what P holds of ss, in order; f tells from where.
Unfolds(F, ss, P, f) ==
  /\ Pairs(f, DOMAIN F, P)
  /\ \A x \in DOMAIN F : F[x] = ss[f[x][1]][f[x][2]]
  /\ \A x, y \in DOMAIN F : x < y => Earlier(f[x], f[y])

\* As many there as here.
LEMMA PairsCount ==
  ASSUME NEW A, NEW B, NEW f, Pairs(f, A, B), IsFiniteSet(A)
  PROVE  IsFiniteSet(B) /\ Cardinality(B) = Cardinality(A)
<1>1. f \in Bijection(A, B)
  <2>1. f \in Injection(A, B)
    BY DEF Pairs, Injection, IsInjective
  <2>2. f \in Surjection(A, B)
    BY DEF Pairs, Surjection
  <2> QED
    BY <2>1, <2>2 DEF Bijection
<1>2. ExistsBijection(A, B)
  BY <1>1 DEF ExistsBijection
<1> QED
  BY <1>2, FS_Bijection

\* FlattenSeq appends one after the other: the recursion defines a function.
LEMMA FlattenRecursion ==
  ASSUME NEW S, NEW ss \in Seq(S), Len(ss) # 0
  PROVE  \E g : /\ g = [i \in 1 .. Len(ss) |-> IF i = 1 THEN ss[i] ELSE g[i - 1] \o ss[i]]
                /\ FlattenSeq(ss) = g[Len(ss)]
<1> DEFINE Upto(k, g) == g = [i \in 1 .. k |-> IF i = 1 THEN ss[i] ELSE g[i - 1] \o ss[i]]
           T == {k \in Nat : \E g : Upto(k, g)}
<1>1. 0 \in T
  <2>1. Upto(0, [i \in 1 .. 0 |-> <<>>])
    OBVIOUS
  <2> QED
    BY <2>1
<1>2. ASSUME NEW k \in Nat, k \in T PROVE k + 1 \in T
  <2>1. PICK g : Upto(k, g)
    BY <1>2
  <2> DEFINE last == IF k = 0 THEN ss[1] ELSE g[k] \o ss[k + 1]
             h == [i \in 1 .. k + 1 |-> IF i = k + 1 THEN last ELSE g[i]]
  <2>2. \A i \in 1 .. k + 1 : h[i] = IF i = 1 THEN ss[i] ELSE h[i - 1] \o ss[i]
    <3> SUFFICES ASSUME NEW i \in 1 .. k + 1
                 PROVE  h[i] = IF i = 1 THEN ss[i] ELSE h[i - 1] \o ss[i]
      OBVIOUS
    <3>1. CASE i = k + 1 /\ k = 0
      BY <3>1
    <3>2. CASE i = k + 1 /\ k # 0
      <4>1. k \in 1 .. k + 1 /\ k # k + 1 /\ i - 1 = k /\ i # 1
        BY <3>2
      <4>2. h[k] = g[k]
        BY <4>1
      <4> QED
        BY <3>2, <4>1, <4>2
    <3>3. CASE i # k + 1 /\ i # 1
      <4>1. i \in 1 .. k /\ i - 1 \in 1 .. k + 1 /\ i - 1 # k + 1
        BY <3>3
      <4>2. h[i] = g[i] /\ h[i - 1] = g[i - 1]
        BY <3>3, <4>1
      <4>3. g[i] = g[i - 1] \o ss[i]
        BY <2>1, <3>3, <4>1
      <4> QED
        BY <3>3, <4>2, <4>3
    <3>4. CASE i # k + 1 /\ i = 1
      BY <2>1, <3>4
    <3> QED
      BY <3>1, <3>2, <3>3, <3>4
  <2>3. Upto(k + 1, h)
    BY <2>2
  <2>4. \E f : Upto(k + 1, f)
    <3> HIDE DEF Upto, h
    <3> QED
      BY <2>3
  <2> QED
    <3> HIDE DEF Upto
    <3> QED
      BY <2>4
<1>3. Len(ss) \in T
  <2> HIDE DEF T
  <2> QED
    BY <1>1, <1>2, Induction
<1>4. PICK g : Upto(Len(ss), g)
  BY <1>3
<1> DEFINE flat == CHOOSE f : Upto(Len(ss), f)
<1>5. Upto(Len(ss), flat)
  BY <1>4
<1>6. FlattenSeq(ss) = flat[Len(ss)]
  BY DEF FlattenSeq
<1> QED
  BY <1>5, <1>6

\* What comes after the first n, appended.
LEMMA UnfoldsMore ==
  ASSUME NEW S, NEW ss, NEW n \in Nat, NEW s \in Seq(S), NEW t \in Seq(S), ss[n + 1] = t,
         NEW P, P \subseteq (1 .. n) \X Nat, NEW f, Unfolds(s, ss, P, f)
  PROVE  \E h : Unfolds(s \o t, ss, P \union ({n + 1} \X DOMAIN t), h)
<1> DEFINE m == Len(s)
           u == s \o t
           Q == P \union ({n + 1} \X DOMAIN t)
           h == [x \in DOMAIN u |-> IF x \in DOMAIN s THEN f[x] ELSE <<n + 1, x - m>>]
<1>1. /\ m \in Nat /\ Len(t) \in Nat /\ DOMAIN s = 1 .. m /\ DOMAIN t = 1 .. Len(t)
      /\ DOMAIN u = 1 .. m + Len(t)
      /\ \A x \in DOMAIN s : u[x] = s[x]
      /\ \A x \in DOMAIN t : u[m + x] = t[x]
  OBVIOUS
<1>2. ASSUME NEW x \in DOMAIN u, x \notin DOMAIN s
      PROVE  x - m \in DOMAIN t /\ m + (x - m) = x /\ u[x] = t[x - m]
  <2>1. x - m \in DOMAIN t /\ m + (x - m) = x
    BY <1>1, <1>2
  <2> QED
    BY <1>1, <2>1
<1> HIDE DEF u, m
<1>3. \A x \in DOMAIN s : x \in DOMAIN u /\ h[x] = f[x] /\ f[x] \in P
  BY <1>1 DEF Unfolds, Pairs
<1>4. \A x \in DOMAIN u : x \notin DOMAIN s =>
         h[x] = <<n + 1, x - m>> /\ h[x] \in {n + 1} \X DOMAIN t
  BY <1>2
<1>5. \A p \in P : p[1] \in 1 .. n /\ p[1] # n + 1
  OBVIOUS
<1>6. h \in [DOMAIN u -> Q]
  BY <1>3, <1>4
<1>7. \A x, y \in DOMAIN u : h[x] = h[y] => x = y
  <2> SUFFICES ASSUME NEW x \in DOMAIN u, NEW y \in DOMAIN u, h[x] = h[y] PROVE x = y
    OBVIOUS
  <2>1. CASE x \in DOMAIN s /\ y \in DOMAIN s
    BY <1>3, <2>1 DEF Unfolds, Pairs
  <2>2. CASE x \notin DOMAIN s /\ y \notin DOMAIN s
    <3>1. x - m = y - m
      BY <1>4, <2>2
    <3> QED
      BY <1>1, <3>1
  <2>3. CASE x \in DOMAIN s /\ y \notin DOMAIN s
    BY <1>3, <1>4, <1>5, <2>3
  <2>4. CASE x \notin DOMAIN s /\ y \in DOMAIN s
    BY <1>3, <1>4, <1>5, <2>4
  <2> QED
    BY <2>1, <2>2, <2>3, <2>4
<1>8. \A q \in Q : \E x \in DOMAIN u : h[x] = q
  <2> SUFFICES ASSUME NEW q \in Q PROVE \E x \in DOMAIN u : h[x] = q
    OBVIOUS
  <2>1. CASE q \in P
    BY <1>3, <2>1 DEF Unfolds, Pairs
  <2>2. CASE q \in {n + 1} \X DOMAIN t
    <3>1. PICK i \in DOMAIN t : q = <<n + 1, i>>
      BY <2>2
    <3>2. m + i \in DOMAIN u /\ m + i \notin DOMAIN s /\ (m + i) - m = i
      BY <1>1
    <3> QED
      BY <1>4, <3>1, <3>2
  <2> QED
    BY <2>1, <2>2
<1>9. \A x \in DOMAIN u : u[x] = ss[h[x][1]][h[x][2]]
  <2> SUFFICES ASSUME NEW x \in DOMAIN u PROVE u[x] = ss[h[x][1]][h[x][2]]
    OBVIOUS
  <2>1. CASE x \in DOMAIN s
    BY <1>1, <1>3, <2>1 DEF Unfolds
  <2>2. CASE x \notin DOMAIN s
    BY <1>2, <1>4, <2>2
  <2> QED
    BY <2>1, <2>2
<1>10. \A x, y \in DOMAIN u : x < y => Earlier(h[x], h[y])
  <2> SUFFICES ASSUME NEW x \in DOMAIN u, NEW y \in DOMAIN u, x < y PROVE Earlier(h[x], h[y])
    OBVIOUS
  <2>1. CASE y \in DOMAIN s
    <3>1. x \in DOMAIN s
      BY <1>1, <2>1
    <3> QED
      BY <1>3, <2>1, <3>1 DEF Unfolds
  <2>2. CASE x \in DOMAIN s /\ y \notin DOMAIN s
    <3>1. h[x][1] \in 1 .. n /\ h[y][1] = n + 1
      BY <1>3, <1>4, <1>5, <2>2
    <3>2. h[x][1] < h[y][1]
      BY <3>1
    <3> QED
      BY <3>2 DEF Earlier
  <2>3. CASE x \notin DOMAIN s /\ y \notin DOMAIN s
    <3>1. h[x] = <<n + 1, x - m>> /\ h[y] = <<n + 1, y - m>>
      BY <1>4, <2>3
    <3>2. x - m < y - m
      BY <1>1
    <3> QED
      BY <3>1, <3>2 DEF Earlier
  <2> QED
    BY <1>1, <2>1, <2>2, <2>3
<1>11. Unfolds(u, ss, Q, h)
  <2> HIDE DEF h, Q
  <2> QED
    BY <1>6, <1>7, <1>8, <1>9, <1>10 DEF Unfolds, Pairs
<1> QED
  <2> HIDE DEF h
  <2> QED
    BY <1>11 DEF u

\* The members of FlattenSeq are those of the sequences, in order, each once.
LEMMA FlattenUnfolds ==
  ASSUME NEW S, NEW ss \in Seq(Seq(S))
  PROVE  /\ FlattenSeq(ss) \in Seq(S)
         /\ \E f : Unfolds(FlattenSeq(ss), ss, PlacesOf(ss), f)
<1> DEFINE Held(n) == UNION {{k} \X DOMAIN ss[k] : k \in 1 .. n}
<1>1. CASE Len(ss) = 0
  <2>1. ss = <<>> /\ FlattenSeq(ss) = <<>>
    BY <1>1 DEF FlattenSeq
  <2>2. PlacesOf(ss) = {}
    BY <2>1 DEF PlacesOf
  <2>3. Unfolds(<<>>, ss, {}, <<>>)
    BY DEF Unfolds, Pairs
  <2>4. <<>> \in Seq(S)
    OBVIOUS
  <2> QED
    BY <2>1, <2>2, <2>3, <2>4
<1>2. CASE Len(ss) # 0
  <2>1. PICK g : /\ g = [i \in 1 .. Len(ss) |-> IF i = 1 THEN ss[i] ELSE g[i - 1] \o ss[i]]
                 /\ FlattenSeq(ss) = g[Len(ss)]
    BY <1>2, FlattenRecursion
  <2> DEFINE Good(n) == g[n] \in Seq(S) /\ \E f : Unfolds(g[n], ss, Held(n), f)
             T == {n \in Nat : n + 1 <= Len(ss) => Good(n + 1)}
  <2>2. \A n \in 1 .. Len(ss) : ss[n] \in Seq(S)
    OBVIOUS
  <2>3. 0 \in T
    <3>1. 1 \in 1 .. Len(ss)
      BY <1>2
    <3>2. g[1] = ss[1] /\ ss[1] \in Seq(S)
      BY <2>1, <2>2, <3>1
    <3>3. Held(1) = {1} \X DOMAIN ss[1]
      OBVIOUS
    <3> DEFINE f == [x \in DOMAIN ss[1] |-> <<1, x>>]
    <3>4. Unfolds(ss[1], ss, {1} \X DOMAIN ss[1], f)
      <4>1. Pairs(f, DOMAIN ss[1], {1} \X DOMAIN ss[1])
        BY DEF Pairs
      <4> QED
        BY <4>1 DEF Unfolds, Earlier
    <3>5. \E h : Unfolds(g[1], ss, Held(1), h)
      <4> HIDE DEF f, Held
      <4> QED
        BY <3>2, <3>3, <3>4
    <3>6. Good(1)
      BY <3>2, <3>5
    <3> QED
      <4> HIDE DEF Good
      <4> QED
        BY <3>6
  <2>4. ASSUME NEW m \in Nat, m # 0, m + 1 <= Len(ss), Good(m) PROVE Good(m + 1)
    <3>1. m + 1 \in 1 .. Len(ss) /\ m + 1 # 1 /\ (m + 1) - 1 = m
      BY <2>4
    <3>2. g[m + 1] = g[m] \o ss[m + 1]
      BY <2>1, <3>1
    <3>3. g[m] \in Seq(S) /\ ss[m + 1] \in Seq(S)
      BY <2>2, <2>4, <3>1
    <3>4. PICK f : Unfolds(g[m], ss, Held(m), f)
      BY <2>4
    <3>5. Held(m) \subseteq (1 .. m) \X Nat
      <4>1. \A k \in 1 .. m : ss[k] \in Seq(S)
        BY <2>2, <3>1
      <4>2. \A k \in 1 .. m : DOMAIN ss[k] \subseteq Nat
        BY <4>1
      <4> QED
        BY <4>2
    <3>6. Held(m + 1) = Held(m) \union ({m + 1} \X DOMAIN ss[m + 1])
      <4>1. 1 .. m + 1 = (1 .. m) \union {m + 1}
        BY <3>1
      <4> QED
        BY <4>1
    <3> HIDE DEF Held
    <3>7. \E h : Unfolds(g[m] \o ss[m + 1], ss, Held(m) \union ({m + 1} \X DOMAIN ss[m + 1]), h)
      BY <3>1, <3>3, <3>4, <3>5, UnfoldsMore
    <3>8. \E h : Unfolds(g[m + 1], ss, Held(m + 1), h)
      BY <3>2, <3>6, <3>7
    <3>9. g[m + 1] \in Seq(S)
      BY <3>2, <3>3
    <3> QED
      BY <3>8, <3>9
  <2>5. Len(ss) - 1 \in T
    <3>1. ASSUME NEW n \in Nat, n \in T PROVE n + 1 \in T
      <4>1. n + 1 \in Nat /\ n + 1 # 0 /\ (n + 1) + 1 <= Len(ss) => n + 1 <= Len(ss)
        OBVIOUS
      <4> HIDE DEF Good
      <4>2. (n + 1) + 1 <= Len(ss) => Good(n + 1)
        BY <3>1, <4>1
      <4> QED
        BY <2>4, <4>1, <4>2
    <3>2. Len(ss) - 1 \in Nat
      BY <1>2
    <3> HIDE DEF T
    <3> QED
      BY <2>3, <3>1, <3>2, Induction
  <2>6. Good(Len(ss))
    <3>1. Len(ss) - 1 \in Nat /\ (Len(ss) - 1) + 1 = Len(ss)
      BY <1>2
    <3> HIDE DEF Good
    <3> QED
      BY <2>5, <3>1
  <2>7. Held(Len(ss)) = PlacesOf(ss)
    BY DEF PlacesOf
  <2> QED
    BY <2>1, <2>6, <2>7
<1> QED
  BY <1>1, <1>2

----------------------------------------------------------------------------
(* Picked and Distinct *)

\* t is what is at the places I of s, in order; g tells from where.
Follows(t, s, I, g) ==
    /\ Pairs(g, DOMAIN t, I)
    /\ \A x \in DOMAIN t : t[x] = s[g[x]]
    /\ \A x, y \in DOMAIN t : x < y => g[x] < g[y]

\* A place is the number of a sequence and one in it.
LEMMA PlaceIs ==
    ASSUME NEW ss, NEW p
    PROVE  p \in PlacesOf(ss) <=> \E k \in DOMAIN ss : \E i \in DOMAIN ss[k] : p = <<k, i>>
BY DEF PlacesOf

\* Picked keeps the given places, in order.
LEMMA PickedFacts ==
    ASSUME NEW S, NEW s \in Seq(S), NEW I \in SUBSET DOMAIN s
    PROVE  /\ Picked(s, I) \in Seq(S)
           /\ \E g : Follows(Picked(s, I), s, I, g)
<1> DEFINE ss == [n \in DOMAIN s |-> IF n \in I THEN <<s[n]>> ELSE <<>>]
           t == Picked(s, I)
<1>1. t = FlattenSeq(ss)
  BY DEF Picked
<1>2. ss \in Seq(Seq(S))
  <2>1. \A n \in DOMAIN s : (IF n \in I THEN <<s[n]>> ELSE <<>>) \in Seq(S)
    OBVIOUS
  <2>2. Len(s) \in Nat /\ DOMAIN s = 1 .. Len(s)
    OBVIOUS
  <2> QED
    BY <2>1, <2>2
<1> HIDE DEF t
<1>3. PICK f : t \in Seq(S) /\ Unfolds(t, ss, PlacesOf(ss), f)
  BY <1>1, <1>2, FlattenUnfolds
<1>4. PlacesOf(ss) = I \X {1}
  <2>1. DOMAIN ss = DOMAIN s
    OBVIOUS
  <2>2. \A n \in DOMAIN s : \A i : i \in DOMAIN ss[n] <=> n \in I /\ i = 1
    OBVIOUS
  <2> HIDE DEF ss
  <2>3. ASSUME NEW p PROVE p \in PlacesOf(ss) <=> p \in I \X {1}
    BY <2>1, <2>2, PlaceIs
  <2> QED
    BY <2>3
<1> DEFINE g == [x \in DOMAIN t |-> f[x][1]]
<1>5. /\ f \in [DOMAIN t -> I \X {1}]
      /\ \A x, y \in DOMAIN t : f[x] = f[y] => x = y
      /\ \A n \in I : \E x \in DOMAIN t : f[x] = <<n, 1>>
  BY <1>3, <1>4 DEF Unfolds, Pairs
<1>6. \A x \in DOMAIN t : g[x] \in I /\ f[x] = <<g[x], 1>>
  BY <1>5
<1>7. Pairs(g, DOMAIN t, I)
  <2>1. \A x, y \in DOMAIN t : g[x] = g[y] => x = y
    BY <1>5, <1>6
  <2>2. \A n \in I : \E x \in DOMAIN t : g[x] = n
    BY <1>5
  <2> QED
    BY <1>6, <2>1, <2>2 DEF Pairs
<1>8. \A x \in DOMAIN t : t[x] = s[g[x]]
  <2> SUFFICES ASSUME NEW x \in DOMAIN t PROVE t[x] = s[g[x]]
    OBVIOUS
  <2>1. t[x] = ss[f[x][1]][f[x][2]]
    BY <1>3 DEF Unfolds
  <2>2. f[x][1] = g[x] /\ f[x][2] = 1 /\ g[x] \in I
    BY <1>6
  <2>3. ss[g[x]] = <<s[g[x]]>>
    BY <2>2
  <2> QED
    BY <2>1, <2>2, <2>3
<1>9. \A x, y \in DOMAIN t : x < y => g[x] < g[y]
  <2> SUFFICES ASSUME NEW x \in DOMAIN t, NEW y \in DOMAIN t, x < y PROVE g[x] < g[y]
    OBVIOUS
  <2>1. Earlier(f[x], f[y])
    BY <1>3 DEF Unfolds
  <2>2. f[x] = <<g[x], 1>> /\ f[y] = <<g[y], 1>>
    BY <1>6
  <2> QED
    BY <2>1, <2>2 DEF Earlier
<1>10. Follows(t, s, I, g)
  BY <1>7, <1>8, <1>9 DEF Follows
<1> QED
  BY <1>3, <1>10 DEF t

\* Where a value of a sequence is first.
Firsts(s) == {n \in DOMAIN s : \A j \in 1 .. n - 1 : s[j] # s[n]}

\* Each value has a first place.
LEMMA FirstPlace ==
    ASSUME NEW S, NEW s \in Seq(S), NEW n \in DOMAIN s
    PROVE  \E m \in Firsts(s) : s[m] = s[n] /\ m <= n
<1> DEFINE Good(b) == \A k \in DOMAIN s : k <= b => \E m \in Firsts(s) : s[m] = s[k] /\ m <= k
           T == {b \in Nat : Good(b)}
<1>0. DOMAIN s = 1 .. Len(s) /\ Len(s) \in Nat
  OBVIOUS
<1>1. Good(0)
  BY <1>0
<1>2. ASSUME NEW b \in Nat, Good(b) PROVE Good(b + 1)
  <2> SUFFICES ASSUME NEW k \in DOMAIN s, k = b + 1
               PROVE  \E m \in Firsts(s) : s[m] = s[k] /\ m <= k
    BY <1>0, <1>2
  <2>1. CASE k \in Firsts(s)
    BY <2>1, <1>0
  <2>2. CASE k \notin Firsts(s)
    <3>1. PICK j \in 1 .. k - 1 : s[j] = s[k]
      BY <2>2 DEF Firsts
    <3>2. j \in DOMAIN s /\ j <= b
      BY <1>0
    <3>3. PICK m \in Firsts(s) : s[m] = s[j] /\ m <= j
      BY <1>2, <3>2
    <3>4. m \in DOMAIN s
      BY DEF Firsts
    <3> QED
      BY <3>1, <3>3, <3>4, <1>0
  <2> QED
    BY <2>1, <2>2
<1> HIDE DEF Good
<1>3. Nat \subseteq T
  <2>1. 0 \in T /\ \A b \in Nat : b \in T => b + 1 \in T
    BY <1>1, <1>2
  <2> HIDE DEF T
  <2> QED
    BY <2>1, Induction
<1>4. Good(n)
  BY <1>0, <1>3
<1> QED
  BY <1>4, <1>0 DEF Good

\* Distinct has each value once, in the order of their first places.
LEMMA DistinctFacts ==
    ASSUME NEW S, NEW s \in Seq(S)
    PROVE  /\ Distinct(s) \in Seq(S)
           /\ ToSet(Distinct(s)) = ToSet(s)
           /\ \A a, b \in DOMAIN Distinct(s) : Distinct(s)[a] = Distinct(s)[b] => a = b
           /\ \A a, b \in DOMAIN Distinct(s) : a < b =>
                \E i \in DOMAIN s : /\ s[i] = Distinct(s)[a]
                                    /\ \A j \in DOMAIN s : s[j] = Distinct(s)[b] => i < j
<1> DEFINE d == Distinct(s)
<1>0. DOMAIN s = 1 .. Len(s) /\ Len(s) \in Nat
  OBVIOUS
<1>1. d = Picked(s, Firsts(s)) /\ Firsts(s) \in SUBSET DOMAIN s
  BY DEF Distinct, Firsts
<1> HIDE DEF d
<1>2. PICK g : d \in Seq(S) /\ Follows(d, s, Firsts(s), g)
  BY <1>1, PickedFacts
<1>3. /\ \A x \in DOMAIN d : g[x] \in Firsts(s) /\ d[x] = s[g[x]]
      /\ \A x, y \in DOMAIN d : g[x] = g[y] => x = y
      /\ \A m \in Firsts(s) : \E x \in DOMAIN d : g[x] = m
      /\ \A x, y \in DOMAIN d : x < y => g[x] < g[y]
  BY <1>2 DEF Follows, Pairs
<1>4. \A m, n \in Firsts(s) : s[m] = s[n] => m = n
  <2> SUFFICES ASSUME NEW m \in Firsts(s), NEW n \in Firsts(s), s[m] = s[n], m < n PROVE FALSE
    BY <1>0 DEF Firsts
  <2> QED
    BY <1>0 DEF Firsts
<1>5. ToSet(d) = ToSet(s)
  <2>1. ASSUME NEW n \in DOMAIN s PROVE \E x \in DOMAIN d : d[x] = s[n]
    <3>1. PICK m \in Firsts(s) : s[m] = s[n]
      BY FirstPlace
    <3> QED
      BY <3>1, <1>3
  <2>2. \A x \in DOMAIN d : \E n \in DOMAIN s : d[x] = s[n]
    BY <1>3 DEF Firsts
  <2> QED
    BY <2>1, <2>2 DEF ToSet
<1>6. \A a, b \in DOMAIN d : d[a] = d[b] => a = b
  BY <1>3, <1>4
<1>7. ASSUME NEW a \in DOMAIN d, NEW b \in DOMAIN d, a < b
      PROVE  \E i \in DOMAIN s : s[i] = d[a] /\ \A j \in DOMAIN s : s[j] = d[b] => i < j
  <2>1. g[a] \in DOMAIN s /\ g[b] \in DOMAIN s /\ s[g[a]] = d[a] /\ s[g[b]] = d[b] /\ g[a] < g[b]
    BY <1>3, <1>7 DEF Firsts
  <2>2. ASSUME NEW j \in DOMAIN s, s[j] = d[b] PROVE g[a] < j
    <3>1. PICK m \in Firsts(s) : s[m] = s[j] /\ m <= j
      BY FirstPlace
    <3>2. m = g[b]
      BY <3>1, <2>1, <2>2, <1>3, <1>4
    <3> QED
      BY <3>1, <3>2, <2>1, <1>0
  <2> QED
    BY <2>1, <2>2
<1> QED
  BY <1>2, <1>5, <1>6, <1>7 DEF d

----------------------------------------------------------------------------
(* Recursive functions, sums and maxima *)

\* The same up to a number.
LEMMA UpTo ==
  ASSUME NEW S, NEW N \in Nat, 0 \in S, \A n \in 0 .. N - 1 : n \in S => n + 1 \in S
  PROVE  0 .. N \subseteq S
<1> DEFINE T == {n \in Nat : n <= N => n \in S}
<1>1. 0 \in T
  OBVIOUS
<1>2. ASSUME NEW n \in Nat, n \in T PROVE n + 1 \in T
  BY <1>2
<1> HIDE DEF T
<1>3. Nat \subseteq T
  BY <1>1, <1>2, Induction
<1> QED
  BY <1>3 DEF T

\* f starts with a, and step n takes it to what G[n] makes of it.
Iterates(f, N, X, a, G) ==
  f \in [0 .. N -> X] /\ f[0] = a /\ \A n \in 1 .. N : f[n] = G[n][f[n - 1]]

\* A recursion over 1 .. N whose steps stay in X defines a function.
LEMMA Recursion ==
  ASSUME NEW N \in Nat, NEW X, NEW a \in X, NEW G \in [1 .. N -> [X -> X]]
  PROVE  \E f : Iterates(f, N, X, a, G)
<1> DEFINE Upto(k, f) == f[0] = a /\ \A n \in 1 .. k : f[n] = G[n][f[n - 1]]
           T == {k \in Nat : \E f \in [0 .. k -> X] : Upto(k, f)}
<1>1. 0 \in T
  <2> DEFINE f == [n \in 0 .. 0 |-> a]
  <2>1. f \in [0 .. 0 -> X] /\ Upto(0, f)
    OBVIOUS
  <2> HIDE DEF f, Upto
  <2> QED
    BY <2>1
<1>2. ASSUME NEW k \in 0 .. N - 1, k \in T PROVE k + 1 \in T
  <2>1. PICK f \in [0 .. k -> X] : Upto(k, f)
    BY <1>2
  <2> DEFINE h == [n \in 0 .. k + 1 |-> IF n = k + 1 THEN G[k + 1][f[k]] ELSE f[n]]
  <2>2. G[k + 1] \in [X -> X] /\ f[k] \in X
    OBVIOUS
  <2>3. h \in [0 .. k + 1 -> X]
    BY <2>2
  <2>4. h[0] = a
    BY <2>1
  <2>5. ASSUME NEW n \in 1 .. k + 1 PROVE h[n] = G[n][h[n - 1]]
    <3>1. n - 1 \in 0 .. k + 1 /\ n - 1 # k + 1 /\ h[n - 1] = f[n - 1]
      OBVIOUS
    <3>2. CASE n = k + 1
      BY <3>1, <3>2
    <3>3. CASE n # k + 1
      BY <2>1, <3>1, <3>3
    <3> QED
      BY <3>2, <3>3
  <2>6. Upto(k + 1, h)
    <3> HIDE DEF h
    <3> QED
      BY <2>4, <2>5
  <2> HIDE DEF h, Upto
  <2> QED
    BY <2>3, <2>6
<1>3. 0 .. N \subseteq T
  <2> HIDE DEF T
  <2> QED
    BY <1>1, <1>2, UpTo
<1>4. PICK f \in [0 .. N -> X] : Upto(N, f)
  BY <1>3
<1> QED
  BY <1>4 DEF Iterates

\* A sum of integers is one, of zeros zero.
LEMMA SumFacts ==
  ASSUME NEW s \in Seq(Int)
  PROVE  /\ Sum(s) \in Int
         /\ (\A i \in DOMAIN s : s[i] = 0) => Sum(s) = 0
<1> DEFINE N == Len(s)
           Adds(f) == f = [n \in 0 .. N |-> IF n = 0 THEN 0 ELSE f[n - 1] + s[n]]
           G == [n \in 1 .. N |-> [x \in Int |-> x + s[n]]]
           total == CHOOSE f : Adds(f)
<1>1. N \in Nat /\ 0 \in Int /\ DOMAIN s = 1 .. N /\ \A n \in 1 .. N : s[n] \in Int
  OBVIOUS
<1>2. G \in [1 .. N -> [Int -> Int]]
  BY <1>1
<1>3. PICK f \in [0 .. N -> Int] : f[0] = 0 /\ \A n \in 1 .. N : f[n] = G[n][f[n - 1]]
  <2> DEFINE X == Int
  <2>1. 0 \in X /\ G \in [1 .. N -> [X -> X]]
    BY <1>2
  <2> HIDE DEF N, G, X
  <2>2. \E f : Iterates(f, N, X, 0, G)
    BY <1>1, <2>1, Recursion
  <2>3. PICK f : Iterates(f, N, X, 0, G)
    BY <2>2
  <2> QED
    BY <2>3 DEF X, Iterates
<1>4. Adds(f)
  <2> SUFFICES ASSUME NEW n \in 0 .. N PROVE f[n] = IF n = 0 THEN 0 ELSE f[n - 1] + s[n]
    OBVIOUS
  <2>1. CASE n # 0
    <3>1. n \in 1 .. N /\ f[n - 1] \in Int
      BY <1>1, <2>1
    <3> QED
      BY <1>3, <2>1, <3>1
  <2> QED
    BY <1>3, <2>1
<1>5. Adds(total)
  <2> HIDE DEF Adds
  <2> QED
    BY <1>4
<1>6. Sum(s) = total[N]
  BY DEF Sum
<1> HIDE DEF total
<1>7. total[0] = 0 /\ \A n \in 1 .. N : total[n] = total[n - 1] + s[n]
  <2>1. 0 \in 0 .. N /\ \A n \in 1 .. N : n \in 0 .. N /\ n # 0
    BY <1>1
  <2> HIDE DEF N
  <2> QED
    BY <1>5, <2>1
<1> DEFINE T == {n \in 0 .. N : total[n] \in Int}
           Z == {n \in 0 .. N : total[n] = 0}
<1>8. N \in T
  <2>1. 0 \in T /\ \A n \in 0 .. N - 1 : n \in T => n + 1 \in T
    <3> HIDE DEF N
    <3> QED
      BY <1>1, <1>7
  <2> HIDE DEF T, N
  <2>2. 0 .. N \subseteq T
    BY <1>1, <2>1, UpTo
  <2> QED
    BY <1>1, <2>2
<1>9. ASSUME \A i \in DOMAIN s : s[i] = 0 PROVE N \in Z
  <2>1. 0 \in Z /\ \A n \in 0 .. N - 1 : n \in Z => n + 1 \in Z
    <3> HIDE DEF N
    <3>1. \A n \in 1 .. N : s[n] = 0
      BY <1>1, <1>9
    <3>2. ASSUME NEW n \in 0 .. N - 1, total[n] = 0 PROVE total[n + 1] = 0
      <4>1. n + 1 \in 1 .. N /\ (n + 1) - 1 = n
        BY <1>1
      <4>2. total[n + 1] = total[n] + s[n + 1]
        BY <1>7, <4>1
      <4> QED
        BY <3>1, <3>2, <4>1, <4>2
    <3> QED
      BY <1>1, <1>7, <3>2
  <2> HIDE DEF Z, N
  <2>2. 0 .. N \subseteq Z
    BY <1>1, <2>1, UpTo
  <2> QED
    BY <1>1, <2>2
<1> QED
  BY <1>6, <1>8, <1>9

\* Some number among those up to N is the largest.
LEMMA MaxFacts ==
  ASSUME NEW N \in Nat, NEW M, M \subseteq 0 .. N, M # {}
  PROVE  Max(M) \in M /\ \A m \in M : Max(M) >= m
<1> DEFINE T == {n \in 0 .. N : (\E m \in M : m >= N - n) => \E x \in M : \A m \in M : x >= m}
<1>1. 0 \in T
  OBVIOUS
<1>2. ASSUME NEW n \in 0 .. N - 1, n \in T PROVE n + 1 \in T
  <2>1. ASSUME NEW x \in M, x >= N - (n + 1), ~ \E m \in M : m >= N - n
        PROVE  \A m \in M : x >= m
    BY <2>1
  <2> QED
    BY <1>2, <2>1
<1>3. N \in T
  <2> HIDE DEF T
  <2>1. 0 .. N \subseteq T
    BY <1>1, <1>2, UpTo
  <2> QED
    BY <2>1
<1>4. \E x \in M : \A m \in M : x >= m
  <2>1. PICK m \in M : TRUE
    OBVIOUS
  <2>2. m >= N - N
    OBVIOUS
  <2> QED
    BY <1>3, <2>2
<1> QED
  BY <1>4 DEF Max

\* Finitely many numbers have a bound.
LEMMA Bounded ==
    ASSUME NEW N \in Nat, NEW f \in [1 .. N -> Nat]
    PROVE  \E b \in Nat : \A i \in 1 .. N : f[i] <= b
<1> DEFINE T == {k \in 0 .. N : \E b \in Nat : \A i \in 1 .. k : f[i] <= b}
<1>1. 0 \in T
  OBVIOUS
<1>2. ASSUME NEW k \in 0 .. N - 1, k \in T PROVE k + 1 \in T
  <2>1. PICK b \in Nat : \A i \in 1 .. k : f[i] <= b
    BY <1>2
  <2>2. f[k + 1] \in Nat
    OBVIOUS
  <2>3. CASE f[k + 1] <= b
    <3>1. \A i \in 1 .. k + 1 : f[i] <= b
      BY <2>1, <2>3
    <3> QED
      BY <3>1
  <2>4. CASE f[k + 1] > b
    <3>1. \A i \in 1 .. k + 1 : f[i] <= f[k + 1]
      BY <2>1, <2>2, <2>4
    <3> QED
      BY <2>2, <3>1
  <2> QED
    BY <2>2, <2>3, <2>4
<1> HIDE DEF T
<1>3. 0 .. N \subseteq T
  BY <1>1, <1>2, UpTo
<1>4. N \in T
  BY <1>3
<1> QED
  BY <1>4 DEF T

\* A prefix of entries.
LEMMA PrefixFacts ==
    ASSUME NEW S, NEW s \in Seq(S), NEW k \in 0 .. Len(s)
    PROVE  /\ SubSeq(s, 1, k) \in Seq(S) /\ Len(SubSeq(s, 1, k)) = k
           /\ DOMAIN SubSeq(s, 1, k) = 1 .. k /\ DOMAIN SubSeq(s, 1, k) \subseteq DOMAIN s
           /\ \A i \in 1 .. k : SubSeq(s, 1, k)[i] = s[i]
           /\ k = Len(s) => SubSeq(s, 1, k) = s
           /\ SubSeq(s, 1, k) = <<>> <=> k = 0
OBVIOUS

\* A function on 1 .. n is a sequence.
LEMMA IsSequence ==
    ASSUME NEW n \in Nat, NEW s, s = [i \in 1 .. n |-> s[i]]
    PROVE  /\ s \in Seq({s[i] : i \in 1 .. n})
           /\ Len(s) = n /\ DOMAIN s = 1 .. n
<1> DEFINE R == {s[i] : i \in 1 .. n}
<1>1. \A i \in 1 .. n : s[i] \in R
  OBVIOUS
<1> HIDE DEF R
<1>2. s \in Seq(R)
  BY <1>1
<1>3. DOMAIN s = 1 .. n
  OBVIOUS
<1>4. Len(s) = n
  BY <1>2, <1>3
<1> QED
  BY <1>2, <1>3, <1>4 DEF R

----------------------------------------------------------------------------
(* Statuses *)

\* The statuses by their rank.
LEMMA RankFacts ==
    /\ StatusRank("settled") = 1 /\ StatusRank("progressing") = 2
    /\ StatusRank("no_match") = 3 /\ StatusRank("permission_denied") = 4
    /\ StatusRank("failed") = 5
<1>1. /\ Len(ByRank) = 5 /\ ByRank[1] = "settled" /\ ByRank[2] = "progressing"
      /\ ByRank[3] = "no_match" /\ ByRank[4] = "permission_denied" /\ ByRank[5] = "failed"
  BY DEF ByRank
<1>2. 1 .. 5 = {1, 2, 3, 4, 5}
  OBVIOUS
<1>3. ASSUME NEW s, NEW i \in 1 .. 5, ByRank[i] = s PROVE StatusRank(s) = i
  <2>1. \A j \in 1 .. 5 : ByRank[j] = s => j = i
    BY <1>1, <1>2, <1>3
  <2> DEFINE r == CHOOSE j \in 1 .. 5 : ByRank[j] = s
  <2>2. r \in 1 .. 5 /\ ByRank[r] = s
    BY <1>3
  <2> QED
    BY <1>1, <2>1, <2>2 DEF StatusRank
<1> QED
  BY <1>1, <1>2, <1>3

\* The status of several contexts is the most severe of theirs.
LEMMA ContextsStatusFacts ==
    ASSUME NEW entries, StatusesOf(entries) # {}, StatusesOf(entries) \subseteq
               {"settled", "progressing", "no_match", "permission_denied", "failed"}
    PROVE  /\ ContextsStatus(entries) \in StatusesOf(entries)
           /\ "failed" \in StatusesOf(entries) => ContextsStatus(entries) = "failed"
           /\ ContextsStatus(entries) = "settled" => StatusesOf(entries) \subseteq {"settled"}
           /\ ContextsStatus(entries) = "progressing" =>
                StatusesOf(entries) \subseteq {"settled", "progressing"}
<1> DEFINE T == StatusesOf(entries)
           m == ContextsStatus(entries)
           Worst(s) == s \in T /\ \A o \in T : StatusRank(s) >= StatusRank(o)
<1> HIDE DEF T
<1>0. T # {} /\ T \subseteq {"settled", "progressing", "no_match", "permission_denied", "failed"}
  BY DEF T
<1>1. \E s : Worst(s)
  <2>1. CASE "failed" \in T
    BY <2>1, <1>0, RankFacts
  <2>2. CASE "failed" \notin T /\ "permission_denied" \in T
    BY <2>2, <1>0, RankFacts
  <2>3. CASE "failed" \notin T /\ "permission_denied" \notin T /\ "no_match" \in T
    BY <2>3, <1>0, RankFacts
  <2>4. CASE T \subseteq {"settled", "progressing"} /\ "progressing" \in T
    BY <2>4, <1>0, RankFacts
  <2>5. CASE T \subseteq {"settled"}
    BY <2>5, <1>0, RankFacts
  <2> QED
    BY <1>0, <2>1, <2>2, <2>3, <2>4, <2>5
<1>2. \E s \in T \union {"settled"} : \A o \in T : StatusRank(s) >= StatusRank(o)
  BY <1>1
<1>3. m = CHOOSE s \in T \union {"settled"} : \A o \in T : StatusRank(s) >= StatusRank(o)
  BY DEF ContextsStatus, T
<1> HIDE DEF m
<1>4. m \in T \union {"settled"} /\ \A o \in T : StatusRank(m) >= StatusRank(o)
  BY <1>2, <1>3
<1>5. m \in {"settled", "progressing", "no_match", "permission_denied", "failed"}
  BY <1>0, <1>4
<1>6. "failed" \in T => m = "failed"
  BY <1>4, <1>5, RankFacts
<1>7. m = "settled" => T \subseteq {"settled"}
  BY <1>0, <1>4, RankFacts
<1>8. m = "progressing" => T \subseteq {"settled", "progressing"}
  BY <1>0, <1>4, RankFacts
<1>9. m \in T
  BY <1>0, <1>4, <1>7
<1> QED
  BY <1>6, <1>7, <1>8, <1>9 DEF T, m
=============================================================================
