------------------------------- MODULE Budget -------------------------------
(***************************************************************************)
(* Trimming a verdict to a token budget: internal/budget/budget.go.        *)
(*                                                                         *)
(* Sizes are abstract: an entry of any list costs one and a piece of       *)
(* evidence what it says.  Failures and advisories have the field          *)
(* evidence, a sequence of sizes; a verdict has truncated, what was        *)
(* dropped.                                                                *)
(***************************************************************************)
EXTENDS Verdict

CostOf(entries) == Sum([i \in DOMAIN entries |-> 1 + Sum(entries[i].evidence)])

Tokens(v) ==
    Len(v.contexts) + Len(v.degraded) + Cardinality(v.transitions)
    + Sum([i \in DOMAIN v.namespaces |-> 1 + Len(v.namespaces[i].targets)])
    + CostOf(v.failures) + CostOf(v.advisories)

\* The longest prefix of one of the lengths, else the empty one.
LongestPrefix(seq, lengths) == SubSeq(seq, 1, Max(lengths \union {0}))

Bare(e) == [e EXCEPT !.evidence = <<>>]

PiecesOf(entries) == Sum([i \in DOMAIN entries |-> Len(entries[i].evidence)])

\* Evidence of advisories goes from the end until the verdict fits, then whole
\* advisories.
TrimAdvisories(v, tokens) ==
    LET n == Len(v.advisories)
        StrippedFrom(k) == [i \in 1 .. n |-> IF i < k THEN v.advisories[i] ELSE Bare(v.advisories[i])]
        fits == {k \in 1 .. n + 1 : Tokens([v EXCEPT !.advisories = StrippedFrom(k)]) <= tokens}
        stripped == StrippedFrom(Max(fits \union {1}))
        kept == LongestPrefix(stripped, {k \in 1 .. n :
                    Tokens([v EXCEPT !.advisories = SubSeq(stripped, 1, k)]) <= tokens})
    IN  [v EXCEPT !.advisories = kept,
                  !.truncated.evidence = PiecesOf(v.advisories) - PiecesOf(stripped),
                  !.truncated.advisories = n - Len(kept)]

TrimNamespaces(v, tokens) ==
    [v EXCEPT !.namespaces = LongestPrefix(@, {k \in DOMAIN @ :
                Tokens([v EXCEPT !.namespaces = SubSeq(@, 1, k)]) <= tokens})]

TrimFailures(v, tokens) ==
    [v EXCEPT !.failures = LongestPrefix(@, {k \in DOMAIN @ :
                Tokens([v EXCEPT !.failures = SubSeq(@, 1, k)]) <= tokens})]

\* One round: each failure gets the next piece of its evidence back, if it has one
\* and that fits.
GiveRound(v, full, round, tokens) ==
    LET after[i \in 0 .. Len(v.failures)] ==
            IF i = 0 THEN v
            ELSE LET now == after[i - 1]
                     more == [now EXCEPT !.failures[i].evidence =
                                Append(@, full[i].evidence[round])]
                 IN  IF round <= Len(full[i].evidence) /\ Tokens(more) <= tokens
                     THEN more ELSE now
    IN  after[Len(v.failures)]

\* Evidence returns round by round, what does not fit is skipped.
ReturnEvidence(v, full, tokens) ==
    LET rounds == Max({0} \union {Len(full[i].evidence) : i \in DOMAIN v.failures})
        after[r \in 0 .. rounds] == IF r = 0 THEN v ELSE GiveRound(after[r - 1], full, r, tokens)
    IN  after[rounds]

\* Mutant: failures go before the namespaces that enumerate them.
SkeletonFailuresFirst(v, tokens) == TrimNamespaces(TrimFailures(v, tokens), tokens)

Skeleton(v, tokens) == TrimFailures(TrimNamespaces(v, tokens), tokens)

\* Mutant: the namespaces that are dropped are not counted.
CountedSilently(trimmed, full) ==
    [trimmed EXCEPT
        !.truncated.failures = Len(full.failures) - Len(trimmed.failures),
        !.truncated.evidence =
            @ + PiecesOf(SubSeq(full.failures, 1, Len(trimmed.failures)))
              - PiecesOf(trimmed.failures)]

\* A failure that is dropped takes its evidence along, uncounted.
Counted(trimmed, full) ==
    [trimmed EXCEPT
        !.truncated.failures = Len(full.failures) - Len(trimmed.failures),
        !.truncated.namespaces = Len(full.namespaces) - Len(trimmed.namespaces),
        !.truncated.evidence =
            @ + PiecesOf(SubSeq(full.failures, 1, Len(trimmed.failures)))
              - PiecesOf(trimmed.failures)]

Apply(v, tokens) ==
    IF tokens = 0 \/ Tokens(v) <= tokens THEN v
    ELSE LET quiet == TrimAdvisories(v, tokens)
             bare == [quiet EXCEPT !.failures = [i \in DOMAIN @ |-> Bare(@[i])]]
         IN  IF Tokens(quiet) <= tokens THEN quiet
             ELSE Counted(ReturnEvidence(Skeleton(bare, tokens), v.failures, tokens), v)
=============================================================================
