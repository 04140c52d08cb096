-------------------------------- MODULE Lists --------------------------------
(***************************************************************************)
(* Loops over slices, as operators on sequences.                           *)
(***************************************************************************)
EXTENDS Integers, Sequences, SequencesExt

\* The members of a sequence at the given places, in order.
Picked(seq, places) ==
    FlattenSeq([n \in DOMAIN seq |-> IF n \in places THEN <<seq[n]>> ELSE <<>>])

\* The members of a sequence in the order of their first appearance.
Distinct(seq) == Picked(seq, {n \in DOMAIN seq : \A j \in 1 .. n - 1 : seq[j] # seq[n]})

Sum(seq) ==
    LET total[n \in 0 .. Len(seq)] == IF n = 0 THEN 0 ELSE total[n - 1] + seq[n]
    IN  total[Len(seq)]
=============================================================================
