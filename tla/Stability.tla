------------------------------ MODULE Stability ------------------------------
(***************************************************************************)
(* What a watch promises of a target that settles by readiness, without    *)
(* the tracker's bookkeeping: a verdict `settled' is given only to a       *)
(* target that was observed healthy, with the same pods and the same       *)
(* restart counts at every observation, over at least StableFor; and a     *)
(* watch never gives up (`progressing') on a target it had observed so.    *)
(*                                                                         *)
(* The abstract observer compares each observation with the one just       *)
(* before it.  The tracker compares with a baseline recorded when the      *)
(* window opened; that the two agree is what the refinement shows.         *)
(***************************************************************************)
EXTENDS Integers

CONSTANTS StableFor,
          Observations,   \* what is seen of healthy pods: who and how often restarted
          NotYet          \* the time before any observation

VARIABLES clock,          \* the present
          looked,         \* when the target was last observed
          calm,           \* whether it was healthy then
          held,           \* what was seen of its pods then
          since,          \* since when it has been calm and unchanged
          verdict

vars == <<clock, looked, calm, held, since, verdict>>

Verdicts == {"none", "settled", "completed", "progressing", "failed", "error"}

TypeOK == /\ clock \in Nat
          /\ looked \in Nat \union {NotYet}
          /\ calm \in BOOLEAN
          /\ held \in Observations
          /\ since \in Nat \union {NotYet}
          /\ verdict \in Verdicts

Init == /\ clock \in Nat
        /\ looked = NotYet
        /\ calm = FALSE
        /\ held \in Observations
        /\ since = NotYet
        /\ verdict = "none"

Undecided == verdict = "none"

HeldFor(t) == calm /\ t - since >= StableFor

\* Time passes.
Wait == /\ Undecided
        /\ clock' \in Nat /\ clock' >= clock
        /\ UNCHANGED <<looked, calm, held, since, verdict>>

\* The target is observed; an undisturbed streak that is long enough settles it.
Look == /\ Undecided
        /\ clock' = clock
        /\ looked' = clock
        /\ calm' \in BOOLEAN
        /\ held' \in Observations
        /\ since' = IF ~ calm' THEN NotYet
                    ELSE IF calm /\ held' = held THEN since
                    ELSE clock
        /\ verdict' = IF calm /\ calm' /\ held' = held /\ clock - since >= StableFor
                      THEN "settled" ELSE "none"

\* The target fails, completes or the watch breaks: no claim about stability.
Stop == /\ Undecided
        /\ verdict' \in {"failed", "completed", "error"}
        /\ clock' \in Nat /\ clock' >= clock
        /\ looked' \in {looked, clock}
        /\ calm' \in BOOLEAN
        /\ held' \in Observations
        /\ since' = since

\* The deadline passes on a target that has not been calm for long enough.
GiveUp == /\ Undecided
          /\ ~ HeldFor(looked) \/ since = looked
          /\ verdict' = "progressing"
          /\ clock' \in Nat /\ clock' >= clock
          /\ UNCHANGED <<looked, calm, held, since>>

Next == Wait \/ Look \/ Stop \/ GiveUp

Spec == Init /\ [][Next]_vars
=============================================================================
