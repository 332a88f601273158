------------------------------- MODULE Lineage -------------------------------
(***************************************************************************)
(* What the driver promises about one experiment, whatever operators do    *)
(* and however often it is interrupted: a generation is open until it is   *)
(* rejected or committed on an accepted parent; a committed one is         *)
(* evaluated at most once and then accepted or closed; nothing is ever     *)
(* taken back, and a generation's base never changes.                      *)
(***************************************************************************)
CONSTANTS Genids, Genesis, None

VARIABLES stage,   \* where each generation is in its life
          base     \* the generation it was forked from, or None

LifeStages ==
    {"open", "rejected", "committed", "evaluated", "accepted", "closed"}

Init ==
    /\ stage = [g \in Genids |-> IF g = Genesis THEN "committed" ELSE "open"]
    /\ base = [g \in Genids |-> IF g = Genesis THEN Genesis ELSE None]

Move(g, from, to) ==
    /\ stage[g] = from
    /\ stage' = [stage EXCEPT ![g] = to]

Reject(g) == Move(g, "open", "rejected") /\ UNCHANGED base

Commit(g, p) ==
    /\ stage[p] = "accepted"
    /\ Move(g, "open", "committed")
    /\ base' = [base EXCEPT ![g] = p]

(* A complete evaluation awaits a verdict; a failed one, or a select failure *)
(* before the evaluation, closes the generation.                             *)
Evaluate(g) == Move(g, "committed", "evaluated") /\ UNCHANGED base
Fail(g)     == Move(g, "committed", "closed") /\ UNCHANGED base

Accept(g)  == Move(g, "evaluated", "accepted") /\ UNCHANGED base
Decline(g) == Move(g, "evaluated", "closed") /\ UNCHANGED base

Next ==
    \E g \in Genids :
        \/ Reject(g) \/ Evaluate(g) \/ Fail(g) \/ Accept(g) \/ Decline(g)
        \/ \E p \in Genids : Commit(g, p)

Spec == Init /\ [][Next]_<<stage, base>>
==============================================================================
