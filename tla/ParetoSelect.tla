----------------------------- MODULE ParetoSelect -----------------------------
(***************************************************************************)
(* Parent selection from per-task frontiers, library/select/pareto.py.      *)
(* The frontier of a task holds the parents with the best mean reward on    *)
(* it; parents are then dropped one after the other, the lowest aggregate    *)
(* score first, as long as every frontier they are in has another member.   *)
(***************************************************************************)
EXTENDS Integers, FiniteSets

CONSTANTS Candidates,   \* the valid parents, as numbers in the order of their ids
          TaskIds,
          Rewards,      \* mean rewards, and aggregate scores
          Unscored      \* a trial of the task is missing, incomplete or no number

ASSUME ParetoAssumption ==
    /\ Candidates \subseteq Int /\ Rewards \subseteq Int /\ Unscored \notin Rewards
    /\ IsFiniteSet(TaskIds)

VARIABLES
    step,        \* "fronts", "prune", "choose" or "chosen"
    scores,      \* what _task_scores finds in the vector of every parent
    aggregate,   \* the score of every parent's row
    fronts,
    dominated,
    choice       \* a parent the operator may return

paretoVars == <<step, scores, aggregate, fronts, dominated, choice>>

------------------------------------------------------------------------------
Observed(t) == {c \in Candidates : scores[c][t] # Unscored}

(* pareto_frontiers; a task nobody has a score for has no frontier.          *)
TaskFront(t) ==
    {c \in Observed(t) : \A d \in Observed(t) : scores[d][t] <= scores[c][t]}

Listed == UNION {fronts[t] : t \in TaskIds}

(* _is_dominated *)
IsDominated(c) ==
    \A t \in TaskIds :
        c \in fronts[t] => fronts[t] \cap (Listed \ (dominated \cup {c})) # {}

(* The order in which the candidates are tried. *)
Earlier(c, d) == aggregate[c] < aggregate[d] \/ (aggregate[c] = aggregate[d] /\ c < d)

Prunable == {c \in Listed \ dominated : IsDominated(c)}
IsFirst(c, S) == c \in S /\ \A d \in S \ {c} : Earlier(c, d)

(* pareto_weights: how many of the reduced frontiers a parent is in.         *)
Weight(c) == Cardinality({t \in TaskIds : c \in fronts[t] \ dominated})

------------------------------------------------------------------------------
ParetoInit ==
    /\ step = "fronts"
    /\ scores \in [Candidates -> [TaskIds -> Rewards \cup {Unscored}]]
    /\ aggregate \in [Candidates -> Rewards]
    /\ fronts = [t \in TaskIds |-> {}]
    /\ dominated = {}
    /\ choice = {}

ComputeFronts ==
    /\ step = "fronts"
    /\ step' = "prune"
    /\ fronts' = [t \in TaskIds |-> TaskFront(t)]
    /\ UNCHANGED <<scores, aggregate, dominated, choice>>

(* Deviation: the loop ends with the first removal. *)
PruneOnce ==
    /\ step = "prune"
    /\ \E c \in Prunable :
          IsFirst(c, Prunable) /\ dominated' = dominated \cup {c}
    /\ step' = "choose"
    /\ UNCHANGED <<scores, aggregate, fronts, choice>>

(* remove_dominated: one round of its loop. *)
Prune ==
    /\ step = "prune"
    /\ \E c \in Prunable :
          IsFirst(c, Prunable) /\ dominated' = dominated \cup {c}
    /\ UNCHANGED <<step, scores, aggregate, fronts, choice>>

PruneEnds ==
    /\ step = "prune" /\ Prunable = {}
    /\ step' = "choose"
    /\ UNCHANGED <<scores, aggregate, fronts, dominated, choice>>

(* A draw by weight, or without any frontier the best aggregate score.       *)
Choose ==
    /\ step = "choose"
    /\ step' = "chosen"
    /\ choice' =
          IF \E c \in Candidates : Weight(c) > 0
          THEN {c \in Candidates : Weight(c) > 0}
          ELSE {c \in Candidates : \A d \in Candidates : aggregate[d] <= aggregate[c]}
    /\ UNCHANGED <<scores, aggregate, fronts, dominated>>

ParetoNext == ComputeFronts \/ Prune \/ PruneEnds \/ Choose

ParetoSpec == ParetoInit /\ [][ParetoNext]_paretoVars

------------------------------------------------------------------------------
(* Pruning never uncovers a task: whoever is dropped, and in whatever order,  *)
(* every task that had a best parent keeps one of its best.                 *)
CoverageKept ==
    \A t \in TaskIds : fronts[t] # {} => fronts[t] \ dominated # {}

(* What is left is minimal, "a minimal coverage set": each parent that may   *)
(* be chosen is the only best one left for some task.                       *)
NothingRedundant ==
    step = "chosen" /\ Listed # {} =>
        \A c \in choice : \E t \in TaskIds : fronts[t] \ dominated = {c}

(* Both at once: the frontier that parents are drawn from covers every task   *)
(* and holds nobody it could do without (pareto.py, remove_dominated).       *)
FrontierIsExact == CoverageKept /\ NothingRedundant
==============================================================================
