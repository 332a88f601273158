---------------------------- MODULE LibraryProofs ----------------------------
(***************************************************************************)
(* Parts of a run that share no state with each other: the splits of the   *)
(* tasks, the pruning of the per-task frontiers, replays, minibatches, the  *)
(* creation of a workspace, the composition of its operators and the        *)
(* environment of an evaluation.                                           *)
(***************************************************************************)
EXTENDS TaskSelection, ParetoSelect, Replay, Minibatch, WorkspaceInit, Composition,
  RuntimeEnvironment, FiniteSetTheorems, WellFoundedInduction, TLAPS

------------------------------------------------------------------------------
(* TaskSelection: for any dataset, ratios, round size and number of edits,   *)
(* the splits are fair, and what a score was measured on is frozen.          *)

(* Once the splits are frozen they have the counts of the largest remainder. *)
SplitsAreCounted ==
    /\ config.ratios \in RatiosOfParts
    /\ pc \notin {"freeze", "refused"} =>
          \A s \in SPLIT_NAMES : Cardinality(Members(s)) = Count(config.ratios, s)

(* A published snapshot holds the selected tasks as they were frozen.        *)
SnapshotIsFrozen ==
    pc \in {"write", "run"} =>
        DOMAIN snapshot = selected /\ \A t \in selected : snapshot[t] = "frozen"

------------------------------------------------------------------------------
(* Quotient and remainder, as the provers need them. *)
LEMMA DivisionByParts ==
    ASSUME NEW a \in Nat, NEW d \in Nat \ {0}
    PROVE  /\ a \div d \in Nat /\ a % d \in Nat
           /\ a = d * (a \div d) + (a % d)
           /\ a % d < d
  OBVIOUS

(* Three fractions that add up to one or two wholes, or to none.             *)
LEMMA WholesOfFractions ==
    ASSUME NEW p \in Nat \ {0}, NEW r \in Int,
           NEW f \in Nat, NEW g \in Nat, NEW h \in Nat,
           f < p, g < p, h < p, f + g + h = p * r
    PROVE  /\ r \in {0, 1, 2}
           /\ r = 0 => f = 0 /\ g = 0 /\ h = 0
           /\ r = 2 => f > 0 /\ g > 0 /\ h > 0
           /\ r = 1 => f > 0 \/ g > 0 \/ h > 0
<1>1. r < 3
  <2> SUFFICES ASSUME r >= 3 PROVE FALSE
    OBVIOUS
  <2>1. p * r >= p * 3
    OBVIOUS
  <2> QED
    BY <2>1
<1>2. r >= 0
  <2> SUFFICES ASSUME r <= -1 PROVE FALSE
    OBVIOUS
  <2>1. p * r <= p * (-1)
    OBVIOUS
  <2> QED
    BY <2>1
<1>3. r = 0 \/ r = 1 \/ r = 2
  BY <1>1, <1>2
<1> QED
  BY <1>3

(* What three splits of n tasks leave over, when their ratios add up to p.   *)
LEMMA FractionsAreTheRest ==
    ASSUME NEW p \in Nat, NEW n \in Nat,
           NEW a \in Nat, NEW b \in Nat, NEW c \in Nat, a + b + c = p,
           NEW u \in Nat, NEW v \in Nat, NEW w \in Nat,
           NEW f \in Nat, NEW g \in Nat, NEW h \in Nat,
           n * a = p * u + f, n * b = p * v + g, n * c = p * w + h
    PROVE  f + g + h = p * (n - (u + v + w))
<1>1. n * p = n * a + n * b + n * c
  <2>1. n * (a + b + c) = n * a + n * b + n * c
    OBVIOUS
  <2> QED
    BY <2>1
<1>2. p * (n - (u + v + w)) = n * p - (p * u + p * v + p * w)
  OBVIOUS
<1>3. p * u \in Nat /\ p * v \in Nat /\ p * w \in Nat /\ n * p \in Nat
  OBVIOUS
<1> QED
  BY <1>1, <1>2, <1>3

(* There are finitely many tasks. *)
LEMMA SizeIsNat == Size \in Nat
  BY SelectionAssumption, FS_CardinalityType DEF Size

(* What _assign computes of one split: whole parts and a fraction.           *)
LEMMA PartsOfASplit ==
    ASSUME NEW ratios \in RatiosOfParts, NEW s \in SPLIT_NAMES
    PROVE  /\ Floor(ratios, s) \in Nat /\ Fraction(ratios, s) \in Nat
           /\ Size * ratios[s] \in Nat
           /\ Size * ratios[s] = Parts * Floor(ratios, s) + Fraction(ratios, s)
           /\ Fraction(ratios, s) < Parts
<1>1. ratios[s] \in Nat /\ Parts \in Nat \ {0} /\ Size \in Nat
  BY SizeIsNat, SelectionAssumption DEF RatiosOfParts
<1>2. Size * ratios[s] \in Nat
  BY <1>1
<1> QED
  BY <1>1, <1>2, DivisionByParts DEF Floor, Fraction

(* A split that is rounded up had a fraction to round.                       *)
LEMMA OnlyFractionsRoundUp ==
    ASSUME NEW ratios \in RatiosOfParts, NEW s \in SPLIT_NAMES,
           Cardinality({t \in SPLIT_NAMES : ServedBefore(ratios, t, s)}) < Remainder(ratios)
    PROVE  Fraction(ratios, s) > 0
<1> DEFINE f(n) == Fraction(ratios, n)
           before == {t \in SPLIT_NAMES : ServedBefore(ratios, t, s)}
<1> DEFINE F(n) == Floor(ratios, n)
<1>names. /\ "train" \in SPLIT_NAMES /\ "gate" \in SPLIT_NAMES /\ "sealed" \in SPLIT_NAMES
          /\ s \in {"train", "gate", "sealed"}
  BY DEF SPLIT_NAMES
<1>0. \A n \in SPLIT_NAMES :
         /\ f(n) \in Nat /\ f(n) < Parts /\ F(n) \in Nat
         /\ Size * ratios[n] = Parts * F(n) + f(n)
  BY PartsOfASplit
<1>1. /\ f("train") + f("gate") + f("sealed") = Parts * Remainder(ratios)
      /\ Remainder(ratios) \in Int
  <2>1. PICK a \in Nat, b \in Nat, c \in Nat :
           a = ratios["train"] /\ b = ratios["gate"] /\ c = ratios["sealed"]
    BY DEF SPLIT_NAMES, RatiosOfParts
  <2>2. PICK u \in Nat, v \in Nat, w \in Nat :
           u = F("train") /\ v = F("gate") /\ w = F("sealed")
    BY <1>names, <1>0
  <2>3. PICK x \in Nat, y \in Nat, z \in Nat :
           x = f("train") /\ y = f("gate") /\ z = f("sealed")
    BY <1>names, <1>0
  <2>4. PICK p \in Nat, n \in Nat : p = Parts /\ n = Size
    BY SizeIsNat, SelectionAssumption
  <2>5. a + b + c = p
    BY <2>1, <2>4 DEF RatiosOfParts
  <2>6. n * a = p * u + x /\ n * b = p * v + y /\ n * c = p * w + z
    BY <1>names, <1>0, <2>1, <2>2, <2>3, <2>4
  <2>7. x + y + z = p * (n - (u + v + w))
    BY <2>5, <2>6, FractionsAreTheRest
  <2>8. Remainder(ratios) = n - (u + v + w)
    BY <2>2, <2>4 DEF Remainder
  <2> QED
    BY <2>3, <2>4, <2>7, <2>8
<1>fractions. /\ Remainder(ratios) \in {0, 1, 2}
              /\ Remainder(ratios) = 2 => f("train") > 0 /\ f("gate") > 0 /\ f("sealed") > 0
              /\ Remainder(ratios) = 1 => f("train") > 0 \/ f("gate") > 0 \/ f("sealed") > 0
  <2>1. Parts \in Nat \ {0}
    BY SelectionAssumption
  <2>2. /\ f("train") \in Nat /\ f("gate") \in Nat /\ f("sealed") \in Nat
        /\ f("train") < Parts /\ f("gate") < Parts /\ f("sealed") < Parts
    BY <1>names, <1>0
  <2> HIDE DEF f
  <2> QED
    BY <1>1, <2>1, <2>2, WholesOfFractions
<1>2. IsFiniteSet(before) /\ Cardinality(before) \in Nat
  <2>1. IsFiniteSet(SPLIT_NAMES)
    <3>1. IsFiniteSet({"train"}) /\ IsFiniteSet({"gate"}) /\ IsFiniteSet({"sealed"})
      BY FS_Singleton
    <3>2. SPLIT_NAMES = {"train"} \cup ({"gate"} \cup {"sealed"})
      BY DEF SPLIT_NAMES
    <3> QED
      BY <3>1, <3>2, FS_Union
  <2> QED
    BY <2>1, FS_Subset, FS_CardinalityType
<1>3. Remainder(ratios) \in {1, 2} /\ (Remainder(ratios) = 2 => f(s) > 0)
  <2>1. Remainder(ratios) # 0
    BY <1>2
  <2> QED
    BY <1>names, <1>fractions, <2>1
<1>4. ASSUME Remainder(ratios) = 1, f(s) = 0 PROVE FALSE
  <2>1. PICK t \in SPLIT_NAMES : f(t) > 0
    BY <1>names, <1>fractions, <1>4
  <2>2. t \in before
    BY <1>4, <2>1, PartsOfASplit DEF ServedBefore
  <2>3. Cardinality(before) # 0
    BY <1>2, <2>2, FS_EmptySet
  <2> QED
    BY <1>2, <1>4, <2>3
<1>5. f(s) \in Nat
  BY <1>0
<1> QED
  BY <1>3, <1>4, <1>5

(* The count of a split is its exact share, rounded down or up.              *)
LEMMA CountIsFair ==
    ASSUME NEW ratios \in RatiosOfParts, NEW s \in SPLIT_NAMES
    PROVE  LET error == Count(ratios, s) * Parts - Size * ratios[s]
           IN  -Parts < error /\ error < Parts
<1>1. /\ Floor(ratios, s) \in Nat /\ Fraction(ratios, s) \in Nat
      /\ Size * ratios[s] = Parts * Floor(ratios, s) + Fraction(ratios, s)
      /\ Fraction(ratios, s) < Parts /\ Parts \in Nat \ {0}
  BY PartsOfASplit, SelectionAssumption
<1>2. CASE Cardinality({t \in SPLIT_NAMES : ServedBefore(ratios, t, s)}) < Remainder(ratios)
  <2>1. Count(ratios, s) = Floor(ratios, s) + 1
    BY <1>2 DEF Count
  <2>2. Fraction(ratios, s) > 0
    BY <1>2, OnlyFractionsRoundUp
  <2>3. (Floor(ratios, s) + 1) * Parts = Parts * Floor(ratios, s) + Parts
    BY <1>1
  <2>4. Count(ratios, s) * Parts - Size * ratios[s] = Parts - Fraction(ratios, s)
    BY <1>1, <2>1, <2>3
  <2> QED
    BY <1>1, <2>2, <2>4
<1>3. CASE ~ (Cardinality({t \in SPLIT_NAMES : ServedBefore(ratios, t, s)}) < Remainder(ratios))
  <2>1. Count(ratios, s) = Floor(ratios, s)
    BY <1>3 DEF Count
  <2>2. Count(ratios, s) * Parts - Size * ratios[s] = - Fraction(ratios, s)
    BY <1>1, <2>1
  <2> QED
    BY <1>1, <2>2
<1> QED
  BY <1>2, <1>3

------------------------------------------------------------------------------
SelectionInv == SplitsAreCounted /\ SnapshotIsFrozen /\ ScoredTasksAreFrozen

(* Where every experiment starts. *)
LEMMA InitSelectionInv == SelectionInit => SelectionInv
<1> SUFFICES ASSUME SelectionInit PROVE SelectionInv
  OBVIOUS
<1>1. FullRatios \in RatiosOfParts
  BY SelectionAssumption DEF FullRatios, RatiosOfParts, SPLIT_NAMES
<1>2. config.ratios \in RatiosOfParts
  BY <1>1 DEF SelectionInit
<1> QED
  BY <1>2, SelectionAssumption
  DEF SelectionInit, SelectionInv, SplitsAreCounted, SnapshotIsFrozen, ScoredTasksAreFrozen

(* After the splits are frozen nothing touches them. *)
LEMMA CountsAreKept ==
    ASSUME SplitsAreCounted, UNCHANGED <<config, split>>,
           pc' \notin {"freeze", "refused"} => pc \notin {"freeze", "refused"}
    PROVE  SplitsAreCounted'
<1>1. \A s \in SPLIT_NAMES :
         Cardinality(Members(s))' = Cardinality(Members(s))
         /\ Count(config.ratios, s)' = Count(config.ratios, s)
  BY DEF Members
<1> QED
  BY <1>1 DEF SplitsAreCounted

(* A script that gives up leaves neither a snapshot nor a score. *)
LEMMA FailureKeepsInv ==
    ASSUME SelectionInv, ScriptFails, pc \notin {"freeze", "refused"}
    PROVE  SelectionInv'
<1>1. SplitsAreCounted'
  BY CountsAreKept DEF ScriptFails, SelectionInv
<1> QED
  BY <1>1 DEF ScriptFails, SelectionInv, SnapshotIsFrozen, ScoredTasksAreFrozen

(* Every step keeps the invariant. *)
LEMMA NextSelectionInv == SelectionInv /\ [SelectionNext]_selectionVars => SelectionInv'
<1> SUFFICES ASSUME SelectionInv, [SelectionNext]_selectionVars
             PROVE  SelectionInv'
  OBVIOUS
<1> USE DEF SnapshotIsFrozen, ScoredTasksAreFrozen
<1>1. CASE Freeze
  <2>1. config' = config /\ pc' = "ready" /\ UNCHANGED evaluationVars
    BY <1>1 DEF Freeze
  <2>2. \A s \in SPLIT_NAMES :
           Cardinality(Members(s))' = Count(config.ratios, s)
    BY <1>1 DEF Freeze, Members
  <2>3. SplitsAreCounted'
    BY <2>1, <2>2 DEF SplitsAreCounted, SelectionInv, Count, Floor, Fraction, ServedBefore,
       Remainder
  <2> QED
    BY <2>1, <2>3 DEF SelectionInv, evaluationVars
<1>2. CASE RefuseToFreeze
  <2>1. SplitsAreCounted'
    BY <1>2, CountsAreKept DEF RefuseToFreeze, SelectionInv
  <2> QED
    BY <1>2, <2>1 DEF RefuseToFreeze, SelectionInv, evaluationVars
<1>3. CASE EditDataset
  <2>1. SplitsAreCounted'
    BY <1>3, CountsAreKept DEF EditDataset, SelectionInv
  <2> QED
    BY <1>3, <2>1 DEF EditDataset, SelectionInv, evaluationVars
<1>4. CASE Plan
  <2>1. SplitsAreCounted'
    BY <1>4, CountsAreKept DEF Plan, SelectionInv
  <2> QED
    BY <1>4, <2>1, SelectionAssumption DEF Plan, SelectionInv
<1>5. CASE SelectTasks
  <2>1. CASE ScriptFails
    BY <1>5, <2>1, FailureKeepsInv DEF SelectTasks
  <2>2. CASE ~ ScriptFails
    <3>1. /\ pc' = "copy" /\ UNCHANGED <<config, split, ran, planned, outcome>>
      BY <1>5, <2>2 DEF SelectTasks
    <3>2. SplitsAreCounted'
      BY <1>5, <3>1, CountsAreKept DEF SelectTasks, SelectionInv
    <3> QED
      BY <3>1, <3>2 DEF SelectionInv
  <2> QED
    BY <2>1, <2>2
<1>6. CASE CopyTask
  <2>1. CASE ScriptFails
    BY <1>6, <2>1, FailureKeepsInv DEF CopyTask
  <2>2. CASE ~ ScriptFails
    <3>1. /\ pc = "copy" /\ pc' = "copy"
          /\ UNCHANGED <<config, split, ran, planned, outcome>>
      BY <1>6, <2>2 DEF CopyTask
    <3>2. SplitsAreCounted'
      BY <3>1, CountsAreKept DEF SelectionInv
    <3> QED
      BY <3>1, <3>2 DEF SelectionInv
  <2> QED
    BY <2>1, <2>2
<1>7. CASE Publish
  <2>1. CASE ScriptFails
    BY <1>7, <2>1, FailureKeepsInv DEF Publish
  <2>2. CASE ~ ScriptFails
    <3>1. /\ pc = "copy" /\ pc' = "write" /\ snapshot' = pending /\ selected' = selected
          /\ DOMAIN pending = selected /\ \A t \in selected : pending[t] = "frozen"
          /\ UNCHANGED <<config, split, ran, planned, outcome>>
      BY <1>7, <2>2 DEF Publish
    <3>2. SplitsAreCounted'
      BY <3>1, CountsAreKept DEF SelectionInv
    <3> QED
      BY <3>1, <3>2 DEF SelectionInv
  <2> QED
    BY <2>1, <2>2
<1>8. CASE WriteSelection
  <2>1. CASE ScriptFails
    BY <1>8, <2>1, FailureKeepsInv DEF WriteSelection
  <2>2. CASE ~ ScriptFails
    <3>1. /\ pc = "write" /\ pc' = "run" /\ selected' = selected /\ snapshot' = snapshot
          /\ UNCHANGED <<config, split, ran, planned, outcome>>
      BY <1>8, <2>2 DEF WriteSelection
    <3>2. SplitsAreCounted'
      BY <3>1, CountsAreKept DEF SelectionInv
    <3> QED
      BY <3>1, <3>2 DEF SelectionInv
  <2> QED
    BY <2>1, <2>2
<1>9. CASE RunTasks
  <2>1. /\ pc = "run" /\ pc' = "ready" /\ planned' = planned
        /\ ran' = [t \in planned \cap DOMAIN snapshot |-> snapshot[t]]
        /\ outcome' = IF selected = planned THEN "scored" ELSE "infrastructure_failed"
        /\ UNCHANGED <<config, split>>
    BY <1>9 DEF RunTasks
  <2>2. SplitsAreCounted'
    BY <2>1, CountsAreKept DEF SelectionInv
  <2>3. DOMAIN snapshot = selected /\ \A t \in selected : snapshot[t] = "frozen"
    BY <2>1 DEF SelectionInv
  <2>4. ScoredTasksAreFrozen'
    BY <2>1, <2>3
  <2> QED
    BY <2>1, <2>2, <2>4 DEF SelectionInv
<1>10. CASE UNCHANGED selectionVars
  <2>1. SplitsAreCounted'
    BY <1>10, CountsAreKept DEF selectionVars, SelectionInv
  <2> QED
    BY <1>10, <2>1 DEF selectionVars, SelectionInv
<1> QED
  BY <1>1, <1>2, <1>3, <1>4, <1>5, <1>6, <1>7, <1>8, <1>9, <1>10 DEF SelectionNext

------------------------------------------------------------------------------
(* Every split has its exact share of the tasks, rounded down or up.         *)
THEOREM FairSplits == SelectionSpec => []SplitsAreFair
<1>1. SelectionInv => SplitsAreFair
  <2> SUFFICES ASSUME SelectionInv, pc \notin {"freeze", "refused"}, NEW s \in SPLIT_NAMES
               PROVE  LET error == Cardinality(Members(s)) * Parts - Size * config.ratios[s]
                      IN  -Parts < error /\ error < Parts
    BY DEF SplitsAreFair
  <2>1. config.ratios \in RatiosOfParts /\ Cardinality(Members(s)) = Count(config.ratios, s)
    BY DEF SelectionInv, SplitsAreCounted
  <2> QED
    BY <2>1, CountIsFair
<1> QED
  BY <1>1, InitSelectionInv, NextSelectionInv, PTL DEF SelectionSpec

(* A scored evaluation ran the planned tasks as they were frozen, however    *)
(* the dataset was edited around it.                                        *)
THEOREM FrozenTasks == SelectionSpec => []ScoredTasksAreFrozen
<1>1. SelectionInv => ScoredTasksAreFrozen
  BY DEF SelectionInv
<1> QED
  BY <1>1, InitSelectionInv, NextSelectionInv, PTL DEF SelectionSpec

------------------------------------------------------------------------------
(* ParetoSelect: pruning keeps every task covered and leaves no redundant    *)
(* parent, for any number of parents, tasks and rewards.                     *)

(* The frontiers are sets of parents, and nobody is dropped before the       *)
(* frontiers exist.                                                         *)
FrontsOfCandidates ==
    /\ fronts \in [TaskIds -> SUBSET Candidates]
    /\ step = "fronts" => dominated = {}

(* Pruning has ended once a parent is drawn, and the draw is over the parents *)
(* of the reduced frontiers.                                                *)
PruningIsOver ==
    /\ step \in {"choose", "chosen"} => Prunable = {}
    /\ step = "chosen" /\ (\E c \in Candidates : Weight(c) > 0) =>
          choice = {c \in Candidates : Weight(c) > 0}

ParetoInv == FrontsOfCandidates /\ CoverageKept /\ PruningIsOver

------------------------------------------------------------------------------
(* A candidate has weight while it is on a front and not dominated.         *)
LEMMA WeightOfMember ==
    ASSUME NEW c \in Candidates
    PROVE  Weight(c) > 0 <=> \E t \in TaskIds : c \in fronts[t] \ dominated
<1> DEFINE mine == {t \in TaskIds : c \in fronts[t] \ dominated}
<1>1. IsFiniteSet(mine)
  BY FS_Subset, ParetoAssumption
<1>2. Cardinality(mine) \in Nat
  BY <1>1, FS_CardinalityType
<1>3. Cardinality(mine) = 0 <=> mine = {}
  BY <1>1, FS_EmptySet
<1>4. Weight(c) = Cardinality(mine)
  BY DEF Weight
<1> QED
  BY <1>2, <1>3, <1>4

(* The initial state satisfies the invariant. *)
LEMMA InitParetoInv == ParetoInit => ParetoInv
  BY DEF ParetoInit, ParetoInv, FrontsOfCandidates, CoverageKept, PruningIsOver

(* Every step keeps it. *)
LEMMA NextParetoInv == ParetoInv /\ [ParetoNext]_paretoVars => ParetoInv'
<1> SUFFICES ASSUME ParetoInv, [ParetoNext]_paretoVars
             PROVE  ParetoInv'
  OBVIOUS
<1>1. CASE ComputeFronts
  <2>1. FrontsOfCandidates'
    BY <1>1 DEF ComputeFronts, FrontsOfCandidates, TaskFront, Observed
  <2>2. CoverageKept'
    BY <1>1 DEF ComputeFronts, ParetoInv, FrontsOfCandidates, CoverageKept
  <2>3. PruningIsOver'
    BY <1>1 DEF ComputeFronts, PruningIsOver
  <2> QED
    BY <2>1, <2>2, <2>3 DEF ParetoInv
<1>2. CASE Prune
  <2>1. PICK c \in Prunable : dominated' = dominated \cup {c}
    BY <1>2 DEF Prune
  <2>2. step' = "prune" /\ fronts' = fronts
    BY <1>2 DEF Prune
  <2>3. FrontsOfCandidates' /\ PruningIsOver'
    BY <2>2 DEF ParetoInv, FrontsOfCandidates, PruningIsOver
  <2>4. CoverageKept'
    <3> SUFFICES ASSUME NEW t \in TaskIds, fronts[t] # {}
                 PROVE  fronts[t] \ (dominated \cup {c}) # {}
      BY <2>1, <2>2 DEF CoverageKept
    <3>1. CASE c \in fronts[t]
      <4>1. fronts[t] \cap (Listed \ (dominated \cup {c})) # {}
        BY <2>1, <3>1 DEF Prunable, IsDominated
      <4> QED
        BY <4>1
    <3>2. CASE c \notin fronts[t]
      BY <3>2 DEF ParetoInv, CoverageKept
    <3> QED
      BY <3>1, <3>2
  <2> QED
    BY <2>3, <2>4 DEF ParetoInv
<1>3. CASE PruneEnds
  <2>1. fronts' = fronts /\ dominated' = dominated /\ step' = "choose" /\ Prunable = {}
    BY <1>3 DEF PruneEnds
  <2>2. Prunable' = Prunable
    BY <1>3, <2>1 DEF PruneEnds, Prunable, IsDominated, Listed
  <2> QED
    BY <2>1, <2>2 DEF ParetoInv, FrontsOfCandidates, CoverageKept, PruningIsOver
<1>4. CASE Choose
  <2>1. fronts' = fronts /\ dominated' = dominated /\ step = "choose" /\ step' = "chosen"
    BY <1>4 DEF Choose
  <2>2. Prunable' = Prunable
    BY <2>1 DEF Prunable, IsDominated, Listed
  <2>3. \A c \in Candidates : Weight(c)' = Weight(c)
    BY <2>1 DEF Weight
  <2>4. PruningIsOver'
    BY <1>4, <2>1, <2>2, <2>3 DEF Choose, ParetoInv, PruningIsOver
  <2> QED
    BY <2>1, <2>4 DEF ParetoInv, FrontsOfCandidates, CoverageKept
<1>5. CASE UNCHANGED paretoVars
  <2>1. Prunable' = Prunable /\ \A c \in Candidates : Weight(c)' = Weight(c)
    BY <1>5 DEF paretoVars, Prunable, IsDominated, Listed, Weight
  <2> QED
    BY <1>5, <2>1
    DEF paretoVars, ParetoInv, FrontsOfCandidates, CoverageKept, PruningIsOver
<1> QED
  BY <1>1, <1>2, <1>3, <1>4, <1>5 DEF ParetoNext

(* A parent that survives the pruning is alone on some reduced frontier.     *)
LEMMA SurvivorIsNeeded ==
    ASSUME FrontsOfCandidates, Prunable = {}, NEW c \in Listed \ dominated
    PROVE  \E t \in TaskIds : fronts[t] \ dominated = {c}
<1>1. ~ IsDominated(c)
  BY DEF Prunable
<1>2. PICK t \in TaskIds :
         c \in fronts[t] /\ fronts[t] \cap (Listed \ (dominated \cup {c})) = {}
  BY <1>1 DEF IsDominated
<1>3. fronts[t] \subseteq Listed
  BY DEF Listed
<1> QED
  BY <1>2, <1>3

------------------------------------------------------------------------------
(* Whoever is dropped, every task keeps one of its best parents.             *)
THEOREM CoverageIsKept == ParetoSpec => []CoverageKept
<1>1. ParetoInv => CoverageKept
  BY DEF ParetoInv
<1> QED
  BY <1>1, InitParetoInv, NextParetoInv, PTL DEF ParetoSpec

(* The parents that can be drawn are a minimal coverage set.                 *)
THEOREM NothingIsRedundant == ParetoSpec => []NothingRedundant
<1>1. ParetoInv => NothingRedundant
  <2> SUFFICES ASSUME ParetoInv, step = "chosen", Listed # {}, NEW c \in choice
               PROVE  \E t \in TaskIds : fronts[t] \ dominated = {c}
    BY DEF NothingRedundant
  <2>1. FrontsOfCandidates /\ CoverageKept /\ Prunable = {}
    BY DEF ParetoInv, PruningIsOver
  <2>2. PICK t \in TaskIds : fronts[t] # {}
    BY DEF Listed
  <2>3. PICK d \in Candidates : d \in fronts[t] \ dominated
    BY <2>1, <2>2 DEF FrontsOfCandidates, CoverageKept
  <2>4. Weight(d) > 0
    BY <2>3, WeightOfMember
  <2>5. c \in Candidates /\ Weight(c) > 0
    BY <2>3, <2>4 DEF ParetoInv, PruningIsOver
  <2>6. c \in Listed \ dominated
    BY <2>5, WeightOfMember DEF Listed
  <2> QED
    BY <2>1, <2>6, SurvivorIsNeeded
<1> QED
  BY <1>1, InitParetoInv, NextParetoInv, PTL DEF ParetoSpec

(* The frontier is exact: it covers every task and holds nobody redundant.   *)
THEOREM FrontierStaysExact == ParetoSpec => []FrontierIsExact
<1>1. CoverageKept /\ NothingRedundant => FrontierIsExact
  BY DEF FrontierIsExact
<1> QED
  BY <1>1, CoverageIsKept, NothingIsRedundant, PTL

------------------------------------------------------------------------------
(* WorkspaceInit: every step hands on the whole of the seed and the recipe,   *)
(* and both change only with the workspace.                                 *)
Whole == Prepared \cup Unignored(Assets)

WorkspaceInv ==
    /\ step_ \in {"write", "target"} => staged = Prepared
    /\ step_ \in {"target", "vendor", "git", "add"} => assets = Assets
    /\ step_ \in {"vendor", "git", "add"} => ondisk = Prepared
    /\ step_ = "commit" => index_ = Whole
    /\ step_ = "tag" => head = Whole
    /\ gen0 \in {Absent, Whole}
    /\ genesis \in {Absent, Whole}

(* Every step of init and of the run after it keeps the invariant.          *)
LEMMA WorkspaceNextInv ==
    ASSUME WorkspaceInv, [WorkspaceNext]_initVars
    PROVE  WorkspaceInv'
<1>1. CASE UNCHANGED <<seed, recipe, wantsLock>>
  <2>1. Prepared' = Prepared /\ Assets' = Assets /\ Whole' = Whole
    BY <1>1 DEF Prepared, Vendored, TargetLock, Assets, Unignored, Whole, OfKind
  <2>2. CASE UNCHANGED initVars
    BY <2>1, <2>2 DEF WorkspaceInv, initVars
  <2>3. CASE StartInit \/ StageTarget \/ WriteFiles \/ CopyTarget
    BY <2>1, <2>3 DEF WorkspaceInv, StartInit, StageTarget, WriteFiles, CopyTarget, Fail
  <2>4. CASE VendorMechanism \/ InitGit \/ AddFiles
    BY <2>1, <2>4 DEF WorkspaceInv, VendorMechanism, InitGit, AddFiles, Added, Whole
  <2>5. CASE CommitGen0 \/ TagGen0 \/ NameWorkspace \/ WriteGen0Archive \/ Killed
    BY <2>1, <2>5 DEF WorkspaceInv, CommitGen0, TagGen0, NameWorkspace, WriteGen0Archive, Killed, Fail
  <2>6. CASE StartRun \/ RemoveWorkspace
    BY <2>1, <2>6 DEF WorkspaceInv, StartRun, RemoveWorkspace
  <2> QED
    BY <2>2, <2>3, <2>4, <2>5, <2>6 DEF WorkspaceNext
<1>2. CASE ~ UNCHANGED <<seed, recipe, wantsLock>>
  <2>1. RemoveWorkspace
    BY <1>2 DEF WorkspaceNext, initVars, StartInit, StageTarget, WriteFiles, CopyTarget,
       VendorMechanism, InitGit, AddFiles, CommitGen0, TagGen0, NameWorkspace, WriteGen0Archive,
       Killed, StartRun
  <2> QED
    BY <2>1 DEF RemoveWorkspace, WorkspaceInv
<1> QED
  BY <1>1, <1>2

(* For every seed and recipe, and wherever init was killed before: what a run *)
(* evaluates as generation 0 is the whole seed, and every asset of the recipe's *)
(* evaluator but those that the ignore rules of the workspace cover.         *)
THEOREM RunsStartFromTheSeed == WorkspaceSpec => []GenesisIsTheSeed
<1>1. WorkspaceInitial => WorkspaceInv
  BY DEF WorkspaceInitial, WorkspaceInv
<1>2. WorkspaceInv /\ [WorkspaceNext]_initVars => WorkspaceInv'
  BY WorkspaceNextInv
<1>3. WorkspaceInv => GenesisIsTheSeed
  <2>1. Prepared = {f \in seed : KindOf[f] \notin {"secret", "metadata"}}
                     \cup (IF wantsLock THEN {LockFile} ELSE {})
    BY WorkspaceAssumption DEF Prepared, WithoutMetadata, Vendored, TargetLock, OfKind
  <2>2. Unignored(Assets) = {f \in recipe : KindOf[f] \notin {"hidden", "binary", "ignored"}}
    BY DEF Assets, Unignored, OfKind
  <2> QED
    BY <2>1, <2>2 DEF WorkspaceInv, GenesisIsTheSeed, Whole
<1> QED
  BY <1>1, <1>2, <1>3, PTL DEF WorkspaceSpec

------------------------------------------------------------------------------
(* Replay: the reference fixes what the evaluation left, and what has been    *)
(* verified against it is not read again.                                   *)

(* The index names the trials that have a result, each with its envelope. *)
IsIndex(listed) ==
    /\ DOMAIN listed = WithResult
    /\ \A t \in WithResult : DOMAIN listed[t] = {"replay", "trajectory"}
                             /\ listed[t].replay = Envelope(harbor[t])

ReplayInv ==
    /\ at = "ended" => /\ DOMAIN files = Trials
                       /\ \A t \in Trials : DOMAIN files[t] = {"replay", "trajectory"}
    /\ at \in {"indexed"} => IsIndex(index)
    /\ at \notin {"evaluating", "ended", "indexed"} => IsIndex(reference)
    /\ at # "evaluating" => \A t \in WithResult : harbor[t] \in HarborResults
    /\ at = "verifying" => /\ remaining \subseteq WithResult
                           /\ DOMAIN memory = WithResult \ remaining
    /\ at \in {"verified", "viewed"} => DOMAIN memory = WithResult
    /\ at \in {"verifying", "verified", "viewed"} =>
          \A t \in DOMAIN memory : memory[t] = reference[t]
    /\ at = "viewed" => view = memory
    /\ cases # {} => at \notin {"evaluating", "ended", "indexed"}
    /\ WithResult \subseteq Trials
    /\ ReplayIsCertified

(* Trials are numbers: the next one to verify is the least that is left. *)
LEMMA LeastTrial ==
    ASSUME NEW S \in SUBSET Nat, S # {}
    PROVE  \E t \in S : \A u \in S : t <= u
<1>1. \E t \in S : \A u \in S : ~(<<u, t>> \in OpToRel(<, Nat))
  BY NatLessThanWellFounded, WFMin
<1>2. \A t, u \in Nat : <<u, t>> \in OpToRel(<, Nat) <=> u < t
  BY DEF OpToRel
<1>3. PICK t \in S : \A u \in S : ~(u < t)
  BY <1>1, <1>2
<1> QED
  BY <1>3

(* The steps of the evaluation, none of which is ever taken again. *)
LEMMA EvaluationKeepsReplay ==
    ASSUME ReplayInv, RunHarbor \/ WriteArtifacts \/ RecordEvaluation
    PROVE  ReplayInv'
<1>1. cases = {} /\ cases' = {}
  BY DEF RunHarbor, WriteArtifacts, RecordEvaluation, ReplayInv
<1>2. CASE RunHarbor
  <2>1. PICK results \in [Trials -> HarborResults \cup {NoFile}], trajectories \in [Trials -> {NoFile, First}] :
           /\ harbor' = results
           /\ files' = [t \in Trials |-> [replay |-> NoFile, trajectory |-> trajectories[t]]]
    BY <1>2 DEF RunHarbor
  <2>2. at' = "ended"
    BY <1>2 DEF RunHarbor
  <2>3. WithResult' \subseteq Trials /\ \A t \in WithResult' : harbor'[t] \in HarborResults
    BY <2>1 DEF WithResult
  <2> QED
    BY <1>1, <2>1, <2>2, <2>3 DEF ReplayInv, ReplayIsCertified
<1>3. CASE WriteArtifacts
  <2>1. /\ at = "ended" /\ at' = "indexed" /\ UNCHANGED harbor
        /\ files' = [t \in Trials |-> IF t \in WithResult
                                        THEN [files[t] EXCEPT !.replay = Envelope(harbor[t])]
                                        ELSE files[t]]
        /\ index' = [t \in WithResult |-> files'[t]]
    BY <1>3 DEF WriteArtifacts, ArtifactIndex
  <2>2. WithResult' = WithResult
    BY <2>1 DEF WithResult
  <2>3. IsIndex(index)'
    BY <2>1, <2>2 DEF ReplayInv, IsIndex
  <2> QED
    BY <1>1, <2>1, <2>2, <2>3 DEF ReplayInv, ReplayIsCertified
<1>4. CASE RecordEvaluation
  <2>1. at = "indexed" /\ at' = "recorded" /\ UNCHANGED harbor /\ reference' = index
    BY <1>4 DEF RecordEvaluation
  <2>2. WithResult' = WithResult
    BY <2>1 DEF WithResult
  <2>3. IsIndex(reference)'
    BY <2>1, <2>2 DEF ReplayInv, IsIndex
  <2> QED
    BY <1>1, <2>1, <2>2, <2>3 DEF ReplayInv, ReplayIsCertified
<1> QED
  BY <1>2, <1>3, <1>4

(* The cases of the certified view are those of the trials with a result. *)
LEMMA CasesAreCertified ==
    ASSUME ReplayInv, at = "viewed", cases' = CollectCases(view), UNCHANGED <<harbor, reference>>
    PROVE  ReplayIsCertified'
<1>1. /\ DOMAIN view = WithResult /\ \A t \in WithResult : view[t] = reference[t]
      /\ IsIndex(reference) /\ WithResult' = WithResult
  BY DEF ReplayInv, WithResult
<1>2. \A t \in WithResult : view[t].replay = Envelope(harbor[t]) /\ view[t].replay \in Envelopes
  BY <1>1 DEF ReplayInv, IsIndex, Envelopes
<1>3. cases' = {CaseOf(t, reference[t]) : t \in WithResult}
  BY <1>1, <1>2 DEF CollectCases
<1>4. \A t \in WithResult : LET c == CaseOf(t, reference[t])
                            IN /\ c.trial = t /\ c.reward = harbor[t].reward
                               /\ c.outcome = CaseOutcome(Envelope(harbor[t]))
                               /\ c.trajectory = reference[t].trajectory
  BY <1>1, <1>2 DEF CaseOf, Envelope
<1>5. {c.trial : c \in cases'} = WithResult'
  BY <1>1, <1>3, <1>4
<1>6. \A c \in cases' : /\ c.reward = harbor[c.trial].reward
                        /\ c.outcome = CaseOutcome(Envelope(harbor[c.trial]))
                        /\ c.trajectory = reference[c.trial].trajectory
  BY <1>3, <1>4
<1> QED
  BY <1>5, <1>6 DEF ReplayIsCertified

(* Every step of evaluator and replay, and every tampering, keeps the      *)
(* invariant.                                                              *)
LEMMA ReplayNextInv ==
    ASSUME ReplayInv, [ReplayNext]_replayVars
    PROVE  ReplayInv'
<1>1. CASE RunHarbor \/ WriteArtifacts \/ RecordEvaluation
  BY <1>1, EvaluationKeepsReplay
<1>2. CASE UNCHANGED <<harbor, reference>>
  <2>1. WithResult' = WithResult /\ (IsIndex(reference)' <=> IsIndex(reference))
    BY <1>2 DEF WithResult, IsIndex
  <2>2. CASE UNCHANGED replayVars
    BY <2>1, <2>2 DEF ReplayInv, ReplayIsCertified, replayVars, IsIndex
  <2>3. CASE ReadReference
    <3>1. ASSUME at' = "verifying", remaining' = Indexed, index = reference,
                 memory' = [t \in {} |-> NoFiles], at = "recorded", UNCHANGED cases
          PROVE  ReplayInv'
      BY <1>2, <2>1, <3>1 DEF ReplayInv, ReplayIsCertified, IsIndex, Indexed
    <3>2. ASSUME Refuse, at = "recorded" PROVE ReplayInv'
      BY <1>2, <2>1, <3>2 DEF Refuse, ReplayInv, ReplayIsCertified
    <3> QED
      BY <2>3, <3>1, <3>2 DEF ReadReference
  <2>4. CASE VerifyTrial
    <3> DEFINE t == CHOOSE t \in remaining : \A u \in remaining : t <= u
    <3>1. t \in remaining /\ t \in WithResult
      <4>1. remaining \in SUBSET Nat /\ remaining # {} /\ remaining \subseteq WithResult
        BY <2>4, ReplayAssumption DEF VerifyTrial, ReplayInv
      <4> QED
        BY <4>1, LeastTrial
    <3>2. CASE Refuse
      BY <1>2, <2>1, <2>4, <3>2 DEF VerifyTrial, Refuse, ReplayInv, ReplayIsCertified
    <3>3. CASE ~Refuse
      <4>1. /\ at = "verifying" /\ remaining' = remaining \ {t}
            /\ memory' = [u \in DOMAIN memory \cup {t} |->
                            IF u = t THEN reference[t] ELSE memory[u]]
            /\ UNCHANGED <<at, cases>>
        BY <2>4, <3>3 DEF VerifyTrial
      <4> HIDE DEF t
      <4> QED
        BY <1>2, <2>1, <3>1, <4>1 DEF ReplayInv, ReplayIsCertified
    <3> QED
      BY <3>2, <3>3
  <2>5. CASE LookForExtras \/ Materialize \/ ReplayAgain
    BY <1>2, <2>1, <2>5 DEF LookForExtras, Materialize, ReplayAgain, Refuse, ReplayInv, ReplayIsCertified
  <2>6. CASE WriteCases
    <3>1. CASE Refuse
      BY <1>2, <2>1, <2>6, <3>1 DEF WriteCases, Refuse, ReplayInv, ReplayIsCertified
    <3>2. CASE ~Refuse
      <4>1. at = "viewed" /\ cases' = CollectCases(view) /\ at' = "shown"
        BY <2>6, <3>2 DEF WriteCases
      <4>2. ReplayIsCertified'
        BY <1>2, <4>1, CasesAreCertified
      <4> QED
        BY <1>2, <2>1, <4>1, <4>2 DEF ReplayInv
    <3> QED
      BY <3>1, <3>2
  <2>7. CASE Tamper
    <3>1. at \in {"recorded", "verifying", "verified", "viewed"}
          /\ UNCHANGED <<at, remaining, memory, view, cases>>
      BY <2>7 DEF Tamper
    <3> QED
      BY <1>2, <2>1, <3>1 DEF ReplayInv, ReplayIsCertified
  <2>8. CASE RunHarbor \/ WriteArtifacts \/ RecordEvaluation
    BY <1>1, <2>8
  <2> QED
    BY <2>2, <2>3, <2>4, <2>5, <2>6, <2>7, <2>8 DEF ReplayNext
<1>3. CASE ~(UNCHANGED <<harbor, reference>>)
  BY <1>1, <1>3 DEF ReplayNext, replayVars, ReadReference, VerifyTrial, LookForExtras, Materialize,
     WriteCases, ReplayAgain, Tamper, Refuse
<1> QED
  BY <1>2, <1>3

(* For every set of trials and every result: whoever writes to the directory  *)
(* of an evaluation while it is replayed, the cases that are shown are those  *)
(* of the evaluation (parent_evaluation.py).                                 *)
THEOREM ReplaysAreCertified == ReplaySpec => []ReplayIsCertified
<1>1. ReplayInit => ReplayInv
  BY DEF ReplayInit, ReplayInv, ReplayIsCertified, WithResult
<1>2. ReplayInv /\ [ReplayNext]_replayVars => ReplayInv'
  BY ReplayNextInv
<1>3. ReplayInv => ReplayIsCertified
  BY DEF ReplayInv
<1> QED
  BY <1>1, <1>2, <1>3, PTL DEF ReplaySpec

(* The sum of the rewards, as its definition computes it: one trial after     *)
(* the other, in an order nobody knows.                                     *)
AnyTrial(s) == CHOOSE t \in s : TRUE
IsRewardSum(S, sum) ==
    sum = [s \in SUBSET S |-> IF s = {} THEN 0
                              ELSE E!RewardOf(AnyTrial(s)) + sum[s \ {AnyTrial(s)}]]

Paid(s) == {t \in s : t.reward = {1}}

(* The vector is that of the results, and once it is recorded it has a score. *)
ScoreInv ==
    /\ at \in {"evaluating", "ended", "indexed"} => reference = NoFile
    /\ at \notin {"evaluating", "ended"} =>
          vector = {VectorTrial(t, harbor[t], finalZero) : t \in WithResult}
    /\ at # "evaluating" => \A t \in WithResult : harbor[t] \in HarborResults
    /\ at \notin {"evaluating", "ended", "indexed"} => Evaluated.outcome = "benchmark_complete"

(* Of a set of rewards 0 and 1, the sum that was begun with any of them is    *)
(* the number of ones: there is one function that adds them up.             *)
LEMMA TotalIsCount ==
    ASSUME NEW S, IsFiniteSet(S), \A t \in S : t.reward \in {{0}, {1}}
    PROVE  E!TotalReward(S) = Cardinality(Paid(S))
<1> DEFINE count == [s \in SUBSET S |-> Cardinality(Paid(s))]
<1>1. \A s \in SUBSET S : IsFiniteSet(s) /\ IsFiniteSet(Paid(s)) /\ Cardinality(s) \in Nat
                          /\ Cardinality(Paid(s)) \in Nat
  <2> TAKE s \in SUBSET S
  <2>1. IsFiniteSet(s)
    BY FS_Subset
  <2>2. IsFiniteSet(Paid(s))
    BY <2>1, FS_Subset DEF Paid
  <2> QED
    BY <2>1, <2>2, FS_CardinalityType
<1>2. Cardinality(Paid({})) = 0
  BY FS_EmptySet DEF Paid
<1>3. ASSUME NEW s \in SUBSET S, s # {}
      PROVE  /\ AnyTrial(s) \in s
             /\ s \ {AnyTrial(s)} \in SUBSET S
             /\ Cardinality(s \ {AnyTrial(s)}) < Cardinality(s)
             /\ count[s] = E!RewardOf(AnyTrial(s)) + count[s \ {AnyTrial(s)}]
  <2> DEFINE x == AnyTrial(s)
  <2>1. x \in s /\ s \ {x} \in SUBSET S
    BY <1>3 DEF AnyTrial
  <2> HIDE DEF x
  <2>0. IsFiniteSet(s) /\ Cardinality(s) \in Nat /\ IsFiniteSet(Paid(s)) /\ Cardinality(Paid(s)) \in Nat
    BY <1>1, <1>3
  <2>2. Cardinality(s \ {x}) < Cardinality(s)
    <3>1. Cardinality(s \ {x}) = Cardinality(s) - 1
      BY <2>0, <2>1, FS_RemoveElement
    <3> QED
      BY <2>0, <3>1
  <2>7. count[s] = Cardinality(Paid(s)) /\ count[s \ {x}] = Cardinality(Paid(s \ {x}))
    BY <1>3, <2>1
  <2> HIDE DEF count
  <2>3. Paid(s \ {x}) = Paid(s) \ {x}
    BY DEF Paid
  <2>4. ASSUME x.reward = {1} PROVE count[s] = E!RewardOf(x) + count[s \ {x}]
    <3>1. x \in Paid(s)
      BY <2>1, <2>4 DEF Paid
    <3>2. Cardinality(Paid(s) \ {x}) = Cardinality(Paid(s)) - 1
      BY <2>0, <3>1, FS_RemoveElement
    <3>3. E!RewardOf(x) = 1
      <4>1. (CHOOSE r \in {1} : TRUE) = 1
        OBVIOUS
      <4> QED
        BY <2>4, <4>1 DEF E!RewardOf
    <3>4. count[s \ {x}] = Cardinality(Paid(s)) - 1
      BY <2>3, <2>7, <3>2
    <3> QED
      BY <2>0, <2>7, <3>3, <3>4
  <2>5. ASSUME x.reward = {0} PROVE count[s] = E!RewardOf(x) + count[s \ {x}]
    <3>1. Paid(s) \ {x} = Paid(s)
      BY <2>5 DEF Paid
    <3>2. E!RewardOf(x) = 0
      <4>1. (CHOOSE r \in {0} : TRUE) = 0
        OBVIOUS
      <4> QED
        BY <2>5, <4>1 DEF E!RewardOf
    <3>3. count[s \ {x}] = Cardinality(Paid(s))
      BY <2>3, <2>7, <3>1
    <3> QED
      BY <2>0, <2>7, <3>2, <3>3
  <2>8. count[s] = E!RewardOf(x) + count[s \ {x}]
    BY <2>1, <2>4, <2>5
  <2> QED
    BY <2>1, <2>2, <2>8 DEF x
<1>4. IsRewardSum(S, count)
  BY <1>2, <1>3 DEF IsRewardSum
<1>5. ASSUME NEW sum, IsRewardSum(S, sum) PROVE sum[S] = count[S]
  <2> DEFINE wrong == {s \in SUBSET S : sum[s] # count[s]}
             sizes == {Cardinality(s) : s \in wrong}
  <2>1. SUFFICES ASSUME wrong # {} PROVE FALSE
    OBVIOUS
  <2>2. sizes \in SUBSET Nat /\ sizes # {}
    BY <1>1, <2>1
  <2>3. PICK n \in sizes : \A m \in sizes : n <= m
    <3> HIDE DEF sizes
    <3> QED
      BY <2>2, LeastTrial
  <2>4. PICK s \in wrong : n = Cardinality(s)
    BY <2>3
  <2>5. sum[s] = IF s = {} THEN 0 ELSE E!RewardOf(AnyTrial(s)) + sum[s \ {AnyTrial(s)}]
    BY <1>5 DEF IsRewardSum
  <2>6. CASE s = {}
    BY <1>2, <2>4, <2>5, <2>6
  <2>7. CASE s # {}
    <3>1. s \ {AnyTrial(s)} \notin wrong
      <4>1. Cardinality(s \ {AnyTrial(s)}) < Cardinality(s) /\ s \ {AnyTrial(s)} \in SUBSET S
        BY <1>3, <2>4, <2>7
      <4>2. Cardinality(s \ {AnyTrial(s)}) \in Nat /\ Cardinality(s) \in Nat
        BY <1>1, <2>4, <4>1
      <4>3. s \ {AnyTrial(s)} \in wrong => Cardinality(s) <= Cardinality(s \ {AnyTrial(s)})
        BY <2>3, <2>4
      <4> QED
        BY <4>1, <4>2, <4>3
    <3> QED
      BY <1>3, <2>4, <2>5, <2>7, <3>1
  <2> QED
    BY <2>6, <2>7
<1>6. E!TotalReward(S) = (CHOOSE sum : IsRewardSum(S, sum))[S]
  BY DEF E!TotalReward, E!MapThenSumSet, E!MapThenFoldSet, IsRewardSum, AnyTrial
<1>7. IsRewardSum(S, CHOOSE sum : IsRewardSum(S, sum))
  <2> HIDE DEF count
  <2> QED
    BY <1>4
<1> QED
  BY <1>5, <1>6, <1>7

(* Which trials of a vector of results are scored, and with what. *)
ScoredTrial(v) ==
    /\ E!EffectiveOutcome(v) \notin {"infrastructure_failed", "candidate_invalid"}
    /\ E!ScoreEligible(v, TRUE)

LEMMA ScoredTrials ==
    ASSUME NEW t, NEW r \in Result, NEW zero
    PROVE  /\ ScoredTrial(VectorTrial(t, r, zero)) =>
                VectorTrial(t, r, zero).reward \in {{0}, {1}}
           /\ (/\ ScoredTrial(VectorTrial(t, r, zero))
               /\ VectorTrial(t, r, zero).reward = {1}) <=> (r.exception = "none" /\ r.reward = {1})
<1> DEFINE v == VectorTrial(t, r, zero)
           result == TrialResult(r, zero)
<1>1. /\ v.outcome = result.outcome /\ v.owner = result.owner /\ v.reward = result.reward
      /\ v.fault <=> r.exception # "none" \/ DependencyError(r)
  BY DEF VectorTrial
<1> HIDE DEF v
<1>2. r.exception \in Exceptions /\ r.reward \in {{}, {0}, {1}}
  BY DEF Result
<1>3. CASE DependencyError(r)
  <2>1. result.outcome = "infrastructure_failed" /\ result.reward = {}
    BY <1>3 DEF TrialResult
  <2> HIDE DEF result
  <2> QED
    BY <1>1, <1>2, <1>3, <2>1 DEF ScoredTrial, E!ScoreEligible, DependencyError, v
<1>4. CASE ~DependencyError(r) /\ r.exception = "none"
  <2>1. \/ result.outcome = "benchmark_complete" /\ result.reward = r.reward /\ r.reward # {}
        \/ result.outcome = "infrastructure_failed" /\ result.reward = {} /\ r.reward = {}
    BY <1>2, <1>4 DEF TrialResult
  <2> HIDE DEF result
  <2> QED
    BY <1>1, <1>2, <1>4, <2>1 DEF ScoredTrial, E!ScoreEligible, E!EffectiveOutcome, v
<1>5. CASE ~DependencyError(r) /\ r.exception # "none"
  <2>1. result.reward \in {{}, {0}}
    BY <1>2, <1>5 DEF TrialResult
  <2> HIDE DEF result
  <2> QED
    BY <1>1, <1>2, <1>5, <2>1 DEF ScoredTrial, E!ScoreEligible, v
<1> QED
  BY <1>3, <1>4, <1>5

(* No name of a trial is another one's, so fitting a vector to the contract   *)
(* adds what is missing and changes nothing.                                *)
LEMMA FittingAddsTheMissing ==
    ASSUME \A v \in vector : v = [task |-> v.task, trial |-> v.trial, outcome |-> v.outcome,
                                  owner |-> v.owner, reward |-> v.reward, fault |-> v.fault]
    PROVE  \E missing : /\ E!ContractTrials(TRUE, vector) = vector \cup missing
                        /\ \A m \in missing : m.reward = {}
<1>1. \A v \in vector : E!Normalized(v) = v
  BY DEF E!Normalized, E!ContractTask
<1>2. \A v \in vector : E!Standing(vector, v)
  BY <1>1 DEF E!Standing, E!IdentityOf
<1>3. {E!Normalized(v) : v \in {u \in vector : E!Standing(vector, u)}} = vector
  BY <1>1, <1>2
<1> DEFINE missing == {E!Placeholder(id, "missing", "evaluator") :
                        id \in E!Identities \ {E!IdentityOf(v) : v \in vector}}
<1>4. E!ContractTrials(TRUE, vector) = vector \cup missing
  BY <1>3 DEF E!ContractTrials, E!MaterializeMissing
<1>5. \A m \in missing : m.reward = {}
  BY DEF E!Placeholder
<1> QED
  BY <1>4, <1>5

(* A recorded score counts the trials that passed without an exception. *)
LEMMA RecordedScoreCounts ==
    ASSUME WithResult \subseteq Trials,
           vector = {VectorTrial(t, harbor[t], finalZero) : t \in WithResult},
           \A t \in WithResult : harbor[t] \in Result,
           Evaluated.outcome = "benchmark_complete"
    PROVE  Evaluated.score =
             {<<Cardinality({t \in WithResult : harbor[t].exception = "none"
                                                /\ harbor[t].reward = {1}}), E!Expected>>}
<1> DEFINE trials == E!ContractTrials(TRUE, vector)
           scoreable == E!Scoreable(trials, TRUE)
           clean == {t \in WithResult : harbor[t].exception = "none" /\ harbor[t].reward = {1}}
<1>1. Evaluated.score = {<<E!TotalReward(scoreable), E!Expected>>}
  <2> HIDE DEF trials
  <2>1. Evaluated = E!Classify(trials, E!Expected, <<1, 2>>, TRUE, "none")
    BY DEF Evaluated, trials
  <2> QED
    BY <2>1 DEF E!Classify
<1>2. \A v \in vector : v = [task |-> v.task, trial |-> v.trial, outcome |-> v.outcome,
                             owner |-> v.owner, reward |-> v.reward, fault |-> v.fault]
  BY DEF VectorTrial
<1>3. PICK missing : trials = vector \cup missing /\ \A m \in missing : m.reward = {}
  BY <1>2, FittingAddsTheMissing
<1> HIDE DEF trials
<1>4. scoreable = {v \in vector : ScoredTrial(v)}
  <2>1. \A m \in missing : ~E!ScoreEligible(m, TRUE)
    BY <1>3 DEF E!ScoreEligible
  <2> QED
    BY <1>3, <2>1 DEF E!Scoreable, ScoredTrial
<1>5. \A t \in WithResult :
        /\ VectorTrial(t, harbor[t], finalZero) \in scoreable =>
              VectorTrial(t, harbor[t], finalZero).reward \in {{0}, {1}}
        /\ (/\ VectorTrial(t, harbor[t], finalZero) \in scoreable
            /\ VectorTrial(t, harbor[t], finalZero).reward = {1}) <=> t \in clean
  <2> TAKE t \in WithResult
  <2> DEFINE v == VectorTrial(t, harbor[t], finalZero)
  <2>1. v \in vector
    OBVIOUS
  <2>2. /\ ScoredTrial(v) => v.reward \in {{0}, {1}}
        /\ (ScoredTrial(v) /\ v.reward = {1}) <=> (harbor[t].exception = "none" /\ harbor[t].reward = {1})
    <3>1. harbor[t] \in Result
      OBVIOUS
    <3> QED
      BY <3>1, ScoredTrials, Zenon DEF v
  <2> HIDE DEF v
  <2>3. t \in clean <=> harbor[t].exception = "none" /\ harbor[t].reward = {1}
    OBVIOUS
  <2>4. v \in scoreable <=> ScoredTrial(v)
    <3> HIDE DEF scoreable
    <3> QED
      BY <1>4, <2>1
  <2> HIDE DEF scoreable, clean
  <2> QED
    BY <2>2, <2>3, <2>4 DEF v
<1> HIDE DEF scoreable
<1>6. IsFiniteSet(WithResult)
  BY ReplayAssumption, FS_Subset
<1>7. IsFiniteSet(scoreable) /\ \A v \in scoreable : v.reward \in {{0}, {1}}
  <2> DEFINE of == [t \in WithResult |-> VectorTrial(t, harbor[t], finalZero)]
  <2>1. of \in Surjection(WithResult, vector)
    BY DEF Surjection
  <2>2. IsFiniteSet(vector)
    BY <1>6, <2>1, FS_Surjection
  <2> QED
    BY <1>4, <1>5, <2>2, FS_Subset
<1>8. Cardinality(Paid(scoreable)) = Cardinality(clean)
  <2> DEFINE of == [t \in clean |-> VectorTrial(t, harbor[t], finalZero)]
  <2>1. \A t \in clean : of[t] \in Paid(scoreable)
    BY <1>5 DEF Paid
  <2>2. \A v \in Paid(scoreable) : \E t \in clean : of[t] = v
    <3> TAKE v \in Paid(scoreable)
    <3>1. v \in scoreable /\ v.reward = {1} /\ v \in vector
      BY <1>4 DEF Paid
    <3>2. PICK t \in WithResult : v = VectorTrial(t, harbor[t], finalZero)
      BY <3>1
    <3>3. t \in clean
      <4> HIDE DEF clean
      <4> QED
        BY <1>5, <3>1, <3>2
    <3> QED
      BY <3>2, <3>3
  <2>3. \A t, u \in clean : of[t] = of[u] => t = u
    BY DEF VectorTrial
  <2>4. of \in Bijection(clean, Paid(scoreable))
    <3> HIDE DEF clean
    <3>1. of \in [clean -> Paid(scoreable)]
      BY <2>1
    <3>2. of \in Injection(clean, Paid(scoreable))
      <4> HIDE DEF of
      <4> QED
        BY <2>3, <3>1 DEF Injection, IsInjective
    <3>3. of \in Surjection(clean, Paid(scoreable))
      <4> HIDE DEF of
      <4> QED
        BY <2>2, <3>1 DEF Surjection
    <3> QED
      BY <3>2, <3>3 DEF Bijection
  <2>5. IsFiniteSet(clean)
    BY <1>6, FS_Subset
  <2>6. ExistsBijection(clean, Paid(scoreable))
    BY <2>4 DEF ExistsBijection
  <2> QED
    BY <2>5, <2>6, FS_Bijection
<1> QED
  BY <1>1, <1>7, <1>8, TotalIsCount

(* What was recorded is not evaluated again: later steps change neither the   *)
(* results nor the vector.                                                  *)
LEMMA ScoreNext ==
    ASSUME ScoreInv, [ReplayNext]_replayVars
    PROVE  ScoreInv'
<1>1. CASE RunHarbor
  BY <1>1 DEF RunHarbor, ScoreInv, WithResult
<1>2. CASE WriteArtifacts
  BY <1>2 DEF WriteArtifacts, ScoreInv, WithResult
<1>3. CASE RecordEvaluation
  BY <1>3 DEF RecordEvaluation, ScoreInv, WithResult, Evaluated
<1>4. CASE ReadReference \/ VerifyTrial \/ LookForExtras \/ Materialize \/ WriteCases
           \/ ReplayAgain \/ Tamper \/ UNCHANGED replayVars
  <2>1. UNCHANGED <<harbor, finalZero, vector, reference>>
    BY <1>4 DEF ReadReference, VerifyTrial, LookForExtras, Materialize, WriteCases, ReplayAgain,
       Tamper, Refuse, replayVars
  <2>2. at' = at \/ {at, at'} \cap {"evaluating", "ended", "indexed"} = {}
    BY <1>4 DEF ReadReference, VerifyTrial, LookForExtras, Materialize, WriteCases, ReplayAgain,
       Tamper, Refuse, replayVars
  <2>3. Evaluated' = Evaluated /\ WithResult' = WithResult
    BY <2>1 DEF Evaluated, WithResult
  <2> QED
    BY <2>1, <2>2, <2>3 DEF ScoreInv
<1> QED
  BY <1>1, <1>2, <1>3, <1>4 DEF ReplayNext

(* For every set of trials and results: the score that a generation is        *)
(* compared by counts clean full rewards only (parse_score.py).              *)
THEOREM OnlyCleanPassesCount == ReplaySpec => []ScoreCountsCleanPasses
<1>1. ReplayInit => ScoreInv
  BY DEF ReplayInit, ScoreInv, WithResult
<1>2. ScoreInv /\ [ReplayNext]_replayVars => ScoreInv'
  BY ScoreNext
<1>3. ScoreInv => ScoreCountsCleanPasses
  <2>1. WithResult \subseteq Trials
    BY DEF WithResult
  <2> SUFFICES ASSUME ScoreInv, reference # NoFile PROVE ScoreCountsCleanPasses
    BY DEF ScoreCountsCleanPasses
  <2>2. \A t \in WithResult : harbor[t] \in Result
    BY ReplayAssumption DEF ScoreInv
  <2> QED
    BY <2>1, <2>2, RecordedScoreCounts DEF ScoreInv, ScoreCountsCleanPasses
<1> QED
  BY <1>1, <1>2, <1>3, PTL DEF ReplaySpec

------------------------------------------------------------------------------
(* Composition: a stage that is needed is resolved or a problem, and what was *)
(* resolved waits to be frozen or is frozen.                                *)
ComposeTypeOK ==
    /\ DOMAIN frozen = LibrarySources /\ DOMAIN digests = RecipeStages
    /\ DOMAIN asked = RecipeStages
    /\ unasked \in Seq(RecipeStages)

StagesAreResolved ==
    /\ composing = "resolving" =>
          \A s \in NeededStages :
             s \in ToSet(unasked) \/ s \in problems \/ digests[s] # NotRead
    /\ composing \in {"preparing", "freezing", "frozen"} =>
          \A s \in NeededStages : digests[s] # NotRead

OperatorsAccept ==
    \A s \in RecipeStages : asked[s] # NotRead /\ blocks[s] = "library" => asked[s].accepts

OperatorsAreFrozen ==
    /\ composing = "freezing" =>
          \A s \in Bound : Operator(s) \in toFreeze \/ frozen[Operator(s)] = digests[s]
    /\ composing = "frozen" =>
          /\ \A s \in Bound : frozen[Operator(s)] = digests[s]
          /\ ImportsAreFrozen

ComposeInv == ComposeTypeOK /\ StagesAreResolved /\ OperatorsAccept /\ OperatorsAreFrozen

(* An element of a list is its head or in its tail. *)
LEMMA RestOfList ==
    ASSUME NEW S, NEW list \in Seq(S), list # <<>>
    PROVE  /\ Tail(list) \in Seq(S)
           /\ \A x \in ToSet(list) : x = Head(list) \/ x \in ToSet(Tail(list))
<1>1. Tail(list) \in Seq(S) /\ Len(list) \in Nat \ {0} /\ DOMAIN list = 1 .. Len(list)
  OBVIOUS
<1>2. /\ Head(list) = list[1] /\ DOMAIN Tail(list) = 1 .. Len(list) - 1
      /\ \A i \in 1 .. Len(list) - 1 : Tail(list)[i] = list[i + 1]
  BY <1>1
<1>3. ASSUME NEW i \in 1 .. Len(list), i # 1 PROVE list[i] \in ToSet(Tail(list))
  <2>1. i - 1 \in DOMAIN Tail(list) /\ Tail(list)[i - 1] = list[i]
    BY <1>1, <1>2, <1>3
  <2> QED
    BY <2>1 DEF ToSet
<1> QED
  BY <1>1, <1>2, <1>3 DEF ToSet

(* Resolving a stage notes the operator and the digest of what is there.    *)
LEMMA ResolvingKeepsCompose ==
    ASSUME ComposeInv, NEW block \in RecipeStages, AskOperator(block) \/ TakeDigest(block)
    PROVE  ComposeInv'
<1>1. /\ composing = "resolving" /\ composing' \in {"resolving", "failed"}
      /\ unasked # <<>> /\ block = Head(unasked) /\ UNCHANGED <<blocks, frozen, toFreeze>>
  BY DEF AskOperator, TakeDigest
<1>2. /\ Tail(unasked) \in Seq(RecipeStages)
      /\ \A s \in ToSet(unasked) : s = block \/ s \in ToSet(Tail(unasked))
  BY <1>1, RestOfList DEF ComposeInv, ComposeTypeOK
<1>3. CASE AskOperator(block)
  <2>1. CASE Problem(block) \/ blocks[block] = "missing"
    <3>1. /\ unasked' = Tail(unasked) /\ UNCHANGED <<asked, digests, composing>>
          /\ problems \subseteq problems' /\ (block \in NeededStages => block \in problems')
      BY <1>3, <2>1 DEF AskOperator, Problem
    <3> QED
      BY <1>1, <1>2, <3>1 DEF ComposeInv, ComposeTypeOK, StagesAreResolved, OperatorsAccept,
         OperatorsAreFrozen
  <2>2. CASE ~(Problem(block) \/ blocks[block] = "missing")
    <3>1. /\ asked' = [asked EXCEPT ![block] = library[Operator(block)]]
          /\ UNCHANGED <<unasked, problems, digests, composing>>
      BY <1>3, <2>2 DEF AskOperator
    <3>2. library[Operator(block)] # NotRead /\ blocks[block] = "library" =>
             library[Operator(block)].accepts
      BY <2>2 DEF Problem, Askable
    <3> QED
      BY <1>1, <3>1, <3>2 DEF ComposeInv, ComposeTypeOK, StagesAreResolved, OperatorsAccept,
         OperatorsAreFrozen
  <2> QED
    BY <2>1, <2>2
<1>4. CASE TakeDigest(block)
  <2>1. /\ digests' = [digests EXCEPT ![block] = library[Operator(block)]]
        /\ unasked' = Tail(unasked) /\ UNCHANGED <<asked, problems>>
        /\ composing' = "resolving" => library[Operator(block)] # NotRead
    BY <1>4 DEF TakeDigest, Askable
  <2> QED
    BY <1>1, <1>2, <2>1 DEF ComposeInv, ComposeTypeOK, StagesAreResolved, OperatorsAccept,
       OperatorsAreFrozen
<1> QED
  BY <1>3, <1>4

(* A source is frozen as it was digested, or the composition fails.         *)
LEMMA FreezingKeepsCompose ==
    ASSUME ComposeInv, NEW source \in LibrarySources, FreezeSource(source)
    PROVE  ComposeInv'
<1>1. /\ composing = "freezing" /\ source \in toFreeze /\ toFreeze' = toFreeze \ {source}
      /\ UNCHANGED <<blocks, unasked, problems, asked, digests>>
  BY DEF FreezeSource
<1>2. CASE SourceChanged(source) \/ MissingBundle(source)
  <2>1. composing' = "failed" /\ UNCHANGED frozen
    BY <1>2 DEF FreezeSource
  <2> QED
    BY <1>1, <2>1 DEF ComposeInv, ComposeTypeOK, StagesAreResolved, OperatorsAccept, OperatorsAreFrozen
<1>3. CASE ~(SourceChanged(source) \/ MissingBundle(source))
  <2>1. frozen' = [frozen EXCEPT ![source] = library[source]] /\ UNCHANGED composing
    BY <1>3 DEF FreezeSource
  <2>2. \A s \in Bound : source = Operator(s) => library[source] = digests[s]
    BY <1>3 DEF SourceChanged, Operator, Source
  <2>3. Bound' = Bound
    BY <1>1 DEF Bound
  <2> QED
    BY <1>1, <2>1, <2>2, <2>3 DEF ComposeInv, ComposeTypeOK, StagesAreResolved, OperatorsAccept,
       OperatorsAreFrozen
<1> QED
  BY <1>2, <1>3

(* Every step of resolution and materialization keeps the invariant.        *)
LEMMA ComposeNextInv ==
    ASSUME ComposeInv, [CompositionNext]_composeVars
    PROVE  ComposeInv'
<1>1. CASE UNCHANGED <<composing, blocks, unasked, problems, asked, digests, toFreeze, frozen>>
  <2>1. Bound' = Bound /\ ImportsAreFrozen' = ImportsAreFrozen
    BY <1>1 DEF Bound, ImportsAreFrozen, Dependencies, FrozenSources
  <2> QED
    BY <1>1, <2>1 DEF ComposeInv, ComposeTypeOK, StagesAreResolved, OperatorsAccept, OperatorsAreFrozen
<1>2. CASE Resolved
  <2>1. ToSet(<<>>) = {}
    BY DEF ToSet
  <2>2. /\ composing = "resolving" /\ unasked = <<>> /\ composing' \in {"preparing", "failed"}
        /\ composing' = "preparing" => problems = {}
        /\ UNCHANGED <<blocks, unasked, problems, asked, digests, frozen>>
    BY <1>2 DEF Resolved
  <2> QED
    BY <2>1, <2>2 DEF ComposeInv, ComposeTypeOK, StagesAreResolved, OperatorsAccept, OperatorsAreFrozen
<1>3. CASE TargetIsPrepared
  BY <1>3 DEF TargetIsPrepared, SelectedSources, Bound, ComposeInv, ComposeTypeOK, StagesAreResolved,
     OperatorsAccept, OperatorsAreFrozen
<1>4. CASE NextBundles
  <2>1. /\ composing = "freezing" /\ toFreeze = {} /\ composing' \in {"freezing", "frozen"}
        /\ composing' = "frozen" => Dependencies \subseteq FrozenSources
        /\ UNCHANGED <<blocks, unasked, problems, asked, digests, frozen>>
    BY <1>4 DEF NextBundles
  <2>2. Bound' = Bound /\ ImportsAreFrozen' = ImportsAreFrozen
    BY <2>1 DEF Bound, ImportsAreFrozen, Dependencies, FrozenSources
  <2> QED
    BY <2>1, <2>2 DEF ComposeInv, ComposeTypeOK, StagesAreResolved, OperatorsAccept,
       OperatorsAreFrozen, ImportsAreFrozen
<1>5. ASSUME NEW source \in LibrarySources, RemoveSource(source) \/ FreezeSource(source)
      PROVE  ComposeInv'
  BY <1>1, <1>5, FreezingKeepsCompose DEF RemoveSource
<1> QED
  BY <1>1, <1>2, <1>3, <1>4, <1>5, ResolvingKeepsCompose DEF CompositionNext, composeVars, Rewrite

(* Whatever is edited while init runs, and whichever stages, bundles and      *)
(* imports there are: what is frozen is what was resolved, with everything    *)
(* that it imports (recipe.py, materialize.py).                              *)
THEOREM WorkspacesRunWhatWasResolved == CompositionSpec => []FrozenAsResolved
<1>1. CompositionInit => ComposeInv
  <2> SUFFICES ASSUME CompositionInit PROVE ComposeInv
    OBVIOUS
  <2>1. DOMAIN frozen = LibrarySources /\ unasked = StageList /\ composing = "resolving"
        /\ digests = [s \in RecipeStages |-> NotRead] /\ asked = [s \in RecipeStages |-> NotRead]
    BY DEF CompositionInit
  <2> QED
    BY <2>1, CompositionAssumption DEF ComposeInv, ComposeTypeOK, StagesAreResolved, OperatorsAccept,
       OperatorsAreFrozen, RecipeStages
<1>2. ComposeInv /\ [CompositionNext]_composeVars => ComposeInv'
  BY ComposeNextInv
<1>3. ComposeInv => FrozenAsResolved
  BY CompositionAssumption DEF ComposeInv, StagesAreResolved, OperatorsAccept, OperatorsAreFrozen,
     FrozenAsResolved, OperatorsAreResolved, Bound
<1> QED
  BY <1>1, <1>2, <1>3, PTL DEF CompositionSpec

------------------------------------------------------------------------------
(* Minibatch: what is on disk for a side is one candidate's, a case for each  *)
(* task, whatever an earlier attempt has left.                              *)
IsBatch(found, runner) ==
    /\ \A c \in found : c.by = runner
    /\ \A c, d \in found : c.name.task = d.name.task => c = d

Stations == {"start", "running", "written", "compare", "judged", "refused"}

MinibatchInv ==
    /\ stage \in [side : Sides, at : Stations]
    /\ DOMAIN jobs = Sides /\ DOMAIN caseFiles = Sides
    /\ parent \in BatchParents /\ criterion \in {"strict", "non_decreasing"}
    /\ stage.at = "running" =>
          /\ batch \subseteq TrainTasks
          /\ \A r \in jobs[stage.side] : r.task \in batch /\ r.by = Runner(stage.side)
          /\ \A r, q \in jobs[stage.side] : r.task = q.task => r = q
    /\ stage.at \in {"written", "compare", "judged"} =>
          IsBatch(caseFiles[stage.side], Runner(stage.side))
    /\ stage.side = "child" =>
          \E p \in BatchParents : IsBatch(caseFiles["parent"], <<p, 0>>) /\ (~reuse => p = parent)
    /\ stage.side = "parent" /\ caseFiles["parent"] # NoBatch =>
          \E p \in BatchParents : IsBatch(caseFiles["parent"], <<p, 0>>)
    /\ verdict = TRUE => stage.at = "judged" /\ VerdictIsEarned

(* A missing result gets a placeholder only if no other case is its task's. *)
LEMMA CollectedIsBatch ==
    ASSUME NEW side, \A r \in jobs[side] : r.by = Runner(side),
           \A r, q \in jobs[side] : r.task = q.task => r = q
    PROVE  IsBatch(CollectedCases(side), Runner(side))
<1> DEFINE found == {CaseOfResult(r) : r \in jobs[side]}
           filled == {UnscoredCase(ShortName(t), side) : t \in batch \ TasksOf(found)}
<1>1. IsBatch(found, Runner(side))
  <2>1. \A r : CaseOfResult(r).name.task = r.task /\ CaseOfResult(r).by = r.by
    BY DEF CaseOfResult, ReportedName
  <2> QED
    BY <2>1 DEF IsBatch
<1>2. \A t : LET c == UnscoredCase(ShortName(t), side) IN c.name.task = t /\ c.by = Runner(side)
  BY DEF UnscoredCase, ShortName
<1>3. \A c \in found : c.name.task \in TasksOf(found)
  BY DEF TasksOf
<1> HIDE DEF found
<1>4. \A c \in filled : /\ c.by = Runner(side) /\ c.name.task \notin TasksOf(found)
                        /\ c = UnscoredCase(ShortName(c.name.task), side)
  BY <1>2
<1>5. IsBatch(found \cup filled, Runner(side))
  <2> HIDE DEF filled
  <2> QED
    BY <1>1, <1>3, <1>4 DEF IsBatch
<1>6. WithPlaceholders(found, side) \in {found, found \cup filled}
  BY DEF WithPlaceholders
<1>7. IsBatch(WithPlaceholders(found, side), Runner(side))
  BY <1>1, <1>5, <1>6
<1>8. IsBatch({UnscoredCase(HarborBatch, side)}, Runner(side))
  BY <1>2 DEF IsBatch, HarborBatch
<1>9. CollectedCases(side) = OrBatchFailure(WithPlaceholders(found, side), side)
  BY DEF CollectedCases, found
<1> QED
  BY <1>7, <1>8, <1>9 DEF OrBatchFailure

(* If every case has a reward, each task of a batch is scored once. *)
LEMMA CompleteIsOnce ==
    ASSUME NEW found, NEW runner, IsBatch(found, runner), Unscorable(found) = {}
    PROVE  Once(found, TasksOf(found))
  BY DEF IsBatch, Unscorable, Once, TasksOf

(* A child is accepted only over the parent's tasks, each scored once.      *)
LEMMA CompareIsEarned ==
    ASSUME MinibatchInv, Compare, verdict' = TRUE
    PROVE  VerdictIsEarned' /\ stage'.at = "judged"
<1>1. stage = [side |-> "child", at |-> "compare"]
  BY DEF Compare
<1>2. verdict # TRUE
  BY <1>1 DEF MinibatchInv
<1>3. /\ NamesOf(caseFiles["child"]) = ParentNames
      /\ verdict' = (ComparisonComplete /\ ScoreAccepts)
      /\ stage' = [stage EXCEPT !.at = "judged"]
      /\ UNCHANGED <<reuse, criterion, parent, attempt, caseFiles>>
  BY <1>2 DEF Compare, RefuseBatch
<1>4. ComparisonComplete /\ ScoreAccepts
  BY <1>3
<1> DEFINE P == caseFiles["parent"]
           C == caseFiles["child"]
<1>5. IsBatch(C, <<parent, attempt>>)
  BY <1>1 DEF MinibatchInv, Runner
<1>6. PICK p \in BatchParents : IsBatch(P, <<p, 0>>) /\ (~reuse => p = parent)
  BY <1>1 DEF MinibatchInv
<1>7. TasksOf(P) = TasksOf(C)
  <2>1. \A found : TasksOf(found) = {n.task : n \in NamesOf(found)}
    BY DEF TasksOf, NamesOf
  <2> QED
    BY <1>3, <2>1 DEF ParentNames
<1>8. Once(P, TasksOf(P)) /\ Once(C, TasksOf(P))
  BY <1>4, <1>5, <1>6, <1>7, CompleteIsOnce DEF ComparisonComplete
<1>9. Total(C) > Total(P) \/ (criterion = "non_decreasing" /\ Total(C) >= Total(P))
  <2>1. criterion = "strict" => Total(C) > Total(P)
    BY <1>4 DEF ScoreAccepts
  <2>2. criterion # "strict" => Total(C) >= Total(P)
    BY <1>4 DEF ScoreAccepts
  <2> QED
    BY <2>1, <2>2 DEF MinibatchInv
<1> QED
  BY <1>1, <1>3, <1>5, <1>6, <1>7, <1>8, <1>9 DEF VerdictIsEarned, IsBatch

(* Starting a batch empties the directory of its side. *)
LEMMA LaunchKeepsBatch ==
    ASSUME MinibatchInv, NEW side \in Sides, stage.side = side, stage.at = "start",
           NEW tasks \in SUBSET TrainTasks, Launch(side, tasks)
    PROVE  MinibatchInv'
<1>1. /\ batch' = tasks /\ jobs' = [jobs EXCEPT ![side] = {}]
      /\ stage' = [stage EXCEPT !.at = "running"]
      /\ UNCHANGED <<reuse, criterion, parent, attempt, caseFiles, verdict>>
  BY DEF Launch, Reset
<1>2. stage'.side = side /\ stage'.at = "running" /\ stage' \in [side : Sides, at : Stations]
  BY <1>1 DEF MinibatchInv, Stations
<1>3. verdict' # TRUE
  BY <1>1 DEF MinibatchInv
<1> QED
  BY <1>1, <1>2, <1>3 DEF MinibatchInv

(* A task that ends adds its result to its own side. *)
LEMMA FinishKeepsBatch ==
    ASSUME MinibatchInv, FinishTask
    PROVE  MinibatchInv'
<1>1. PICK t \in batch, reward \in {{}} \cup {{r} : r \in BatchRewards} :
         /\ \A r \in jobs[stage.side] : r.by = Runner(stage.side) => r.task < t
         /\ jobs' = [jobs EXCEPT ![stage.side] = @ \cup
                       {[task |-> t, reward |-> reward, by |-> Runner(stage.side)]}]
  BY DEF FinishTask
<1>2. /\ stage.at = "running"
      /\ UNCHANGED <<stage, dedicated, reuse, criterion, parent, attempt, batch, caseFiles, verdict>>
  BY DEF FinishTask
<1> DEFINE side == stage.side
           new == [task |-> t, reward |-> reward, by |-> Runner(side)]
<1>3. side \in Sides /\ Runner(side)' = Runner(side)
  BY <1>2 DEF MinibatchInv, Runner
<1>4. jobs'[side] = jobs[side] \cup {new} /\ DOMAIN jobs' = Sides
  BY <1>1, <1>3 DEF MinibatchInv
<1>5. new.task = t /\ new.by = Runner(side)
  OBVIOUS
<1>6. \A r \in jobs[side] : r.task # t
  <2>1. \A r \in jobs[side] : r.task < t /\ r.task \in Nat /\ t \in Nat
    BY <1>1, <1>2, MinibatchAssumption DEF MinibatchInv
  <2> QED
    BY <2>1
<1>7. /\ \A r \in jobs'[side] : r.task \in batch /\ r.by = Runner(side)
      /\ \A r, q \in jobs'[side] : r.task = q.task => r = q
  <2> HIDE DEF new
  <2> QED
    BY <1>2, <1>4, <1>5, <1>6 DEF MinibatchInv
<1> HIDE DEF new
<1> QED
  BY <1>2, <1>3, <1>4, <1>7 DEF MinibatchInv

(* Every step, a second try included, keeps the invariant. *)
LEMMA MinibatchNextInv ==
    ASSUME MinibatchInv, [MinibatchNext]_batchVars
    PROVE  MinibatchInv'
<1>1. CASE UNCHANGED batchVars
  BY <1>1 DEF MinibatchInv, batchVars, Runner, VerdictIsEarned
<1>2. CASE RollOutParent
  <2>1. stage = [side |-> "parent", at |-> "start"]
    BY <1>2 DEF RollOutParent
  <2>2. CASE Completed
    <3>1. /\ stage' = [side |-> "child", at |-> "start"] /\ reuse /\ caseFiles["parent"] # NoBatch
          /\ UNCHANGED <<reuse, criterion, parent, attempt, jobs, caseFiles, verdict>>
      BY <1>2, <2>2 DEF RollOutParent, Completed
    <3>2. stage' \in [side : Sides, at : Stations] /\ stage'.side = "child" /\ stage'.at = "start"
      BY <3>1 DEF Sides, Stations
    <3> QED
      BY <2>1, <3>1, <3>2 DEF MinibatchInv
  <2>3. CASE ~Completed
    <3>1. PICK tasks \in SUBSET TrainTasks : Launch("parent", tasks)
      BY <1>2, <2>3 DEF RollOutParent
    <3> QED
      BY <2>1, <3>1, LaunchKeepsBatch DEF Sides
  <2> QED
    BY <2>2, <2>3
<1>3. CASE RollOutChild
  <2>1. stage = [side |-> "child", at |-> "start"]
    BY <1>3 DEF RollOutChild
  <2>2. CASE RefuseBatch
    <3>1. stage' \in [side : Sides, at : Stations] /\ stage'.side = "child" /\ stage'.at = "refused"
      BY <2>1, <2>2 DEF RefuseBatch, Sides, Stations
    <3> QED
      BY <2>1, <2>2, <3>1 DEF RefuseBatch, MinibatchInv
  <2>3. CASE RequestIsValid(ParentNames) /\ Launch("child", TasksOf(caseFiles["parent"]))
    <3>1. TasksOf(caseFiles["parent"]) \in SUBSET TrainTasks
      BY <2>3 DEF RequestIsValid, ParentNames, NamesOf, TasksOf
    <3> QED
      BY <2>1, <2>3, <3>1, LaunchKeepsBatch DEF Sides
  <2>4. CASE \E tasks \in SUBSET TrainTasks : Launch("child", tasks)
    BY <2>1, <2>4, LaunchKeepsBatch DEF Sides
  <2> QED
    BY <1>3, <2>2, <2>3, <2>4 DEF RollOutChild
<1>4. CASE FinishTask
  BY <1>4, FinishKeepsBatch
<1>5. CASE EndBatch
  <2> DEFINE side == stage.side
  <2>1. /\ stage.at = "running" /\ stage' = [stage EXCEPT !.at = "written"] /\ side \in Sides
        /\ caseFiles' = [caseFiles EXCEPT ![side] = CollectedCases(side)]
        /\ UNCHANGED <<reuse, criterion, parent, attempt, jobs, verdict>>
    BY <1>5 DEF EndBatch, MinibatchInv
  <2>2. IsBatch(CollectedCases(side), Runner(side))
    BY <2>1, CollectedIsBatch DEF MinibatchInv
  <2>3. stage' \in [side : Sides, at : Stations] /\ stage'.side = side /\ stage'.at = "written"
        /\ Runner(side)' = Runner(side) /\ verdict' # TRUE
    BY <2>1 DEF MinibatchInv, Stations, Runner
  <2>4. caseFiles'[side] = CollectedCases(side) /\ DOMAIN caseFiles' = Sides
        /\ (side = "child" => caseFiles'["parent"] = caseFiles["parent"])
    BY <2>1 DEF MinibatchInv, Sides
  <2>5. side = "parent" => Runner(side) = <<parent, 0>>
    BY DEF Runner
  <2> QED
    BY <2>1, <2>2, <2>3, <2>4, <2>5 DEF MinibatchInv, Sides
<1>6. CASE WriteSummary
  <2>1. /\ stage.at = "written"
        /\ UNCHANGED <<reuse, criterion, parent, attempt, jobs, caseFiles, verdict>>
    BY <1>6 DEF WriteSummary
  <2>2. CASE stage.side = "parent"
    <3>1. stage' = [side |-> "child", at |-> "start"]
      BY <1>6, <2>2 DEF WriteSummary
    <3>2. stage' \in [side : Sides, at : Stations] /\ stage'.side = "child" /\ stage'.at = "start"
      BY <3>1 DEF Sides, Stations
    <3>3. IsBatch(caseFiles["parent"], <<parent, 0>>)
      BY <2>1, <2>2 DEF MinibatchInv, Runner
    <3> QED
      BY <2>1, <3>2, <3>3 DEF MinibatchInv
  <2>3. CASE stage.side # "parent"
    <3>1. stage' = [stage EXCEPT !.at = "compare"]
      BY <1>6, <2>3 DEF WriteSummary
    <3>2. stage' \in [side : Sides, at : Stations] /\ stage'.side = stage.side /\ stage'.at = "compare"
          /\ \A s : Runner(s)' = Runner(s)
      BY <2>1, <3>1 DEF MinibatchInv, Stations, Runner
    <3> QED
      BY <2>1, <3>2 DEF MinibatchInv
  <2> QED
    BY <2>2, <2>3
<1>7. CASE Compare
  <2>1. stage = [side |-> "child", at |-> "compare"]
    BY <1>7 DEF Compare
  <2>2. /\ stage' = [stage EXCEPT !.at = "refused"] \/ stage' = [stage EXCEPT !.at = "judged"]
        /\ UNCHANGED <<reuse, criterion, parent, attempt, jobs, caseFiles>>
    BY <1>7 DEF Compare, RefuseBatch
  <2>3. stage' \in [side : Sides, at : Stations] /\ stage'.side = "child"
        /\ stage'.at \in {"refused", "judged"} /\ Runner("child")' = Runner("child")
    BY <2>1, <2>2 DEF Sides, Stations, Runner
  <2>4. verdict' = TRUE => VerdictIsEarned' /\ stage'.at = "judged"
    BY <1>7, CompareIsEarned
  <2> QED
    BY <2>1, <2>2, <2>3, <2>4 DEF MinibatchInv
<1>8. CASE TryAgain
  <2>1. /\ stage' = [side |-> "parent", at |-> "start"] /\ parent' \in BatchParents
        /\ UNCHANGED <<reuse, criterion, jobs, caseFiles, verdict>> /\ stage.at # "judged"
    BY <1>8 DEF TryAgain
  <2>2. stage' \in [side : Sides, at : Stations] /\ stage'.side = "parent" /\ stage'.at = "start"
    BY <2>1 DEF Sides, Stations
  <2> QED
    BY <2>1, <2>2 DEF MinibatchInv, Sides
<1> QED
  BY <1>1, <1>2, <1>3, <1>4, <1>5, <1>6, <1>7, <1>8 DEF MinibatchNext

(* For every split, batch, parent and number of tries: a child is accepted    *)
(* for this child's rewards on the same tasks as one candidate's, each scored  *)
(* once (rollout.py, minibatch_improvement.py).                              *)
THEOREM AcceptanceIsEarned == MinibatchSpec => []VerdictIsEarned
<1>1. MinibatchInit => MinibatchInv
  <2> SUFFICES ASSUME MinibatchInit PROVE MinibatchInv
    OBVIOUS
  <2>1. stage \in [side : Sides, at : Stations] /\ stage.side = "parent" /\ stage.at = "start"
    BY DEF MinibatchInit, Sides, Stations
  <2>2. caseFiles["parent"] = NoBatch /\ verdict # TRUE
    BY MinibatchAssumption DEF MinibatchInit, Sides
  <2> QED
    BY <2>1, <2>2 DEF MinibatchInit, MinibatchInv
<1>2. MinibatchInv /\ [MinibatchNext]_batchVars => MinibatchInv'
  BY MinibatchNextInv
<1>3. MinibatchInv => VerdictIsEarned
  BY DEF MinibatchInv, VerdictIsEarned
<1> QED
  BY <1>1, <1>2, <1>3, PTL DEF MinibatchSpec

------------------------------------------------------------------------------
(* RuntimeEnvironment: for any environments of the host, any overrides of a  *)
(* recipe and any spellings, no role sees a value that is not its own.       *)
EnvironmentInv ==
    /\ env_ \in HostEnvironments
    /\ DOMAIN overrides = {"agent", "verifier"}
    /\ RolesSeeTheirSources

(* What a plan says of an entry is the entry's value, when no two disagree.  *)
LEMMA PlanHoldsEntry ==
    ASSUME NEW All, Agree(All), NEW e \in All
    PROVE  /\ InternalName(e) \in DOMAIN PlanOf(All).process
           /\ PlanOf(All).process[InternalName(e)] = e.value
<1> DEFINE key == InternalName(e)
<1> DEFINE chosen == CHOOSE f \in All : InternalName(f) = key
<1>1. chosen \in All /\ InternalName(chosen) = key
  OBVIOUS
<1>2. chosen.value = e.value
  BY <1>1 DEF Agree
<1>3. key \in {InternalName(f) : f \in All}
  OBVIOUS
<1>4. PlanOf(All).process[key] = chosen.value
  BY <1>3, Zenon DEF PlanOf
<1> QED
  BY <1>2, <1>3, <1>4 DEF PlanOf

(* An entry that the host gives: a protected name, with the host's value.    *)
FromHost(e) ==
    /\ e = Entry(e.role, e.name, e.value)
    /\ Capitals[e.name] \in ProtectedNames
    /\ \E host \in HostValues(e.name) \cup {{}} :
          e.value \in {host, host \cup {ModelHost(env_)}}

(* An operator's overrides name no protected variable. *)
LEMMA OverridesAreUnprotected ==
    ASSUME OverridesAllowed("agent"), OverridesAllowed("verifier"),
           DOMAIN overrides = {"agent", "verifier"}
    PROVE  /\ \A r \in DOMAIN overrides : \A o \in overrides[r] :
                Capitals[o.name] \notin ProtectedNames
           /\ \A e \in OverrideEntries :
                /\ Capitals[e.name] \notin ProtectedNames
                /\ e.role \in DOMAIN overrides
                /\ \E o \in overrides[e.role] : o.name = e.name /\ o.value = e.value
<1>1. \A r \in DOMAIN overrides : OverridesAllowed(r)
  OBVIOUS
<1>2. \A r \in DOMAIN overrides : \A o \in overrides[r] : Capitals[o.name] \notin ProtectedNames
  BY <1>1 DEF OverridesAllowed, IsProtected
<1> QED
  BY <1>2 DEF OverrideEntries, Entry

(* A plan of the host's entries and of the overrides is one of the sources.  *)
LEMMA PlanMeansTheSources ==
    ASSUME NEW S, \A e \in S : FromHost(e),
           Agree(S \cup OverrideEntries),
           OverridesAllowed("agent"), OverridesAllowed("verifier"),
           DOMAIN overrides = {"agent", "verifier"},
           plan' = PlanOf(S \cup OverrideEntries),
           UNCHANGED <<env_, overrides>>
    PROVE  NamesMeanTheirSource'
<1> DEFINE All == S \cup OverrideEntries
<1>1. \A e \in OverrideEntries :
         /\ e.role \in DOMAIN overrides
         /\ \E o \in overrides[e.role] : o.name = e.name /\ o.value = e.value
  BY OverridesAreUnprotected
<1>2. \A r \in DOMAIN overrides : \A o \in overrides[r] : Capitals[o.name] \notin ProtectedNames
  BY OverridesAreUnprotected
<1>3. plan'.names = {<<e.role, e.name>> : e \in All}
  BY DEF PlanOf
<1>4. \A e \in All : plan'.process[InternalName(e)] = e.value
  BY PlanHoldsEntry
<1>5. \A r, n : Value(r, n)' = plan'.process[<<r, Capitals[n]>>]
  BY DEF Value, InternalName, Entry
<1>6. \A e \in All : Value(e.role, e.name)' = e.value
  BY <1>4, <1>5 DEF InternalName
<1> DEFINE Means(r, n) ==
       IF OverriddenIn(r, n)
       THEN \E o \in overrides[r] : o.name = n /\ Value(r, n) = o.value
       ELSE \E host \in HostValues(n) \cup {{}} : Value(r, n) \in {host, host \cup {ModelHost(env_)}}
<1> SUFFICES ASSUME NEW role, NEW name, NEW entry \in All, entry.role = role, entry.name = name
             PROVE  Means(role, name)'
  <2>1. ASSUME NEW p \in plan'.names PROVE Means(p[1], p[2])'
    <3>1. PICK e \in All : p = <<e.role, e.name>>
      BY <1>3
    <3>2. PICK r, n : e.role = r /\ e.name = n
      OBVIOUS
    <3>3. Means(r, n)'
      BY <3>2
    <3>4. p[1] = r /\ p[2] = n
      BY <3>1, <3>2
    <3>5. /\ OverriddenIn(p[1], p[2])' <=> OverriddenIn(r, n)'
          /\ Value(p[1], p[2])' = Value(r, n)'
          /\ HostValues(p[2])' = HostValues(n)'
      BY <3>4 DEF OverriddenIn, Value, HostValues, ProxyNames, IsSet, InternalName, Entry
    <3> QED
      BY <3>3, <3>4, <3>5
  <2> QED
    BY <2>1 DEF NamesMeanTheirSource
<1>7. CASE OverriddenIn(role, name)
  <2>1. PICK o \in overrides[role] : role \in DOMAIN overrides /\ o.name = name
    BY <1>7 DEF OverriddenIn
  <2>2. Entry(role, o.name, o.value) \in All
    BY <2>1 DEF OverrideEntries
  <2>3. Value(role, name)' = o.value
    BY <1>6, <2>1, <2>2 DEF Entry
  <2> QED
    BY <1>7, <2>1, <2>3 DEF OverriddenIn
<1>8. CASE ~OverriddenIn(role, name)
  <2>1. entry \in S
    BY <1>1, <1>8 DEF OverriddenIn
  <2>2. \E host \in HostValues(name) \cup {{}} : entry.value \in {host, host \cup {ModelHost(env_)}}
    BY <2>1 DEF FromHost
  <2>3. Value(role, name)' = entry.value
    BY <1>6
  <2>4. HostValues(name)' = HostValues(name)
    BY DEF HostValues, ProxyNames, IsSet
  <2> QED
    BY <1>8, <2>2, <2>3, <2>4 DEF OverriddenIn
<1> QED
  BY <1>7, <1>8

(* Credentials have the values of the host, for the agent. *)
LEMMA AuthIsTheHosts ==
    ASSUME env_ \in HostEnvironments, NEW e \in AuthEntries
    PROVE  /\ FromHost(e) /\ Capitals[e.name] = e.name
           /\ e.name \in {"CODEX_AUTH_JSON_PATH", "OPENAI_API_KEY", "OPENAI_BASE_URL"}
           /\ e.value = env_[e.name] /\ e.role = "agent"
<1>1. PICK n \in {m \in {Credential, "OPENAI_BASE_URL"} : IsSet(env_, m)} :
         e = Entry("agent", n, env_[n])
  BY DEF AuthEntries
<1>2. n \in {"CODEX_AUTH_JSON_PATH", "OPENAI_API_KEY", "OPENAI_BASE_URL"}
  BY DEF Credential
<1>3. n \in ProtectedNames /\ Capitals[n] = n /\ n \in DOMAIN Capitals
  BY <1>2, EnvironmentAssumption DEF ProtectedNames
<1>4. env_[n] \in HostValues(n)
  BY <1>1, <1>3 DEF HostValues, ProxyNames
<1>5. e.role = "agent" /\ e.name = n /\ e.value = env_[n]
  BY <1>1 DEF Entry
<1> QED
  BY <1>1, <1>2, <1>3, <1>4, <1>5 DEF FromHost

(* Spellings that agree leave one value, or none.                            *)
LEMMA UnionOfOne ==
    ASSUME NEW V, \A v, w \in V : v = w
    PROVE  UNION V \in V \cup {{}}
<1>1. CASE V = {}
  BY <1>1
<1>2. CASE V # {}
  <2>1. PICK v \in V : TRUE
    BY <1>2
  <2>2. V = {v}
    BY <2>1
  <2> QED
    BY <2>2
<1> QED
  BY <1>1, <1>2

(* Proxies have the values of the host, extended by the model's at most.    *)
LEMMA ProxyIsTheHosts ==
    ASSUME env_ \in HostEnvironments, ProxiesAgree, NEW e \in ProxyEntries
    PROVE  /\ FromHost(e) /\ ProxyIsActive /\ e.role \in Roles
           /\ Capitals[e.name] \in UpperProxies \cup {"NO_PROXY"}
<1>1. ProxyIsActive
  BY DEF ProxyEntries
<1>2. \A u \in UpperProxies \cup {"NO_PROXY"} : UNION Spellings(u) \in Spellings(u) \cup {{}}
  <2> SUFFICES ASSUME NEW u \in UpperProxies \cup {"NO_PROXY"}
               PROVE  UNION Spellings(u) \in Spellings(u) \cup {{}}
    OBVIOUS
  <2>1. \A v, w \in Spellings(u) : v = w
    BY <1>1 DEF ProxiesAgree
  <2> HIDE DEF Spellings
  <2> QED
    BY <2>1, UnionOfOne
<1> DEFINE n == e.name
           v == e.value
<1>3. PICK u \in UpperProxies \cup {"NO_PROXY"}, r \in Roles :
         /\ n \in ProxyNames(u) /\ e = Entry(r, n, v)
         /\ v \in {UNION Spellings(u), (UNION Spellings(u)) \cup {ModelHost(env_)}}
  <2>1. CASE e \in ForAllRoles("NO_PROXY", Bypass)
    <3>1. PICK r \in Roles, m \in ProxyNames("NO_PROXY") : e = Entry(r, m, Bypass)
      BY <2>1 DEF ForAllRoles
    <3>2. Bypass = (UNION Spellings("NO_PROXY")) \cup {ModelHost(env_)}
      BY DEF Bypass
    <3>3. e.name = m /\ e.value = Bypass
      BY <3>1 DEF Entry
    <3> QED
      BY <3>1, <3>2, <3>3
  <2>2. CASE \E u \in UpperProxies : e \in ForAllRoles(u, UNION Spellings(u))
    <3>1. PICK u \in UpperProxies : e \in ForAllRoles(u, UNION Spellings(u))
      BY <2>2
    <3>2. PICK r \in Roles, m \in ProxyNames(u) : e = Entry(r, m, UNION Spellings(u))
      BY <3>1 DEF ForAllRoles
    <3>3. e.name = m /\ e.value = UNION Spellings(u)
      BY <3>2 DEF Entry
    <3> QED
      BY <3>2, <3>3
  <2> QED
    BY <1>1, <2>1, <2>2 DEF ProxyEntries
<1>4. Capitals[n] = u
  BY <1>3 DEF ProxyNames
<1>5. HostValues(n) = Spellings(u)
  BY <1>4 DEF HostValues, Spellings
<1>6. e.role = r
  BY <1>3 DEF Entry
<1>7. \E host \in HostValues(n) \cup {{}} : v \in {host, host \cup {ModelHost(env_)}}
  <2> DEFINE host == UNION Spellings(u)
  <2>1. host \in Spellings(u) \cup {{}}
    BY <1>2
  <2>2. v \in {host, host \cup {ModelHost(env_)}}
    BY <1>3
  <2> HIDE DEF host
  <2> QED
    BY <1>5, <2>1, <2>2
<1>8. u \in ProtectedNames
  BY DEF ProtectedNames
<1> QED
  BY <1>1, <1>3, <1>4, <1>6, <1>7, <1>8 DEF FromHost

(* So have those that a workspace without a recorded endpoint passes on. *)
LEMMA LegacyProxyIsTheHosts ==
    ASSUME env_ \in HostEnvironments, NEW e \in LegacyProxyEntries
    PROVE  FromHost(e)
<1>1. PICK r \in Roles, n \in {m \in UpperProxies \cup {"NO_PROXY"} : IsSet(env_, m)} :
         e = Entry(r, n, env_[n])
  BY DEF LegacyProxyEntries
<1>2. n \in ProtectedNames /\ Capitals[n] = n /\ n \in DOMAIN Capitals
  BY EnvironmentAssumption DEF ProtectedNames
<1>3. env_[n] \in HostValues(n)
  BY <1>1, <1>2 DEF HostValues, ProxyNames
<1>4. e.role = r /\ e.name = n /\ e.value = env_[n]
  BY <1>1 DEF Entry
<1> QED
  BY <1>1, <1>2, <1>3, <1>4 DEF FromHost

(* The agent's endpoint is the one of runtime.json, past every proxy.        *)
LEMMA PlanUsesTheRecordedEndpoint ==
    ASSUME env_ \in HostEnvironments, Endpoint(env_) = record.endpoint, ProxiesAgree,
           Agree(AuthEntries \cup ProxyEntries \cup OverrideEntries),
           OverridesAllowed("agent"), OverridesAllowed("verifier"),
           DOMAIN overrides = {"agent", "verifier"},
           plan' = PlanOf(AuthEntries \cup ProxyEntries \cup OverrideEntries),
           UNCHANGED <<env_, overrides, record>>
    PROVE  EndpointIsTheRecorded'
<1> DEFINE All == AuthEntries \cup ProxyEntries \cup OverrideEntries
<1>1. \A e \in All : /\ InternalName(e) \in DOMAIN plan'.process
                   /\ plan'.process[InternalName(e)] = e.value
  BY PlanHoldsEntry
<1>2. \A key \in DOMAIN plan'.process : \E e \in All : key = InternalName(e)
  BY DEF PlanOf
<1>3. \A e \in AuthEntries : FromHost(e) /\ Capitals[e.name] = e.name
        /\ e.name \in {"CODEX_AUTH_JSON_PATH", "OPENAI_API_KEY", "OPENAI_BASE_URL"}
        /\ e.value = env_[e.name]
  BY AuthIsTheHosts
<1>4. \A e \in ProxyEntries : ProxyIsActive /\ e.role \in Roles
        /\ Capitals[e.name] \in UpperProxies \cup {"NO_PROXY"}
  BY ProxyIsTheHosts
<1>5. \A e \in OverrideEntries : Capitals[e.name] \notin ProtectedNames
  BY OverridesAreUnprotected
<1>6. \A e \in All : InternalName(e) = <<e.role, Capitals[e.name]>>
  BY DEF InternalName
<1>7. ASSUME NEW key \in DOMAIN plan'.process, key[2] = "OPENAI_BASE_URL"
      PROVE  plan'.process[key] \subseteq {record'.endpoint}
  <2>1. PICK e \in All : key = InternalName(e)
    BY <1>2
  <2>2. Capitals[e.name] = "OPENAI_BASE_URL"
    BY <1>6, <1>7, <2>1
  <2>3. e \in AuthEntries
    BY <1>4, <1>5, <2>2 DEF UpperProxies, ProtectedNames
  <2>4. plan'.process[key] = env_["OPENAI_BASE_URL"]
    BY <1>1, <1>3, <2>1, <2>2, <2>3
  <2>5. \A d, f \in env_["OPENAI_BASE_URL"] : d = f
    BY EnvironmentAssumption
  <2>6. \A d \in env_["OPENAI_BASE_URL"] : d = Endpoint(env_)
    BY <2>5 DEF Endpoint
  <2> QED
    BY <2>4, <2>6
<1>8. ASSUME NEW key \in DOMAIN plan'.process, key[2] \in UpperProxies
      PROVE  HostOf[record'.endpoint] \in plan'.process[<<key[1], "NO_PROXY">>]
  <2>1. PICK e \in All : key = InternalName(e)
    BY <1>2
  <2>2. Capitals[e.name] \in UpperProxies /\ key[1] = e.role
    BY <1>6, <1>8, <2>1
  <2>3. e \in ProxyEntries
    BY <1>3, <1>5, <2>2 DEF UpperProxies, ProtectedNames
  <2>4. ProxyIsActive /\ e.role \in Roles
    BY <1>4, <2>3
  <2>5. "NO_PROXY" \in ProxyNames("NO_PROXY") /\ Capitals["NO_PROXY"] = "NO_PROXY"
    BY EnvironmentAssumption DEF ProxyNames, ProtectedNames
  <2> DEFINE past == Entry(e.role, "NO_PROXY", Bypass)
  <2>6. past \in All
    BY <2>4, <2>5 DEF ProxyEntries, ForAllRoles
  <2>7. InternalName(past) = <<key[1], "NO_PROXY">> /\ past.value = Bypass
    BY <2>2, <2>5 DEF InternalName, Entry
  <2>8. plan'.process[<<key[1], "NO_PROXY">>] = Bypass
    <3> HIDE DEF past
    <3> QED
      BY <1>1, <2>6, <2>7
  <2>9. HostOf[record'.endpoint] \in Bypass
    <3>1. ModelHost(env_) \in Bypass
      BY DEF Bypass
    <3>2. record'.endpoint = Endpoint(env_)
      OBVIOUS
    <3> QED
      BY <3>1, <3>2 DEF ModelHost
  <2> QED
    BY <2>8, <2>9
<1> QED
  BY <1>7, <1>8 DEF EndpointIsTheRecorded

(* A change of the host's environment leaves the resolved plan as it is.    *)
LEMMA EnvironmentNextInv ==
    ASSUME EnvironmentInv, [EnvironmentNext]_environmentVars
    PROVE  EnvironmentInv'
<1> USE DEF EnvironmentInv
<1>1. CASE UNCHANGED environmentVars
  <2>1. UNCHANGED <<env_, record, overrides, plan>>
    BY <1>1 DEF environmentVars
  <2>2. EndpointIsTheRecorded' <=> EndpointIsTheRecorded
    BY <2>1 DEF EndpointIsTheRecorded
  <2>3. ASSUME NamesMeanTheirSource PROVE NamesMeanTheirSource'
    <3> DEFINE Means(r, n) ==
           IF OverriddenIn(r, n)
           THEN \E o \in overrides[r] : o.name = n /\ Value(r, n) = o.value
           ELSE \E host \in HostValues(n) \cup {{}} :
                   Value(r, n) \in {host, host \cup {ModelHost(env_)}}
    <3>1. ASSUME NEW p \in plan'.names PROVE Means(p[1], p[2])'
      <4>1. Means(p[1], p[2])
        BY <2>1, <2>3 DEF NamesMeanTheirSource
      <4>2. /\ OverriddenIn(p[1], p[2])' <=> OverriddenIn(p[1], p[2])
            /\ Value(p[1], p[2])' = Value(p[1], p[2])
        BY <2>1 DEF OverriddenIn, Value
      <4>3. HostValues(p[2])' = HostValues(p[2])
        BY <2>1 DEF HostValues, IsSet
      <4> QED
        BY <2>1, <4>1, <4>2, <4>3
    <3> QED
      BY <3>1 DEF NamesMeanTheirSource
  <2> QED
    BY <2>1, <2>2, <2>3 DEF RolesSeeTheirSources
<1>2. ASSUME NEW env \in HostEnvironments, ChangeEnvironment(env)
      PROVE  EnvironmentInv'
  BY <1>2 DEF ChangeEnvironment, RolesSeeTheirSources
<1>3. CASE Resolve
  <2> DEFINE All == AuthEntries \cup ProxyEntries \cup OverrideEntries
  <2>1. UNCHANGED <<env_, envChanges, record, codexAgent, overrides>>
    BY <1>3 DEF Resolve
  <2>2. CASE plan' = Refused
    BY <2>1, <2>2 DEF RolesSeeTheirSources
  <2>3. CASE plan' # Refused
    <3>1. /\ plan' = PlanOf(All) /\ Publishable(PlanOf(All))
          /\ Endpoint(env_) = record.endpoint /\ ProxiesAgree
      BY <1>3, <2>3 DEF Resolve
    <3>2. Agree(All) /\ OverridesAllowed("agent") /\ OverridesAllowed("verifier")
      BY <3>1 DEF Publishable, PlanOf
    <3>3. EndpointIsTheRecorded'
      BY <2>1, <3>1, <3>2, PlanUsesTheRecordedEndpoint
    <3> DEFINE S == AuthEntries \cup ProxyEntries
    <3>4. \A e \in S : FromHost(e)
      BY <3>1, AuthIsTheHosts, ProxyIsTheHosts
    <3>5. plan' = PlanOf(S \cup OverrideEntries) /\ Agree(S \cup OverrideEntries)
      BY <3>1, <3>2
    <3> HIDE DEF S
    <3>6. NamesMeanTheirSource'
      BY <2>1, <3>2, <3>4, <3>5, PlanMeansTheSources
    <3> QED
      BY <2>1, <3>3, <3>6 DEF RolesSeeTheirSources
  <2> QED
    BY <2>2, <2>3
<1>4. CASE ResolveLegacy
  <2> DEFINE S == (IF LegacyAuthentication THEN AuthEntries ELSE {}) \cup LegacyProxyEntries
  <2>1. UNCHANGED <<env_, envChanges, record, codexAgent, overrides>> /\ record = NoRecord
    BY <1>4 DEF ResolveLegacy
  <2>2. CASE plan' = Refused
    BY <2>1, <2>2 DEF RolesSeeTheirSources
  <2>3. CASE plan' # Refused
    <3>1. plan' = PlanOf(S \cup OverrideEntries) /\ Publishable(PlanOf(S \cup OverrideEntries))
      BY <1>4, <2>3 DEF ResolveLegacy
    <3>2. /\ Agree(S \cup OverrideEntries)
          /\ OverridesAllowed("agent") /\ OverridesAllowed("verifier")
      BY <3>1 DEF Publishable, PlanOf
    <3>3. EndpointIsTheRecorded'
      BY <2>1 DEF EndpointIsTheRecorded
    <3>4. \A e \in S : FromHost(e)
      BY AuthIsTheHosts, LegacyProxyIsTheHosts
    <3> HIDE DEF S
    <3>5. NamesMeanTheirSource'
      BY <2>1, <3>1, <3>2, <3>4, PlanMeansTheSources
    <3> QED
      BY <2>1, <3>3, <3>5 DEF RolesSeeTheirSources
  <2> QED
    BY <2>2, <2>3
<1> QED
  BY <1>1, <1>2, <1>3, <1>4 DEF EnvironmentNext

(* In every plan a name that the recipe sets has that role's value, any      *)
(* other the host's, and the agent talks to the recorded endpoint past every *)
(* proxy, whatever the spellings (environment.py:94-401).                    *)
THEOREM RolesSeeOnlyTheirSources == EnvironmentSpec => []RolesSeeTheirSources
<1>1. EnvironmentInit => EnvironmentInv
  BY DEF EnvironmentInit, EnvironmentInv, RolesSeeTheirSources
<1>2. EnvironmentInv /\ [EnvironmentNext]_environmentVars => EnvironmentInv'
  BY EnvironmentNextInv
<1>3. EnvironmentInv => RolesSeeTheirSources
  BY DEF EnvironmentInv
<1> QED
  BY <1>1, <1>2, <1>3, PTL DEF EnvironmentSpec
==============================================================================
