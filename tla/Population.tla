---------------------------- MODULE Population ----------------------------
(***************************************************************************)
(* The search that a recipe makes with the small operators of src/library:  *)
(* select chooses a parent among the kept generations, gate keeps or        *)
(* discards the evaluated child, record annotates its row, and reflect      *)
(* draws insights from all rows (select/*.py, gate/*.py, record/jsonl.py,   *)
(* reflect/credit.py, called through src/src/evolve/frozen/sdk.py).         *)
(*                                                                          *)
(* A generation may be cut off before its child is committed, and is then   *)
(* tried again in the same run directory; or at its gate, and is then       *)
(* judged against a parent that is selected anew.  What a failing operator  *)
(* does to a row is in module Driver.  A task has one trial, which passes,   *)
(* fails or has no result; the score of a row is compared with the score of   *)
(* a row of the same tasks, so the number of passed tasks stands for it.      *)
(***************************************************************************)
EXTENDS Integers, FiniteSets, FiniteSetsExt

CONSTANTS
  GatedTasks,   \* the tasks of an evaluation
  Strategies,   \* the recipes, a set of Strategy
  Predictions,  \* what an agent may predict to fix: lists of tasks, <<position, task>>
  Headings,     \* how a rationale may begin, as far as insights tell them apart
  MinResults,   \* tasks with a result that make an evaluation complete
  LastBorn,     \* bound: generations after generation 0
  MaxKills,     \* bound: times that a generation is cut off
  Unwritten     \* no file, no row

Strategy ==
  [select : {"greedy", "newest", "random", "score_weighted", "score_child_prop",
             "ahe_latest"},
   gate : {"hillclimb", "strict", "parent_eligible", "ahe_artifact_valid"}]

Entries == UNION Predictions

Rows ==
  [parent : 0..LastBorn, vector : [GatedTasks -> {"pass", "fail", "none"}],
   verdict : {"pending", "keep", "discard"}, note : Headings \cup {Unwritten},
   predicted : Predictions \cup {Unwritten}, verified : SUBSET Entries]

ASSUME PopulationAssumption ==
  /\ Unwritten \notin Rows \cup Headings
  /\ IsFiniteSet(GatedTasks) /\ GatedTasks # {}
  /\ Strategies \subseteq Strategy
  /\ Predictions \subseteq SUBSET (Nat \X GatedTasks)
  /\ MinResults \in 1..Cardinality(GatedTasks)
  /\ LastBorn \in Nat /\ MaxKills \in Nat

VARIABLES
  strategy,
  child_,    \* the generation under way
  moment,    \* its next stage
  resumed,   \* it was cut off at its gate
  chosen,    \* the parent selected for it
  rundir,    \* its files: predicted_fixes.json and rationale.md
  family,    \* generation -> its row
  playbook,  \* insight -> its last line in playbook.jsonl
  kills

populationVars == <<strategy, child_, moment, resumed, chosen, rundir, family, playbook,
                    kills>>

Born == {g \in 0..LastBorn : family[g] # Unwritten}
ValidParents == {g \in Born : family[g].verdict = "keep"}

-----------------------------------------------------------------------------
(* Select.                                                                   *)

PassedTasks(vector) == {t \in GatedTasks : vector[t] = "pass"}
Score(g) == Cardinality(PassedTasks(family[g].vector))
TopScored(parents) == {g \in parents : \A h \in parents : Score(h) <= Score(g)}

(* max keeps the first of equals, and rows are in the order of the archive.  *)
GreedyPick(parents) == Min(TopScored(parents))
NewestPick(parents) == Max(parents)

WeightedPicks(parents) ==
  LET positive == {g \in parents : Score(g) > 0}
  IN IF positive = {} THEN parents ELSE positive

(* Neither factor of a weight of score_child_prop is zero.                   *)
ChildPropPicks(parents) == parents

Picks(parents) ==
  CASE strategy.select = "greedy" -> {GreedyPick(parents)}
    [] strategy.select = "newest" -> {NewestPick(parents)}
    [] strategy.select = "ahe_latest" -> {NewestPick(parents)}
    [] strategy.select = "score_weighted" -> WeightedPicks(parents)
    [] strategy.select = "score_child_prop" -> ChildPropPicks(parents)
    [] strategy.select = "random" -> parents

Choose_ ==
  /\ moment = "select"
  /\ chosen' \in Picks(ValidParents)
  /\ moment' = "mutate"
  /\ UNCHANGED <<strategy, child_, resumed, rundir, family, playbook, kills>>

-----------------------------------------------------------------------------
(* Mutate: the operator may predict what it fixes; the runtime writes the    *)
(* rationale unless there is one.                                            *)

Propose ==
  /\ moment = "mutate"
  /\ \E predicted \in Predictions \cup {rundir.predicted}, heading \in Headings :
       rundir' = [predicted |-> predicted,
                  note |-> IF rundir.note = Unwritten THEN heading ELSE rundir.note]
  /\ moment' = "evaluate"
  /\ UNCHANGED <<strategy, child_, resumed, chosen, family, playbook, kills>>

(* The child is committed and evaluated; with too few results the evaluation *)
(* is incomplete, and no gate is asked.                                      *)
Complete_(vector) == Cardinality({t \in GatedTasks : vector[t] # "none"}) >= MinResults

Measure ==
  /\ moment = "evaluate"
  /\ \E vector \in [GatedTasks -> {"pass", "fail", "none"}] :
       /\ family' = [family EXCEPT ![child_] =
             [parent |-> chosen, vector |-> vector,
              verdict |-> IF Complete_(vector) THEN "pending" ELSE "discard",
              note |-> Unwritten, predicted |-> Unwritten, verified |-> {}]]
       /\ moment' = IF Complete_(vector) THEN "gate" ELSE "next"
  /\ UNCHANGED <<strategy, child_, resumed, chosen, rundir, playbook, kills>>

-----------------------------------------------------------------------------
(* Gate: the child's row and that of the selected parent, in gate/input.json. *)

HillclimbAccepts(g, p, strict) ==
  IF strict THEN Score(g) > Score(p) ELSE Score(g) >= Score(p)

EligibleAccepts(g) == Complete_(family[g].vector)
ArtifactAccepts(g) == Complete_(family[g].vector)

Accepts ==
  CASE strategy.gate = "hillclimb" -> HillclimbAccepts(child_, chosen, FALSE)
    [] strategy.gate = "strict" -> HillclimbAccepts(child_, chosen, TRUE)
    [] strategy.gate = "parent_eligible" -> EligibleAccepts(child_)
    [] strategy.gate = "ahe_artifact_valid" -> ArtifactAccepts(child_)

(* The verdict's event, from gate.json.                                      *)
VerdictOf(accepted) == IF accepted THEN "keep" ELSE "discard"

Judge ==
  /\ moment = "gate"
  /\ family' = [family EXCEPT ![child_].verdict = VerdictOf(Accepts)]
  /\ moment' = "record"
  /\ UNCHANGED <<strategy, child_, resumed, chosen, rundir, playbook, kills>>

-----------------------------------------------------------------------------
(* Record.                                                                   *)

TaskPassed(vector, t) ==
  IF vector[t] = "none" THEN {} ELSE {vector[t] = "pass"}

(* The entries of the list whose task passes and fails in the row's parent;   *)
(* a task that the list names twice stays in it twice.                      *)
VerifiedFixes(g, predicted) ==
  IF predicted = Unwritten THEN {}
  ELSE {e \in predicted : /\ TaskPassed(family[family[g].parent].vector, e[2]) = {FALSE}
                          /\ TaskPassed(family[g].vector, e[2]) = {TRUE}}

RecordFields ==
  [family[child_] EXCEPT !.note = rundir.note, !.predicted = rundir.predicted,
                         !.verified = VerifiedFixes(child_, rundir.predicted)]

Annotate ==
  /\ moment = "record"
  /\ family' = [family EXCEPT ![child_] = RecordFields]
  /\ moment' = IF resumed THEN "next" ELSE "reflect"
  /\ UNCHANGED <<strategy, child_, resumed, chosen, rundir, playbook, kills>>

-----------------------------------------------------------------------------
(* Reflect: one line for every heading with verified fixes, with all of its   *)
(* credit, the lengths of the lists; the last line of an insight counts.     *)

Notes == {family[g].note : g \in {h \in Born : family[h].verified # {}}} \ {Unwritten}
Supporters(note) == {g \in Born : family[g].note = note /\ family[g].verified # {}}
Credit(note) ==
  Cardinality({p \in Supporters(note) \X Entries : p[2] \in family[p[1]].verified})
Insight(note) == [credit |-> Credit(note), gens |-> Supporters(note)]

(* Mutant: the credit of a line is added to that of the line before. *)
PlaybookAccumulated ==
  [note \in DOMAIN playbook \cup Notes |->
     IF note \notin Notes THEN playbook[note]
     ELSE IF note \in DOMAIN playbook
       THEN [Insight(note) EXCEPT !.credit = @ + playbook[note].credit]
     ELSE Insight(note)]

FoldedPlaybook ==
  [note \in DOMAIN playbook \cup Notes |->
     IF note \in Notes THEN Insight(note) ELSE playbook[note]]

Reflect ==
  /\ moment = "reflect"
  /\ playbook' = FoldedPlaybook
  /\ moment' = "next"
  /\ UNCHANGED <<strategy, child_, resumed, chosen, rundir, family, kills>>

NextChild ==
  /\ moment = "next" /\ child_ < LastBorn
  /\ child_' = child_ + 1
  /\ rundir' = [predicted |-> Unwritten, note |-> Unwritten]
  /\ moment' = "select" /\ resumed' = FALSE
  /\ UNCHANGED <<strategy, chosen, family, playbook, kills>>

-----------------------------------------------------------------------------
(* Cut off before the commit, a generation starts again with select.  Cut    *)
(* off later, it is resumed at its gate with what select answers then, and    *)
(* nobody reflects on it.  The verdict's event settles it: cut off after it,  *)
(* it is left as it is, without the notes of record.                          *)
CutOff ==
  /\ kills < MaxKills /\ kills' = kills + 1
  /\ \/ /\ moment \in {"mutate", "evaluate"}
        /\ moment' = "select"
        /\ UNCHANGED <<resumed, chosen>>
     \/ /\ moment = "gate"
        /\ resumed' = TRUE
        /\ chosen' \in Picks(ValidParents)
        /\ UNCHANGED moment
     \/ /\ moment \in {"record", "reflect"}
        /\ moment' = "next"
        /\ UNCHANGED <<resumed, chosen>>
  /\ UNCHANGED <<strategy, child_, rundir, family, playbook>>

-----------------------------------------------------------------------------
PopulationInit ==
  /\ strategy \in Strategies
  /\ child_ = 0 /\ moment = "next" /\ resumed = FALSE /\ chosen = 0
  /\ rundir = [predicted |-> Unwritten, note |-> Unwritten]
  /\ \E vector \in [GatedTasks -> {"pass", "fail"}] :
       family = [g \in 0..LastBorn |->
                   IF g > 0 THEN Unwritten
                   ELSE [parent |-> 0, vector |-> vector,
                         verdict |-> "keep", note |-> Unwritten,
                         predicted |-> Unwritten, verified |-> {}]]
  /\ playbook = [note \in {} |-> Unwritten] /\ kills = 0

PopulationNext ==
  \/ Choose_ \/ Propose \/ Measure \/ Judge \/ Annotate \/ Reflect \/ NextChild \/ CutOff

PopulationSpec == PopulationInit /\ [][PopulationNext]_populationVars

-----------------------------------------------------------------------------
KeptBefore(g) == {h \in 0..(g - 1) : family[h] # Unwritten /\ family[h].verdict = "keep"}
Kept == {g \in Born \ {0} : family[g].verdict = "keep"}

(* With greedy and a hill-climbing gate no generation is kept that scores    *)
(* less than one kept before it; a tie may be kept, but its edit is never    *)
(* built upon: a parent scores more than all that were kept before it.       *)
GreedyClimbs ==
  strategy.select = "greedy" /\ strategy.gate \in {"hillclimb", "strict"} =>
    /\ \A g \in Kept : \A h \in KeptBefore(g) :
         Score(h) <= Score(g) /\ (strategy.gate = "strict" => Score(h) < Score(g))
    /\ \A g \in Born \ {0} : \A h \in KeptBefore(family[g].parent) :
         Score(h) < Score(family[g].parent)

(* With ahe_latest the kept generations are one line of descent.             *)
AheIsALine ==
  strategy.select \in {"newest", "ahe_latest"} =>
    \A g \in Born \ {0} : family[g].parent = Max(KeptBefore(g))

(* With score_weighted a generation that solves nothing has no children once *)
(* one that solves something is kept.                                        *)
UselessDieOut ==
  strategy.select = "score_weighted" =>
    \A g \in Born \ {0} :
      Score(family[g].parent) = 0 => \A h \in KeptBefore(g) : Score(h) = 0

(* The playbook's credit of an insight is what its generations predicted,     *)
(* entry by entry, and what by their own evaluations they pass and their      *)
(* parents fail, however often reflect has run, whoever shares the heading,   *)
(* and whatever a try that was cut off left in the run directory.             *)
CreditIsVerified ==
  \A note \in DOMAIN playbook :
    LET fixes(g) ==
          {e \in family[g].predicted :
             family[g].vector[e[2]] = "pass" /\ family[family[g].parent].vector[e[2]] = "fail"}
    IN /\ \A g \in playbook[note].gens : family[g].note = note
       /\ playbook[note].credit = Cardinality({p \in playbook[note].gens \X Entries :
                                                 p[2] \in fixes(p[1])})

(* What the population and the playbook show as progress is progress.        *)
ProgressIsReal == GreedyClimbs /\ AheIsALine /\ UselessDieOut /\ CreditIsVerified
=============================================================================
