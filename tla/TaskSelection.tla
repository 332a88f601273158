---------------------------- MODULE TaskSelection ----------------------------
(***************************************************************************)
(* The frozen task splits and the tasks an evaluation runs: the split       *)
(* manifest written when an experiment starts, the contract's plan, and the *)
(* verified snapshot of a local dataset the evaluator script takes while    *)
(* the dataset stays an ordinary directory anyone may edit                 *)
(* (splits.py, evaluation/contract.py, engine.sh, evaluation/execution.py). *)
(***************************************************************************)
EXTENDS Integers, FiniteSets, Functions

CONSTANTS
    Tasks,          \* task names, as numbers in the order of their names
    ExtraTask,      \* a task added after the splits were frozen
    Parts,          \* ratios are numerators over Parts
    RoundSizes,     \* evaluator.tasks_per_round
    TaskLimits,     \* the caller's task limit, or None
    None,
    MaxEdits        \* bound: edits of the dataset

ASSUME SelectionAssumption ==
    /\ Tasks \subseteq Int /\ IsFiniteSet(Tasks) /\ ExtraTask \notin Tasks
    /\ Parts \in Nat \ {0} /\ MaxEdits \in Nat
    /\ RoundSizes \subseteq Nat \ {0}
    /\ TaskLimits \subseteq (Nat \ {0}) \cup {None}
    /\ None # "scored"

SPLIT_NAMES == {"train", "gate", "sealed"}
SplitIndex == [train |-> 0, gate |-> 1, sealed |-> 2]
Contents == {"frozen", "edited", "absent"}

VARIABLES
    pc,
    config,      \* ratios, task scope and round size of the experiment
    split,       \* manifest: the split of every task
    dataset,     \* the dataset directory: what each task holds now
    edits,
    request,     \* the evaluation asked for: its split and task limit
    planned,     \* task members of the contract, the tasks of the run plan
    selected,    \* names the evaluator script selected
    pending,     \* .task-dataset.pending, task -> copied content
    snapshot,    \* task-dataset
    ran,         \* task -> content the trials ran on
    outcome

selectionVars == <<pc, config, split, dataset, edits, request, planned, selected,
                   pending, snapshot, ran, outcome>>
evaluationVars == <<request, planned, selected, pending, snapshot, ran, outcome>>

------------------------------------------------------------------------------
(* _assign: whole parts first, what is left by the largest remainder.        *)
Size == Cardinality(Tasks)
Floor(ratios, s) == (Size * ratios[s]) \div Parts
Fraction(ratios, s) == (Size * ratios[s]) % Parts
Remainder(ratios) ==
    Size - (Floor(ratios, "train") + Floor(ratios, "gate") + Floor(ratios, "sealed"))

(* Deviation: the smallest remainder is served first. *)
ServedSmallestFirst(ratios, s, t) ==
    \/ Fraction(ratios, s) < Fraction(ratios, t)
    \/ Fraction(ratios, s) = Fraction(ratios, t) /\ SplitIndex[s] < SplitIndex[t]

ServedBefore(ratios, s, t) ==
    \/ Fraction(ratios, s) > Fraction(ratios, t)
    \/ Fraction(ratios, s) = Fraction(ratios, t) /\ SplitIndex[s] < SplitIndex[t]

Count(ratios, s) ==
    IF Cardinality({t \in SPLIT_NAMES : ServedBefore(ratios, t, s)}) < Remainder(ratios)
    THEN Floor(ratios, s) + 1
    ELSE Floor(ratios, s)

Members(s) == {t \in Tasks : split[t] = s}

(* names[:limit] of the sorted names. *)
FirstOf(names, limit) ==
    {n \in names : Cardinality({m \in names : m < n}) < limit}

(* selected_task_names, static sampling: only the gate split has a limit of  *)
(* its own.                                                                 *)
SelectedNames(s, limit) ==
    IF limit # None THEN FirstOf(Members(s), limit)
    ELSE IF s = "gate" THEN FirstOf(Members(s), config.roundSize)
    ELSE Members(s)

(* resolve_evaluation_contract: full scope limits the members to a round.    *)
ContractLimit(limit) ==
    IF limit = None /\ config.full THEN config.roundSize ELSE limit

------------------------------------------------------------------------------
RatiosOfParts ==
    {r \in [SPLIT_NAMES -> 0..Parts] : r["train"] + r["gate"] + r["sealed"] = Parts}
FullRatios == [s \in SPLIT_NAMES |-> IF s = "train" THEN Parts ELSE 0]

NoTasks == [t \in {} |-> "frozen"]

SelectionInit ==
    /\ pc = "freeze"
    /\ config \in
          [full : {FALSE}, ratios : RatiosOfParts, roundSize : RoundSizes]
          \cup [full : {TRUE}, ratios : {FullRatios}, roundSize : RoundSizes]
    /\ split = [t \in Tasks |-> None]
    /\ dataset = [t \in Tasks \cup {ExtraTask} |->
                    IF t = ExtraTask THEN "absent" ELSE "frozen"]
    /\ edits = 0
    /\ request = [split |-> "train", limit |-> None]
    /\ planned = {} /\ selected = {}
    /\ pending = NoTasks /\ snapshot = NoTasks /\ ran = NoTasks
    /\ outcome = None

(* build_manifest: the digests put the tasks in an arbitrary order, so any   *)
(* assignment with the right counts may come out.  A split that should have  *)
(* tasks and gets none ends the initialisation.                             *)
Freeze ==
    /\ pc = "freeze"
    /\ \A s \in SPLIT_NAMES : config.ratios[s] > 0 => Count(config.ratios, s) > 0
    /\ \E assignment \in [Tasks -> SPLIT_NAMES] :
          /\ \A s \in SPLIT_NAMES :
                Cardinality({t \in Tasks : assignment[t] = s}) = Count(config.ratios, s)
          /\ split' = assignment
    /\ pc' = "ready"
    /\ UNCHANGED <<config, dataset, edits, evaluationVars>>

RefuseToFreeze ==
    /\ pc = "freeze"
    /\ \E s \in SPLIT_NAMES : config.ratios[s] > 0 /\ Count(config.ratios, s) = 0
    /\ pc' = "refused"
    /\ UNCHANGED <<config, split, dataset, edits, evaluationVars>>

(* Somebody adds, removes, changes or restores a task of the dataset.        *)
EditDataset ==
    /\ pc \notin {"freeze", "refused"}
    /\ edits < MaxEdits
    /\ edits' = edits + 1
    /\ \E t \in DOMAIN dataset : \E c \in Contents \ {dataset[t]} :
          dataset' = [dataset EXCEPT ![t] = c]
    /\ UNCHANGED <<pc, config, split, evaluationVars>>

(* The contract of an evaluation; without members there is none.             *)
Plan ==
    /\ pc = "ready"
    /\ \E s \in SPLIT_NAMES, limit \in TaskLimits :
          /\ request' = [split |-> s, limit |-> limit]
          /\ planned' = SelectedNames(s, ContractLimit(limit))
          /\ planned' # {}
    /\ pc' = "select"
    /\ selected' = {} /\ ran' = NoTasks /\ outcome' = None
    /\ UNCHANGED <<config, split, dataset, edits, pending, snapshot>>

(* The script ends with infra_failed and removes what it copied.             *)
ScriptFails ==
    /\ pc' = "ready"
    /\ outcome' = "infrastructure_failed"
    /\ pending' = NoTasks /\ snapshot' = NoTasks
    /\ UNCHANGED <<config, split, dataset, edits, request, planned, ran>>

(* select_dataset_tasks as engine.sh calls it: with the caller's limit only. *)
NamesUnchanged == {t \in DOMAIN dataset : dataset[t] # "absent"} = Tasks
ContentsUnchanged(names) == \A t \in names : dataset[t] = "frozen"

SelectTasks ==
    /\ pc = "select"
    /\ selected' = SelectedNames(request.split, request.limit)
    /\ IF NamesUnchanged /\ selected' # {} /\ ContentsUnchanged(selected')
       THEN /\ pc' = "copy"
            /\ UNCHANGED <<config, split, dataset, edits, request, planned, pending,
                           snapshot, ran, outcome>>
       ELSE ScriptFails

(* _snapshot_selected_tasks: one copytree per selected task.                 *)
CopyTask ==
    /\ pc = "copy"
    /\ \E t \in selected \ DOMAIN pending :
          /\ \A u \in selected \ DOMAIN pending : t <= u
          /\ IF dataset[t] # "absent"
             THEN /\ pending' = [u \in DOMAIN pending \cup {t} |->
                                   IF u = t THEN dataset[t] ELSE pending[u]]
                  /\ UNCHANGED <<pc, config, split, dataset, edits, request, planned,
                                 snapshot, ran, outcome>>
             ELSE ScriptFails
    /\ UNCHANGED selected

(* Deviation: the copies are trusted because the dataset was checked. *)
PublishOfTheSource ==
    /\ pc = "copy" /\ DOMAIN pending = selected
    /\ IF ContentsUnchanged(selected)
       THEN /\ snapshot' = pending /\ pending' = NoTasks /\ pc' = "write"
            /\ UNCHANGED <<config, split, dataset, edits, request, planned, ran, outcome>>
       ELSE ScriptFails
    /\ UNCHANGED selected

(* The copies, not the dataset, are compared with the frozen digests.        *)
Publish ==
    /\ pc = "copy" /\ DOMAIN pending = selected
    /\ IF \A t \in selected : pending[t] = "frozen"
       THEN /\ snapshot' = pending /\ pending' = NoTasks /\ pc' = "write"
            /\ UNCHANGED <<config, split, dataset, edits, request, planned, ran, outcome>>
       ELSE ScriptFails
    /\ UNCHANGED selected

(* task-names.txt, task_set_hash and task-split.json; an error takes the     *)
(* snapshot away.                                                           *)
WriteSelection ==
    /\ pc = "write"
    /\ \/ /\ pc' = "run"
          /\ UNCHANGED <<config, split, dataset, edits, request, planned, pending,
                         snapshot, ran, outcome>>
       \/ ScriptFails
    /\ UNCHANGED selected

(* The trials run the tasks of the run plan from the snapshot, the exit trap *)
(* removes it, and _runtime_selection_matches compares the two selections.   *)
RunTasks ==
    /\ pc = "run"
    /\ ran' = [t \in planned \cap DOMAIN snapshot |-> snapshot[t]]
    /\ snapshot' = NoTasks
    /\ outcome' = IF selected = planned THEN "scored" ELSE "infrastructure_failed"
    /\ pc' = "ready"
    /\ UNCHANGED <<config, split, dataset, edits, request, planned, selected, pending>>

SelectionNext ==
    \/ Freeze \/ RefuseToFreeze \/ EditDataset
    \/ Plan \/ SelectTasks \/ CopyTask \/ Publish \/ WriteSelection \/ RunTasks

SelectionSpec == SelectionInit /\ [][SelectionNext]_selectionVars

------------------------------------------------------------------------------
(* Every split gets its share of the tasks, rounded up or down and never     *)
(* further off, whatever the ratios and the number of tasks.                *)
SplitsAreFair ==
    pc \notin {"freeze", "refused"} =>
        \A s \in SPLIT_NAMES :
            LET error == Cardinality(Members(s)) * Parts - Size * config.ratios[s]
            IN  -Parts < error /\ error < Parts

(* A score comes from the planned tasks with their frozen contents, whoever  *)
(* edits the dataset and whenever: the snapshot is checked, not the source.  *)
ScoredTasksAreFrozen ==
    outcome = "scored" =>
        DOMAIN ran = planned /\ \A t \in planned : ran[t] = "frozen"
==============================================================================
