----------------------------- MODULE Minibatch -----------------------------
(***************************************************************************)
(* The paired comparison of GEPA: src/library/_shared/harbor/{rollout.py,   *)
(* execution.py,evidence.py} run Harbor on a batch of training tasks, first *)
(* for the parent (operator rollout) and then for the child on the same     *)
(* tasks (operator validate, src/library/validate/minibatch_improvement.py),*)
(* and the child is accepted if its rewards are better in sum.              *)
(*                                                                          *)
(* A batch may lose results (a timeout kills Harbor), an operator may fail  *)
(* or be killed anywhere, and the generation is then tried again in the     *)
(* same run directory, perhaps with another parent.  Harbor may report a    *)
(* task under a longer name than the split has.                             *)
(***************************************************************************)
EXTENDS Integers, FiniteSets, FiniteSetsExt

CONSTANTS
  TrainTasks,     \* the train split, numbers above 0
  LongNamed,      \* the tasks that Harbor reports under a longer name
  BatchRewards,   \* rewards of a verifier
  BatchParents,   \* candidates that select may choose as the parent
  MaxAttempts,    \* bound: tries of the generation
  NoBatch         \* no file, no verdict

ASSUME MinibatchAssumption ==
  /\ IsFiniteSet(TrainTasks) /\ TrainTasks \subseteq Nat \ {0} /\ TrainTasks # {}
  /\ LongNamed \subseteq TrainTasks
  /\ BatchRewards \subseteq Nat
  /\ MaxAttempts \in Nat \ {0}
  /\ NoBatch \notin BOOLEAN

Sides == {"parent", "child"}

VARIABLES
  stage,      \* <<operator's side, where it is>>
  dedicated,  \* EVOLVE_HARBOR_ROLLOUT_TASKS replaces the split
  reuse,      \* reuse_completed of operator rollout
  criterion,  \* of operator validate
  parent,     \* the parent chosen in this attempt
  attempt,
  batch,      \* tasks Harbor is asked for
  jobs,       \* side -> the results in the jobs directory
  caseFiles,  \* side -> cases.json
  finished,   \* side -> summary.json and artifacts.json describe cases.json
  verdict

batchVars == <<stage, dedicated, reuse, criterion, parent, attempt, batch, jobs,
               caseFiles, finished, verdict>>

-----------------------------------------------------------------------------
(* A name is a task's leaf name, or that name behind a prefix.               *)
ShortName(t) == [task |-> t, long |-> FALSE]
ReportedName(t) == [task |-> t, long |-> t \in LongNamed]
HarborBatch == ShortName(0)

(* What Harbor is running for this side; only a candidate's own results      *)
(* carry its mark.                                                           *)
Runner(side) == IF side = "parent" THEN <<parent, 0>> ELSE <<parent, attempt>>

CaseOfResult(r) == [name |-> ReportedName(r.task), reward |-> r.reward, by |-> r.by]
UnscoredCase(name, side) == [name |-> name, reward |-> {}, by |-> Runner(side)]

TasksOf(found) == {c.name.task : c \in found}
NamesOf(found) == {c.name : c \in found}

(* _with_missing_result_placeholders: by leaf name, for a split's tasks only. *)
WithPlaceholders(found, side) ==
  IF dedicated THEN found
  ELSE found \cup {UnscoredCase(ShortName(t), side) : t \in batch \ TasksOf(found)}

OrBatchFailure(found, side) ==
  IF found = {} THEN {UnscoredCase(HarborBatch, side)} ELSE found

CollectedCases(side) ==
  OrBatchFailure(WithPlaceholders({CaseOfResult(r) : r \in jobs[side]}, side), side)

(* _completed_rollout.                                                       *)
Completed == reuse /\ caseFiles["parent"] # NoBatch /\ finished["parent"]

(* _select_train_tasks with the parent's names: a long name is accepted for  *)
(* its leaf, every name must be one of the split, and no task twice.         *)
RequestIsValid(names) ==
  /\ \A n \in names : n.task \in TrainTasks
  /\ \A m, n \in names : m.task = n.task => m = n

ParentNames == NamesOf(caseFiles["parent"])

-----------------------------------------------------------------------------
(* One rollout, of the parent or of the child.                               *)

(* Mutant: the jobs directory of an earlier attempt is used again. *)
ResetNothing(side) == jobs

Reset(side) == [jobs EXCEPT ![side] = {}]

RefuseBatch ==
  /\ stage' = [stage EXCEPT !.at = "refused"]
  /\ UNCHANGED <<dedicated, reuse, criterion, parent, attempt, batch, jobs, caseFiles,
                 finished, verdict>>

Launch(side, tasks) ==
  /\ batch' = tasks
  /\ jobs' = Reset(side)
  /\ stage' = [stage EXCEPT !.at = "running"]
  /\ UNCHANGED <<dedicated, reuse, criterion, parent, attempt, caseFiles, finished, verdict>>

RollOutParent ==
  /\ stage = [side |-> "parent", at |-> "start"]
  /\ \/ /\ Completed
        /\ stage' = [side |-> "child", at |-> "start"]
        /\ UNCHANGED <<dedicated, reuse, criterion, parent, attempt, batch, jobs, caseFiles,
                       finished, verdict>>
     \/ /\ ~Completed
        /\ \E tasks \in SUBSET TrainTasks \ {{}} : Launch("parent", tasks)

(* The split's tasks are the parent's; a dedicated directory gives as many   *)
(* tasks as the parent has names, whichever Harbor takes.                    *)
RollOutChild ==
  /\ stage = [side |-> "child", at |-> "start"]
  /\ \/ /\ ~dedicated /\ ~RequestIsValid(ParentNames)
        /\ RefuseBatch
     \/ /\ ~dedicated /\ RequestIsValid(ParentNames)
        /\ Launch("child", TasksOf(caseFiles["parent"]))
     \/ /\ dedicated
        /\ \E tasks \in SUBSET TrainTasks \ {{}} :
             /\ Cardinality(tasks) <= Cardinality(ParentNames)
             /\ Launch("child", tasks)

FinishTask ==
  /\ stage.at = "running"
  /\ \E t \in batch, reward \in {{}} \cup {{r} : r \in BatchRewards} :
       /\ \A r \in jobs[stage.side] : r.by = Runner(stage.side) => r.task < t
       /\ jobs' = [jobs EXCEPT ![stage.side] = @ \cup
                     {[task |-> t, reward |-> reward, by |-> Runner(stage.side)]}]
  /\ UNCHANGED <<stage, dedicated, reuse, criterion, parent, attempt, batch, caseFiles,
                 finished, verdict>>

(* Harbor is done, fails, or is killed at the timeout; cases.json is written *)
(* before anything else may fail.                                            *)
EndBatch ==
  /\ stage.at = "running"
  /\ caseFiles' = [caseFiles EXCEPT ![stage.side] = CollectedCases(stage.side)]
  /\ finished' = [finished EXCEPT ![stage.side] = FALSE]
  /\ stage' = [stage EXCEPT !.at = "written"]
  /\ UNCHANGED <<dedicated, reuse, criterion, parent, attempt, batch, jobs, verdict>>

WriteSummary ==
  /\ stage.at = "written"
  /\ finished' = [finished EXCEPT ![stage.side] = TRUE]
  /\ stage' = IF stage.side = "parent" THEN [side |-> "child", at |-> "start"]
                                       ELSE [stage EXCEPT !.at = "compare"]
  /\ UNCHANGED <<dedicated, reuse, criterion, parent, attempt, batch, jobs, caseFiles, verdict>>

-----------------------------------------------------------------------------
(* The comparison.                                                           *)

Unscorable(found) == {c \in found : c.reward = {}}

(* _task_scores and its total: the mean of a task's rewards, one at a time   *)
(* for a jobs directory that was reset.                                      *)
Total(found) ==
  MapThenSumSet(LAMBDA c : CHOOSE r \in c.reward : TRUE, found \ Unscorable(found))

ScoreAccepts ==
  IF criterion = "strict" THEN Total(caseFiles["child"]) > Total(caseFiles["parent"])
                          ELSE Total(caseFiles["child"]) >= Total(caseFiles["parent"])

ComparisonComplete ==
  Unscorable(caseFiles["parent"]) = {} /\ Unscorable(caseFiles["child"]) = {}

Compare ==
  /\ stage = [side |-> "child", at |-> "compare"]
  /\ \/ /\ NamesOf(caseFiles["child"]) # ParentNames
        /\ RefuseBatch
     \/ /\ NamesOf(caseFiles["child"]) = ParentNames
        /\ verdict' = (ComparisonComplete /\ ScoreAccepts)
        /\ stage' = [stage EXCEPT !.at = "judged"]
        /\ UNCHANGED <<dedicated, reuse, criterion, parent, attempt, batch, jobs, caseFiles,
                       finished>>

(* An operator failed or was killed; the generation is tried again.          *)
TryAgain ==
  /\ stage.at # "judged"
  /\ attempt < MaxAttempts
  /\ attempt' = attempt + 1
  /\ \E p \in BatchParents : parent' = p
  /\ stage' = [side |-> "parent", at |-> "start"]
  /\ UNCHANGED <<dedicated, reuse, criterion, batch, jobs, caseFiles, finished, verdict>>

-----------------------------------------------------------------------------
MinibatchInit ==
  /\ stage = [side |-> "parent", at |-> "start"]
  /\ dedicated \in BOOLEAN /\ reuse \in BOOLEAN
  /\ criterion \in {"strict", "non_decreasing"}
  /\ parent \in BatchParents /\ attempt = 1
  /\ batch = {}
  /\ jobs = [s \in Sides |-> {}]
  /\ caseFiles = [s \in Sides |-> NoBatch]
  /\ finished = [s \in Sides |-> FALSE]
  /\ verdict = NoBatch

MinibatchNext ==
  \/ RollOutParent \/ RollOutChild \/ FinishTask \/ EndBatch \/ WriteSummary
  \/ Compare \/ TryAgain

MinibatchSpec == MinibatchInit /\ [][MinibatchNext]_batchVars

-----------------------------------------------------------------------------
(* A child is accepted only for rewards of this very child, on the tasks of  *)
(* the rollout it is compared with, each task scored once on either side,    *)
(* and those rewards are the better ones in sum (or as good, if the          *)
(* criterion says so).  The other side is one candidate's rollout, and this  *)
(* attempt's parent's unless a completed rollout is used again.              *)
Once(found, tasks) ==
  \A t \in tasks : \E c \in found :
    c.name.task = t /\ c.reward # {} /\ \A d \in found : d.name.task = t => d = c

VerdictIsEarned ==
  verdict = TRUE =>
    LET P == caseFiles["parent"]
        C == caseFiles["child"]
    IN /\ TasksOf(P) = TasksOf(C)
       /\ Once(P, TasksOf(P)) /\ Once(C, TasksOf(P))
       /\ \A c \in C : c.by = <<parent, attempt>>
       /\ \E p \in BatchParents :
            /\ \A c \in P : c.by = <<p, 0>>
            /\ ~reuse => p = parent
       /\ \/ Total(C) > Total(P)
          \/ criterion = "non_decreasing" /\ Total(C) >= Total(P)
=============================================================================
