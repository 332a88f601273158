------------------------- MODULE ChangeAttribution -------------------------
(***************************************************************************)
(* The memory of the AHE method: src/library/mutate/ahe.py stores with each *)
(* generation a manifest of what its edit should fix and what it may break, *)
(* and src/library/analyze/ahe.py holds it, one generation later, against   *)
(* the tasks that turned from failing to passing.                           *)
(*                                                                          *)
(* Generation g runs the tasks with its parent's candidate, is shown the    *)
(* verdict on its parent's edit, edits, and is committed.  Its run          *)
(* directory outlives failures and interruptions; a generation that is      *)
(* tried again may select another parent.                                   *)
(***************************************************************************)
EXTENDS Integers, FiniteSets

CONSTANTS
  ChangeTasks,    \* the tasks of the train split
  Seen,           \* what the trials of one task may show: sets of outcomes
  Manifests,      \* what an agent may write: sets of changes
  Generations,    \* bound: generations after generation 0
  Tries,          \* bound: tries of one generation
  Nothing

Outcomes == {"passed", "failed", "infra"}

(* A change: its number, the tasks it should fix and those it may break.     *)
ASSUME AttributionAssumption ==
  /\ Seen \subseteq SUBSET Outcomes
  /\ \A m \in Manifests : \A c \in m :
       c.fixes \subseteq ChangeTasks /\ c.risks \subseteq ChangeTasks
  /\ {Generations, Tries} \subseteq Nat \ {0}

Gens == 1..Generations

VARIABLES
  reuseRollout,  \* reuse_completed of operator rollout
  generation,    \* the one under way
  phase,         \* its next stage
  tries,
  base,          \* the parent selected in this try
  rollouts,      \* generation -> rollout/cases.json: whose, and what was seen
  manifests,     \* generation -> mutate/change_manifest.json and the edit it is of
  claims,        \* generation -> analyze/analysis/change_evaluation.json
  commits        \* generation -> its parent and its edit

changeVars == <<reuseRollout, generation, phase, tries, base, rollouts, manifests,
                claims, commits>>

Committed == {0} \cup {g \in Gens : commits[g] # Nothing}

-----------------------------------------------------------------------------
(* _build_jobs and _task_outcomes: a task fails if one comparable trial of   *)
(* it failed; a task without comparable trials is unknown.                   *)

TaskOutcome(shown) ==
  IF "failed" \in shown THEN "fail" ELSE IF "passed" \in shown THEN "pass" ELSE "unknown"

(* _load_cases. *)
Cases(g) == rollouts[g].seen

TransitionsTo(before, after, from, to) ==
  {t \in ChangeTasks : TaskOutcome(before[t]) = from /\ TaskOutcome(after[t]) = to}
Fixed(before, after) == TransitionsTo(before, after, "fail", "pass")
Broken(before, after) == TransitionsTo(before, after, "pass", "fail")

(* _change_verdict. *)
ChangeVerdict(change, fixed, broken) ==
  LET realized == change.risks \cap broken
      hit == change.fixes \cap fixed
  IN IF realized # {} THEN IF hit = {} THEN "HARMFUL" ELSE "MIXED"
     ELSE IF change.fixes # {} /\ hit = change.fixes THEN "EFFECTIVE"
     ELSE IF hit # {} THEN "PARTIALLY_EFFECTIVE" ELSE "INEFFECTIVE"

ManifestChanges(manifest) == IF manifest = Nothing THEN {} ELSE manifest.changes

(* Mutant: the generation before this one is taken for its parent. *)
GenerationBefore == IF base = 0 THEN 0 ELSE generation - 1

(* The run directory that the verdict is drawn from. *)
EvaluatedGeneration == base

(* _change_evaluation, for a parent that is no baseline.                     *)
Evaluate(judged) ==
  LET before == Cases(judged)
      after == Cases(generation)
      fixed == Fixed(before, after)
      broken == Broken(before, after)
      changes == ManifestChanges(manifests[judged])
      named == UNION {c.fixes \cup c.risks : c \in changes}
      edit == IF manifests[judged] = Nothing THEN Nothing ELSE manifests[judged].edit
  IN [parent |-> base, edit |-> edit,
      before |-> rollouts[judged].of, after |-> rollouts[generation].of,
      verdicts |-> {<<c, ChangeVerdict(c, fixed, broken)>> : c \in changes},
      fixed |-> fixed, broken |-> broken, unattributed |-> broken \ named]

-----------------------------------------------------------------------------
SelectParent ==
  /\ phase = "select"
  /\ \E p \in Committed : base' = p
  /\ phase' = "rollout"
  /\ UNCHANGED <<reuseRollout, generation, tries, rollouts, manifests, claims, commits>>

RollOut ==
  /\ phase = "rollout"
  /\ phase' = "analyze"
  /\ \/ /\ reuseRollout /\ rollouts[generation] # Nothing
        /\ UNCHANGED rollouts
     \/ /\ ~(reuseRollout /\ rollouts[generation] # Nothing)
        /\ \E seen \in [ChangeTasks -> Seen] :
             rollouts' = [rollouts EXCEPT ![generation] = [of |-> base, seen |-> seen]]
  /\ UNCHANGED <<reuseRollout, generation, tries, base, manifests, claims, commits>>

Analyze ==
  /\ phase = "analyze"
  /\ \/ /\ base = 0
        /\ claims' = [claims EXCEPT ![generation] = Nothing]
     \/ /\ base # 0 /\ EvaluatedGeneration \in Gens
        /\ rollouts[EvaluatedGeneration] # Nothing
        /\ claims' = [claims EXCEPT ![generation] = Evaluate(EvaluatedGeneration)]
  /\ phase' = "mutate"
  /\ UNCHANGED <<reuseRollout, generation, tries, base, rollouts, manifests, commits>>

(* The agent's manifest is read and removed from its checkout; one that is   *)
(* missing or names another generation fails the stage and leaves the file   *)
(* of an earlier try.                                                        *)
Extracted(changes) == [edit |-> <<generation, tries>>, changes |-> changes]

Mutate ==
  /\ phase = "mutate"
  /\ \/ /\ \E changes \in Manifests :
             manifests' = [manifests EXCEPT ![generation] = Extracted(changes)]
        /\ phase' = "commit"
     \/ /\ phase' = "failed"
        /\ UNCHANGED manifests
  /\ UNCHANGED <<reuseRollout, generation, tries, base, rollouts, claims, commits>>

NextGeneration ==
  /\ generation' = generation + 1
  /\ phase' = IF generation = Generations THEN "done" ELSE "select"
  /\ tries' = 1

Commit ==
  /\ phase = "commit"
  /\ commits' = [commits EXCEPT ![generation] =
                   [parent |-> base, edit |-> <<generation, tries>>]]
  /\ NextGeneration
  /\ UNCHANGED <<reuseRollout, base, rollouts, manifests, claims>>

(* Any stage may fail or be cut off; the child's checkout is removed and the *)
(* generation tried again, or given up.                                      *)
StartOver ==
  /\ phase # "done" /\ tries < Tries
  /\ tries' = tries + 1
  /\ phase' = "select"
  /\ UNCHANGED <<reuseRollout, generation, base, rollouts, manifests, claims, commits>>

GiveUp ==
  /\ phase # "done"
  /\ NextGeneration
  /\ UNCHANGED <<reuseRollout, base, rollouts, manifests, claims, commits>>

-----------------------------------------------------------------------------
ChangeInit ==
  /\ reuseRollout \in BOOLEAN
  /\ generation = 1 /\ phase = "select" /\ tries = 1 /\ base = 0
  /\ rollouts = [g \in Gens |-> Nothing]
  /\ manifests = [g \in Gens |-> Nothing]
  /\ claims = [g \in Gens |-> Nothing]
  /\ commits = [g \in Gens |-> Nothing]

ChangeNext ==
  \/ SelectParent \/ RollOut \/ Analyze \/ Mutate \/ Commit \/ StartOver \/ GiveUp

ChangeSpec == ChangeInit /\ [][ChangeNext]_changeVars

-----------------------------------------------------------------------------
(* The verdict that a generation is shown is one on the edit its parent was  *)
(* committed with, and it rests on a run of the candidate before that edit   *)
(* and a run of the candidate with it, whatever was tried and given up in    *)
(* either generation.  A change is EFFECTIVE only if the files of the two    *)
(* generations show its tasks failing before and passing after.  With        *)
(* reuse_completed the runs may be those of another parent, selected in a    *)
(* try that was cut off.                                                     *)
AttributionIsEarned ==
  \A g \in Gens : claims[g] # Nothing =>
    LET claim == claims[g]
        commit == commits[claim.parent]
    IN /\ claim.parent \in Gens /\ commit # Nothing
       /\ claim.edit \in {Nothing, commit.edit}
       /\ ~reuseRollout => claim.before = commit.parent /\ claim.after = claim.parent
       /\ g \in Committed =>
            \A c \in ManifestChanges(manifests[claim.parent]) :
              <<c, "EFFECTIVE">> \in claim.verdicts =>
                \A t \in c.fixes :
                  /\ "failed" \in rollouts[claim.parent].seen[t]
                  /\ rollouts[g].seen[t] \cap {"passed", "failed"} = {"passed"}
=============================================================================
