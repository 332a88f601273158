------------------------------ MODULE Admission ------------------------------
(***************************************************************************)
(* An outer agent drives one child by hand (orchestration.py): it forks a  *)
(* worktree, invokes operators one command at a time, edits the worktree    *)
(* between and, if it does not wait, during commands, and commits.  Every    *)
(* command holds the run lock; a command may die at any step and leaves      *)
(* the files it has already moved or written.                                *)
(*                                                                         *)
(* The operators leave their answers under runs/gen-<id>/ at the Paths       *)
(* below.  The content of the worktree is one of Trees; a tree in Outside    *)
(* changes a path outside the mutable surface.                               *)
(***************************************************************************)
EXTENDS Naturals, Sequences, FiniteSets

CONSTANTS
    None,
    Trees,          \* contents the worktree may have
    BaseTree,       \* the content at the parent's commit
    Outside,        \* the contents that leave the mutable surface
    Configured,     \* the operators in evolve.yaml
    MaxRuns,        \* bound: operator runs
    MaxCrashes      \* bound: commands that die

StageOrder == <<"select", "rollout", "analyze", "mutate", "validate", "novelty">>
StageNames == {StageOrder[i] : i \in DOMAIN StageOrder}
Judges     == {"validate", "novelty"}

ASSUME TreeAssumption ==
    BaseTree \in Trees \ Outside /\ Outside \subseteq Trees /\ None \notin Trees
ASSUME ConfiguredAssumption == Configured \subseteq StageNames
ASSUME BoundAssumption == MaxRuns \in Nat /\ MaxCrashes \in Nat

(* _STAGE_OUTPUTS *)
StageOutputs ==
    [select   |-> <<"parents.json">>,
     rollout  |-> <<"rollout">>,
     analyze  |-> <<"analyze", "feedback">>,
     mutate   |-> <<"mutate">>,
     validate |-> <<"validate">>,
     novelty  |-> <<"novelty.json", "novelty">>]

(* Where a stage's own answer is, and where its candidate receipt is. *)
AnswerPath(stage)  == StageOutputs[stage][1]
ReceiptPath(judge) == StageOutputs[judge][Len(StageOutputs[judge])]

Position(stage) == CHOOSE i \in DOMAIN StageOrder : StageOrder[i] = stage
AllPaths ==
    StageOutputs["select"] \o StageOutputs["rollout"] \o StageOutputs["analyze"]
    \o StageOutputs["mutate"] \o StageOutputs["validate"] \o StageOutputs["novelty"]
Paths == {AllPaths[i] : i \in DOMAIN AllPaths}
OutputsOf(stage) == {StageOutputs[stage][i] : i \in DOMAIN StageOutputs[stage]}
StageOf(path) == CHOOSE s \in StageNames : path \in OutputsOf(s)
Rank(path)    == CHOOSE i \in DOMAIN AllPaths : AllPaths[i] = path

VARIABLES
    tree,       \* content of the child worktree, or None when there is none
    head,       \* its HEAD: "parent" or "child"
    index,      \* the content staged in its index, None when clean
    outputs,    \* the active output at every path, or None
    tag,        \* the tree of tag gen/<id>, or None
    row,        \* what the archive says of the child, None when nothing
    pc, cmd,    \* the command being run and its step
    todo,       \* paths it has still to archive
    seen,       \* the tree it read last
    runs,       \* operator runs so far
    crashes,    \* commands that died so far
    judged,     \* history: the tree every judge read last, and its answer
    raced       \* history: the worktree was edited while a command ran

worktree == <<tree, head, index>>
durable  == <<worktree, outputs, tag, row>>
command  == <<pc, cmd, todo, seen>>
history  == <<judged, raced>>
admissionVars == <<durable, command, runs, crashes, history>>

AdmissionInit ==
    /\ tree = None /\ head = "parent" /\ index = None
    /\ outputs = [p \in Paths |-> None]
    /\ tag = None /\ row = None
    /\ pc = "idle" /\ cmd = None /\ todo = {} /\ seen = None
    /\ runs = 0 /\ crashes = 0
    /\ judged = [j \in Judges |-> None] /\ raced = FALSE

------------------------------------------------------------------------------
(* The agent's own hands *)

(* fork_agent_child *)
Fork ==
    /\ pc = "idle" /\ tree = None
    /\ tree' = BaseTree
    /\ UNCHANGED <<head, index, outputs, tag, row, command, runs, crashes, history>>

Edit(content) ==
    /\ tree # None /\ content # tree
    /\ tree' = content
    /\ raced' = (raced \/ pc # "idle")
    /\ UNCHANGED <<head, index, outputs, tag, row, command, runs, crashes, judged>>

(* git worktree remove, by the agent *)
DropWorktree ==
    /\ pc = "idle" /\ tree # None
    /\ tree' = None /\ head' = "parent" /\ index' = None
    /\ UNCHANGED <<outputs, tag, row, command, runs, crashes, history>>

(* git reset, by the agent *)
ResetIndex ==
    /\ pc = "idle" /\ index # None
    /\ index' = None
    /\ UNCHANGED <<tree, head, outputs, tag, row, command, runs, crashes, history>>

------------------------------------------------------------------------------
(* invoke_operator *)

HasOutput(stage) ==
    outputs[AnswerPath(stage)] # None /\ outputs[AnswerPath(stage)].valid

(* _assert_operator_prerequisites *)
Prerequisites(stage) ==
    (IF stage \in {"analyze", "mutate"} THEN {"rollout"} ELSE {}) \cup
    (IF stage = "mutate" THEN {"analyze"} \cap Configured ELSE {})

(* _assert_child_worktree_for_parent *)
OnParent == tree # None /\ head = "parent"

(* _invocation_checkout: select has a checkout of the champion of its own. *)
CheckoutReady(stage) == stage = "select" \/ OnParent

Existing(paths) == {p \in paths : outputs[p] # None}

(* Deviation: only the outputs of the stage itself are put away. *)
OwnOutputs(stage) == Existing(OutputsOf(stage))

(* _archive_active_outputs: this stage's outputs and those of every later one *)
StaleOutputs(stage) ==
    Existing({p \in Paths : Position(StageOf(p)) >= Position(stage)})

Invoke(stage) ==
    /\ pc = "idle" /\ runs < MaxRuns
    /\ stage \in Configured
    /\ CheckoutReady(stage)
    /\ \A s \in Prerequisites(stage) : HasOutput(s)
    /\ cmd' = stage /\ todo' = StaleOutputs(stage)
    /\ pc' = IF StaleOutputs(stage) = {} THEN "operator" ELSE "archive"
    /\ runs' = runs + 1
    /\ UNCHANGED <<durable, seen, crashes, history>>

ArchiveOutput ==
    /\ pc = "archive"
    /\ \E p \in todo :
          /\ \A q \in todo : Rank(p) <= Rank(q)
          /\ outputs' = [outputs EXCEPT ![p] = None]
          /\ todo' = todo \ {p}
          /\ pc' = IF todo = {p} THEN "operator" ELSE "archive"
    /\ UNCHANGED <<worktree, tag, row, cmd, seen, runs, crashes, history>>

Stop ==
    /\ pc' = "idle" /\ cmd' = None /\ todo' = {} /\ seen' = None

(* An answer is valid when the payload check of its stage takes it. *)
Answer(valid, accept) ==
    [run |-> runs, valid |-> valid, accept |-> accept, receipt |-> None]

(* The operator exits: with an answer at its path or without one, and with  *)
(* a status.  An answer left by a failed operator stays active.             *)
OperatorEnds(answer, status, next) ==
    /\ outputs' = [outputs EXCEPT ![AnswerPath(cmd)] = answer]
    /\ IF status = 0 /\ answer # None /\ answer.valid
       THEN pc' = next /\ UNCHANGED <<cmd, todo, seen>>
       ELSE Stop

(* select, rollout, analyze and mutate; only mutate changes the worktree *)
OperatorRuns(answer, status) ==
    /\ pc = "operator" /\ cmd \notin Judges
    /\ answer # None => answer.accept = answer.valid
    /\ IF cmd = "analyze" THEN OperatorEnds(answer, status, "feedback")
       ELSE /\ outputs' = [outputs EXCEPT ![AnswerPath(cmd)] = answer]
            /\ Stop
    /\ IF cmd = "mutate" /\ tree # None THEN tree' \in Trees ELSE tree' = tree
    /\ UNCHANGED <<head, index, tag, row, runs, crashes, history>>

WriteFeedback ==
    /\ pc = "feedback"
    /\ outputs' = [outputs EXCEPT !["feedback"] = Answer(TRUE, TRUE)]
    /\ Stop
    /\ UNCHANGED <<worktree, tag, row, runs, crashes, history>>

(* validate and novelty read the candidate, and answer later *)
JudgeReads ==
    /\ pc = "operator" /\ cmd \in Judges
    /\ seen' = tree
    /\ pc' = "judging"
    /\ UNCHANGED <<durable, cmd, todo, runs, crashes, history>>

JudgeAnswers(answer, status) ==
    /\ pc = "judging"
    /\ OperatorEnds(answer, status, "receipt")
    /\ judged' = IF answer # None /\ answer.valid
                 THEN [judged EXCEPT ![cmd] = <<seen, answer.accept>>]
                 ELSE judged
    /\ UNCHANGED <<worktree, tag, row, runs, crashes, raced>>

(* build_candidate_snapshot refuses a dirty index and a tree outside the    *)
(* surface.                                                                 *)
Snapshotable == index = None /\ tree \notin Outside

(* _write_candidate_receipt snapshots the worktree as it is now. *)
WriteReceipt ==
    /\ pc = "receipt"
    /\ IF Snapshotable
       THEN outputs' =
              [outputs EXCEPT ![ReceiptPath(cmd)] =
                 IF @ = None THEN [Answer(TRUE, TRUE) EXCEPT !.receipt = tree]
                 ELSE [@ EXCEPT !.receipt = tree]]
       ELSE UNCHANGED outputs
    /\ Stop
    /\ UNCHANGED <<worktree, tag, row, runs, crashes, history>>

------------------------------------------------------------------------------
(* commit_agent_child *)

(* Deviation: an answer is taken whatever tree its receipt names. *)
AdmitsAnyTree(judge) ==
    /\ HasOutput(judge) /\ outputs[AnswerPath(judge)].accept
    /\ outputs[ReceiptPath(judge)] # None

(* _assert_admission, _assert_candidate_receipt *)
Admits(judge) ==
    /\ HasOutput(judge) /\ outputs[AnswerPath(judge)].accept
    /\ outputs[ReceiptPath(judge)] # None
    /\ outputs[ReceiptPath(judge)].receipt = tree

BeginCommit ==
    /\ pc = "idle" /\ OnParent /\ Snapshotable
    /\ \A judge \in Judges \cap Configured : Admits(judge)
    /\ pc' = "commit" /\ cmd' = "commit"
    /\ UNCHANGED <<durable, todo, seen, runs, crashes, history>>

(* commit_child looks at the worktree again. *)
CommitChild ==
    /\ pc = "commit"
    /\ IF tag # None \/ row # None THEN Stop /\ UNCHANGED row
       ELSE /\ row' = CASE tree = BaseTree   -> "no_proposal"
                        [] tree \in Outside  -> "invalid_proposal"
                        [] OTHER             -> None
            /\ pc' = IF tree = BaseTree \/ tree \in Outside THEN "unfork" ELSE "snapshot"
            /\ UNCHANGED <<cmd, todo, seen>>
    /\ UNCHANGED <<worktree, outputs, tag, runs, crashes, history>>

Snapshot ==
    /\ pc = "snapshot"
    /\ IF Snapshotable THEN seen' = tree /\ pc' = "stage" /\ UNCHANGED <<cmd, todo>>
       ELSE Stop
    /\ UNCHANGED <<durable, runs, crashes, history>>

(* git add of the changed paths: an edit of one of them since the snapshot  *)
(* is staged with them, an edit elsewhere is not.                           *)
StagePaths ==
    /\ pc = "stage"
    /\ index' \in {seen} \cup ({tree} \ Outside)
    /\ pc' = "gitcommit"
    /\ UNCHANGED <<tree, head, outputs, tag, row, cmd, todo, seen, runs, crashes, history>>

(* commit_candidate_snapshot: git refuses an empty commit, and a commit      *)
(* whose tree is not the snapshot's is left without a tag.                   *)
CommitIndex ==
    /\ pc = "gitcommit"
    /\ index' = None
    /\ head' = IF index = BaseTree THEN head ELSE "child"
    /\ IF index # BaseTree /\ index = seen
       THEN pc' = "tag" /\ UNCHANGED <<cmd, todo, seen>>
       ELSE Stop
    /\ UNCHANGED <<tree, outputs, tag, row, runs, crashes, history>>

CreateTag ==
    /\ pc = "tag"
    /\ tag' = seen
    /\ pc' = "event"
    /\ UNCHANGED <<worktree, outputs, row, cmd, todo, seen, runs, crashes, history>>

AppendLineage ==
    /\ pc = "event"
    /\ row' = "committed"
    /\ pc' = "unfork"
    /\ UNCHANGED <<worktree, outputs, tag, cmd, todo, seen, runs, crashes, history>>

LeaveWorktree ==
    /\ pc = "unfork"
    /\ tree' = None /\ head' = "parent" /\ index' = None
    /\ Stop
    /\ UNCHANGED <<outputs, tag, row, runs, crashes, history>>

Crash ==
    /\ pc # "idle" /\ crashes < MaxCrashes
    /\ crashes' = crashes + 1
    /\ Stop
    /\ UNCHANGED <<durable, runs, history>>

Answers == {None, Answer(FALSE, FALSE), Answer(TRUE, FALSE), Answer(TRUE, TRUE)}

AdmissionNext ==
    \/ Fork \/ DropWorktree \/ ResetIndex
    \/ \E content \in Trees : Edit(content)
    \/ \E stage \in StageNames : Invoke(stage)
    \/ ArchiveOutput \/ WriteFeedback \/ JudgeReads \/ WriteReceipt
    \/ \E answer \in Answers, status \in {0, 1} :
          OperatorRuns(answer, status) \/ JudgeAnswers(answer, status)
    \/ BeginCommit \/ CommitChild \/ Snapshot \/ StagePaths \/ CommitIndex
    \/ CreateTag \/ AppendLineage \/ LeaveWorktree
    \/ Crash

AdmissionSpec == AdmissionInit /\ [][AdmissionNext]_admissionVars

------------------------------------------------------------------------------
(* An output never survives the rerun of a stage before its own, also when   *)
(* the command died while it moved outputs away: whatever is active at two    *)
(* stages was produced in the order of the stages (orchestration.py,          *)
(* _archive_active_outputs).                                                  *)
NothingStale ==
    \A p, q \in Paths :
        /\ outputs[p] # None /\ outputs[q] # None
        /\ Position(StageOf(p)) < Position(StageOf(q))
        => outputs[p].run < outputs[q].run

(* The tree that gets the tag is the one every configured judge read last    *)
(* and accepted, as long as nobody edits the worktree while a command runs    *)
(* (commit_agent_child, _assert_admission).                                  *)
QuietCommitIsJudged ==
    [][tag' # tag /\ ~raced =>
        \A judge \in Judges \cap Configured : judged[judge] = <<tag', TRUE>>]_admissionVars
==============================================================================
