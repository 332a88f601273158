--------------------------- MODULE CandidateFiles ---------------------------
(***************************************************************************)
(* What a child's commit holds, file by file.  An agent edits the child's    *)
(* worktree, and may stage or commit by itself; the mutate operator reports  *)
(* a patch (patching.py); the driver looks at the changed paths (driver.py,  *)
(* surface.py), builds the snapshot in an index of its own                   *)
(* (candidate/snapshot.py), commits the same paths and tags the result.      *)
(* A process that the agent left behind may still edit while it does.        *)
(*                                                                          *)
(* Git names a file that it does not track by the highest directory that     *)
(* holds no file of the index (git.py, dirty_paths): a path is the name of   *)
(* a file or of a directory.                                                *)
(***************************************************************************)
EXTENDS Naturals, Sequences, SequencesExt, FiniteSets, FiniteSetsExt

CONSTANTS
  Files,        \* names of files
  DirsOf,       \* file -> its directories under target/, outermost first
  ParentFiles,  \* files of the parent's commit
  IgnoredFiles, \* files that .gitignore names
  OutsidePaths, \* files and directories that check_paths refuses
  Leftover,     \* may a process of the agent outlive it
  MaxTouches,   \* bound: edits of the agent
  NoContent     \* no such file

ASSUME FilesAssumption ==
  /\ \A f \in Files : DirsOf[f] \in Seq(STRING) /\ ToSet(DirsOf[f]) \cap Files = {}
  /\ ParentFiles \subseteq Files /\ IgnoredFiles \subseteq Files
  /\ \A f \in Files : ToSet(DirsOf[f]) \cap OutsidePaths # {} => f \in OutsidePaths
  /\ NoContent \notin {"old", "new"}
  /\ Leftover \in BOOLEAN /\ MaxTouches \in Nat

Contents == {"old", "new", NoContent}
ParentTree == [f \in Files |-> IF f \in ParentFiles THEN "old" ELSE NoContent]

VARIABLES
  commitStep,  \* where the driver is
  touches,     \* edits so far
  work,        \* the files of the worktree
  staging,     \* its index
  headTree,       \* the tree of its HEAD
  listed,      \* working_tree_changed_paths, as build_candidate_snapshot read it
  snapshotted, \* the snapshot's tree
  tagged,      \* the tree of the child's tag, or NoContent
  seenWork,    \* history: the worktree when the snapshot was listed
  late         \* history: an edit came after that

fileVars == <<commitStep, touches, work, staging, headTree, listed, snapshotted, tagged,
              seenWork, late>>

Present(tree) == {f \in DOMAIN tree : tree[f] # NoContent}

(* git diff --name-only parent: the worktree as far as the index tracks it.  *)
TrackedWork == [f \in Files |-> IF staging[f] = NoContent THEN NoContent ELSE work[f]]
DiffersFrom(tree) == {f \in Files : TrackedWork[f] # tree[f]}

(* git status --porcelain: what is staged, what differs from the index, and   *)
(* what is neither tracked nor ignored, by its highest untracked directory.  *)
TrackedIn(dir) == {f \in Present(staging) : Contains(DirsOf[f], dir)}
FreshDirs(f) == {i \in DOMAIN DirsOf[f] : TrackedIn(DirsOf[f][i]) = {}}
StatusName(f) == IF FreshDirs(f) = {} THEN f ELSE DirsOf[f][Min(FreshDirs(f))]
Untracked == (Present(work) \ Present(staging)) \ IgnoredFiles
DirtyPaths ==
  {f \in Files : staging[f] # headTree[f]}
    \cup {f \in Present(staging) : work[f] # staging[f]}
    \cup {StatusName(f) : f \in Untracked}

(* A plausible fault: only what git tracks is compared with the parent.       *)
ChangedTracked == DiffersFrom(ParentTree)

ChangedPaths == DiffersFrom(ParentTree) \cup DirtyPaths

Violations(paths) == paths \cap OutsidePaths
IndexIsClean == staging = headTree

(* git add -A -- paths on an index: a directory stands for the files in it.   *)
Covered(paths) == {f \in Files : f \in paths \/ \E d \in paths : Contains(DirsOf[f], d)}
AddPaths(index, paths) ==
  [f \in Files |-> IF f \in Covered(paths) /\ (f \in Present(index) \/ f \notin IgnoredFiles)
                   THEN work[f] ELSE index[f]]

FilesInit ==
  /\ commitStep = "agent" /\ touches = 0
  /\ work = ParentTree /\ staging = ParentTree /\ headTree = ParentTree
  /\ listed = {} /\ snapshotted = NoContent /\ tagged = NoContent
  /\ seenWork = NoContent /\ late = FALSE

----------------------------------------------------------------------------
(* The agent: it writes and removes files, and may use git by itself.        *)
EditFile(f, content) ==
  /\ touches < MaxTouches /\ touches' = touches + 1
  /\ \/ commitStep \in {"agent", "judges"}
     \/ Leftover /\ commitStep \in {"listed", "built"}
  /\ content # work[f] /\ work' = [work EXCEPT ![f] = content]
  /\ late' = (late \/ commitStep \in {"listed", "built"})
  /\ UNCHANGED <<commitStep, staging, headTree, listed, snapshotted, tagged, seenWork>>

StageFile(f) ==
  /\ touches < MaxTouches /\ touches' = touches + 1
  /\ commitStep = "agent" /\ staging[f] # work[f]
  /\ staging' = [staging EXCEPT ![f] = work[f]]
  /\ UNCHANGED <<commitStep, work, headTree, listed, snapshotted, tagged, seenWork, late>>

CommitByAgent ==
  /\ commitStep = "agent" /\ ~IndexIsClean
  /\ headTree' = staging
  /\ UNCHANGED <<commitStep, touches, work, staging, listed, snapshotted, tagged, seenWork, late>>

(* The agent is done: create_candidate_patch lists the changes and builds a   *)
(* snapshot of them, which an index with staged files refuses; gepa ends in   *)
(* failure when a change is outside the surface, the others only report it.  *)
MutateEnds(refusesOutside) ==
  /\ commitStep = "agent"
  /\ commitStep' =
       IF Violations(ChangedPaths) # {}
       THEN IF refusesOutside THEN "operator_failed" ELSE "mutated"
       ELSE IF IndexIsClean THEN "mutated" ELSE "operator_failed"
  /\ UNCHANGED <<touches, work, staging, headTree, listed, snapshotted, tagged, seenWork, late>>

(* _run_child, before validate and novelty *)
CheckChanges ==
  /\ commitStep = "mutated"
  /\ commitStep' = CASE ChangedPaths = {} -> "no_proposal"
                     [] ChangedPaths # {} /\ Violations(ChangedPaths) # {} -> "invalid_proposal"
                     [] OTHER -> "judges"
  /\ UNCHANGED <<touches, work, staging, headTree, listed, snapshotted, tagged, seenWork, late>>

(* commit_child: the same questions again, and HEAD is the parent's commit.   *)
ListChanges ==
  /\ commitStep = "judges"
  /\ commitStep' = CASE headTree # ParentTree -> "raised"
                     [] headTree = ParentTree /\ ChangedPaths = {} -> "no_proposal"
                     [] headTree = ParentTree /\ Violations(ChangedPaths) # {} -> "invalid_proposal"
                     [] OTHER -> IF IndexIsClean THEN "listed" ELSE "raised"
  /\ listed' = IF commitStep' = "listed" THEN ChangedPaths ELSE {}
  /\ seenWork' = IF commitStep' = "listed" THEN work ELSE NoContent
  /\ UNCHANGED <<touches, work, staging, headTree, snapshotted, tagged, late>>

(* git add fails on a file that is neither there nor in the index.           *)
PathsExist(index) == listed \cap Files \subseteq Present(work) \cup Present(index)

BuildSnapshot ==
  /\ commitStep = "listed"
  /\ IF PathsExist(ParentTree)
     THEN commitStep' = "built" /\ snapshotted' = AddPaths(ParentTree, listed)
     ELSE commitStep' = "raised" /\ UNCHANGED snapshotted
  /\ UNCHANGED <<touches, work, staging, headTree, listed, tagged, seenWork, late>>

(* git commit fails when there is nothing to commit; a commit that differs    *)
(* from the snapshot is left without a tag.                                  *)
CommitSnapshot ==
  /\ commitStep = "built"
  /\ LET committed == AddPaths(staging, listed)
     IN IF ~PathsExist(staging) \/ committed = headTree
        THEN commitStep' = "raised" /\ UNCHANGED <<staging, headTree, tagged>>
        ELSE /\ staging' = committed /\ headTree' = committed
             /\ commitStep' = IF committed = snapshotted THEN "tagged" ELSE "raised"
             /\ tagged' = IF committed = snapshotted THEN committed ELSE NoContent
  /\ UNCHANGED <<touches, work, listed, snapshotted, seenWork, late>>

FilesNext ==
  \/ \E f \in Files, content \in Contents : EditFile(f, content)
  \/ \E f \in Files : StageFile(f)
  \/ CommitByAgent
  \/ \E refusesOutside \in BOOLEAN : MutateEnds(refusesOutside)
  \/ CheckChanges \/ ListChanges \/ BuildSnapshot \/ CommitSnapshot

FilesSpec == FilesInit /\ [][FilesNext]_fileVars

----------------------------------------------------------------------------
(* The tag of a child holds the whole candidate and nothing but it: what was  *)
(* in the worktree when it was listed, untracked files included, except what *)
(* is ignored, provided that nothing edited it afterwards; and whatever       *)
(* edits it, a file outside the surface is the parent's unless it lies in a   *)
(* directory that the parent did not have (snapshot.py, git.py).             *)
NothingForgotten ==
  ~late => \A f \in Files : f \in ParentFiles \/ f \notin IgnoredFiles => tagged[f] = seenWork[f]

NewDirectory(dir) == \A f \in ParentFiles : ~Contains(DirsOf[f], dir)

SurfaceKept ==
  \A f \in OutsidePaths \cap Files :
    tagged[f] = ParentTree[f] \/ \E dir \in ToSet(DirsOf[f]) : NewDirectory(dir)

TagIsTheCandidate == tagged # NoContent => NothingForgotten /\ SurfaceKept

(* "The surface is the authoritative candidate-change boundary"               *)
(* (docs/guides/custom-recipes.md): a child's tag never differs from its      *)
(* parent in a file that check_paths refuses.                                *)
SurfaceIsTheBoundary ==
  tagged # NoContent => \A f \in OutsidePaths \cap Files : tagged[f] = ParentTree[f]
============================================================================
