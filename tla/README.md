# EvolveX: formal models of the evolution mechanism

EvolveX evolves an agent: a driver selects parents from an archive, lets
operators mutate a checkout of a parent, commits the result as a tagged
candidate, evaluates it, lets a gate decide and appends everything to an
append-only archive. An experiment runs for days, is interrupted, and is resumed
from what is on disk. This directory models that driver and what surrounds it
(the archive's files, evaluations, candidates, operators, workspaces),
model-checks the models with TLC and proves the central invariants with TLAPS.
Paths below are relative to the repository's `src/evolve/` unless they start with
another directory.

## Inventory

| Component | State | Operations | Correct when | Modules |
|---|---|---|---|---|
| Archive rows (`archive.py`) | one merged row per generation, its evaluations by task set | fold of one event per line | no event order takes an acceptance back | `ArchiveRows` |
| Archive files (`archive.py`) | `archive.jsonl`, its mirror under `EVOLVE_HOME`, receipts of each | append to both, merge both, append receipt, restore after an operator | no event or receipt is lost | `ArchiveStore` |
| Driver (`driver.py`) | place in generation and child; on disk: tags, worktrees, gate input, `best_ever.json` | run, resume, repair | every run continues the earlier ones | `Driver`, `Lineage` |
| Orchestration (`orchestration.py`, `agent.py`) | stage outputs, admission receipts, the child's worktree | fork, invoke one operator, commit, by an external agent | only an admitted, unchanged candidate is committed | `Admission` |
| Candidate (`git.py`, `surface.py`, `patching.py`, `candidate/snapshot.py`) | worktree, index, commit, file by file | report, check, snapshot, commit | the tag is the candidate and nothing else | `CandidateFiles` |
| Population (`population.py`, `report.py`, `run_summary.py`, `feedback.py`) | champion, reports | `best_row`, `is_parent_record`, summaries | readers agree with the driver | `RunReport` |
| Evaluation (`evaluation/`, `preflight/`, `runtime/uv.py`) | attempt directories, contract, receipts, trial evidence | reserve, preflight, build, run, classify, summarise | a score follows from certified trials; blame is earned | `Evaluation`, `Evidence` |
| Task splits (`splits.py`, the evaluator script) | split manifest, dataset, snapshot | freeze, plan, select, copy, run | scored tasks are the frozen ones | `TaskSelection` |
| Environment (`runtime/environment.py`, `config.py`, `auth.py`) | recorded endpoint, host environment | resolve a plan | a role gets the values meant for it | `RuntimeEnvironment` |
| Processes (`runtime/process.py`) | descendant tree of a command | run, time out, terminate | what is read of a tree that is given up on dies | `ProcessTree` |
| Workspace (`workspace.py`, `composition/`) | seed, recipe, library, first commit | init; resolve, digest, materialize | generation 0 is the seed, operators are the resolved ones | `WorkspaceInit`, `Composition` |
| Library operators (`library/`) | run directory per generation | select, rollout, analyze, mutate, validate, novelty, gate, record, reflect | verdicts, credit and prompts rest on the evidence they name | `Population`, `ParetoSelect`, `Minibatch`, `Replay`, `ChangeAttribution`, `BehaviorEvidence`, `HarborMutate`, `PrivateSearch`, `DriverNovelty` |
| Execution runtime probes, command line, recipes, images | external programs, text | probe, parse, render | listed in `PROJECT.json` with the reason | none |

How they interact. The driver holds an exclusive lock on the workspace
(`workspace_run_lock`), so there is one driver at a time, and the agent commands
take the same lock. It starts operators and the evaluator as child processes and
waits; they read the archive (through `ArchiveView`, which may rewrite the files
without the lock) and write only their own outputs, which later operators, of this
and of later generations, read as files. Everything a later run knows is on disk:
archive lines, receipts, git tags, registered worktrees, attempt directories, run
directories.

What is hard. Every durable fact is a separate write, and a kill between any two
leaves a state the next run must read correctly. Resume decides in two ways what
is unfinished, and the merged row is the result of a dozen override rules. Run
directories outlive tries that were given up, and a generation that is tried again
may have another parent. Files are checked at one moment and used at another while
agents, leftover processes and people may edit them: the candidate, the dataset,
the library, the evidence of an evaluation, the host's environment. Outcomes are
inferred from exit codes, partial evidence and deadlines. `PROJECT.json` lists
each of these places under `hazards` with the properties that watch it.

## Modules

| Module | What it is |
|---|---|
| `ArchiveRows` | the merge of one archive line into a row, the pending and recorded scans, `is_parent_record` |
| `Driver` | the driver's control, the files it writes, faults, repair; its properties |
| `Lineage`, `DriverLineage` | abstract specification: the life of a generation; the refinement mapping from `Driver` |
| `RunReport` | what summary, report, audit and feedback bundle say of a state of `Driver` |
| `DriverNovelty` | `Driver` with the reader of raw lines that the novelty operator is |
| `DriverInvariant`, `ArchiveRowsProofs`, `DriverProofs` | inductive invariant, lemmas and theorems |
| `DriverLineageProofs` | the refinement of `Lineage`, as a theorem |
| `DriverSafetyProofs` | the driver's other invariants: checkouts and cache, nothing skipped, order and tags, what is published |
| `ArchiveStore` | the archive's files: two copies with receipts, synchronised, appended to, restored after operators, crashed and lost |
| `ProcessTree` | one owned subprocess with its descendants and the supervisor |
| `Evidence`, `Evaluation` | the pure algorithms from trials to an outcome and diagnostics; evaluations of a commit with preflight, environment, script, interrupts and kills |
| `TaskSelection` | splits, plan, selection and verified snapshot of tasks |
| `Replay` | from Harbor's results to a task vector and certified files, and back to cases in a later generation (uses `Evidence`) |
| `Minibatch` | the paired comparison of parent and child on a batch of training tasks |
| `ChangeAttribution` | the AHE method's verdicts on earlier edits |
| `BehaviorEvidence` | what the A-Evolve prompt is made of |
| `HarborMutate` | one mutation in a Harbor job: deadlines, import and rollback |
| `PrivateSearch` | the search of a file for private task names, chunk by chunk |
| `CandidateFiles` | the files of a child's commit |
| `Admission` | an outer agent's commands on one child |
| `Population` | the search that the small select, gate, record and reflect operators make |
| `ParetoSelect` | frontier pruning |
| `WorkspaceInit` | `evolve init` with kills, and the run that follows |
| `Composition` | recipe resolution, digests and materialization of operators |
| `RuntimeEnvironment` | the environment plan of agent, verifier and mutate runner |
| `HostProofs` | theorems about `ArchiveStore`, `ProcessTree`, `BehaviorEvidence` and `ChangeAttribution` |
| `EvaluationProofs` | theorems about `Evaluation` |
| `CandidateProofs` | theorems about `HarborMutate`, `PrivateSearch`, `CandidateFiles`, `Admission` and `Population` |
| `LibraryProofs` | theorems about `TaskSelection`, `ParetoSelect`, `Replay`, `Minibatch`, `WorkspaceInit`, `Composition` and `RuntimeEnvironment` |
| `MC...` | values for TLC; one `.cfg` per run. `MCHost`, `MCCandidate` and `MCLibrary` each hold several modules that share no state: the initial state decides which of them runs, and a step is a step of that one |

**ArchiveRows.** Rows and events are functions over the keys present, because
`merged_rows` distinguishes a key that is absent from one that is `None`: a
stamped key that is present is protected. `MergeEvent` is the body of the
`merged_rows` loop. Folding it over the lines gives the row, so `Driver` keeps the
folded row of each generation (`rows`) instead of the lines, which bounds the
state without losing anything the code reads; the two other readings of the same
lines are folded beside it (`gatePending`, `recordAttempted`). The archive of a
`Driver` behaviour is thus a list of events represented by its folds.

**Driver.** `pc` says where the process is; each action is one handler, or the
part of one handler between two durable writes that a resumed run can tell
apart. For `commit_child` these are `CommitSnapshot`, `CreateTag`,
`AppendLineage`, `LeaveWorktree`; for an evaluation `StartEvaluation` (attempt
directory), `FinishEvaluation` (event), `AppendReceipt`, `MaterializeBestEver`;
for the gate `EnterGate`, `GateDecides` or `GateFails`, then the record actions,
then `LeaveGate` (the `finally` that refreshes `best_ever.json`). Operators
and the evaluator answer nondeterministically with anything their output schema
admits. `Crash` is SIGKILL: the process state is lost and nothing is cleaned up.
`Abort` is any exception that unwinds, so worktrees are removed.
`InterruptEvaluation` is the one exception that writes something on the way out:
a `cancelled` outcome. A tag whose lineage line a fault cut off (`LineageLost`) is held
against the surface a second time before its evaluation, file by file and against the
champion (`_finalize_child`), and may be refused although it was committed
(`RecheckRejects`). People start runs, call `repair`, save edits and delete
temporary files.

| Variable | In the code |
|---|---|
| `rows`, `gatePending`, `recordAttempted` | what `merged_rows`, `_evaluation_pending_gate_record_genids` and `_record_attempted` return for `archive.jsonl` |
| `tags` | `gen/<id>`, with the generation its commit was forked from |
| `worktrees` | `git worktree list`: the child checkouts under `runs/worktrees` and the temporary ones; whether one holds edits, whether its directory is still there |
| `attempts` | the highest `attempt-<n>` directory of the primary evaluation |
| `gateInput` | `runs/gen-<id>/gate/input.json`: the parent whose row the gate sees, or none |
| `bestEver` | `best_ever.json` |
| `pc`, `gen`, `slot`, `selected`, `parent`, `back` | position and locals of `_run_locked`, `_run_child`, `_resume_tagged_child`, `_run_terminal_record` |
| `faults` | bound on crashes and exceptions |

Operators named `... Twice`, `... Stale`, `... IgnoringTag` and the like, marked
*Deviation*, are not part of `Next`: each is a plausible wrong version of the
action that follows it, and is what the property listed with it in
`PROJECT.json` (`mutants`) tells apart from the code.

**ArchiveStore.** `Driver` treats an append as one write to one archive. Here the
archive is the four files it really is: `lines` and `receipts` of the `local` copy
and of the `mirror`, with `exists` for the archive files and `marker` for the
workspace id in the git directory that attributes the mirror to the workspace.
Processes (`at`, `held`, `todo`) move one file operation at a time.
`ensure_local_archive` is `Synchronise`, `ReadLocal`, `ReadMirror`, `Replace` of each
copy (a rename, so one action), `ReadReceipts`, and a `Truncate` and `Fill` of each
receipts file (`write_text`, so two). `append_event` is `AppendLocal`,
`AppendMirror`, `CertifyLocal`, `CertifyMirror`. `_run_operator_guarded` is
`StartOperator` (remembers the files), `OperatorWrites` (the workspace copy, which
is all an operator is pointed at: its `EVOLVE_HOME` is private) and
`FinishOperator`, whose restore truncates and fills each file. The owner of the
workspace lock appends and runs operators; `Readers` only synchronise, without the
lock. `Crash` drops what a process held; `LoseCopy` and `Reinitialise` are what a
person or a disk does to one copy when the other is whole. The lines are a fixed
list (`Workload`), so `appended` bounds the behaviour; `ledger`, `certified`,
`synced` and `single` are history variables. `Merge` picks the lines of both files
that were not seen before, in order (`LinesAt`), and `HistoryKept` picks the lines of
the history out of a copy in the same way.

**RunReport** adds no state. `Summary`, the report's claims, the receipt audit and
the feedback bundle's lineage are operators over `Driver`'s rows and tags, each
with the conditions of its own reader (`run_summary.py`, `report.py`,
`archive.verify_integrity`, `feedback.py`). The receipt and score of an anchor are
not kept and taken as written. **DriverNovelty** runs `Driver` beside `recent`, the
set that `_recent_accepted` finds in the raw lines.

**ProcessTree.** `running`, `parent`, `group`, `holds` (who has the output pipe open; nobody
with live output) and `stubborn` (who ignores SIGTERM) are the operating system's; `Fork`,
`Exit` and `Regroup` (a process founds a group of its own) change them at any moment. The
supervisor gives up, lists the processes (`ListProcesses`), reads their entries one by one
(`ReadEntry`: who has exited is skipped, who was born since is not seen, who has lost its
parent is init's), puts together what is below the root (`TreeRead`), looks up the groups
and signals them (two steps, so a process may found a group between them), waits for the grace
period, and either sweeps what is left of the tree it has read or reads the tree again and
kills both (`GraceSuffices`, `GraceEnds`); then it drains the output. The listing of names,
one round of lookups and one round of signals are each one step.
`agent` is `run_mutate`, which signals the root's group without reading a table, and on an
interrupt leaves everything running (`Abandon`, `agent.py:79`); an interrupt during the
termination leaves the other callers too. `orderly` trees are those that start
nothing more once they are given up on and end from the leaves; only of these can all be
read, and only about them are `OrderlyTreeDies` and `OrderlyTimeoutEnds`.

**Evaluation**, with the pure module **Evidence**. An evaluation walks through
`evaluate()`: `Start`, contract (`ResolveFails`), `Reserve` of an attempt directory,
preflight, preparation of the candidate's environment (`CheckLock`,
`SyncDependencies`, `BuildLocal`), `Verify` of its receipt, `RunScript`,
`ClassifyScript`, `LeaveWorktree`, `WriteSummary`, `Return`; `EvaluationRaises`,
`Interrupt` and `Kill` may come at any of them. `disk` holds what the files of every
attempt say. `ailments` is what is really wrong with candidate and host; no step
reads it, it decides which commands fail, so that blame can be compared with the
truth. The script leaves any set of trials of `Kinds` under planned and unplanned
names, with any exit quirk. Rewards are integers, a timeout may leave one of its own, and
scores are exact fractions. Diagnostics list the `FailureKindsKept` most frequent kinds of
failure (16 in the code).

**TaskSelection** follows one experiment: `Freeze` assigns tasks to splits by
largest remainder, `EditDataset` changes the dataset directory at any time, `Plan` is the
contract's choice of members, `SelectTasks` the script's, `CopyTask` and `Publish`
make the snapshot that trials read, `RunTasks` runs them and compares.

**Replay.** `harbor` are Harbor's results, `vector` and `index` what the evaluator
writes, `reference` the digest that the archive keeps; `ReadReference`, `VerifyTrial`,
`LookForExtras`, `Materialize`, `WriteCases` are the later replay in
`parent_evaluation.py`, with `Tamper` between any two of them. Equal contents stand for
equal digests. **Minibatch.** Results accumulate in a jobs directory per side (`jobs`),
are written to `caseFiles` and compared; `TryAgain` starts the generation again in the
same directory, possibly with another parent.
**ChangeAttribution.** Each generation's `rollouts`, `manifests`, `claims` and `commits`
are its files; `StartOver` leaves them in place for the next try.
**BehaviorEvidence.** A document is a sequence of lines, a line tells some fields of one
case. A rollout leaves cases, `StartAnalysis` takes the window of trajectories along the
lineage (`Earlier`: for every generation and number of cycles that are left, what the
generation and its ancestors tell), a pool of judges (`AskJudge`, `JudgeAnswers`,
`JudgeErrs`) answers in any order, `WriteEvidence`, `WriteBundle` and `BuildPrompt`
carry the result to the prompt. The analyzer is fixed for a run; texts are not clipped.

**HarborMutate.** `clock` in milliseconds runs through the phases of a Harbor job
under its own caps and the two deadlines of `mutate_budget.py`; `overran` remembers
that a phase exceeded its allowance. The import is a sequence of renames (`Copy`,
`Rename`, `Check`, `Discard`) with a handler (`UndoSpace`, `UndoInstalled`,
`UndoMoved`); contents are `old`, `new` or gone, in the checkout, among the
replacements or among the backups. Every step of both may fail (`CanRaise` names all
ten). `torn` remembers the two failures that the code has no answer to: the removal of the
finished transaction, half way, and a step of the handler.
**PrivateSearch.** `_contains_private_task_name` over one file: `from` and `searched` delimit
the text that the pattern sees, which is the tail kept of the former text and one
chunk (`ReadChunk`), and at the end the tail alone (`FileEnds`). The pattern knows nothing
of what lies before the text, and a match at its very end is left to the next one.

**CandidateFiles.** `work`, `staging` and `headTree` are a child's worktree, index and
HEAD, file by file in nested directories; git names an untracked file by the
highest directory without tracked files, and so do `dirty_paths` and the snapshot
here. **Admission.** The worktree's content is one of `Trees`; outputs carry the
command run that wrote them; a command's steps are `orchestration.py`'s, and it may
die after any (`Crash`), while the agent edits at any moment.

**Population.** `family` are the rows, `rundir` the files a try leaves behind,
`playbook` what reflect accumulates. A try may be cut off before the commit or at
the gate (`CutOff`), and is then gated against a parent selected anew. A prediction is
a list of entries <<position, task>>, since `predicted_fixes.json` may name a task twice;
edits may have the same heading (`note`), and credit belongs to headings.
**ParetoSelect** computes `fronts` and prunes them one parent at a time.

**WorkspaceInit.** One action per thing that init writes, `Killed` after any of them,
`RemoveWorkspace` by the user, and `StartRun`, which evaluates what the tag `gen/0`
holds. A file's kind (`KindOf`) says what the workspace's ignore rules and the copying
make of it: `git add .` leaves out ignored assets of the recipe, `git add -f` takes the
whole target (`Added`). **Composition.** `library` is edited at any moment (`Rewrite`,
`RemoveSource`) while `AskOperator`, `TakeDigest` and `FreezeSource` read it at three
different ones.
**RuntimeEnvironment.** `Resolve` makes the plan of an evaluation from the host's
environment of that moment, the recorded endpoint and the recipe's overrides; values are
sets of words, names have a spelling in capitals.

## Properties

The driver, over a run, an interrupted run, and every run after it:

- `CommittedOnAccepted`: what a candidate was forked from is accepted, and stays so.
- `AcceptanceIsFinal`, `EvaluatedOnce`: nothing accepted is taken back or rescored,
  nothing evaluated is evaluated again.
- `PendingIsConsistent`: the two readings of "awaiting gate and record" agree.
- `PastIsSettled`: the loop never leaves a child behind that it would have to come
  back to, except one whose gate failed, which is gated again on the next run.
- `NoWorktreeLeft`, `OperatorsSeeChampion`: agreement of archive, worktrees and
  champion cache.
- `SummaryAgrees`, `ReportIsHonest`: what is published about a run means what the
  driver means by it (that rejected children are out of use and that the archive is in
  order of ids are parts of them).
- `ImplementsLineage`: the whole is a run of `Lineage`. `RunTerminates`: a live driver
  ends its run unless a command hangs; it never goes in circles.

Around the driver:

- `HistoryKept` (no line that reached both copies is lost, and the owner, once
  synchronised, has all of them before it), `CertificatesKept` (one fault takes no
  certificate back if a synchronisation completes before the next), `GuardRestores`.
- `TargetsDie`, `OrderlyTimeoutEnds`: a command that is given up on leaves nothing of what
  was read of it (but a process that founds a group under the supervisor's eyes), nothing
  of the root's group, nothing at all of an orderly tree, and then the call returns.
- `ScoreIsCertified`, `RecordFromContract`: a score stands on an unbroken chain, is
  the sum over the contract's own trials, and the diagnostics beside it agree with
  it. `HealthyIsScored`: nothing on the way
  refuses a healthy candidate. `BlameIsEarned`: a candidate is declared invalid only
  for a defect of its own, an evaluator's verdict, or one of two checks that cannot
  tell. `OnlyTheKilledLeave`, `EvidenceKept`: clean up and no reuse of attempts.
- `SplitsAreFair`, `ScoredTasksAreFrozen`: shares and contents of tasks.
- `ReplayIsCertified`, `ScoreCountsCleanPasses`, `VerdictIsEarned`,
  `AttributionIsEarned`, `JudgedByBehavior`: cases, scores, verdicts, claims about
  edits and prompts rest on the runs they name, whatever earlier tries, tampering or
  late answers left beside them.
- `FrontierIsExact`, `ProgressIsReal`: the search's choice of parents and its record
  of progress.
- `ImportIsSafe`, `BudgetSuffices`, `NoMentionMissed`: a Harbor mutation is all or nothing
  whatever step of the import fails, and never called a success when the undoing fails too;
  it is not killed while it keeps to its allowances; no mention of a private task is lost
  between two chunks.
- `TagIsTheCandidate`, `NothingStale`, `QuietCommitIsJudged`: the tag is the whole
  candidate, judged as it is, and no output outlives the rerun of an earlier stage.
- `GenesisIsTheSeed`, `FrozenAsResolved`, `RolesSeeTheirSources`: what a workspace
  starts from is what was asked for, but for assets under ignored names.

## Runs

| Run | Instance | Shows |
|---|---|---|
| `resume` | 2 generations of 1 child, 3 stages, record on, 2 faults, 1 failed outcome | the driver's invariants and action properties over every pair of crash or exception points, with any number of resumes and repairs (3.7 million states) |
| `liveness` | 1 generation of 2 children, all 5 stages, sealed split and final anchor, 1 fault | `RunTerminates` and `ImplementsLineage` under `FairSpec`, and the report |
| `host` | 3 archive lines, one owner, unbounded crashes and losses; a root with 2 descendants; 3 generations of 2 trials, 2 judges with 2 attempts, 1 retry; 3 generations with 2 tries and a manifest of 2 changes | archive files, processes, prompts, claims |
| `evaluation` | 2 tasks, 1 repetition, 7 kinds of trials, one of them a timeout with a reward of 3, one failure kind listed, floor 1/2, 2 evaluations, 1 interrupt or kill, every single defect of 14 and the pairs that hide each other | certification, score, blame, cleanup (10.4 million states) |
| `candidate` | 2 roots and a namespace, 1 retry, every step of the import and of its undoing failing; 3 private names, chunks of 2, all files of up to 6 characters of 3 kinds; 5 files in 2 nested directories, 4 edits; 4 operator runs, 1 dead command, 4 trees; 3 children, 2 tasks, lists of predictions, 2 headings, 6 recipes, 1 cut | the candidate's way and the search (5.8 million states) |
| `library` | 4 tasks in 3 splits over all ratios in fifths; 3 parents and 3 tasks; 2 trials of 7 results, 2 writes; 2 tasks, 2 tries; 5 seed files, 4 assets of which one is ignored, 2 inits; 2 stages, 2 bundles, 1 edit; 20 host environments, 1 change | the seven parts named above |
| `retry` | violation | a gate that fails once: its `operator_failed` event overrides the pending row as terminal (`archive.py:419`) and erases the score; the retry accepts, the row says `keep`, and the generation can never be a parent |
| `gateparent` | violation | a gate that failed is retried by the next run, which hands it the parent that select returns now (`driver.py:1158`) |
| `reader` | violation | a reader (`evolve status`, `report`, any `ArchiveView`) that read both copies before an append replaces both after it: the line is gone |
| `novelty` | violation | the verdict line that makes a child accepted names neither tag nor parent, so the novelty operator, which reads raw lines, compares with nobody |
| `surface` | violation | an excluded file in a directory new to the parent is committed: git names the directory only |
| `import` | violation | the removal of a finished transaction fails half way (`harbor.py:590`): the handler takes away what was installed and has no backup left to put back, so the import that is called transactional (`docs/guides/mutate-operators.md:91`) leaves neither the old nor the new |

Why the bounds are enough. A fault of the driver is interesting relative to one
child and what happens to it afterwards: one fault puts the child in any
intermediate state, the second interrupts its recovery; a second generation then
selects from the result. `MaxFaults` bounds crashes and exceptions only: failing
operators, resumes and repairs are unbounded. Two scores order candidates both
ways; failed outcomes are treated alike, but for an infrastructure failure, which
only a newer attempt may replace and no run of the driver makes after an outcome
exists. In `ArchiveStore` lines interact by being in a copy or not and certified or
not; three lines give a first, a middle and a last. Two trials suffice for coverage
below, at and above the floor and for one in place of another; a defect acts alone
or hides one other. In the parts of `host`, `candidate` and `library` one retry or one
foreign edit gives every mixture of two versions, a third generation every parent
other than the last, and a second root, task, judge or file an order. Ids are not
symmetric (ties are broken by order); the only symmetry used is that of the headings in
`candidate`, which the code compares and never orders. With the recipe's
`greedy` the strict gate is not explored, with `newest` it is.

Deadlock is checked in the runs of `MCDriver` and of `ArchiveStore` alone, where
something can always happen: an idle workspace can always be repaired. The other
systems come to an end (`CHECK_DEADLOCK FALSE`): an evaluation, a mutation, a
selection is over.

Fairness. `Driver`'s `FairSpec` asks weak fairness of the steps in which the driver starts
no command and only reads and writes files (`OwnLabels`). Everywhere else it waits: operators
have a timeout, but the evaluator's script (`evaluation/execution.py:442`), `uv`, git
(`git.py:18`) and the reading of the output after a kill (`runtime/process.py:67`) have none,
so `RunTerminates` admits a driver that waits for ever at one such place. What it excludes is
that the driver goes round in circles, or stands still of itself. `ProcessTree` asks weak
fairness of the termination once it has begun (`Termination`): the table can be read to its
end and the grace period has one. Nothing is asked of people, crashes, descendants, the
deadline, or of which answer an operator gives.

## Proofs

For every value of the constants, under the named assumptions in the modules that
declare them (TLC evaluates them in every run):

| Theorem | Module | Establishes |
|---|---|---|
| `Invariant` | `DriverProofs` | `Spec => []IInv` |
| `TypeCorrect` | | `Spec => []TypeOK` |
| `AncestorsAccepted` | | `Spec => []CommittedOnAccepted` |
| `PendingAgrees` | | `Spec => []PendingIsConsistent` |
| `AcceptanceFinal` | | `Spec => AcceptanceIsFinal` |
| `OutcomeFinal` | | `Spec => EvaluatedOnce` |
| `DriverRefinesLineage` | `DriverLineageProofs` | `Spec => ImplementsLineage` |
| `NothingIsLeftBehind` | `DriverSafetyProofs` | `Spec => []NoWorktreeLeft` |
| `CacheIsCurrent` | | `Spec => []OperatorsSeeChampion` |
| `NothingIsSkipped` | | `Spec => []PastIsSettled` |
| `OrderIsKept` | | `Spec => []ArchiveInOrder` |
| `RejectedStaysUnused` | | `Spec => []RejectedIsUnused` |
| `SummaryIsSound` | | `Spec => []SummaryAgrees` |
| `ReportIsSound` | | `Spec => []ReportIsHonest` |
| `OneFaultKeepsCertificates` | `HostProofs` | `Spec => []CertificatesKept`, without other readers |
| `OperatorsLeaveTheArchive` | | `Spec => GuardRestores`, without other readers |
| `ArchiveKeepsHistory` | | `Spec => []HistoryKept`, without other readers, for distinct events |
| `TreeTargetsDie` | | `TreeSpec => []TargetsDie` |
| `ClaimsHold` | | `ChangeSpec => []AttributionIsEarned` |
| `PromptsShowBehavior` | | `BehaviorSpec => []JudgedByBehavior` |
| `StrictScoresAreCertified` | `EvaluationProofs` | `Spec => []ScoreIsCertified` |
| `StrictRecordsAccount` | | `Spec => []RecordFromContract` |
| `BlameIsNeverGuessed` | | `Spec => []BlameIsEarned` |
| `EvaluationsCleanUp` | | `Spec => []OnlyTheKilledLeave` |
| `HealthyCandidatesScore` | | `Spec => []HealthyIsScored` |
| `AttemptsAreImmutable` | | `Spec => EvidenceKept` |
| `ImportIsAtomic` | `CandidateProofs` | `MutateSpec => []ImportIsSafe` |
| `BudgetIsEnough` | | `MutateSpec => []BudgetSuffices`, for a timeout above zero |
| `NothingPrivateIsMissed` | | `SearchSpec => []NoMentionMissed` |
| `TagHoldsTheCandidate` | | `FilesSpec => []TagIsTheCandidate` |
| `NothingIsEverStale` | | `AdmissionSpec => []NothingStale` |
| `TaggedTreeIsJudged` | | `AdmissionSpec => QuietCommitIsJudged` |
| `ProgressShownIsReal` | | `PopulationSpec => []ProgressIsReal` |
| `FairSplits` | `LibraryProofs` | `SelectionSpec => []SplitsAreFair` |
| `FrozenTasks` | | `SelectionSpec => []ScoredTasksAreFrozen` |
| `CoverageIsKept` | | pruning never uncovers a task |
| `NothingIsRedundant` | | what is left is minimal |
| `FrontierStaysExact` | | `ParetoSpec => []FrontierIsExact` |
| `ReplaysAreCertified` | | `ReplaySpec => []ReplayIsCertified` |
| `OnlyCleanPassesCount` | | `ReplaySpec => []ScoreCountsCleanPasses` |
| `AcceptanceIsEarned` | | `MinibatchSpec => []VerdictIsEarned` |
| `RunsStartFromTheSeed` | | `WorkspaceSpec => []GenesisIsTheSeed` |
| `WorkspacesRunWhatWasResolved` | | `CompositionSpec => []FrozenAsResolved` |
| `RolesSeeOnlyTheirSources` | | `EnvironmentSpec => []RolesSeeTheirSources` |

Between them the theorems state every invariant and every action property that a
passing run checks. Some have a hypothesis, each a difference that is documented below
or in a run. With another reader the archive does lose lines and certificates (run
`reader`), so the three theorems about `ArchiveStore` are of an owner alone
(`Readers = {}`), as in `host`. Two events with the same text become one when the copies
are merged (`archive.py:117`), so `ArchiveKeepsHistory` is of a workload of distinct
lines. A timeout of zero gives no phase any time.

*Driver*: any number of generations, children, stages and faults, any set of integer
scores. The properties are not inductive. `IInv` (module `DriverInvariant`) adds

- `EntriesOK`: what holds of a merged row whatever its history. A row with no
  outcome has no owning evaluation and no eligibility, a complete one is
  eligible; without it a merge could make a row complete and not a parent, or
  drop a verdict.
- `PositionOK`: which labels speak of which generation, so that `Current` is a
  child wherever the driver writes about it.
- `CurrentOK`: what the driver knows at a label. Before the tag exists the child has
  no tag (and at `tag` no row at all, and its parent is accepted); between the
  tag and the evaluation event it has no outcome; at the gate it is pending. These
  are the facts that make each append harmless: an event about an undecided
  generation cannot disturb an accepted one.

The argument goes through the merge. `ArchiveRowsProofs` shows what each kind of
event can change in a row (`UnkeyedMerge`, `AuxiliaryMerge`,
`FirstEvaluationMerge`) and what values a row may come to hold (`MergedValues`).
`DriverProofs` then has one lemma per kind of append, one per group of actions,
and `StepKeepsIInv` by cases on `Next`. The two action properties follow step by
step from `IInv` in the state before: `EvaluatedOnce` because an evaluation starts
only at an undecided generation, `AcceptanceIsFinal` because an event is appended
only about a generation that is undecided or still pending, an accepted one is
neither, and an anchor leaves the row alone.

*Driver implements Lineage*. `StageTable` reads the stage of a generation off its tag, its
outcome and its status; it follows from `EntriesOK`, so it holds before a step and
after it. Each kind of line, the receipt and the tag then has a lemma that says which
stage it moves its generation to and that the others stay (`DiscardLineage`,
`VerdictLineage`, `TagLineage`, ...). Two facts are needed beyond `IInv`: only an
evaluation has a receipt (`RowsInv`), since a receipt on a row without an outcome
would let the evaluation itself accept it; and what is on its way to an evaluation has
not been given up (`ControlInv`), since `Lineage` does not evaluate what is closed.

*Clean runs*. `CheckoutsOK` says which kinds of checkout may exist at each label of a
run without faults, and `CacheOK` between which labels `best_ever.json` may lag: from
the line that accepts to the end of its `finally`. Both rest on `NothingAccepted`:
lines other than receipt and verdict make nobody a valid parent.

*Nothing skipped*. `PastIsSettled` speaks of the generations before; the proof needs the
present one. `PastInv` says which siblings are settled in each half of a generation:
while failures of select are recorded, those given up so far; while children are run,
all before the current one and, of those after it, the ones without a parent; at
record and after it, the current one. A generation whose gate failed stays
pending, so `Settled` admits that case, and `StatusWritten` shows that the failure
does overwrite the status of a row that awaits its gate.

*Order and tags*. A settled child has a row (`SettledIsPresent`), so `PastInv` puts a
row before every candidate; the exceptions are children given up by select and lines
without a status. A rejection is written before the tag, and the tag is made only for an
empty row; or it is the second look at a tag without its lineage line that refuses.
Without faults only the child the driver works on has no outcome yet, and its line is on
the way (`NothingLost`), so a second look that refuses means a fault; what it refuses
has no outcome and gets none (`OutOfUse`), and only what has one is forked from. The
runs check `ArchiveInOrder` and `RejectedIsUnused` as conjuncts of `ReportIsHonest` and
`SummaryAgrees`.

*What is published*. Summary, report and audit read single columns of a row (a status, a
score, a task set) and draw conclusions about other columns. A row is folded from several
events, so none of these conclusions holds by one line of code. `StoryInv` is the story
that every row tells, at every label: a row that claims to be a parent has a complete
evaluation and a verdict (`ClaimStands`); a complete row has a tag, a decision and the
selection's task set (`CompleteStands`); a status "complete" has a score and, while its
verdict is out, is known to the gate (`StatusStands`); the columns that are stamped come
with a status (`RowBegins`); the seed is unscored until it is evaluated (`SeedAwaits`);
only the seed and the accepted have a complete anchor (`AnchorStands`). `PlaceOK` ties it
to the driver's place: before its commit a child's row is empty, and what is measured at
the end is accepted. Best rows exist because a finite population ordered by score and
position has a maximum. Summary and report then follow from `StoryInv` with `PastInv`
(what is behind is settled) and `OrderInv` (tie break by id).

*ParetoSelect*: any finite or infinite set of integer candidates and rewards, finitely
many tasks. The invariant says that every task with a front keeps a member that is not
dominated. Minimality needs no more of the past: pruning ends only when no
candidate left is spare on all its fronts (`SurvivorIsNeeded`).

*TaskSelection*: any finite set of tasks and any denominator of the ratios. The
remainders of the three divisions add up to the tasks left over times the
denominator (`FractionsAreTheRest`), fewer than three are left over, and only a
split with a fraction is served (`OnlyFractionsRoundUp`), so no split is a whole task
off (`CountIsFair`). `FrozenTasks` rests on the snapshot: what is published was
compared with the frozen contents after it was copied.

*ArchiveStore*: any workload and any of its lines evaluations. `StoreInv` follows one
synchronisation of the owner. `RewritesOK`: what is not on the list of files still to
be rewritten (`todo`, a suffix of one fixed list) is as the owner holds it.
`SyncedOK`: who is past a synchronisation has both copies. `CertificatesOK`: before
the next synchronisation at most one receipts file lacks a certificate, the one
that has just been truncated, and what the owner holds has them all, so the rewrite
puts back what a crash left out.

The history needs a second invariant, `PastInv`. That one copy holds every line is not
enough: the merge reads the local copy first, and if this one lacked a line before
one that it has, the line would come back in the wrong place. So `PastOK` also says that
the local copy tells the history from its start (`FromStart`), whatever an operator or a
truncation made of it, that each copy has the lines in their order and once (`InOrder`),
that both copies are whole once they are synchronised, and that the mirror is what the
owner holds until the local copy is written back. `TextsOK` says that a line on its way
to the mirror is new, which makes it the last of the history. `LinesAtAre` and
`PickIsUnique` show that `LinesAt` is the one list of the lines at some places;
`MergeKeeps` follows from it for the merge and `HeldInOrder` for the property: a text
that holds a history of distinct lines, in order, has just them among its lines.

*ProcessTree*: any finite set of process ids, any tree. `SignalInv` goes through one round:
what of the targets is alive is in a group that was looked up, or has regrouped since;
the root leads its group until it is dead, and nobody else can found a group of that
number (`GroupDies`). `OrderlyInv` is about the reading of a tree that ends from its leaves:
everything that runs has a running parent that was born before it (`ParentsRun`), and its
entry is still to be read or links it to that parent. What holds of the root, and of a
process once it holds of its parent, then holds of all (`DownTheTree`, by the least
process for which it would fail), so the root ends last (`RootLast`) and what was read is
everything that runs (`AllAreRead`).

*ChangeAttribution*: any tasks, manifests, generations and tries. Parents are settled
generations (`ParentsAreSettled`), and the files of a settled generation are those of
the try that was committed (`CommitsMatchFiles`), although its directory survives
tries; a claim then speaks of the edit its parent was committed with, and whether the
tasks named in it failed before and pass now is read off the right two rollouts
(`ClaimsAreEarned`).

*BehaviorEvidence*: any outcomes, numbers of generations, reruns, observations, judges
and attempts. Each generation's cases are its own and those of its last try (`TracesOK`),
and parents come before their children; so what `Earlier` tells of a generation is of its
lineage, however many cycles are told (`EarlierIsOfTheLineage`), and the window is of this
try and of the parent's lineage (`WindowIsShown`). `StagesOK` hands this from stage to
stage: what the judge is asked about, verdicts that are each about their own trajectory
whatever the order of answers, evidence, bundle, prompt.

*Evaluation*: any task set, repetitions, floor, names of trials and sets of defects.
`ChainOK` lists what the steps before the score have established, step by step
(contract, preflight, receipt of the environment), `RuntimeOK` relates what the
preparation says of the candidate to what is really wrong, `CleanOK` says which
worktrees and environments may exist. `ClassifyScript` is then a matter of cases: each
way to a record needs the links before it. `HealthyIsScored` needs of the sums only
that trials which all passed leave none missing, and of the coverage that the floor
is at most one. `RecordFromContract` needs the sums themselves. `CreditsAreSummed` goes
from the vector of rewards, in its order, to the sum over the contract's identities, and
`SumsRenamed` shows that a trial may stand for its identity in a sum. That its own reader
accepts every diagnostics block rests on `KindsAreBounded`: the most frequent kinds
of failure that are kept are never more than the block may list.

*HarborMutate*. The import counts its renames. Root number *i* is moved away by
rename 2*i*-1 and replaced by rename 2*i*, so `RootsMidway` and `SparesMidway` give
the contents of every root, backup and copy as a function of the counter, forwards and
during the rollback (`RootsUndone`); `NothingLost` says that each root exists somewhere
at every moment, which is what a kill leaves. All this is said of an import that is not
torn (`AtomicInv`); `TornInv` says that only the last removal and the handler tear one, after
which no path leads to a success. The budget: `OnSchedule` bounds the
clock by the allowances of the phases gone by (`HarborSoFar`, `TrialSoFar`), and what is
left covers the phases to come for any number of retries (`RoundsFit`), so that a
deadline only passes when a phase has overrun.

*PrivateSearch*: any names, texts, chunk sizes and characters. A mention that was not found
begins in the part that is searched again (`SearchInv`): it is no longer than the longest
name (`MentionIsShort`), so if it began before the tail it ended before the end of
the text, and there it is a match too (`MentionMatches`). The first match, which alone
decides, may be another one (`FirstMatch`), but it begins no later and is no longer than a
name (`MatchIsShort`), so it ends before the end of the text too, and the search would
have stopped (`ChunkKeepsMentions`).

*CandidateFiles*: any files in any directories. Between listing and tag, index and HEAD
are the parent's (`FilesInv`), the listing covers every file that differs from the
parent (`ListIsWhole`), and names nothing outside the surface (`ListIsInside`), so the
commit that adds what is listed holds the candidate.

*Admission*: any selection of operators, trees and crash points. `OutputsInOrder` gives
every output a level, that of its stage: while an operator of some level is invoked
nothing above that level exists, and everything below it is older than the run.
`QuietInv` follows a command that nobody disturbs: a receipt names the tree that its
judge has read last (`ReceiptsAreTrue`), and from the check of the commit to the tag
that tree is the one committed. It also needs `OutputsInOrder`, since a judge that
runs again must find its own receipt gone.

*Population*: any tasks, any number of children and cuts, every `MinResults` up to the
number of tasks. `ParentsArePicked` (a row's parent is one select could have returned
when the row was written), `KeptScoreTheirParent` (with a champion as parent and a gate
that compares, kept rows never lose score along the lineage), `VerifiedAreFixes` and
`CreditIsCounted` (the playbook's credit for a heading is the number of verified entries
of the predictions under it, also where a task is listed twice, and none is added again
when reflect runs again).

*Replay*, *Minibatch*: `ReplayInv` says that the index that the archive's digest names
certifies files of the evaluation's own trials, and that what is in memory equals that
index whatever happens to the files between two reads. `MinibatchInv` says that a file
of cases is a batch (`IsBatch`): one result for each task, all by one runner; results
of another parent's try may lie beside them. `OnlyCleanPassesCount` computes the score of
the stricter reading of a trial, where an exception comes before a reward.

*Data.* The library's induction theorems take an operator as a parameter, which the
provers cannot instantiate. What is proved by induction here (sums, the merge, the
ancestors of a generation) is proved by the least counterexample: the numbers where the
statement fails are a set, which has a least member if it has one (`SmallestSet`, `LeastOf`,
from the well-foundedness of `<`). The same argument shows that a recursive function
over numbers exists and satisfies its equation (`EarlierExists`, `PickExists`,
`SumsExist`).

*WorkspaceInit*, *Composition*, *RuntimeEnvironment*: `WorkspaceInv` says how much of
the seed is where at each step of init, so that a tag `gen/0` names all of it, but for
ignored assets, whatever was killed. `ComposeInv`: a stage that is needed is resolved,
listed as a problem or still to come; an operator that is frozen is the one whose digest
was taken. `EnvironmentInv` with `PlanHoldsEntry`: entries that agree are read back from
the plan as they are, and an entry's value is of the recorded endpoint, the role's
override or the host. Both assume what the code checks before it gets there: an endpoint
is one word, and the protected names are in capitals.

Only model-checked: `RunTerminates` and `OrderlyTimeoutEnds`, since liveness under
fairness is out of the prover's reach, and that the six violations are ones.

## Where code and documentation differ, without a run

Found while modelling; each is excluded by name in a property, or outside it. Paths of
`harbor.py` are of `library/_shared/runners/`.

- A gate failure after a resume writes the newly selected parent into the row
  (`driver.py:1247`), and a child tagged but not yet recorded is stamped with the
  champion as parent (`driver.py:777`): the archive's lineage
  (`docs/reference/terminology.md:94`) then differs from the tags'.
- A killed driver's temporary select, eval, gate or record checkout stays registered;
  `run` is refused and `repair` only reports it (`driver.py:464` against the advice
  at `driver.py:145`).
- A kill between the baseline's event and its receipt leaves a baseline that is
  complete and never certified; every fork from it is refused (`archive.py:204`).
  `verify_integrity` (`archive.py:313`) says of any such row that the archive was
  edited by hand, and the bundle's `last_accepted.diff` (`feedback.py:44`) may show one.
- After the tree was killed the output is read without a timeout
  (`runtime/process.py:67`): a process that was not read to be in the tree and holds the
  pipe blocks the call, although `run_owned` has a deadline. Such a process is one whose
  parent had ended before its own entry was read, or one started after that. `run_mutate`
  handles its timeout only (`agent.py:79`): any other exception leaves the agent running.
- git (`git.py:18`), `uv` (`runtime/uv.py`) and the evaluator script
  (`evaluation/execution.py:442`) run without a timeout.
- A child whose lineage line was cut off is checked again by the names of its files
  (`driver.py:805`), where `commit_child` checked what `git status` names, and may be
  refused after it was committed.
- An evaluation in a legacy workspace accepts an unexpected trial in place of a
  missing one. A dependency file with CRLF line ends never certifies
  (`evaluation/contract.py:395` against `runtime/uv.py:41`). With a full scope and
  `tasks_per_round` the contract limits the planned tasks (`evaluation/contract.py:183`) but
  the script does not (`scaffolds/evaluators/harbor/engine.sh:78`), and after all tasks have
  run the evaluation is an infrastructure failure (`evaluation/execution.py:273`, against
  `tests/test_evaluation_contract.py:106`).
- A timeout counts with whatever reward the evaluator wrote for it, also where a timeout
  is to be zero (`evaluation/results.py:227`).
- A case of a replay or a batch is `passed` by its reward alone
  (`library/_shared/harbor/evidence.py:124`), where the score of the same trial gives
  an exception precedence (`harbor_artifacts.py:360`).
- With `reuse_completed` a generation that resumes with another parent reuses the
  former parent's rollout (`library/_shared/harbor/execution.py:209` against
  `docs/reference/operators/validate.md:19`).
- In the AHE method a regression of a task that was predicted to be fixed is neither a
  realized risk nor an unattributed one.
- The A-Evolve Harbor bundle holds `rollout/`, `analyze/` and `feedback/` of every
  generation, labels and scores included, whatever the analyzer
  (`library/_shared/runners/harbor.py:260` against `docs/reference/operators/analyze.md:80`);
  `JudgedByBehavior` is about the prompt. `_clear_drafts` runs after the agent and
  deletes the drafts that it has just written.
- The operator SDK writes `rationale.md` and `usage.json` only where there are none, so
  those of an earlier try stay (`frozen/sdk.py:134`); a resumed generation is never
  reflected (`driver.py:497`). With `greedy`, a tie that the non-strict hill climb keeps
  is never built upon.
- An edit while the commit command runs is committed unjudged (`orchestration.py:290`
  against `docs/reference/terminology.md:154`).
- An agent that commits by itself makes `commit_child` raise. A kill between
  creating and writing the identity file leaves a workspace that is refused
  (`archive.py:150`); the workspace's unanchored ignore patterns drop what a
  recipe's evaluator has under `runs/`, `artifacts/` or `insights/`, since only the target is
  added with `-f` (`workspace.py:635`); `GenesisIsTheSeed` leaves those assets out.
- A task listed twice in `predicted_fixes.json` is credited twice (`library/record/jsonl.py:58`,
  `library/reflect/credit.py:28`), and edits with the same heading share one credit;
  `ProgressIsReal` counts entries and headings.
- The search for private names fails open: a malformed `splits.json` gives no names
  (`harbor.py:302`), a file that cannot be read is passed, file names are not looked at, and
  a name next to a full stop or an underscore is no mention. It also refuses
  too much: the tail kept is one character longer than the longest name, so a name that
  ends one character before the end of the file is looked for without the
  character before it, and a file that ends in `subtask-1` and a line feed is refused for a
  private `task-1` (`harbor.py:332` against `tests/test_harbor_mutate.py:1359`).
- A container of an installed agent that timed out keeps running
  (`library/_shared/runners/harbor.py:912`).
- The digest of an operator does not cover its helpers, and an edit between
  inspection and digest is not seen.

## Not modelled, and why

- *Driver*: quarantine after the gate, `record_fields`, forced evaluation, per-round
  sampling of tasks (a second task set only adds an entry to `evals`;
  `MergeOtherTaskSet` is in `ArchiveRows`), the identity of commit and purpose in the
  replacement rules, legacy provenance. The record operator runs before `best_ever.json`
  is written anew (`driver.py:586` against `driver.py:600`), so `OperatorsSeeChampion`
  leaves it out. That two equal lines become one (`archive.py:117`) and that an
  evaluation may be forced after acceptance (`driver.py:753`) are hazards without a
  property.
- *ArchiveStore*: two events with the same text (the merge drops the second, and
  `ArchiveKeepsHistory` assumes there are none), the `best_ever.json` and checkout
  copies of the operator's guard.
- *ProcessTree*: reuse of process ids, a process that joins another group than its own.
  *HarborMutate*: read-only agents, a docker query that fails, a kill between two roots
  (a mixed checkout, whose parts all exist), credentials, timeouts of zero, and the
  redaction of a run's inputs. *PrivateSearch*: which files are searched, for which
  names, and bytes that are no text.
- *RuntimeEnvironment*: `ALL_PROXY` (`environment.py:84`), which is treated as the other
  proxies are, and the refusal of `CODEX_FORCE_AUTH_JSON`.
- *Evaluation*: redaction and digest of contract fields, which fix what a contract is
  and change nothing in a run; the shared cache of environments. Selections are taken to
  be nonempty.
- *CandidateFiles*: renames, modes and names that git quotes (which are rejected).
- *Population*: fan-out above 1, several trials per task, and `score_child_prop`'s
  floating point (its weights underflow from 73 children on and overflow for a score 71
  below the midpoint). *ParetoSelect*: the random draw is any candidate of positive
  weight.
- *WorkspaceInit*: the provenance file `UPSTREAM.json` of a target.
- *Replay*: repair manifests, which nothing here produces. *Minibatch*: an orphaned
  Harbor run that writes into a jobs directory that was reset.
- *BehaviorEvidence*: clipping, clustering, wording, an analyzer changed during a run.
- Execution runtime probes, doctor and smoke commands, the command line, the agents in
  `integrations/harbor/`, images, seeds, and rendering of reports and prompts: calls to
  external programs and text, without state that the mechanism reads back.

## Where to go on

1. `evolve eval --force` and `record_fields` as actions of `Admission` over `Driver`'s rows.
2. Process ids that are reused, in `ProcessTree`.
3. The choice of the files and names that `PrivateSearch` is given.
