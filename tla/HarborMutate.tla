----------------------------- MODULE HarborMutate -----------------------------
(***************************************************************************)
(* One mutation through the Harbor runner (library/_shared/runners/harbor.py *)
(* run_agent): a disposable copy of the candidate is prepared, an agent edits *)
(* it inside a Harbor job under two nested deadlines, and the editable roots  *)
(* and the artifact namespace of the generation are imported by a sequence    *)
(* of renames that is rolled back when a step of it fails.                   *)
(*                                                                         *)
(* Times are in milliseconds.  Harbor itself caps the start of an environment,*)
(* the agent's setup and the verifier, and the agent when it is given a       *)
(* timeout; the other phases have an allowance and no cap, and `overran'       *)
(* remembers that one of them, or a cap that is not passed on, was exceeded. *)
(***************************************************************************)
EXTENDS Integers, Sequences

CONSTANTS Roots,         \* the editable roots, in order
          Timeout,       \* timeout_s of the mutate stage
          MaxRetries,    \* max_retries of its configuration
          Lateness,      \* by how much a phase may exceed its allowance
          CanRaise,      \* the steps of the import, and of its undoing, that may fail
          Gone           \* no content

RaisingSteps ==
    {"import", "away", "in", "space_away", "space_in", "check", "discard",
     "undo_space", "undo_installed", "undo_moved"}

ASSUME HarborAssumption ==
    /\ Timeout \in Nat /\ MaxRetries \in Nat /\ Lateness \subseteq Nat \ {0}
    /\ CanRaise \subseteq RaisingSteps
    /\ Gone \notin {"old", "new"}

(* _editable_roots: names of top-level directories, each named once.         *)
ASSUME RootsAssumption ==
    /\ Roots \in Seq(STRING) /\ Roots # <<>>
    /\ \A i, j \in DOMAIN Roots : Roots[i] = Roots[j] => i = j

VARIABLES
    mutating,
    agent,         \* "codex", "builtin" or "installed" mini-swe-agent
    job,           \* does a job of this name exist already?
    clock,         \* since the operator was started
    began,         \* when Harbor was started
    attempt,       \* trials given up
    overran,       \* see above
    timedOut,      \* did the runner give up on Harbor?
    container,     \* is the container of a trial up?
    checkout,      \* the content of every root, "old", "new" or Gone
    space,         \* that of the generation's artifact namespace
    spare,         \* the replacements: roots copied and not yet put in place
    backup,        \* the roots moved away
    spaceBackup, spaceSpare,
    renames,       \* how many renames of the import were made
    torn,          \* history: did the removal of the transaction fail, or the undoing?
    result         \* the runner's answer, or what ended it

times   == <<clock, began, attempt, overran, timedOut>>
files   == <<checkout, space, spare, backup, spaceBackup, spaceSpare, renames, torn>>
mutateVars == <<mutating, job, agent, times, container, files, result>>

RootSet == {Roots[i] : i \in DOMAIN Roots}

------------------------------------------------------------------------------
(* mutate_budget.py: what each phase of the lifecycle is allowed.            *)
Allowance(phase) ==
    CASE phase = "prepare"  -> 600000
      [] phase = "compile"  -> 600000
      [] phase = "start"    -> 600000
      [] phase = "setup"    -> 360000
      [] phase = "agent"    -> Timeout
      [] phase = "verifier" -> 600000
      [] phase = "collect"  -> 600000
      [] phase = "teardown" -> 600000
      [] phase = "recreate" -> 60000
      [] phase = "import"   -> 600000
      [] phase = "cleanup"  -> 60000

(* per_trial_s *)
PerTrial ==
    Allowance("start") + Allowance("setup") + Allowance("agent") + Allowance("verifier")
      + Allowance("collect") + Allowance("teardown")

(* Deviation: the first attempt is not counted. *)
HarborProcessOfRetries ==
    Allowance("compile") + MaxRetries * PerTrial + MaxRetries * Allowance("recreate")

(* harbor_process_s *)
HarborProcess ==
    Allowance("compile") + (MaxRetries + 1) * PerTrial + MaxRetries * Allowance("recreate")

(* operator_s *)
OperatorBudget ==
    Allowance("prepare") + HarborProcess + Allowance("import") + Allowance("cleanup")

(* uses_harbor_per_attempt_timeout *)
PerAttempt == agent = "installed"

(* _operator_deadline_s: when run_operator terminates the whole tree. *)
OperatorDeadline == IF PerAttempt /\ Timeout > 0 THEN OperatorBudget ELSE Timeout

Least(a, b) == IF a <= b THEN a ELSE b
Most(a, b)  == IF a >= b THEN a ELSE b

(* _run_timeout: a little less than the operator's deadline. *)
RunTimeout ==
    Most(100, OperatorDeadline - Least(5000, Most(500, OperatorDeadline \div 20)))

(* _mutate_process_timeout_s, and _run_timeout when there is none. *)
ProcessLimit == IF PerAttempt THEN HarborProcess ELSE RunTimeout

(* The phases Harbor ends by itself when their allowance is used up. *)
Capped(phase) ==
    phase \in {"start", "setup", "verifier"} \/ (phase = "agent" /\ PerAttempt)

HarborPhases ==
    {"compile", "start", "setup", "agent", "verifier", "collect", "teardown", "recreate"}

(* A phase takes no time, its whole allowance or more than that.             *)
Durations(phase) ==
    {0, Allowance(phase)}
      \cup (IF Capped(phase) THEN {} ELSE {Allowance(phase) + l : l \in Lateness})

(* The phase ends d later, before either deadline. *)
Passes(phase, d) ==
    /\ clock + d <= OperatorDeadline
    /\ phase \in HarborPhases => clock + d <= began + ProcessLimit
    /\ clock' = clock + d
    /\ overran' = (overran \/ d > Allowance(phase))

------------------------------------------------------------------------------
MutateInit ==
    /\ mutating = "prepare"
    /\ agent \in {"codex", "builtin", "installed"} /\ job \in BOOLEAN
    /\ clock = 0 /\ began = 0 /\ attempt = 0 /\ overran = FALSE /\ timedOut = FALSE
    /\ container = FALSE
    /\ checkout = [r \in RootSet |-> "old"] /\ space = "old"
    /\ spare = [r \in RootSet |-> Gone] /\ backup = [r \in RootSet |-> Gone]
    /\ spaceBackup = Gone /\ spaceSpare = Gone /\ renames = 0
    /\ torn = FALSE /\ result = "none"

(* An exception outside the import: error.json is written, the staging       *)
(* directory goes.                                                         *)
Fails == mutating' = "cleanup" /\ result' = "error"

(* _prepare_bundle, and the job directory must be new.                      *)
Prepare ==
    /\ mutating = "prepare"
    /\ \E d \in Durations("prepare") : Passes("prepare", d)
    /\ IF job THEN Fails ELSE mutating' = "compile" /\ UNCHANGED result
    /\ began' = clock'
    /\ UNCHANGED <<agent, job, attempt, timedOut, container, files>>

(* What cannot be prepared: a root that is no directory, a symbolic link, a  *)
(* private task named in prompt or workspace (PrivateSearch) or exposed with  *)
(* sealed ones, a prompt too large for the agent's command line, an unusable *)
(* environment.                                                            *)
PrepareRaises ==
    /\ mutating = "prepare" /\ Fails
    /\ UNCHANGED <<agent, job, times, container, files>>

(* The Harbor job: one trial after another until one needs no retry.         *)
Following(phase) ==
    CASE phase = "compile" -> "start"     [] phase = "start"    -> "setup"
      [] phase = "setup"   -> "agent"     [] phase = "agent"    -> "verifier"
      [] phase = "verifier" -> "collect"  [] phase = "collect"  -> "teardown"
      [] phase = "recreate" -> "start"

Phase(phase) ==
    /\ mutating = phase /\ phase \in HarborPhases \ {"teardown"}
    /\ \E d \in Durations(phase) : Passes(phase, d)
    /\ mutating' = Following(phase)
    /\ container' = (container \/ phase = "start")
    /\ job' = TRUE
    /\ UNCHANGED <<agent, began, attempt, timedOut, files, result>>

(* Deviation: one retry too many. *)
TeardownRetryingMore ==
    /\ mutating = "teardown"
    /\ \E d \in Durations("teardown") : Passes("teardown", d)
    /\ container' = FALSE
    /\ \/ mutating' = "inspect" /\ UNCHANGED attempt
       \/ attempt <= MaxRetries /\ mutating' = "recreate" /\ attempt' = attempt + 1
    /\ UNCHANGED <<agent, job, began, timedOut, files, result>>

(* The trial ends, and another one begins when its exception may be retried. *)
Teardown ==
    /\ mutating = "teardown"
    /\ \E d \in Durations("teardown") : Passes("teardown", d)
    /\ container' = FALSE
    /\ \/ mutating' = "inspect" /\ UNCHANGED attempt
       \/ attempt < MaxRetries /\ mutating' = "recreate" /\ attempt' = attempt + 1
    /\ UNCHANGED <<agent, job, began, timedOut, files, result>>

(* The command for the installed agent names a configuration file and no     *)
(* --jobs-dir, so that _harbor_compose_projects finds nothing to remove.     *)
CommandNamesJobs == ~PerAttempt

(* process.wait(timeout) raises: the group is killed and the containers of    *)
(* the job are removed.                                                     *)
HarborTimesOut ==
    /\ mutating \in HarborPhases
    /\ \E d \in Durations(mutating) :
          /\ clock + d > began + ProcessLimit
          /\ overran' = (overran \/ d > Allowance(mutating))
    /\ began + ProcessLimit <= OperatorDeadline
    /\ clock' = began + ProcessLimit
    /\ timedOut' = TRUE /\ mutating' = "inspect" /\ job' = TRUE
    /\ container' = (container /\ ~CommandNamesJobs)
    /\ UNCHANGED <<agent, began, attempt, files, result>>

(* One trial, exit code zero, no exception, "Submitted" where the agent says *)
(* so, and the workspace collected: the import may begin.  A job killed      *)
(* exits otherwise.                                                        *)
Inspect ==
    /\ mutating = "inspect"
    /\ \/ ~timedOut /\ mutating' = "import" /\ UNCHANGED result
       \/ Fails
    /\ UNCHANGED <<agent, job, times, container, files>>

------------------------------------------------------------------------------
(* _install_bundle.  The first 2 * Len(Roots) renames move the roots away    *)
(* and their replacements in, one root after the other; two more do the      *)
(* same with the artifact namespace.                                        *)

Moved     == {Roots[i] : i \in {j \in DOMAIN Roots : 2 * j - 1 <= renames}}
Installed == {Roots[i] : i \in {j \in DOMAIN Roots : 2 * j <= renames}}
SpaceMoved     == renames > 2 * Len(Roots)
SpaceInstalled == renames > 2 * Len(Roots) + 1

(* The returned tree is compared with the manifest and its roots are copied. *)
Copy ==
    /\ mutating = "import"
    /\ \E d \in Durations("import") : Passes("import", d)
    /\ mutating' = "rename"
    /\ spare' = [r \in RootSet |-> "new"] /\ spaceSpare' = "new"
    /\ UNCHANGED <<agent, job, began, attempt, timedOut, container, result>>
    /\ UNCHANGED <<checkout, space, backup, spaceBackup, renames, torn>>

RenameStep ==
    LET k == renames + 1
    IN  IF k > 2 * Len(Roots) THEN IF SpaceMoved THEN "space_in" ELSE "space_away"
        ELSE IF k % 2 = 1 THEN "away" ELSE "in"

Rename ==
    /\ mutating = "rename" /\ renames < 2 * Len(Roots) + 2
    /\ LET r == Roots[1 + renames \div 2]
       IN  CASE RenameStep = "away" ->
                  /\ backup' = [backup EXCEPT ![r] = checkout[r]]
                  /\ checkout' = [checkout EXCEPT ![r] = Gone]
                  /\ UNCHANGED <<spare, space, spaceBackup, spaceSpare>>
             [] RenameStep = "in" ->
                  /\ checkout' = [checkout EXCEPT ![r] = spare[r]]
                  /\ spare' = [spare EXCEPT ![r] = Gone]
                  /\ UNCHANGED <<backup, space, spaceBackup, spaceSpare>>
             [] RenameStep = "space_away" ->
                  /\ spaceBackup' = space /\ space' = Gone
                  /\ UNCHANGED <<checkout, spare, backup, spaceSpare>>
             [] RenameStep = "space_in" ->
                  /\ space' = spaceSpare /\ spaceSpare' = Gone
                  /\ UNCHANGED <<checkout, spare, backup, spaceBackup>>
    /\ renames' = renames + 1
    /\ UNCHANGED torn /\ UNCHANGED <<mutating, job, agent, times, container, result>>

(* The changes are inside the surface and git diff --check is content.       *)
Check ==
    /\ mutating = "rename" /\ renames = 2 * Len(Roots) + 2
    /\ mutating' = "discard"
    /\ UNCHANGED <<job, agent, times, container, files, result>>

(* The transaction directory goes, the backups with it. *)
Discard ==
    /\ mutating = "discard"
    /\ mutating' = "cleanup" /\ result' = "ok"
    /\ backup' = [r \in RootSet |-> Gone] /\ spaceBackup' = Gone
    /\ UNCHANGED <<job, agent, times, container>>
    /\ UNCHANGED <<checkout, space, spare, spaceSpare, renames, torn>>

StepNow ==
    IF mutating = "rename"
    THEN IF renames < 2 * Len(Roots) + 2 THEN RenameStep ELSE "check"
    ELSE mutating

(* Any step of it fails.  What rmtree had removed by then stays removed.     *)
ImportRaises ==
    /\ mutating \in {"import", "rename", "discard"} /\ StepNow \in CanRaise
    /\ mutating' = "undo_space"
    /\ IF mutating = "discard"
       THEN /\ torn' = TRUE
            /\ \E left \in SUBSET RootSet, spaceLeft \in BOOLEAN :
                  /\ backup' = [r \in RootSet |-> IF r \in left THEN backup[r] ELSE Gone]
                  /\ spaceBackup' = IF spaceLeft THEN spaceBackup ELSE Gone
       ELSE UNCHANGED <<backup, spaceBackup, torn>>
    /\ UNCHANGED <<job, agent, times, container, result>>
    /\ UNCHANGED <<checkout, space, spare, spaceSpare, renames>>

(* A step of the handler fails, perhaps after it has removed something; the   *)
(* steps that follow are not taken.                                        *)
UndoRaises ==
    /\ mutating \in {"undo_space", "undo_installed", "undo_moved"} \cap CanRaise
    /\ mutating = "undo_space" => SpaceMoved
    /\ mutating = "undo_installed" => Installed # {}
    /\ mutating = "undo_moved" => Moved # {}
    /\ Fails /\ torn' = TRUE
    /\ space' \in IF mutating = "undo_space" /\ SpaceInstalled THEN {space, Gone} ELSE {space}
    /\ \E gone \in IF mutating = "undo_installed" THEN SUBSET Installed ELSE {{}} :
          checkout' = [r \in RootSet |-> IF r \in gone THEN Gone ELSE checkout[r]]
    /\ UNCHANGED <<job, agent, times, container>>
    /\ UNCHANGED <<spare, backup, spaceBackup, spaceSpare, renames>>

(* Deviation: the namespace is left as the import left it. *)
UndoSpaceForgotten ==
    /\ mutating = "undo_space" /\ mutating' = "undo_installed"
    /\ UNCHANGED <<job, agent, times, container, files, result>>

(* The handler: the namespace first, then the roots, the last one first.     *)
(* A backup that is missing makes it raise itself.                          *)
UndoSpace ==
    /\ mutating = "undo_space"
    /\ LET left == IF SpaceInstalled THEN Gone ELSE space
       IN  IF ~SpaceMoved
           THEN mutating' = "undo_installed" /\ space' = left /\ UNCHANGED <<spaceBackup, result>>
           ELSE IF spaceBackup = Gone
           THEN Fails /\ space' = left /\ UNCHANGED spaceBackup
           ELSE /\ mutating' = "undo_installed" /\ UNCHANGED result
                /\ space' = spaceBackup /\ spaceBackup' = Gone
    /\ UNCHANGED <<job, agent, times, container>>
    /\ UNCHANGED <<checkout, spare, backup, spaceSpare, renames, torn>>

UndoInstalled ==
    /\ mutating = "undo_installed"
    /\ mutating' = "undo_moved"
    /\ checkout' = [r \in RootSet |-> IF r \in Installed THEN Gone ELSE checkout[r]]
    /\ UNCHANGED <<job, agent, times, container, result>>
    /\ UNCHANGED <<space, spare, backup, spaceBackup, spaceSpare, renames, torn>>

UndoMoved ==
    /\ mutating = "undo_moved"
    /\ IF Moved = {}
       THEN Fails /\ UNCHANGED <<checkout, backup, renames>>
       ELSE LET last == Least(Len(Roots), (renames + 1) \div 2)
                r    == Roots[last]
            IN  IF backup[r] = Gone
                THEN /\ Fails /\ checkout' = [checkout EXCEPT ![r] = Gone]
                     /\ UNCHANGED <<backup, renames>>
                ELSE /\ UNCHANGED <<mutating, result>>
                     /\ checkout' = [checkout EXCEPT ![r] = backup[r]]
                     /\ backup' = [backup EXCEPT ![r] = Gone]
                     /\ renames' = 2 * (last - 1)
    /\ UNCHANGED <<job, agent, times, container>>
    /\ UNCHANGED <<space, spare, spaceBackup, spaceSpare, torn>>

(* run_agent's finally: the staging directory goes with all that is in it.   *)
Cleanup ==
    /\ mutating = "cleanup"
    /\ \E d \in Durations("cleanup") : Passes("cleanup", d)
    /\ mutating' = "done"
    /\ backup' = [r \in RootSet |-> Gone] /\ spaceBackup' = Gone
    /\ spare' = [r \in RootSet |-> Gone] /\ spaceSpare' = Gone
    /\ UNCHANGED <<job, agent, began, attempt, timedOut, container, result>>
    /\ UNCHANGED <<checkout, space, renames, torn>>

------------------------------------------------------------------------------
(* run_operator terminates the operator, and Harbor with it, at its deadline. *)
DeadlinePasses ==
    /\ mutating \in HarborPhases \cup {"prepare", "import", "cleanup"}
    /\ \E d \in Durations(mutating) :
          /\ clock + d > OperatorDeadline
          /\ overran' = (overran \/ d > Allowance(mutating))
    /\ mutating \in HarborPhases => OperatorDeadline <= began + ProcessLimit
    /\ clock' = OperatorDeadline
    /\ mutating' = "killed" /\ result' = "deadline"
    /\ UNCHANGED <<job, agent, began, attempt, timedOut, container, files>>

(* Deviation: the finally clause runs and the handler does not. *)
InterruptedWithCleanup ==
    /\ mutating \notin {"done", "killed"}
    /\ mutating' = "killed" /\ result' = "interrupt"
    /\ backup' = [r \in RootSet |-> Gone] /\ spaceBackup' = Gone
    /\ UNCHANGED <<job, agent, times, container>>
    /\ UNCHANGED <<checkout, space, spare, spaceSpare, renames, torn>>

(* Or the driver is interrupted and does so, or the host stops. *)
Interrupted ==
    /\ mutating \notin {"done", "killed"}
    /\ mutating' = "killed" /\ result' = "interrupt"
    /\ UNCHANGED <<job, agent, times, container, files>>

MutateNext ==
    \/ Prepare \/ PrepareRaises
    \/ \E phase \in HarborPhases : Phase(phase)
    \/ Teardown \/ HarborTimesOut \/ Inspect
    \/ Copy \/ Rename \/ Check \/ Discard \/ ImportRaises
    \/ UndoSpace \/ UndoInstalled \/ UndoMoved \/ UndoRaises
    \/ Cleanup \/ DeadlinePasses \/ Interrupted

MutateSpec == MutateInit /\ [][MutateNext]_mutateVars

------------------------------------------------------------------------------
(* When the runner has answered, all roots and the artifact namespace are the *)
(* returned ones if it succeeded, and the old ones if a step of the import    *)
(* failed and was undone; an import that could not be undone is never called  *)
(* a success.  Wherever it is killed before that, each of them exists in the  *)
(* checkout or among the backups, so that nothing has to be fetched from Git. *)
ImportIsSafe ==
    /\ mutating = "done" /\ (result = "ok" \/ ~torn) =>
          LET content == IF result = "ok" THEN "new" ELSE "old"
          IN  (\A r \in RootSet : checkout[r] = content) /\ space = content
    /\ torn => result # "ok"
    /\ ~torn =>
          /\ \A r \in RootSet : checkout[r] # Gone \/ backup[r] # Gone
          /\ space # Gone \/ spaceBackup # Gone

(* "then transactionally imports": everything has been imported or nothing.   *)
ImportIsTransactional ==
    mutating = "done" =>
        \/ (\A r \in RootSet : checkout[r] = "new") /\ space = "new"
        \/ (\A r \in RootSet : checkout[r] = "old") /\ space = "old"

(* The budget of mutate_budget.py: with an agent that is given its timeout,   *)
(* neither deadline passes as long as every phase keeps to its allowance,     *)
(* whatever the number of retries.                                         *)
BudgetSuffices ==
    PerAttempt /\ ~overran => ~timedOut /\ result # "deadline"
==============================================================================
