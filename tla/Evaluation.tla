----------------------------- MODULE Evaluation -----------------------------
(***************************************************************************)
(* One evaluation after another of one commit: evaluate() of               *)
(* src/src/evolve/evaluation/execution.py with what it calls, the          *)
(* preflight (preflight/runner.py), the preparation of the candidate's     *)
(* Python environment (runtime/uv.py) and the evaluator script, whose      *)
(* exit code and files are chosen freely.  An evaluation may be            *)
(* interrupted (a BaseException) or killed at any step; what it wrote      *)
(* stays on disk for the next one.                                         *)
(*                                                                          *)
(* `ailments' is what is really wrong with the candidate or the host.  No  *)
(* step of the code reads it: it only decides which commands fail.         *)
(***************************************************************************)
EXTENDS Evidence, Sequences, SequencesExt

CONSTANTS
  Kinds,          \* [outcome, owner, reward, fault]: what a trial may look like
  RawNames,       \* task names an evaluator may write
  Floor,          \* evaluator.partial_floor, a pair
  TimeoutIsZero,  \* evaluator.benchmark_timeout_is_zero
  AilmentSets,    \* the combinations of defects explored
  Purpose,        \* what the evaluation is for: candidate, genesis, anchor...
  MaxEvaluations, MaxStops

CandidateDefects == {"lock_stale", "files_missing", "does_not_build", "crlf"}
HostDefects == {"tool_missing", "lock_check_fails", "no_credentials", "no_python",
                "index_down", "deps_not_cached", "backend_not_cached", "stub",
                "unresolvable", "bad_environment"}
AllAilments == CandidateDefects \cup HostDefects

ASSUME AilmentsAssumption == \A defects \in AilmentSets : defects \subseteq AllAilments
ASSUME NamesAssumption == IsFiniteSet(RawNames)
ASSUME KindsAssumption ==
  \A kind \in Kinds : \A r \in kind.reward : r \in Int /\ kind.reward = {r}
ASSUME FloorAssumption == Floor \in Nat \X Nat /\ 0 < Floor[1] /\ Floor[1] <= Floor[2]
ASSUME BoundsAssumption == {MaxEvaluations, MaxStops} \subseteq Nat

VARIABLES
  pc,         \* where evaluate() stands
  strict,     \* evaluation_contract_mode is STRICT
  managed,    \* a candidate runtime is configured
  ailments,
  runs,       \* evaluations begun
  attempt,    \* number of the running evaluation's attempt
  disk,       \* attempt directories: number -> what the files in it say
  worktrees,  \* evaluations whose temporary worktree is still registered
  venvs,      \* attempts whose temporary environment is still there
  runtime,    \* what prepare_candidate_runtime returned
  script,     \* what the evaluator script left behind
  record,     \* the record about to be returned, or {}
  archive,    \* the records handed to the caller, oldest first
  killed,     \* evaluations that were killed
  stops       \* interrupts and kills so far

vars == <<pc, strict, managed, ailments, runs, attempt, disk, worktrees, venvs,
          runtime, script, record, archive, killed, stops>>
setting == <<strict, managed, ailments>>
history == <<runs, archive, killed, stops>>

NoScript == [quirk |-> "not_run", vector |-> {}]
Quirks == {"none", "exits_nonzero", "blames_candidate", "blames_host",
           "other_tasks", "unreadable"}
Setups == {"none", "candidate_invalid", "infrastructure_failed"}
EmptyDirectory == [run |-> 0, contract |-> FALSE, preflight |-> "none",
                   receipt |-> "none", status |-> "none"]

Sick(defect) == defect \in ailments
SickOf(defects) == ailments \cap defects # {}

-----------------------------------------------------------------------------
Init ==
  /\ pc = "idle"
  /\ strict \in BOOLEAN /\ managed \in BOOLEAN
  /\ ailments \in AilmentSets
  /\ runs = 0 /\ attempt = 0
  /\ disk = <<>>
  /\ worktrees = {} /\ venvs = {}
  /\ runtime = "none"
  /\ script = NoScript
  /\ record = {} /\ archive = <<>>
  /\ killed = {} /\ stops = 0

(* The commit is checked out in a worktree; then mode, contract and task    *)
(* set are resolved.  A failure here leaves no attempt and no record.       *)
Start ==
  /\ pc = "idle" /\ runs < MaxEvaluations
  /\ runs' = runs + 1
  /\ worktrees' = worktrees \cup {runs'}
  /\ pc' = "resolve"
  /\ UNCHANGED <<setting, attempt, disk, venvs, runtime, script, record, archive, killed, stops>>

(* gen/0's evolve.yaml, split manifest, dataset.pin and runtime.pin do not  *)
(* agree, or git does not have one of them.                                 *)
Unresolvable == Sick("unresolvable")

ResolveFails ==
  /\ pc = "resolve" /\ Unresolvable
  /\ worktrees' = worktrees \ {runs}
  /\ pc' = "idle"
  /\ UNCHANGED <<setting, history, attempt, disk, venvs, runtime, script, record>>

(* next_attempt is the largest number on disk plus one; mkdir refuses a     *)
(* directory that exists.  Plan and contract are written at once.           *)
NextAttempt == Max(DOMAIN disk \cup {0}) + 1

WithDirectory(n) ==
  [m \in DOMAIN disk \cup {n} |->
     IF m = n THEN [EmptyDirectory EXCEPT !.run = runs, !.contract = strict] ELSE disk[m]]

(* Mutant: attempts are numbered by the records there are, and the          *)
(* directory is made with exist_ok.                                         *)
ReserveByCount ==
  /\ pc = "resolve" /\ ~Unresolvable
  /\ attempt' = Len(archive) + 1
  /\ disk' = WithDirectory(Len(archive) + 1)
  /\ pc' = IF strict THEN "preflight" ELSE "prepare"
  /\ UNCHANGED <<setting, history, worktrees, venvs, runtime, script, record>>

Reserve ==
  /\ pc = "resolve" /\ ~Unresolvable
  /\ NextAttempt \notin DOMAIN disk
  /\ attempt' = NextAttempt
  /\ disk' = WithDirectory(NextAttempt)
  /\ pc' = IF strict THEN "preflight" ELSE "prepare"
  /\ UNCHANGED <<setting, history, worktrees, venvs, runtime, script, record>>

Wrote(field, value) == [disk EXCEPT ![attempt][field] = value]

(* The digest in the receipt is of the checkout's files, the contract's of  *)
(* the commit's as git prints them, with newlines translated: they differ   *)
(* for a checkout with CRLF line ends.                                      *)
DigestsAgree == ~Sick("crlf")

WithReceipt(outcome) == Wrote("receipt", outcome)

(* Mutant: a receipt is asked of an evaluation that needs none. *)
CertifiedByReceipt == disk[attempt].receipt # "none" /\ DigestsAgree

-----------------------------------------------------------------------------
(* Records.  The receipt must name the contract, the commit and the digest  *)
(* of its dependency files.                                                 *)
Certified ==
  IF managed THEN disk[attempt].receipt # "none" /\ DigestsAgree ELSE TRUE

RecordOf(classified) ==
  {[attempt |-> attempt, outcome |-> classified.outcome, score |-> classified.score,
    trials |-> classified.trials, scoreable |-> classified.scoreable]}

RecordWith(trials, setup) ==
  RecordOf(Classify(trials, Expected, Floor, TimeoutIsZero, setup))

BareRecord(outcome) ==
  RecordOf([outcome |-> outcome, score |-> {}, trials |-> ContractTrials(strict, {}),
            scoreable |-> 0])

Record == CHOOSE r \in record : TRUE

-----------------------------------------------------------------------------
(* The preflight of a strict contract: the first of its checks that fails.  *)
LockInvalid == SickOf({"files_missing", "lock_stale", "lock_check_fails"})

PreflightFailure ==
  IF Sick("tool_missing") THEN "dependency_tool_unavailable"
  ELSE IF managed /\ LockInvalid THEN "dependency_lock_invalid"
  ELSE IF Sick("no_credentials") THEN "credential_missing"
  ELSE "none"

PreflightOutcome ==
  IF PreflightFailure = "dependency_lock_invalid"
    THEN "candidate_invalid" ELSE "infrastructure_failed"

PreflightPasses ==
  /\ pc = "preflight" /\ PreflightFailure = "none"
  /\ disk' = Wrote("preflight", "passed")
  /\ pc' = "prepare"
  /\ UNCHANGED <<setting, history, attempt, worktrees, venvs, runtime, script, record>>

(* This path writes its summary before the worktree is removed. *)
PreflightFails ==
  /\ pc = "preflight" /\ PreflightFailure # "none"
  /\ record' = RecordWith(MaterializeSetupFailure(PreflightOutcome), PreflightOutcome)
  /\ disk' = [disk EXCEPT ![attempt].preflight = "failed", ![attempt].status = PreflightOutcome]
  /\ pc' = "leave"
  /\ UNCHANGED <<setting, history, attempt, worktrees, venvs, runtime, script>>

-----------------------------------------------------------------------------
(* prepare_candidate_runtime; its finally clause removes the environment.   *)
RuntimeEnds(outcome, receipt) ==
  /\ runtime' = outcome
  /\ disk' = IF receipt THEN WithReceipt(outcome) ELSE disk
  /\ venvs' = venvs \ {attempt}
  /\ pc' = "verify"

(* candidate_runtime_config finds a uv runtime, in the resolved runtime or  *)
(* in the evaluator's own configuration.                                    *)
RuntimeConfigured == managed

NoRuntime ==
  /\ pc = "prepare"
  /\ RuntimeConfigured => Sick("stub") /\ ~strict
  /\ RuntimeEnds("ready", FALSE)
  /\ UNCHANGED <<setting, history, attempt, worktrees, script, record>>

(* A stub evaluation cannot be certified; missing project files are the     *)
(* candidate's; a host without uv or a Python is not.                       *)
RefusedBeforeLock == {"stub", "files_missing", "tool_missing", "no_python"}

RuntimeRefused ==
  /\ pc = "prepare" /\ RuntimeConfigured
  /\ SickOf(RefusedBeforeLock)
  /\ Sick("stub") => strict
  /\ RuntimeEnds(IF ~Sick("stub") /\ Sick("files_missing")
                   THEN "candidate_invalid" ELSE "infrastructure_failed", TRUE)
  /\ UNCHANGED <<setting, history, attempt, worktrees, script, record>>

CheckLock ==
  /\ pc = "prepare" /\ RuntimeConfigured
  /\ ~SickOf(RefusedBeforeLock)
  /\ IF SickOf({"lock_stale", "lock_check_fails"})
       THEN RuntimeEnds("candidate_invalid", TRUE)
       ELSE pc' = "sync" /\ UNCHANGED <<disk, venvs, runtime>>
  /\ UNCHANGED <<setting, history, attempt, worktrees, script, record>>

(* Dependencies come from the cache or, in two attempts, from the index.    *)
SyncDependencies ==
  /\ pc = "sync"
  /\ IF Sick("deps_not_cached") /\ Sick("index_down")
       THEN RuntimeEnds("infrastructure_failed", TRUE)
       ELSE /\ venvs' = venvs \cup {attempt}
            /\ pc' = "build" /\ UNCHANGED <<disk, runtime>>
  /\ UNCHANGED <<setting, history, attempt, worktrees, script, record>>

(* The local project is built offline, then online: a failure of both is    *)
(* the candidate's, whatever made the second one fail.                      *)
BuildLocal ==
  /\ pc = "build"
  /\ RuntimeEnds(IF Sick("does_not_build") \/ (Sick("backend_not_cached") /\ Sick("index_down"))
                   THEN "candidate_invalid" ELSE "ready", TRUE)
  /\ UNCHANGED <<setting, history, attempt, worktrees, script, record>>

(* Mutant: the receipt is read but its verification is not acted on. *)
VerifyUnheeded ==
  /\ pc = "verify"
  /\ record' = IF runtime = "ready" THEN {}
               ELSE RecordWith(ContractTrials(strict, {}), runtime)
  /\ pc' = IF record' = {} THEN "script" ELSE "leave"
  /\ UNCHANGED <<setting, history, attempt, disk, worktrees, venvs, runtime, script>>

(* What verification and preparation leave of the evaluation. *)
Verify ==
  /\ pc = "verify"
  /\ record' = IF strict /\ ~Certified
                 THEN RecordWith(ContractTrials(strict, {}), "infrastructure_failed")
               ELSE IF runtime = "ready" THEN {}
               ELSE RecordWith(IF strict /\ runtime = "candidate_invalid"
                                 THEN MaterializeSetupFailure(runtime)
                                 ELSE ContractTrials(strict, {}), runtime)
  /\ pc' = IF record' = {} THEN "script" ELSE "leave"
  /\ UNCHANGED <<setting, history, attempt, disk, worktrees, venvs, runtime, script>>

-----------------------------------------------------------------------------
(* The evaluator script exits, having written a vector, perhaps its own     *)
(* account of the setup, and the tasks it ran.                              *)
RawIdentities == RawNames \X (0 .. Repetitions - 1)

VectorOf(kinds) ==
  {[task |-> id[1], trial |-> id[2], outcome |-> kinds[id].outcome, owner |-> kinds[id].owner,
    reward |-> kinds[id].reward, fault |-> kinds[id].fault] : id \in DOMAIN kinds}

RunScript ==
  /\ pc = "script" /\ ~Sick("bad_environment")
  /\ \E quirk \in Quirks, ids \in SUBSET RawIdentities : \E kinds \in [ids -> Kinds] :
       script' = [quirk |-> quirk, vector |-> VectorOf(kinds)]
  /\ pc' = "classify"
  /\ UNCHANGED <<setting, history, attempt, disk, worktrees, venvs, runtime, record>>

(* The tasks the script says it ran are those of the plan. *)
SelectionMatches == script.quirk # "other_tasks"

(* setup_outcome, the script's own account of the setup *)
SetupReported ==
  IF script.quirk = "blames_host" THEN "infrastructure_failed"
  ELSE IF script.quirk = "blames_candidate" THEN "candidate_invalid" ELSE "none"

ScriptSetup ==
  IF ~ValidVector(script.vector) \/ ~SelectionMatches
    THEN "infrastructure_failed"
  ELSE SetupReported

ScriptTrials == ContractTrials(strict, IF ValidVector(script.vector) THEN script.vector ELSE {})

CandidateOwned(trials) ==
  \/ ScriptSetup = "candidate_invalid"
  \/ \E t \in trials : t.owner = "candidate" /\ (t.outcome = "candidate_invalid" \/ t.fault)

(* A nonzero exit counts only against trials that are not all there; those  *)
(* of a strict contract have been padded and always are.                    *)
ExitCounts(trials) ==
  /\ script.quirk = "exits_nonzero"
  /\ ~CandidateOwned(trials)
  /\ Cardinality(trials) # Expected

ClassifyScript ==
  /\ pc = "classify" /\ script.quirk # "unreadable"
  /\ record' = RecordWith(ScriptTrials,
                          IF ExitCounts(ScriptTrials) THEN "infrastructure_failed" ELSE ScriptSetup)
  /\ pc' = "leave"
  /\ UNCHANGED <<setting, history, attempt, disk, worktrees, venvs, runtime, script>>

(* Mutant: the worktree is removed only where a record is classified. *)
EvaluationRaisesAtOnce ==
  /\ \/ pc = "script" /\ Sick("bad_environment")
     \/ pc = "classify" /\ script.quirk = "unreadable"
  /\ record' = BareRecord("infrastructure_failed")
  /\ pc' = "return"
  /\ UNCHANGED <<setting, history, attempt, disk, worktrees, venvs, runtime, script>>

(* Any exception on the way: a record, but no summary in the directory.     *)
EvaluationRaises ==
  /\ \/ pc = "script" /\ Sick("bad_environment")
     \/ pc = "classify" /\ script.quirk = "unreadable"
  /\ record' = BareRecord("infrastructure_failed")
  /\ worktrees' = worktrees \ {runs}
  /\ pc' = "return"
  /\ UNCHANGED <<setting, history, attempt, disk, venvs, runtime, script>>

-----------------------------------------------------------------------------
LeaveWorktree ==
  /\ pc = "leave"
  /\ worktrees' = worktrees \ {runs}
  /\ pc' = IF disk[attempt].status = "none" THEN "summary" ELSE "return"
  /\ UNCHANGED <<setting, history, attempt, disk, venvs, runtime, script, record>>

WriteSummary ==
  /\ pc = "summary"
  /\ disk' = Wrote("status", Record.outcome)
  /\ pc' = "return"
  /\ UNCHANGED <<setting, history, attempt, worktrees, venvs, runtime, script, record>>

Ended(records) ==
  /\ archive' = archive \o records
  /\ pc' = "idle"
  /\ attempt' = 0 /\ runtime' = "none" /\ script' = NoScript /\ record' = {}

Return ==
  /\ pc = "return"
  /\ Ended(<<[attempt |-> attempt, outcome |-> Record.outcome]>>)
  /\ UNCHANGED <<setting, disk, worktrees, venvs, runs, killed, stops>>

(* A BaseException: inside the try it becomes a cancelled record that the   *)
(* caller appends before it raises again; after it, nothing is recorded.    *)
Interrupt ==
  /\ pc # "idle" /\ stops < MaxStops
  /\ stops' = stops + 1
  /\ worktrees' = worktrees \ {runs} /\ venvs' = venvs \ {attempt}
  /\ Ended(IF pc \in {"resolve", "summary", "return"} THEN <<>>
           ELSE <<[attempt |-> attempt, outcome |-> "cancelled"]>>)
  /\ UNCHANGED <<setting, disk, runs, killed>>

Kill ==
  /\ pc # "idle" /\ stops < MaxStops
  /\ stops' = stops + 1
  /\ killed' = killed \cup {runs}
  /\ Ended(<<>>)
  /\ UNCHANGED <<setting, disk, worktrees, venvs, runs>>

Next ==
  \/ Start \/ ResolveFails \/ Reserve
  \/ PreflightPasses \/ PreflightFails
  \/ NoRuntime \/ RuntimeRefused \/ CheckLock \/ SyncDependencies \/ BuildLocal
  \/ Verify \/ RunScript \/ ClassifyScript \/ EvaluationRaises
  \/ LeaveWorktree \/ WriteSummary \/ Return
  \/ Interrupt \/ Kill

Spec == Init /\ [][Next]_vars

-----------------------------------------------------------------------------
Scored == record # {} /\ Record.score # {}

(* A score of a strict evaluation stands on a chain nobody broke: the       *)
(* preflight of this very attempt passed, the candidate's environment was   *)
(* prepared and its receipt matches the contract, the evaluator ran the     *)
(* planned tasks and blamed no setup (execution.py:160-307).                *)
ScoreIsCertified ==
  Scored /\ strict =>
    /\ disk[attempt].contract /\ disk[attempt].preflight = "passed"
    /\ Certified /\ runtime = "ready"
    /\ managed => disk[attempt].receipt = "ready"
    /\ script.quirk \in {"none", "exits_nonzero"}

(* What an identity of the contract earned: the rewards of the raw trials of *)
(* its own that neither the host nor the candidate spoiled.                 *)
Earned(t) ==
  \/ t.outcome = "benchmark_complete" /\ ~t.fault
  \/ t.outcome = "timeout" /\ t.owner \in BenchmarkOwners /\ TimeoutIsZero

Credit(vector, id) ==
  UNION {t.reward : t \in {u \in vector : /\ <<ContractTask(u.task), u.trial>> = id
                                          /\ Standing(vector, u) /\ Earned(u)}}

AccountsFor(score, vector) ==
  LET credited  == {id \in Identities : Credit(vector, id) # {}}
      earned(id) == CHOOSE r \in Credit(vector, id) : TRUE
  IN /\ \A id \in credited : Credit(vector, id) = {earned(id)}
     /\ Covers(Cardinality(credited), Expected, Floor)
     /\ score = {<<MapThenSumSet(earned, credited), Expected>>}

(* A strict score is the sum over the contract's own identities divided by  *)
(* all of them, what is missing counting as zero, and it is given only when *)
(* as many of them as partial_floor asks have a credit of their own: extra  *)
(* trials never stand in for missing ones (results.py:189-230).             *)
ScoreFromContract == Scored /\ strict => AccountsFor(Record.score, script.vector)

(* The compact diagnostics of a record are ones their reader accepts, and    *)
(* they call it retryable exactly when it neither has a score nor blames the *)
(* candidate.                                                               *)
DiagnosticsAgree ==
  record # {} /\ strict =>
    LET d == Diagnostics(Record, Purpose, Expected)
    IN /\ DiagnosticsReadable(d)
       /\ d.retryEligible = (Record.score = {} /\ Record.outcome # "candidate_invalid")
       /\ d.expected <= d.observed + d.missing

(* What is recorded of a strict evaluation is an account of its contract's  *)
(* own trials, in the score and in the diagnostics beside it.               *)
RecordFromContract == ScoreFromContract /\ DiagnosticsAgree

(* A candidate is declared invalid, which ends its generation for good,     *)
(* only when something of the candidate's is broken, the evaluator says so, *)
(* or one of the two checks that cannot tell the host from the candidate    *)
(* failed: the offline lock check and the build of the local project.       *)
Ambiguous == Sick("lock_check_fails") \/ (Sick("backend_not_cached") /\ Sick("index_down"))
BlameIsEarned ==
  record # {} /\ Record.outcome = "candidate_invalid" =>
    \/ SickOf(CandidateDefects \ {"crlf"})
    \/ Ambiguous
    \/ script.quirk = "blames_candidate"
    \/ \E t \in script.vector :
         t.owner = "candidate" /\ (t.outcome = "candidate_invalid" \/ t.fault)

(* Only an evaluation that was killed leaves its worktree or its temporary  *)
(* environment behind: returned, raised and interrupted ones clean up.      *)
OnlyTheKilledLeave ==
  /\ worktrees \subseteq killed \cup (IF pc = "idle" THEN {} ELSE {runs})
  /\ \A n \in venvs : disk[n].run \in killed \/ (n = attempt /\ pc = "build")

(* A healthy candidate on a healthy host reaches the evaluator script, and  *)
(* a clean vector of all its trials is scored: no check on the way refuses  *)
(* it, in a strict workspace or a legacy one, with or without a runtime.    *)
HealthyIsScored ==
  record # {} /\ ailments = {} =>
    /\ script.quirk # "not_run"
    /\ /\ script.quirk = "none"
       /\ {IdentityOf(Normalized(t)) : t \in script.vector} = Identities
       /\ Cardinality(script.vector) = Expected
       /\ \A t \in script.vector :
            t.outcome = "benchmark_complete" /\ ~t.fault /\ t.reward # {}
       => Record.score # {}

(* An attempt's directory belongs to one evaluation: whatever is killed,    *)
(* interrupted or retried, no file of an earlier attempt changes ("it does  *)
(* not overwrite prior evidence", docs/guides/operations.md:104).           *)
EvidenceKept ==
  [][\A n \in DOMAIN disk : n # attempt => n \in DOMAIN disk' /\ disk'[n] = disk[n]]_vars
=============================================================================
