------------------------------- MODULE Replay -------------------------------
(***************************************************************************)
(* From Harbor's results to the evidence a later generation reads:          *)
(* src/scaffolds/evaluators/harbor/{engine.sh,harbor_artifacts.py,          *)
(* parse_score.py} turn the results of an evaluation into a task vector and *)
(* an index of certified files; src/library/rollout/parent_evaluation.py    *)
(* reads those files back, perhaps much later, and                          *)
(* src/library/_shared/harbor/evidence.py makes cases of them.              *)
(*                                                                          *)
(* A trial is one attempt at one task, named by a number.  A file is known  *)
(* by its contents, so equal contents stand for equal digests.  Anyone may  *)
(* write to the evaluation's directory once it is finished.                 *)
(***************************************************************************)
EXTENDS Integers, FiniteSets

CONSTANTS
  Trials,         \* the trials of the evaluation, numbers
  HarborResults,  \* results a trial may end with, a set of Result
  MaxTampers,     \* bound: writes to the evaluation's directory afterwards
  NoFile,         \* a file that does not exist
  First, Second,  \* contents of a trajectory
  Unreadable      \* a file that is no JSON object with the names asked for

Exceptions == {"none", "AgentTimeoutError", "VerifierTimeoutError",
               "CandidateInvalidError", "EnvironmentError", "AgentError"}

(* reward is {} or {r}; agent says that the agent ran to a result, bootstrap *)
(* that the verifier's output shows a failed download of its dependencies.   *)
Result == [exception : Exceptions, reward : {{}, {0}, {1}},
           agent : BOOLEAN, bootstrap : BOOLEAN]

ASSUME ReplayAssumption ==
  /\ IsFiniteSet(Trials) /\ Trials # {} /\ Trials \subseteq Nat
  /\ HarborResults \subseteq Result
  /\ MaxTampers \in Nat
  /\ NoFile # Unreadable

VARIABLES
  at,         \* where the evaluation and the replay of it are
  finalZero,  \* Harbor retried a verifier that timed out
  harbor,     \* trial -> result.json
  files,      \* trial -> the files of it that a replay may show
  vector,     \* task_vector.json: the trials as module Evidence has them
  index,      \* evaluation_artifacts.json: trial -> files; or Unreadable
  reference,  \* the digest of the index in the parent's row
  remaining,  \* trials whose files the replay has not read
  memory,     \* trial -> the files it has read and verified
  view,       \* the directory of certified copies
  cases,      \* rollout/cases.json
  tampers

replayVars == <<at, finalZero, harbor, files, vector, index, reference, remaining,
                memory, view, cases, tampers>>

E == INSTANCE Evidence WITH Tasks <- Trials, Repetitions <- 1, Suffixed <- {},
  FailureKindsKept <- 16

-----------------------------------------------------------------------------
(* One trial: status, reward and owner of the vector.                        *)

DependencyError(r) == r.bootstrap /\ r.reward # {1}

(* Mutant: a trial that timed out keeps the reward its verifier gave. *)
TrialResultWithReward(r, zero) ==
  CASE DependencyError(r) ->
         [outcome |-> "infrastructure_failed", reward |-> {}, owner |-> "evaluator"]
    [] ~DependencyError(r) /\ r.exception = "AgentTimeoutError" ->
         [outcome |-> "timeout", reward |-> IF r.reward = {} THEN {0} ELSE r.reward,
          owner |-> "benchmark_agent"]
    [] OTHER ->
         [outcome |-> IF r.reward # {} THEN "benchmark_complete" ELSE "infrastructure_failed",
          reward |-> r.reward, owner |-> "benchmark"]

TrialResult(r, zero) ==
  CASE DependencyError(r) ->
         [outcome |-> "infrastructure_failed", reward |-> {}, owner |-> "evaluator"]
    [] ~DependencyError(r) /\ r.exception = "AgentTimeoutError" ->
         [outcome |-> "timeout", reward |-> {0}, owner |-> "benchmark_agent"]
    [] ~DependencyError(r) /\ r.exception = "VerifierTimeoutError" /\ zero /\ r.agent ->
         [outcome |-> "timeout", reward |-> {0}, owner |-> "benchmark_verifier"]
    [] ~DependencyError(r) /\ r.exception = "CandidateInvalidError" ->
         [outcome |-> "candidate_invalid", reward |-> {}, owner |-> "candidate"]
    [] ~DependencyError(r) /\ r.exception = "none" /\ r.reward # {} ->
         [outcome |-> "benchmark_complete", reward |-> r.reward, owner |-> "benchmark"]
    [] OTHER ->
         [outcome |-> "infrastructure_failed", reward |-> {},
          owner |-> IF r.exception = "none" THEN "evaluator" ELSE "ambiguous"]

VectorTrial(t, r, zero) ==
  LET result == TrialResult(r, zero)
  IN [task |-> t, trial |-> 0, outcome |-> result.outcome, owner |-> result.owner,
      reward |-> result.reward, fault |-> r.exception # "none" \/ DependencyError(r)]

(* The part of a result that a replay may show.                              *)
Envelope(r) == [reward |-> r.reward, exception |-> r.exception]
Envelopes == {Envelope(r) : r \in HarborResults}
NoFiles == [replay |-> NoFile, trajectory |-> NoFile]

WithResult == {t \in Trials : harbor[t] # NoFile}

(* evaluation_artifacts.json: what a replay may ask for.                     *)
ArtifactIndex(found) == [t \in WithResult |-> found[t]]
Indexed == DOMAIN index

-----------------------------------------------------------------------------
(* The evaluation.                                                           *)

RunHarbor ==
  /\ at = "evaluating"
  /\ \E results \in [Trials -> HarborResults \cup {NoFile}],
        trajectories \in [Trials -> {NoFile, First}] :
       /\ \A t \in Trials : results[t] = NoFile => trajectories[t] = NoFile
       /\ harbor' = results
       /\ files' = [t \in Trials |-> [replay |-> NoFile, trajectory |-> trajectories[t]]]
  /\ at' = "ended"
  /\ UNCHANGED <<finalZero, vector, index, reference, remaining, memory, view, cases, tampers>>

(* write_harbor_artifacts: envelopes first, then the vector and the index.   *)
WriteArtifacts ==
  /\ at = "ended"
  /\ files' = [t \in Trials |-> IF t \in WithResult
                                  THEN [files[t] EXCEPT !.replay = Envelope(harbor[t])]
                                  ELSE files[t]]
  /\ vector' = {VectorTrial(t, harbor[t], finalZero) : t \in WithResult}
  /\ index' = ArtifactIndex(files')
  /\ at' = "indexed"
  /\ UNCHANGED <<finalZero, harbor, reference, remaining, memory, view, cases, tampers>>

Evaluated ==
  E!Classify(E!ContractTrials(TRUE, vector), E!Expected, <<1, 2>>, TRUE, "none")

(* The record of a complete evaluation names the index by its digest; only   *)
(* such a generation is a valid parent.                                      *)
RecordEvaluation ==
  /\ at = "indexed"
  /\ Evaluated.outcome = "benchmark_complete"
  /\ reference' = index
  /\ at' = "recorded"
  /\ UNCHANGED <<finalZero, harbor, files, vector, index, remaining, memory, view, cases, tampers>>

-----------------------------------------------------------------------------
(* The replay, once for every child of the parent.                           *)

Refuse ==
  /\ at' = "refused"
  /\ UNCHANGED <<finalZero, harbor, files, vector, index, reference, remaining, memory,
                 view, cases, tampers>>

ReadReference ==
  /\ at = "recorded"
  /\ \/ /\ index # reference
        /\ Refuse
     \/ /\ index = reference
        /\ at' = "verifying"
        /\ remaining' = Indexed
        /\ memory' = [t \in {} |-> NoFiles]
        /\ UNCHANGED <<finalZero, harbor, files, vector, index, reference, view, cases, tampers>>

(* The files that the index lists are read once and compared; what is not    *)
(* listed is looked for at the end.                                          *)
Matches(listed, found) ==
  \A name \in DOMAIN listed : listed[name] # NoFile => found[name] = listed[name]

VerifyTrial ==
  /\ at = "verifying" /\ remaining # {}
  /\ LET t == CHOOSE t \in remaining : \A u \in remaining : t <= u
     IN \/ /\ ~Matches(reference[t], files[t])
           /\ Refuse
        \/ /\ Matches(reference[t], files[t])
           /\ remaining' = remaining \ {t}
           /\ memory' = [u \in DOMAIN memory \cup {t} |->
                           IF u = t THEN reference[t] ELSE memory[u]]
           /\ UNCHANGED <<at, finalZero, harbor, files, vector, index, reference, view,
                          cases, tampers>>

(* An unreadable envelope makes no case, so it is nothing extra.             *)
Extra(t) ==
  \/ t \notin DOMAIN memory /\ files[t].replay \in Envelopes
  \/ /\ t \in DOMAIN memory
     /\ \E name \in DOMAIN memory[t] : memory[t][name] = NoFile /\ files[t][name] # NoFile

LookForExtras ==
  /\ at = "verifying" /\ remaining = {}
  /\ \/ /\ \E t \in Trials : Extra(t)
        /\ Refuse
     \/ /\ \A t \in Trials : ~Extra(t)
        /\ at' = "verified"
        /\ UNCHANGED <<finalZero, harbor, files, vector, index, reference, remaining,
                       memory, view, cases, tampers>>

(* Mutant: the certified files are copied from the directory again. *)
MaterializeByCopying ==
  /\ at = "verified"
  /\ view' = [t \in DOMAIN memory |-> files[t]]
  /\ at' = "viewed"
  /\ UNCHANGED <<finalZero, harbor, files, vector, index, reference, remaining, memory,
                 cases, tampers>>

Materialize ==
  /\ at = "verified"
  /\ view' = memory
  /\ at' = "viewed"
  /\ UNCHANGED <<finalZero, harbor, files, vector, index, reference, remaining, memory,
                 cases, tampers>>

-----------------------------------------------------------------------------
(* collect_cases over the view, with reward 1 as the threshold.              *)

InfrastructureExceptions == {"VerifierTimeoutError", "EnvironmentError"}

CaseOutcome(envelope) ==
  IF envelope.reward # {}
    THEN IF envelope.reward = {1} THEN "passed" ELSE "failed"
  ELSE IF envelope.exception \in InfrastructureExceptions THEN "infra_error"
  ELSE IF envelope.exception # "none" THEN "agent_error"
  ELSE "incomplete"

CaseOf(t, shown) ==
  [trial |-> t, reward |-> shown.replay.reward, outcome |-> CaseOutcome(shown.replay),
   trajectory |-> shown.trajectory]

CollectCases(directory) ==
  {CaseOf(t, directory[t]) : t \in {u \in DOMAIN directory : directory[u].replay \in Envelopes}}

WriteCases ==
  /\ at = "viewed"
  /\ \/ /\ CollectCases(view) = {}
        /\ Refuse
     \/ /\ CollectCases(view) # {}
        /\ cases' = CollectCases(view)
        /\ at' = "shown"
        /\ UNCHANGED <<finalZero, harbor, files, vector, index, reference, remaining,
                       memory, view, tampers>>

ReplayAgain ==
  /\ at \in {"shown", "refused"}
  /\ at' = "recorded"
  /\ UNCHANGED <<finalZero, harbor, files, vector, index, reference, remaining, memory,
                 view, cases, tampers>>

-----------------------------------------------------------------------------
(* Anyone: after the evaluation a file of its directory is written, removed  *)
(* or added.                                                                 *)

Tamper ==
  /\ at \in {"recorded", "verifying", "verified", "viewed"}
  /\ tampers < MaxTampers
  /\ tampers' = tampers + 1
  /\ \/ /\ \E t \in Trials :
             \/ \E replay \in (Envelopes \cup {NoFile, Unreadable}) \ {files[t].replay} :
                  files' = [files EXCEPT ![t].replay = replay]
             \/ \E trajectory \in {NoFile, Second} \ {files[t].trajectory} :
                  files' = [files EXCEPT ![t].trajectory = trajectory]
        /\ UNCHANGED index
     \/ /\ index' = Unreadable
        /\ UNCHANGED files
  /\ UNCHANGED <<at, finalZero, harbor, vector, reference, remaining, memory, view, cases>>

-----------------------------------------------------------------------------
ReplayInit ==
  /\ at = "evaluating"
  /\ finalZero \in BOOLEAN
  /\ harbor = [t \in Trials |-> NoFile]
  /\ files = [t \in Trials |-> NoFiles]
  /\ vector = {} /\ index = NoFile /\ reference = NoFile
  /\ remaining = {} /\ memory = [t \in {} |-> NoFiles] /\ view = [t \in {} |-> NoFiles]
  /\ cases = {} /\ tampers = 0

ReplayNext ==
  \/ RunHarbor \/ WriteArtifacts \/ RecordEvaluation
  \/ ReadReference \/ VerifyTrial \/ LookForExtras \/ Materialize \/ WriteCases
  \/ ReplayAgain \/ Tamper

ReplaySpec == ReplayInit /\ [][ReplayNext]_replayVars

-----------------------------------------------------------------------------
(* The cases a child's operators read are those of the trials the parent was *)
(* evaluated with, all of them and with the trajectories of that time,       *)
(* whatever is written to the evaluation's directory while they are read.    *)
ReplayIsCertified ==
  cases # {} =>
    /\ {c.trial : c \in cases} = WithResult
    /\ \A c \in cases :
         /\ c.reward = harbor[c.trial].reward
         /\ c.outcome = CaseOutcome(Envelope(harbor[c.trial]))
         /\ c.trajectory = reference[c.trial].trajectory

(* The score of a recorded evaluation counts a trial as solved if and only   *)
(* if Harbor reports a full reward for it and no exception: a timeout, a     *)
(* failed bootstrap or an error is never paid for by a reward beside it.     *)
ScoreCountsCleanPasses ==
  reference # NoFile =>
    Evaluated.score =
      {<<Cardinality({t \in WithResult : harbor[t].exception = "none" /\ harbor[t].reward = {1}}),
         E!Expected>>}
=============================================================================
