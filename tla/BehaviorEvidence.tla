-------------------------- MODULE BehaviorEvidence --------------------------
(***************************************************************************)
(* What the prompt of the A-Evolve mutation is made of: the rollout of a     *)
(* generation leaves cases, an analyze operator (trace_analysis.py and       *)
(* src/library/analyze/trajectory_only.py) makes evidence of them, the      *)
(* driver copies it into the feedback bundle (feedback.py), and             *)
(* src/library/mutate/aevolve.py builds the prompt.  The operator            *)
(* trajectory_only promises behaviour and guesses only: a judge, asked       *)
(* about each trajectory by a pool of threads, stands in for the verifier.   *)
(*                                                                          *)
(* A document is a sequence of lines; a line tells some fields of one case.  *)
(* A generation may be cut off and tried again in the same run directory,    *)
(* perhaps with another parent.  Texts are not clipped.                      *)
(***************************************************************************)
EXTENDS Naturals, FiniteSets, SequencesExt

CONSTANTS
  Analyzers,       \* operators of the recipe: trajectory_only and others
  BatchOutcomes,   \* what a rollout may yield: outcomes of the tasks 1, 2...
  HistoryCycles, MaxObservations, JudgeWorkers, JudgeAttempts, \* configuration
  LastCycle,       \* bound: generations after generation 0
  MaxReruns,       \* bound: times that a generation is cut off
  Unmade           \* no file, no verdict

ASSUME BehaviorAssumption ==
  /\ Analyzers \subseteq {"trajectory_only", "failure_patterns", "trace_browser"}
  /\ BatchOutcomes \subseteq
       Seq({"passed", "failed", "agent_error", "infra_error", "incomplete"})
  /\ {HistoryCycles, MaxObservations, JudgeWorkers, JudgeAttempts} \subseteq Nat \ {0}
  /\ {LastCycle, MaxReruns} \subseteq Nat

VARIABLES
  analyzer,
  cycle,      \* the generation under way
  cycleStep,  \* its next stage
  reruns,
  origin,     \* the parent selected in this try
  ancestor,   \* generation -> the parent it was committed with
  rowOrder,   \* the generations of the archive, in its order
  traces,     \* generation -> rollout/cases.json
  window,     \* the records that the judge is asked about
  asking,     \* record -> how far the thread of its judge is
  verdicts,   \* record -> the trajectory that its verdict is about
  evidence,   \* analyze/evidence of the generation under way
  bundle,     \* its feedback/
  prompt

behaviorVars == <<analyzer, cycle, cycleStep, reruns, origin, ancestor, rowOrder,
                  traces, window, asking, verdicts, evidence, bundle, prompt>>
inTry == <<analyzer, cycle, reruns, origin, ancestor, rowOrder>>

-----------------------------------------------------------------------------
(* The fields that a line may tell.                                         *)

Behavior == {"task", "calls", "messages", "termination"}
Raw == {"task", "calls", "messages", "instruction", "outcome", "reward",
        "verifier", "exception", "usage"}
Tells(c, fields) == [case |-> c, fields |-> fields, verdict |-> Unmade]
Told(batch_, Fields(_)) == [i \in DOMAIN batch_ |-> Tells(batch_[i], Fields(batch_[i]))]

BrokenOff(c) == c.outcome \in {"infra_error", "incomplete"}

(* _ordered_behavior_events, _final_agent_response                          *)
BehaviorEvents == {"calls", "messages"}
FinalResponse == {"messages"}
(* _trajectory_signals, _compress_trajectory: the end of a run is told only  *)
(* when the harness broke it off.                                           *)
Signals == BehaviorEvents \cup FinalResponse
Compressed(c) ==
  BehaviorEvents \cup FinalResponse \cup IF BrokenOff(c) THEN {"termination"} ELSE {}
TrajectoryRecord(c) == {"task"} \cup Signals \cup Compressed(c)

(* _failure_cause, _trace_mechanism                                         *)
FailureCause == {"outcome", "exception", "verifier"}
TraceMechanism == FailureCause \cup {"calls", "outcome"}
FailureRecord(c) ==
  {"task", "reward", "instruction", "messages"} \cup FailureCause \cup TraceMechanism
FailurePattern(c) ==
  {"task", "instruction", "verifier", "messages"} \cup FailureCause \cup TraceMechanism
PassingBehavior(c) == {"task", "reward", "instruction", "calls", "messages", "outcome"}
ReflectiveRecord(c) == Raw \ {"usage"}
Metrics(c) == {"task", "outcome", "reward", "usage"}
CaseSummary(c) == {"task", "outcome", "reward", "verifier", "exception"}

Failing(c) == c.outcome # "passed"
Passing(c) == c.outcome = "passed"

-----------------------------------------------------------------------------
CasesOf(g) == IF g \in DOMAIN traces THEN traces[g] ELSE <<>>
NewestOf(s, n) == SubSeq(s, IF Len(s) > n THEN Len(s) - n + 1 ELSE 1, Len(s))

(* _trajectory_only_cases: the cases of the n nearest generations, from g on *)
(* along its ancestors, that have any; the oldest come first.               *)
Earlier[g \in 0..LastCycle] ==
  [n \in 0..HistoryCycles |->
     LET left == IF CasesOf(g) = <<>> THEN n ELSE n - 1
     IN IF n = 0 THEN <<>>
        ELSE IF g \in DOMAIN ancestor THEN Earlier[ancestor[g]][left] \o CasesOf(g)
        ELSE CasesOf(g)]

Window == NewestOf(Earlier[origin][HistoryCycles - 1] \o CasesOf(cycle), MaxObservations)

(* _case_summaries of the other operators: the last rows of the archive.    *)
SummaryWindow ==
  LET last == SelectSeq(NewestOf(rowOrder, HistoryCycles - 1), LAMBDA g : g # cycle)
      batches == [i \in DOMAIN last |-> CasesOf(last[i])]
  IN NewestOf(FlattenSeq(batches) \o CasesOf(cycle), MaxObservations)

(* Mutant: a verdict is looked up by the name of its task.                  *)
AttachByTask(records, given) ==
  [i \in DOMAIN records |->
     LET same == {j \in DOMAIN records : records[j].case.task = records[i].case.task}
     IN [records[i] EXCEPT !.verdict = given[CHOOSE j \in same : \A k \in same : k <= j]]]

(* attach_judge_verdicts                                                    *)
Attach(records, given) ==
  [i \in DOMAIN records |-> [records[i] EXCEPT !.verdict = given[i]]]

(* _render_selected                                                         *)
Selected(made) ==
  IF analyzer = "trajectory_only" THEN made.trajectory
  ELSE IF analyzer = "failure_patterns" THEN made.metrics \o made.patterns \o made.passes
  ELSE made.metrics

(* write_evidence_bundle                                                    *)
Made(batch_, given) ==
  IF analyzer = "trajectory_only"
  THEN [trajectory |-> Attach(Told(batch_, TrajectoryRecord), given)]
  ELSE [raw |-> Told(batch_, LAMBDA c : Raw),
        records |-> Told(SelectSeq(batch_, Failing), FailureRecord),
        patterns |-> Told(SelectSeq(batch_, Failing), FailurePattern),
        passes |-> Told(SelectSeq(batch_, Passing), PassingBehavior),
        reflective |-> Told(batch_, ReflectiveRecord),
        metrics |-> Told(batch_, Metrics)]
Evidence(batch_, given) ==
  LET made == Made(batch_, given)
  IN [operator |-> analyzer, files |-> made, selected |-> Selected(made)]

-----------------------------------------------------------------------------
(* The parent is one that was committed, the rollout runs its candidate.    *)
RollOutBatch ==
  /\ cycleStep = "rollout"
  /\ \E o \in BatchOutcomes :
       LET c(i) == [run |-> cycle, try |-> reruns, task |-> i, outcome |-> o[i]]
       IN traces' = [traces EXCEPT ![cycle] = [i \in DOMAIN o |-> c(i)]]
  /\ cycleStep' = "analyze"
  /\ UNCHANGED <<inTry, window, asking, verdicts, evidence, bundle, prompt>>

(* TrajectoryOnly.analyze asks the judge about each record; the others ask   *)
(* nobody.                                                                  *)
StartAnalysis ==
  /\ cycleStep = "analyze"
  /\ window' = IF analyzer = "trajectory_only" THEN Window ELSE CasesOf(cycle)
  /\ asking' = [i \in DOMAIN window' |->
                  [at |-> IF analyzer = "trajectory_only" THEN "queued" ELSE "done",
                   attempt |-> 0]]
  /\ verdicts' = [i \in DOMAIN window' |-> Unmade]
  /\ cycleStep' = "judge"
  /\ UNCHANGED <<inTry, traces, evidence, bundle, prompt>>

Asked == {i \in DOMAIN asking : asking[i].at = "asked"}

(* The pool takes the records in order, at most judge_max_concurrent at once. *)
AskJudge(i) ==
  /\ cycleStep = "judge" /\ asking[i].at = "queued"
  /\ \A j \in 1..(i - 1) : asking[j].at # "queued"
  /\ Cardinality(Asked) < JudgeWorkers
  /\ asking' = [asking EXCEPT ![i] = [at |-> "asked", attempt |-> 1]]
  /\ UNCHANGED <<inTry, cycleStep, traces, window, verdicts, evidence, bundle, prompt>>

(* The agent gives the object that is asked for, after its prompt.           *)
JudgeAnswers(i) ==
  /\ cycleStep = "judge" /\ i \in Asked
  /\ asking' = [asking EXCEPT ![i].at = "done"]
  /\ verdicts' = [verdicts EXCEPT ![i] = window[i]]
  /\ UNCHANGED <<inTry, cycleStep, traces, window, evidence, bundle, prompt>>

(* It fails, is late or says something else; the last attempt gives a score  *)
(* of -1, which is no verdict.                                              *)
JudgeErrs(i) ==
  /\ cycleStep = "judge" /\ i \in Asked
  /\ asking' = [asking EXCEPT ![i] =
       IF @.attempt < JudgeAttempts THEN [@ EXCEPT !.attempt = @ + 1]
       ELSE [@ EXCEPT !.at = "done"]]
  /\ UNCHANGED <<inTry, cycleStep, traces, window, verdicts, evidence, bundle, prompt>>

WriteEvidence ==
  /\ cycleStep = "judge" /\ \A i \in DOMAIN asking : asking[i].at = "done"
  /\ evidence' = Evidence(window, verdicts)
  /\ window' = <<>> /\ asking' = <<>> /\ verdicts' = <<>>
  /\ cycleStep' = "bundle"
  /\ UNCHANGED <<inTry, traces, bundle, prompt>>

(* write_feedback_bundle: the rows with their scores, and the evidence.     *)
WriteBundle ==
  /\ cycleStep = "bundle"
  /\ bundle' = [rows |-> ToSet(rowOrder), selected |-> evidence.selected]
  /\ cycleStep' = "prompt"
  /\ UNCHANGED <<inTry, traces, window, asking, verdicts, evidence, prompt>>

(* build_prompt: the manifest of the evidence decides what is told.         *)
BuildPrompt ==
  /\ cycleStep = "prompt"
  /\ prompt' = IF evidence.operator = "trajectory_only"
               THEN [rows |-> {}, lines |-> bundle.selected]
               ELSE [rows |-> bundle.rows,
                     lines |-> Told(SummaryWindow, CaseSummary) \o bundle.selected]
  /\ cycleStep' = "mutate"
  /\ UNCHANGED <<inTry, traces, window, asking, verdicts, evidence, bundle>>

StageEnds ==
  /\ prompt' = Unmade /\ window' = <<>> /\ asking' = <<>> /\ verdicts' = <<>>

Committed_ == {0} \cup DOMAIN ancestor

(* The child is committed, or given up: both leave a row.                   *)
EndCycle(kept) ==
  /\ cycleStep = "mutate" \/ (~kept /\ cycleStep # "select")
  /\ ancestor' = IF kept THEN [g \in DOMAIN ancestor \cup {cycle} |->
                                  IF g = cycle THEN origin ELSE ancestor[g]]
                 ELSE ancestor
  /\ rowOrder' = Append(rowOrder, cycle)
  /\ cycle' = cycle + 1 /\ cycleStep' = "select"
  /\ evidence' = Unmade /\ bundle' = Unmade  \* another run directory
  /\ StageEnds
  /\ UNCHANGED <<analyzer, reruns, origin, traces>>

SelectOrigin ==
  /\ cycleStep = "select" /\ cycle <= LastCycle
  /\ \E p \in Committed_ : origin' = p
  /\ cycleStep' = "rollout"
  /\ UNCHANGED <<analyzer, cycle, reruns, ancestor, rowOrder, traces, window, asking,
                 verdicts, evidence, bundle, prompt>>

(* The run is killed; the generation has no row yet and is tried again.     *)
CutShort ==
  /\ cycleStep # "select" /\ reruns < MaxReruns
  /\ reruns' = reruns + 1 /\ cycleStep' = "select"
  /\ StageEnds
  /\ UNCHANGED <<analyzer, cycle, origin, ancestor, rowOrder, traces, evidence, bundle>>

BehaviorInit ==
  /\ analyzer \in Analyzers
  /\ cycle = 1 /\ cycleStep = "select" /\ reruns = 0 /\ origin = 0
  /\ ancestor = <<>> /\ rowOrder = <<0>>
  /\ traces = [g \in 1..LastCycle |-> <<>>]
  /\ window = <<>> /\ asking = <<>> /\ verdicts = <<>> /\ prompt = Unmade
  /\ evidence = Unmade /\ bundle = Unmade

BehaviorNext ==
  \/ SelectOrigin \/ RollOutBatch \/ StartAnalysis \/ WriteEvidence \/ WriteBundle
  \/ BuildPrompt \/ EndCycle(TRUE) \/ EndCycle(FALSE) \/ CutShort
  \/ \E i \in DOMAIN asking : AskJudge(i) \/ JudgeAnswers(i) \/ JudgeErrs(i)

BehaviorSpec == BehaviorInit /\ [][BehaviorNext]_behaviorVars

-----------------------------------------------------------------------------
(* The trials of a run that a line may be about: those of the try that was   *)
(* committed, or is under way.                                              *)
OfItsLastTry(c) == c \in ToSet(CasesOf(c.run))

(* A generation and its ancestors: the least set with it and their parents. *)
LineageOf(p) ==
  {g \in 0..LastCycle :
     \A family \in SUBSET (0..LastCycle) :
       p \in family /\ (\A h \in family \cap DOMAIN ancestor : ancestor[h] \in family)
         => g \in family}

(* What trajectory_only promises in selected.md and the manifest: the prompt *)
(* tells behaviour and guesses only, no label, instruction or row, however   *)
(* the files came to be; a guess stands beside the very trajectory that the  *)
(* judge was shown, though a task occurs once in every rollout and answers   *)
(* come in any order; and all trajectories are of this try or of the         *)
(* lineage of its parent, none of a sibling or of a try that was given up.   *)
JudgedByBehavior ==
  (prompt # Unmade /\ analyzer = "trajectory_only") =>
    /\ prompt.rows = {}
    /\ \A line \in ToSet(prompt.lines) :
         /\ line.fields \subseteq Behavior
         /\ line.verdict \in {Unmade, line.case}
         /\ OfItsLastTry(line.case)
         /\ line.case.run \in {cycle} \cup LineageOf(origin)
=============================================================================
