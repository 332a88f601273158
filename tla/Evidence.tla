------------------------------ MODULE Evidence ------------------------------
(***************************************************************************)
(* What an evaluation makes of the evidence an evaluator leaves behind:     *)
(* src/src/evolve/evaluation/{evidence,diagnostics,results}.py.             *)
(*                                                                          *)
(* A trial is a record                                                      *)
(*   [task, trial, outcome, owner, reward, fault]                           *)
(* where reward is {} (null) or {r}, and fault says that an exception type  *)
(* or message is attached.  A vector is a set of trials.  All operators     *)
(* are pure: the evaluation that calls them is module Evaluation.           *)
(***************************************************************************)
EXTENDS Integers, FiniteSets, FiniteSetsExt

CONSTANTS
  Tasks,        \* the task names of the contract
  Repetitions,  \* attempts at each task
  Suffixed,     \* pairs <<raw, task>>: the raw name ends in __task or /task
  FailureKindsKept  \* how many kinds of failure the diagnostics list: 16

ASSUME TasksAssumption == Tasks # {} /\ IsFiniteSet(Tasks)
ASSUME RepetitionsAssumption == Repetitions \in Nat \ {0}
ASSUME SuffixedAssumption ==
  \A p, q \in Suffixed : p[1] \notin Tasks /\ (p[2] = q[2] => p = q)
ASSUME KeptAssumption == FailureKindsKept \in Nat \ {0}

Outcomes == {"benchmark_complete", "candidate_invalid", "infrastructure_failed",
             "timeout", "cancelled", "missing"}
BenchmarkOwners == {"benchmark_agent", "benchmark_verifier"}
KnownOwners == BenchmarkOwners \cup
  {"ambiguous", "benchmark", "candidate", "evaluator", "infrastructure"}

Identities == Tasks \X (0 .. Repetitions - 1)
Expected == Cardinality(Identities)
IdentityOf(t) == <<t.task, t.trial>>

-----------------------------------------------------------------------------
(* Reading a task vector. *)

DiagnosticFailure(t) ==
  t.outcome \in {"candidate_invalid", "infrastructure_failed"} \/ t.fault

(* A verifier timeout is no score here, although ScoreEligible counts it.   *)
RewardExpected(t) ==
  \/ t.outcome = "benchmark_complete"
  \/ t.outcome = "timeout" /\ t.owner = "benchmark_agent"

ValidTrial(t) ==
  /\ t.outcome \in Outcomes
  /\ RewardExpected(t) => t.reward # {}
  /\ t.reward # {} => RewardExpected(t) \/ DiagnosticFailure(t)

ValidVector(vector) ==
  /\ \A t \in vector : ValidTrial(t)
  /\ \A t, u \in vector : IdentityOf(t) = IdentityOf(u) => t = u

-----------------------------------------------------------------------------
(* Fitting the evidence to the contract. *)

ContractTask(name) ==
  LET matches == {task \in Tasks : <<name, task>> \in Suffixed}
  IN IF name \notin Tasks /\ Cardinality(matches) = 1
       THEN CHOOSE task \in matches : TRUE
       ELSE name

Normalized(t) == [t EXCEPT !.task = ContractTask(t.task)]

(* Of two raw names for one task the later in the vector's order wins; the  *)
(* vector is sorted by name, and Suffixed names sort before the task here.  *)
Standing(vector, t) ==
  \A u \in vector :
    IdentityOf(Normalized(u)) = IdentityOf(Normalized(t)) /\ u.task # t.task
      => t.task \in Tasks

Placeholder(id, outcome, owner) ==
  [task |-> id[1], trial |-> id[2], outcome |-> outcome, owner |-> owner,
   reward |-> {}, fault |-> FALSE]

MaterializeMissing(vector) ==
  LET standing == {Normalized(t) : t \in {u \in vector : Standing(vector, u)}}
      observed == {IdentityOf(t) : t \in standing}
  IN standing \cup {Placeholder(id, "missing", "evaluator") : id \in Identities \ observed}

MaterializeSetupFailure(outcome) ==
  IF outcome = "candidate_invalid"
    THEN {Placeholder(id, outcome, "candidate") : id \in Identities}
    ELSE MaterializeMissing({})

ContractTrials(strict, vector) == IF strict THEN MaterializeMissing(vector) ELSE vector

-----------------------------------------------------------------------------
(* One record out of many trials. *)

(* Mutant: an exception is the candidate's whoever owns the trial. *)
EffectiveOutcomeUnowned(t) ==
  IF t.outcome = "timeout" /\ t.owner \in BenchmarkOwners THEN "timeout"
  ELSE IF t.fault THEN "candidate_invalid"
  ELSE t.outcome

EffectiveOutcome(t) ==
  IF t.outcome = "timeout" /\ t.owner \in BenchmarkOwners THEN "timeout"
  ELSE IF t.fault
    THEN IF t.owner = "candidate" THEN "candidate_invalid" ELSE "infrastructure_failed"
  ELSE IF t.outcome = "candidate_invalid" /\ t.owner # "candidate"
    THEN "infrastructure_failed"
  ELSE t.outcome

ScoreEligible(t, timeoutIsZero) ==
  /\ t.reward # {}
  /\ \/ t.outcome = "benchmark_complete"
     \/ t.outcome = "timeout" /\ t.owner \in BenchmarkOwners /\ timeoutIsZero

Scoreable(trials, timeoutIsZero) ==
  {t \in trials : /\ EffectiveOutcome(t) \notin {"infrastructure_failed", "candidate_invalid"}
                  /\ ScoreEligible(t, timeoutIsZero)}

(* floor is a pair: a fraction with numerator and denominator. *)
Covers(n, expected, floor) == n * floor[2] >= floor[1] * expected

(* Mutant: extra trials are not noticed. *)
ClassifiedWithExtras(trials, expected, floor, timeoutIsZero, setup) ==
  LET outcomes  == {EffectiveOutcome(t) : t \in trials} \cup ({setup} \ {"none"})
      scoreable == Cardinality(Scoreable(trials, timeoutIsZero))
  IN IF setup = "infrastructure_failed" THEN "infrastructure_failed"
     ELSE IF "candidate_invalid" \in outcomes THEN "candidate_invalid"
     ELSE IF "cancelled" \in outcomes THEN "cancelled"
     ELSE IF scoreable > 0 /\ Covers(scoreable, expected, floor) THEN "benchmark_complete"
     ELSE "infrastructure_failed"

ClassifiedOutcome(trials, expected, floor, timeoutIsZero, setup) ==
  LET outcomes  == {EffectiveOutcome(t) : t \in trials} \cup ({setup} \ {"none"})
      scoreable == Cardinality(Scoreable(trials, timeoutIsZero))
  IN IF setup = "infrastructure_failed" THEN "infrastructure_failed"
     ELSE IF "candidate_invalid" \in outcomes THEN "candidate_invalid"
     ELSE IF "cancelled" \in outcomes THEN "cancelled"
     ELSE IF Cardinality(trials) > expected THEN "infrastructure_failed"
     ELSE IF scoreable > 0 /\ Covers(scoreable, expected, floor) THEN "benchmark_complete"
     ELSE IF \/ outcomes \cap {"infrastructure_failed", "missing"} # {}
             \/ Cardinality(trials) # expected
       THEN "infrastructure_failed"
     ELSE "timeout"

RewardOf(t) == IF t.reward = {} THEN 0 ELSE CHOOSE r \in t.reward : TRUE
TotalReward(trials) == MapThenSumSet(RewardOf, trials)

(* The score is the pair total / expected; {} where the code has None.      *)
Classify(trials, expected, floor, timeoutIsZero, setup) ==
  LET outcome   == ClassifiedOutcome(trials, expected, floor, timeoutIsZero, setup)
      scoreable == Scoreable(trials, timeoutIsZero)
  IN [outcome |-> outcome, trials |-> trials, scoreable |-> Cardinality(scoreable),
      score |-> IF outcome = "benchmark_complete"
                  THEN {<<TotalReward(scoreable), expected>>} ELSE {}]

-----------------------------------------------------------------------------
(* The compact diagnostics frozen into a strict record. *)

(* Mutant: the owner is taken as the evaluator wrote it. *)
OwnerAsWritten(t) == t.owner

SafeOwner(t) == IF t.owner \in KnownOwners THEN t.owner ELSE "unknown"

FailureKind(t) == <<t.outcome, SafeOwner(t)>>

(* Mutant: every kind is listed. *)
AllKinds(count) == DOMAIN count

(* The most frequent kinds are listed; the code decides ties by name.       *)
MostFrequent(count) ==
  CHOOSE kept \in SUBSET DOMAIN count :
    /\ Cardinality(kept) = Min({Cardinality(DOMAIN count), FailureKindsKept})
    /\ \A kind \in kept, other \in DOMAIN count \ kept : count[other] <= count[kind]

Diagnostics(record, purpose, expected) ==
  LET failed  == {t \in record.trials : t.outcome # "benchmark_complete"}
      count   == [kind \in {FailureKind(t) : t \in failed} |->
                    Cardinality({t \in failed : FailureKind(t) = kind})]
      missing == Cardinality({t \in record.trials : t.outcome = "missing"})
  IN [expected |-> expected,
      observed |-> Cardinality(record.trials) - missing,
      scoreable |-> record.scoreable,
      missing |-> missing,
      outcomes |-> [o \in Outcomes |-> Cardinality({t \in record.trials : t.outcome = o})],
      owners |-> {SafeOwner(t) : t \in record.trials},
      failures |-> {[kind |-> kind, count |-> count[kind],
                     actionable |-> kind[2] = "candidate" /\ purpose \in {"candidate", "genesis"}]
                    : kind \in MostFrequent(count)},
      retryEligible |-> record.outcome \in
                          {"infrastructure_failed", "timeout", "cancelled", "missing"}]

(* validate_evaluation_diagnostics_payload: what a reader of them refuses.  *)
DiagnosticsReadable(d) ==
  /\ d.expected >= 0 /\ d.observed >= 0 /\ d.missing >= 0
  /\ d.scoreable \in 0 .. d.observed
  /\ \A o \in Outcomes : d.outcomes[o] >= 0
  /\ d.owners \subseteq KnownOwners \cup {"unknown"}
  /\ Cardinality(d.failures) <= FailureKindsKept
  /\ \A f \in d.failures : f.count >= 1 /\ f.actionable \in BOOLEAN
=============================================================================
