--------------------------- MODULE EvaluationProofs ---------------------------
(***************************************************************************)
(* Proofs about Evaluation, for every contract, evaluator and defect: what  *)
(* a score stands on, whom a verdict blames, what is left on the disk.      *)
(***************************************************************************)
EXTENDS Evaluation, FiniteSetTheorems, WellFoundedInduction, TLAPS

Fields == {"run", "contract", "preflight", "receipt", "status"}
Recorded == {"leave", "summary", "return"}
Prepared == {"prepare", "sync", "build", "verify", "script", "classify"}
Running == {"preflight"} \cup Prepared \cup Recorded

IsTrial(t) ==
  /\ t = [task |-> t.task, trial |-> t.trial, outcome |-> t.outcome, owner |-> t.owner,
          reward |-> t.reward, fault |-> t.fault]
  /\ \A r \in t.reward : r \in Int /\ t.reward = {r}

EvalTypeOK ==
  /\ pc \in {"idle", "resolve"} \cup Running
  /\ \A n \in DOMAIN disk : DOMAIN disk[n] = Fields
  /\ venvs \subseteq DOMAIN disk
  /\ pc \in Running => attempt \in DOMAIN disk /\ disk[attempt].run = runs
  /\ pc = "classify" => script.quirk \in Quirks
  /\ \A t \in script.vector : IsTrial(t)
  /\ IsFiniteSet(script.vector)
  /\ record # {} => pc \in Recorded

(* What the steps before a strict score have established. *)
ChainOK ==
  strict =>
    /\ pc \in Running => disk[attempt].contract
    /\ pc \in Prepared => disk[attempt].preflight = "passed"
    /\ pc = "verify" /\ managed => disk[attempt].receipt = runtime
    /\ pc \in {"script", "classify"} =>
         Certified /\ (managed => disk[attempt].receipt = "ready")

(* What the preparation says of the candidate is so. *)
RuntimeOK ==
  /\ pc = "verify" => runtime \in {"ready", "candidate_invalid", "infrastructure_failed"}
  /\ pc = "verify" /\ runtime = "candidate_invalid" =>
       SickOf(CandidateDefects \ {"crlf"}) \/ Ambiguous
  /\ pc \in {"script", "classify"} => runtime = "ready"
  /\ pc = "verify" /\ ailments = {} => runtime = "ready" /\ Certified

(* What is left on the disk; the worktree is gone before the summary.       *)
CleanOK ==
  /\ OnlyTheKilledLeave
  /\ pc \in {"summary", "return"} => worktrees \subseteq killed

EvalInv ==
  /\ EvalTypeOK /\ ChainOK /\ RuntimeOK
  /\ ScoreIsCertified /\ RecordFromContract /\ BlameIsEarned /\ CleanOK /\ HealthyIsScored

------------------------------------------------------------------------------
(* A file of one attempt is written, and nothing else on the disk changes. *)
LEMMA WroteOneFile ==
  ASSUME EvalTypeOK, pc \in Running, NEW field \in Fields, NEW value
  PROVE  /\ DOMAIN Wrote(field, value) = DOMAIN disk
         /\ \A n \in DOMAIN disk :
              /\ DOMAIN Wrote(field, value)[n] = Fields
              /\ n # attempt => Wrote(field, value)[n] = disk[n]
         /\ Wrote(field, value)[attempt][field] = value
         /\ \A g \in Fields \ {field} :
              Wrote(field, value)[attempt][g] = disk[attempt][g]
<1>1. attempt \in DOMAIN disk /\ DOMAIN disk[attempt] = Fields
  BY DEF EvalTypeOK
<1>2. Wrote(field, value) = [disk EXCEPT ![attempt] = [disk[attempt] EXCEPT ![field] = value]]
  BY <1>1 DEF Wrote
<1> QED
  BY <1>1, <1>2 DEF EvalTypeOK

(* The record is the one that was classified last. *)
LEMMA OneRecord ==
  ASSUME NEW c, record' = RecordOf(c)
  PROVE  /\ record' # {} /\ Record'.outcome = c.outcome /\ Record'.score = c.score
         /\ Record'.trials = c.trials /\ Record'.scoreable = c.scoreable
<1> DEFINE r == [attempt |-> attempt, outcome |-> c.outcome, score |-> c.score,
                 trials |-> c.trials, scoreable |-> c.scoreable]
<1>1. record' = {r}
  BY DEF RecordOf
<1>2. Record' = CHOOSE x \in record' : TRUE
  BY DEF Record
<1>3. Record' = r
  BY <1>1, <1>2
<1> QED
  BY <1>1, <1>3

(* A setup that failed is the outcome, whatever the trials, and has no score. *)
LEMMA SetupDecides ==
  ASSUME NEW trials, NEW expected, NEW floor, NEW zero,
         NEW setup \in {"candidate_invalid", "infrastructure_failed"}
  PROVE  /\ Classify(trials, expected, floor, zero, setup).outcome = setup
         /\ Classify(trials, expected, floor, zero, setup).score = {}
  BY DEF Classify, ClassifiedOutcome

(* Without one, the candidate is blamed for a trial that is its own. *)
LEMMA TrialsBlame ==
  ASSUME NEW trials, NEW expected, NEW floor, NEW zero,
         Classify(trials, expected, floor, zero, "none").outcome = "candidate_invalid"
  PROVE  \E t \in trials : t.owner = "candidate" /\ (t.outcome = "candidate_invalid" \/ t.fault)
<1>1. ClassifiedOutcome(trials, expected, floor, zero, "none") = "candidate_invalid"
  BY DEF Classify
<1>2. "candidate_invalid" \in {EffectiveOutcome(t) : t \in trials} \cup ({"none"} \ {"none"})
  BY <1>1 DEF ClassifiedOutcome
<1>3. PICK t \in trials : EffectiveOutcome(t) = "candidate_invalid"
  BY <1>2
<1>4. t.owner = "candidate" /\ (t.outcome = "candidate_invalid" \/ t.fault)
  BY <1>3 DEF EffectiveOutcome
<1> QED
  BY <1>4

(* Fitting the trials to the contract changes neither owner nor outcome, and *)
(* a trial that is filled in is nobody's fault.                             *)
LEMMA BlameIsOfTheScript ==
  ASSUME NEW vector, \A t \in vector : IsTrial(t), NEW s \in ContractTrials(strict, vector),
         s.owner = "candidate"
  PROVE  \E t \in vector : t.owner = s.owner /\ t.outcome = s.outcome /\ t.fault = s.fault
<1>1. CASE ~strict
  BY <1>1 DEF ContractTrials
<1>2. CASE strict
  <2>1. s \in MaterializeMissing(vector)
    BY <1>2 DEF ContractTrials
  <2>2. CASE \E id : s = Placeholder(id, "missing", "evaluator")
    BY <2>2 DEF Placeholder
  <2>3. CASE \E t \in vector : s = Normalized(t)
    <3>1. PICK t \in vector : s = Normalized(t)
      BY <2>3
    <3>2. DOMAIN t = {"task", "trial", "outcome", "owner", "reward", "fault"}
      BY DEF IsTrial
    <3> QED
      BY <3>1, <3>2 DEF Normalized
  <2> QED
    BY <2>1, <2>2, <2>3 DEF MaterializeMissing
<1> QED
  BY <1>1, <1>2

(* A fraction of at most one of some trials is covered by all of them. *)
LEMMA AllCover ==
  ASSUME NEW n \in Nat
  PROVE  Covers(n, n, Floor)
<1>1. \A a, b \in Nat : a <= b => n * b >= a * n
  <2> SUFFICES ASSUME NEW a \in Nat, NEW b \in Nat, a <= b PROVE n * b >= a * n
    OBVIOUS
  <2>1. n * b = n * a + n * (b - a) /\ n * (b - a) \in Nat /\ n * a = a * n
    BY SMT
  <2> QED
    BY <2>1
<1> QED
  BY <1>1, FloorAssumption DEF Covers

(* A contract plans at least one trial, and finitely many. *)
LEMMA ExpectedIsPositive == IsFiniteSet(Identities) /\ Expected \in Nat \ {0}
<1>1. IsFiniteSet(0 .. Repetitions - 1)
  BY RepetitionsAssumption, FS_Interval
<1>2. IsFiniteSet(Identities)
  BY <1>1, TasksAssumption, FS_Product DEF Identities
<1>3. Identities # {}
  <2>1. PICK task \in Tasks : TRUE
    BY TasksAssumption
  <2>2. <<task, 0>> \in Identities
    BY <2>1, RepetitionsAssumption DEF Identities
  <2> QED
    BY <2>2
<1> QED
  BY <1>2, <1>3, FS_CardinalityType, FS_EmptySet DEF Expected

(* As many clean trials as there are planned give a score. *)
LEMMA CleanTrialsScore ==
  ASSUME NEW trials, IsFiniteSet(trials), Cardinality(trials) = Expected,
         \A t \in trials : t.outcome = "benchmark_complete" /\ ~t.fault /\ t.reward # {}
  PROVE  Classify(trials, Expected, Floor, TimeoutIsZero, "none").score # {}
<1>1. \A t \in trials : EffectiveOutcome(t) = "benchmark_complete" /\ ScoreEligible(t, TimeoutIsZero)
  BY DEF EffectiveOutcome, ScoreEligible
<1>2. Scoreable(trials, TimeoutIsZero) = trials
  BY <1>1 DEF Scoreable
<1>3. {EffectiveOutcome(t) : t \in trials} \cup ({"none"} \ {"none"}) \subseteq {"benchmark_complete"}
  BY <1>1
<1>4. Covers(Expected, Expected, Floor) /\ Expected > 0 /\ ~(Expected > Expected)
  BY AllCover, ExpectedIsPositive
<1>5. ClassifiedOutcome(trials, Expected, Floor, TimeoutIsZero, "none") = "benchmark_complete"
  BY <1>2, <1>3, <1>4 DEF ClassifiedOutcome
<1> QED
  BY <1>5 DEF Classify

(* If there are as many raw trials as planned ones and each planned one is    *)
(* among them, each is there once, and fitting them adds and drops nothing.   *)
LEMMA CleanVectorScores ==
  ASSUME NEW vector, IsFiniteSet(vector), Cardinality(vector) = Expected,
         {IdentityOf(Normalized(t)) : t \in vector} = Identities,
         \A t \in vector : /\ IsTrial(t)
                           /\ t.outcome = "benchmark_complete" /\ ~t.fault /\ t.reward # {}
  PROVE  /\ ValidVector(vector)
         /\ Classify(ContractTrials(strict, vector), Expected, Floor, TimeoutIsZero, "none").score # {}
<1>1. \A t \in vector : /\ DOMAIN t = {"task", "trial", "outcome", "owner", "reward", "fault"}
                        /\ Normalized(t).task = ContractTask(t.task) /\ Normalized(t).trial = t.trial
                        /\ Normalized(t).outcome = t.outcome /\ Normalized(t).fault = t.fault
                        /\ Normalized(t).reward = t.reward
  BY DEF IsTrial, Normalized
<1>2. \A t, u \in vector : IdentityOf(Normalized(t)) = IdentityOf(Normalized(u)) => t = u
  <2> DEFINE f == [t \in vector |-> IdentityOf(Normalized(t))]
  <2>1. f \in Surjection(vector, Identities)
    BY DEF Surjection
  <2>2. f \in Injection(vector, Identities)
    BY <2>1, FS_SurjSameCardinalityImpliesInj DEF Expected
  <2> QED
    BY <2>2 DEF Injection, IsInjective
<1>3. ValidVector(vector)
  <2>1. \A t, u \in vector : IdentityOf(t) = IdentityOf(u) => t = u
    BY <1>1, <1>2 DEF IdentityOf
  <2> QED
    BY <2>1 DEF ValidVector, ValidTrial, Outcomes, RewardExpected
<1>4. CASE ~strict
  <2>1. ContractTrials(strict, vector) = vector
    BY <1>4 DEF ContractTrials
  <2>2. Classify(vector, Expected, Floor, TimeoutIsZero, "none").score # {}
    BY CleanTrialsScore
  <2> QED
    BY <1>3, <2>1, <2>2
<1>5. CASE strict
  <2> DEFINE fitted == {Normalized(t) : t \in vector}
  <2>1. \A t \in vector : Standing(vector, t)
    BY <1>2 DEF Standing
  <2>2. {IdentityOf(s) : s \in fitted} = Identities
    OBVIOUS
  <2>3. {u \in vector : Standing(vector, u)} = vector
    BY <2>1
  <2>4. MaterializeMissing(vector) = fitted
    BY <2>2, <2>3 DEF MaterializeMissing
  <2>5. IsFiniteSet(fitted) /\ Cardinality(fitted) = Expected
    <3> DEFINE g == [t \in vector |-> Normalized(t)]
    <3>1. g \in Bijection(vector, fitted)
      BY <1>2 DEF Bijection, Injection, IsInjective, Surjection
    <3> QED
      BY <3>1, FS_Bijection DEF ExistsBijection
  <2>6. \A s \in fitted : s.outcome = "benchmark_complete" /\ ~s.fault /\ s.reward # {}
    BY <1>1
  <2> HIDE DEF fitted
  <2>7. ContractTrials(strict, vector) = fitted
    BY <1>5, <2>4 DEF ContractTrials
  <2>8. Classify(fitted, Expected, Floor, TimeoutIsZero, "none").score # {}
    BY <2>5, <2>6, CleanTrialsScore
  <2> QED
    BY <1>3, <2>7, <2>8
<1> QED
  BY <1>3, <1>4, <1>5

------------------------------------------------------------------------------
(* Of some finite sets one is smallest. *)
LEMMA SmallestSet ==
  ASSUME NEW sets, sets # {}, \A s \in sets : IsFiniteSet(s)
  PROVE  \E s \in sets : \A u \in sets : Cardinality(u) \in Nat /\ Cardinality(s) <= Cardinality(u)
<1> DEFINE sizes == {Cardinality(s) : s \in sets}
<1>1. sizes \in SUBSET Nat /\ sizes # {}
  BY FS_CardinalityType
<1>2. \E n \in sizes : \A m \in sizes : ~(<<m, n>> \in OpToRel(<, Nat))
  <2> HIDE DEF sizes
  <2> QED
    BY <1>1, NatLessThanWellFounded, WFMin
<1>3. PICK n \in sizes : \A m \in sizes : ~(m < n)
  <2> HIDE DEF sizes
  <2> QED
    BY <1>1, <1>2 DEF OpToRel
<1>4. PICK s \in sets : n = Cardinality(s)
  BY <1>3
<1>5. \A u \in sets : Cardinality(u) \in Nat /\ Cardinality(s) \in Nat /\ ~(Cardinality(u) < Cardinality(s))
  BY <1>1, <1>3, <1>4
<1> QED
  BY <1>5

(* The sums of the subsets of S: each member may be added last. *)
SumsOf(f, S, total) ==
  /\ total \in [SUBSET S -> Int]
  /\ total[{}] = 0
  /\ \A s \in SUBSET S : \A x \in s : total[s] = f[x] + total[s \ {x}]

(* Finitely many integers have a sum, whatever their order. *)
LEMMA SumsExist ==
  ASSUME NEW S, IsFiniteSet(S), NEW f, \A x \in S : f[x] \in Int
  PROVE  \E total : SumsOf(f, S, total)
<1> DEFINE without == {s \in SUBSET S : ~ \E total : SumsOf(f, s, total)}
<1>1. SUFFICES ASSUME without # {} PROVE FALSE
  OBVIOUS
<1>2. \A s \in without : IsFiniteSet(s)
  BY FS_Subset
<1>3. PICK s \in without : \A u \in without : Cardinality(u) \in Nat /\ Cardinality(s) <= Cardinality(u)
  <2> HIDE DEF without
  <2> QED
    BY <1>1, <1>2, SmallestSet
<1>4. s # {}
  <2>1. SumsOf(f, {}, [u \in SUBSET {} |-> 0])
    BY DEF SumsOf
  <2> QED
    BY <1>3, <2>1
<1>5. PICK x \in s : TRUE
  BY <1>4
<1> DEFINE rest == s \ {x}
<1>6. rest \notin without
  <2>1. Cardinality(rest) = Cardinality(s) - 1 /\ Cardinality(s) \in Nat
    BY <1>2, <1>3, <1>5, FS_RemoveElement, FS_CardinalityType
  <2> HIDE DEF without, rest
  <2> QED
    BY <1>3, <2>1
<1>7. rest \in SUBSET S
  BY <1>3
<1>8. PICK total : SumsOf(f, rest, total)
  BY <1>6, <1>7
<1> DEFINE more == [u \in SUBSET s |-> IF x \in u THEN f[x] + total[u \ {x}] ELSE total[u]]
<1>9. \A u \in SUBSET s : u \ {x} \in SUBSET rest /\ (x \notin u => u \in SUBSET rest)
  OBVIOUS
<1>10. f[x] \in Int /\ \A y \in s : f[y] \in Int
  BY <1>3, <1>5
<1>11. more \in [SUBSET s -> Int]
  BY <1>8, <1>9, <1>10 DEF SumsOf
<1>12. more[{}] = 0
  BY <1>8 DEF SumsOf
<1>13. ASSUME NEW u \in SUBSET s, NEW y \in u PROVE more[u] = f[y] + more[u \ {y}]
  <2>1. CASE y = x
    BY <1>9, <2>1
  <2>2. CASE y # x /\ x \notin u
    <3>1. total[u] = f[y] + total[u \ {y}]
      BY <1>8, <1>9, <2>2 DEF SumsOf
    <3> QED
      BY <2>2, <3>1
  <2>3. CASE y # x /\ x \in u
    <3>1. u \ {x} \in SUBSET rest /\ y \in u \ {x} /\ (u \ {x}) \ {y} \in SUBSET rest
      BY <2>3
    <3>2. total[u \ {x}] = f[y] + total[(u \ {x}) \ {y}]
      BY <1>8, <3>1 DEF SumsOf
    <3>3. (u \ {x}) \ {y} = (u \ {y}) \ {x}
      OBVIOUS
    <3>4. more[u] = f[x] + total[u \ {x}] /\ more[u \ {y}] = f[x] + total[(u \ {y}) \ {x}]
      BY <2>3
    <3>5. f[y] \in Int /\ total[(u \ {x}) \ {y}] \in Int
      BY <1>8, <1>10, <3>1 DEF SumsOf
    <3> DEFINE others == total[(u \ {x}) \ {y}]
    <3>6. more[u] = f[x] + (f[y] + others) /\ more[u \ {y}] = f[x] + others
      BY <3>2, <3>3, <3>4
    <3> HIDE DEF more, others
    <3>7. f[x] \in Int /\ f[y] \in Int /\ others \in Int
      BY <1>10, <3>5 DEF others
    <3> QED
      BY <3>6, <3>7
  <2> QED
    BY <2>1, <2>2, <2>3
<1>14. SumsOf(f, s, more)
  <2> HIDE DEF more
  <2> QED
    BY <1>11, <1>12, <1>13 DEF SumsOf
<1> QED
  BY <1>3, <1>14

AnyOf(s) == CHOOSE x \in s : TRUE

(* A fold adds them one after the other. *)
IsFold(f, S, sum) ==
  sum = [s \in SUBSET S |-> IF s = {} THEN 0 ELSE f[AnyOf(s)] + sum[s \ {AnyOf(s)}]]

(* However a fold picks its members, it arrives at those sums. *)
LEMMA OneSum ==
  ASSUME NEW S, IsFiniteSet(S), NEW f, NEW total, SumsOf(f, S, total), NEW sum, IsFold(f, S, sum)
  PROVE  sum[S] = total[S]
<1> DEFINE wrong == {s \in SUBSET S : sum[s] # total[s]}
<1>1. SUFFICES ASSUME wrong # {} PROVE FALSE
  OBVIOUS
<1>2. \A s \in wrong : IsFiniteSet(s)
  BY FS_Subset
<1>3. PICK s \in wrong : \A u \in wrong : Cardinality(u) \in Nat /\ Cardinality(s) <= Cardinality(u)
  <2> HIDE DEF wrong
  <2> QED
    BY <1>1, <1>2, SmallestSet
<1>4. sum[s] = IF s = {} THEN 0 ELSE f[AnyOf(s)] + sum[s \ {AnyOf(s)}]
  BY DEF IsFold
<1>5. s # {}
  BY <1>3, <1>4 DEF SumsOf
<1> DEFINE x == AnyOf(s)
<1>6. x \in s
  BY <1>5 DEF AnyOf
<1> HIDE DEF x
<1>7. s \ {x} \notin wrong
  <2>1. Cardinality(s \ {x}) = Cardinality(s) - 1 /\ Cardinality(s) \in Nat
    BY <1>2, <1>3, <1>6, FS_RemoveElement, FS_CardinalityType
  <2> HIDE DEF wrong
  <2> QED
    BY <1>3, <2>1
<1>8. sum[s \ {x}] = total[s \ {x}] /\ s \in SUBSET S
  BY <1>3, <1>7
<1>9. total[s] = f[x] + total[s \ {x}]
  BY <1>6, <1>8 DEF SumsOf
<1> QED
  BY <1>3, <1>4, <1>5, <1>8, <1>9 DEF x

(* h adds for the members of S what f adds for those of I that they stand for. *)
StandsFor(g, S, I, h, f) ==
  /\ \A t \in S : g[t] \in I /\ h[t] = f[g[t]]
  /\ \A t, u \in S : g[t] = g[u] => t = u

(* The sum does not depend on what the members are called. *)
LEMMA SumsRenamed ==
  ASSUME NEW S, NEW I, NEW g, NEW h, NEW f, StandsFor(g, S, I, h, f),
         NEW total, SumsOf(f, I, total)
  PROVE  \E renamed : SumsOf(h, S, renamed) /\ renamed[S] = total[{g[t] : t \in S}]
<1> DEFINE renamed == [s \in SUBSET S |-> total[{g[t] : t \in s}]]
<1> USE DEF StandsFor
<1>1. \A s \in SUBSET S : {g[t] : t \in s} \in SUBSET I
  OBVIOUS
<1>2. renamed \in [SUBSET S -> Int]
  BY <1>1 DEF SumsOf
<1>3. renamed[{}] = 0
  <2>1. {g[t] : t \in {}} = {}
    OBVIOUS
  <2> QED
    BY <2>1 DEF SumsOf
<1>4. ASSUME NEW s \in SUBSET S, NEW x \in s PROVE renamed[s] = h[x] + renamed[s \ {x}]
  <2>1. {g[t] : t \in s \ {x}} = {g[t] : t \in s} \ {g[x]} /\ g[x] \in {g[t] : t \in s}
    BY <1>4
  <2>2. total[{g[t] : t \in s}] = f[g[x]] + total[{g[t] : t \in s} \ {g[x]}]
    BY <1>1, <2>1 DEF SumsOf
  <2> QED
    BY <2>1, <2>2
<1>5. renamed[S] = total[{g[t] : t \in S}]
  OBVIOUS
<1> HIDE DEF renamed
<1>6. SumsOf(h, S, renamed)
  BY <1>2, <1>3, <1>4 DEF SumsOf
<1> QED
  BY <1>5, <1>6

(* TotalReward is that sum. *)
LEMMA RewardsAreSummed ==
  ASSUME NEW S, IsFiniteSet(S), NEW f, \A t \in S : f[t] = RewardOf(t),
         NEW total, SumsOf(f, S, total)
  PROVE  TotalReward(S) = total[S]
<1> DEFINE IsSum(sum) == sum = [s \in SUBSET S |-> IF s = {} THEN 0
                                ELSE RewardOf(AnyOf(s)) + sum[s \ {AnyOf(s)}]]
<1>1. TotalReward(S) = (CHOOSE sum : IsSum(sum))[S]
  BY DEF TotalReward, MapThenSumSet, MapThenFoldSet, AnyOf
<1>2. \A s \in SUBSET S : s # {} => AnyOf(s) \in s /\ f[AnyOf(s)] = RewardOf(AnyOf(s))
  BY DEF AnyOf
<1>3. IsSum(total)
  BY <1>2 DEF SumsOf
<1>4. IsSum(CHOOSE sum : IsSum(sum))
  BY <1>3
<1>5. ASSUME NEW sum, IsSum(sum) PROVE sum[S] = total[S]
  <2>1. IsFold(f, S, sum)
    BY <1>2, <1>5 DEF IsFold
  <2> QED
    BY <2>1, OneSum
<1> HIDE DEF IsSum
<1> QED
  BY <1>1, <1>4, <1>5

(* What the identities earned is such a sum, too. *)
LEMMA CreditsAreSummed ==
  ASSUME NEW vec, NEW S, IsFiniteSet(S), NEW f,
         \A id \in S : f[id] = CHOOSE r \in Credit(vec, id) : TRUE,
         NEW total, SumsOf(f, S, total)
  PROVE  MapThenSumSet(LAMBDA id : CHOOSE r \in Credit(vec, id) : TRUE, S) = total[S]
<1> DEFINE earned(id) == CHOOSE r \in Credit(vec, id) : TRUE
           IsSum(sum) == sum = [s \in SUBSET S |-> IF s = {} THEN 0
                                ELSE earned(AnyOf(s)) + sum[s \ {AnyOf(s)}]]
<1>1. MapThenSumSet(earned, S) = (CHOOSE sum : IsSum(sum))[S]
  BY DEF MapThenSumSet, MapThenFoldSet, AnyOf
<1>2. \A s \in SUBSET S : s # {} => AnyOf(s) \in s /\ f[AnyOf(s)] = earned(AnyOf(s))
  BY DEF AnyOf
<1>3. IsSum(total)
  BY <1>2 DEF SumsOf
<1>4. IsSum(CHOOSE sum : IsSum(sum))
  <2> HIDE DEF earned
  <2> QED
    BY <1>3
<1>5. ASSUME NEW sum, IsSum(sum) PROVE sum[S] = total[S]
  <2>1. IsFold(f, S, sum)
    BY <1>2, <1>5 DEF IsFold
  <2> QED
    BY <2>1, OneSum
<1> HIDE DEF IsSum
<1> QED
  BY <1>1, <1>4, <1>5

------------------------------------------------------------------------------
(* There are n most frequent kinds among at least n: the next one is one of   *)
(* the most frequent of those that are left.                                *)
LEMMA TopExists ==
  ASSUME NEW D, IsFiniteSet(D), NEW count, NEW bound \in Nat,
         \A k \in D : count[k] \in 0 .. bound
  PROVE  \A n \in 0 .. Cardinality(D) : \E kept \in SUBSET D :
           /\ Cardinality(kept) = n
           /\ \A k \in kept, other \in D \ kept : count[other] <= count[k]
<1> DEFINE Top(n, kept) == /\ Cardinality(kept) = n
                           /\ \A k \in kept, other \in D \ kept : count[other] <= count[k]
           without == {1 .. n : n \in {m \in 0 .. Cardinality(D) : ~ \E kept \in SUBSET D : Top(m, kept)}}
<1>1. Cardinality(D) \in Nat
  BY FS_CardinalityType
<1>2. \A n \in Nat : IsFiniteSet(1 .. n) /\ Cardinality(1 .. n) = n
  BY FS_Interval
<1>3. SUFFICES ASSUME without # {} PROVE FALSE
  <2>1. ASSUME NEW n \in 0 .. Cardinality(D) PROVE \E kept \in SUBSET D : Top(n, kept)
    BY <1>3
  <2> QED
    BY <2>1
<1>4. PICK s \in without : \A u \in without : Cardinality(u) \in Nat /\ Cardinality(s) <= Cardinality(u)
  <2>1. \A s \in without : IsFiniteSet(s)
    BY <1>1, <1>2
  <2> HIDE DEF without
  <2> QED
    BY <1>3, <2>1, SmallestSet
<1>5. PICK n \in 0 .. Cardinality(D) : s = 1 .. n /\ ~ \E kept \in SUBSET D : Top(n, kept)
  BY <1>4
<1>6. n # 0
  <2>1. Top(0, {})
    BY FS_EmptySet
  <2> HIDE DEF Top
  <2> QED
    BY <1>5, <2>1
<1>7. PICK kept \in SUBSET D : Top(n - 1, kept)
  <2>1. n - 1 \in 0 .. Cardinality(D) /\ n \in Nat
    BY <1>1, <1>5, <1>6
  <2>2. Cardinality(1 .. (n - 1)) = n - 1 /\ Cardinality(s) = n
    BY <1>2, <1>5, <1>6, <2>1
  <2>3. 1 .. (n - 1) \notin without
    <3> HIDE DEF without
    <3> QED
      BY <1>4, <2>1, <2>2
  <2> HIDE DEF Top
  <2> QED
    BY <2>1, <2>3
<1> DEFINE left == D \ kept
<1>8. IsFiniteSet(left) /\ left # {} /\ IsFiniteSet(kept)
  <2>1. IsFiniteSet(kept) /\ kept # D
    BY <1>1, <1>7, FS_Subset
  <2> QED
    BY <2>1, FS_Subset
<1>9. PICK x \in left : \A other \in left : count[other] <= count[x]
  <2> DEFINE rarer == {1 .. (bound - count[k]) : k \in left}
  <2>1. rarer # {}
    BY <1>8
  <2>2. \A k \in left : /\ count[k] \in 0 .. bound /\ IsFiniteSet(1 .. (bound - count[k]))
                        /\ Cardinality(1 .. (bound - count[k])) = bound - count[k]
    <3> TAKE k \in left
    <3>1. count[k] \in 0 .. bound /\ bound - count[k] \in Nat
      OBVIOUS
    <3> QED
      BY <1>2, <3>1
  <2>3. \A r \in rarer : IsFiniteSet(r)
    BY <2>2
  <2>4. PICK r \in rarer : \A u \in rarer : Cardinality(u) \in Nat /\ Cardinality(r) <= Cardinality(u)
    <3> HIDE DEF rarer
    <3> QED
      BY <2>1, <2>3, SmallestSet
  <2>5. PICK x \in left : r = 1 .. (bound - count[x])
    BY <2>4
  <2>6. \A other \in left : bound - count[x] <= bound - count[other]
    <3> TAKE other \in left
    <3>1. Cardinality(r) <= Cardinality(1 .. (bound - count[other]))
      BY <2>4
    <3> HIDE DEF left
    <3> QED
      BY <2>2, <2>5, <3>1
  <2>7. \A other \in left : count[other] \in Int
    <3> HIDE DEF left
    <3> QED
      BY <2>2
  <2>8. ASSUME NEW other \in left PROVE count[other] <= count[x]
    <3>1. bound - count[x] <= bound - count[other] /\ count[x] \in Int /\ count[other] \in Int
      BY <2>6, <2>7
    <3> QED
      BY <3>1
  <2> QED
    BY <2>8
<1>10. Top(n, kept \cup {x})
  <2>1. Cardinality(kept \cup {x}) = n
    <3>1. Cardinality(kept) = n - 1 /\ x \notin kept /\ n \in Int
      BY <1>1, <1>5, <1>7, <1>9
    <3>2. Cardinality(kept \cup {x}) = Cardinality(kept) + 1
      BY <1>8, <3>1, FS_AddElement
    <3> QED
      BY <3>1, <3>2
  <2>2. \A k \in kept \cup {x}, other \in D \ (kept \cup {x}) : count[other] <= count[k]
    BY <1>7, <1>9
  <2> QED
    BY <2>1, <2>2
<1> HIDE DEF Top
<1> QED
  BY <1>5, <1>7, <1>9, <1>10

(* Of finitely many failures no more kinds are listed than are kept. *)
LEMMA KindsAreBounded ==
  ASSUME NEW D, IsFiniteSet(D), NEW count, DOMAIN count = D, NEW bound \in Nat,
         \A k \in D : count[k] \in 0 .. bound
  PROVE  /\ MostFrequent(count) \subseteq D
         /\ IsFiniteSet(MostFrequent(count))
         /\ Cardinality(MostFrequent(count)) <= FailureKindsKept
<1> DEFINE n == Min({Cardinality(D), FailureKindsKept})
<1>1. Cardinality(D) \in Nat /\ FailureKindsKept \in Nat
  BY FS_CardinalityType, KeptAssumption
<1>2. n \in 0 .. Cardinality(D) /\ n <= FailureKindsKept
  <2>1. \E x \in {Cardinality(D), FailureKindsKept} : \A y \in {Cardinality(D), FailureKindsKept} : x <= y
    BY <1>1
  <2>2. n \in {Cardinality(D), FailureKindsKept} /\ \A y \in {Cardinality(D), FailureKindsKept} : n <= y
    BY <2>1 DEF Min
  <2> HIDE DEF n
  <2> QED
    BY <1>1, <2>2
<1> HIDE DEF n
<1>3. \E kept \in SUBSET D :
        /\ Cardinality(kept) = n
        /\ \A k \in kept, other \in D \ kept : count[other] <= count[k]
  BY <1>2, TopExists
<1>4. MostFrequent(count) \in SUBSET D /\ Cardinality(MostFrequent(count)) = n
  BY <1>3 DEF MostFrequent, n
<1> QED
  BY <1>1, <1>2, <1>4, FS_Subset

(* The vectors that the code makes for a contract have a trial for each of     *)
(* the contract's identities.                                               *)
Complete(trials) ==
  IsFiniteSet(trials) /\ \A id \in Identities : \E t \in trials : IdentityOf(t) = id

(* The set of what finitely many things are mapped to is finite. *)
LEMMA PlaceholdersAreFinite ==
  ASSUME NEW ids \in SUBSET Identities, NEW outcome, NEW owner
  PROVE  IsFiniteSet({Placeholder(id, outcome, owner) : id \in ids})
<1> DEFINE f == [id \in ids |-> Placeholder(id, outcome, owner)]
<1>1. f \in Surjection(ids, {Placeholder(id, outcome, owner) : id \in ids})
  BY DEF Surjection
<1> HIDE DEF f
<1>2. IsFiniteSet(ids)
  BY ExpectedIsPositive, FS_Subset
<1> QED
  BY <1>1, <1>2, FS_Surjection

(* What is filled in stands for the identity it was filled in for. *)
LEMMA PlaceholderStands ==
  ASSUME NEW id \in Identities, NEW outcome, NEW owner
  PROVE  IdentityOf(Placeholder(id, outcome, owner)) = id
  BY DEF Identities, IdentityOf, Placeholder

(* The missing trials of a contract are filled in. *)
LEMMA MissingAreMaterialized ==
  ASSUME NEW vec, IsFiniteSet(vec)
  PROVE  Complete(MaterializeMissing(vec))
<1> DEFINE standing == {Normalized(t) : t \in {u \in vec : Standing(vec, u)}}
           observed == {IdentityOf(t) : t \in standing}
           missing == {Placeholder(id, "missing", "evaluator") : id \in Identities \ observed}
<1>1. MaterializeMissing(vec) = standing \cup missing
  BY DEF MaterializeMissing
<1>2. IsFiniteSet(standing)
  <2> DEFINE those == {u \in vec : Standing(vec, u)}
             f == [u \in those |-> Normalized(u)]
  <2>1. f \in Surjection(those, {Normalized(t) : t \in those})
    BY DEF Surjection
  <2>2. IsFiniteSet(those)
    BY FS_Subset
  <2> HIDE DEF f, those
  <2>3. IsFiniteSet({Normalized(t) : t \in those})
    BY <2>1, <2>2, FS_Surjection
  <2> QED
    BY <2>3 DEF those
<1>3. IsFiniteSet(missing)
  <2>1. Identities \ observed \in SUBSET Identities
    OBVIOUS
  <2> HIDE DEF observed
  <2> QED
    BY <2>1, PlaceholdersAreFinite
<1>4. ASSUME NEW id \in Identities PROVE \E t \in standing \cup missing : IdentityOf(t) = id
  <2>1. CASE id \in observed
    BY <2>1
  <2>2. CASE id \notin observed
    BY <2>2, PlaceholderStands
  <2> QED
    BY <2>1, <2>2
<1> HIDE DEF standing, missing
<1> QED
  BY <1>1, <1>2, <1>3, <1>4, FS_Union DEF Complete

(* So it is with every vector that a strict evaluation classifies. *)
LEMMA ContractsAreComplete ==
  ASSUME strict
  PROVE  /\ Complete(ContractTrials(strict, {}))
         /\ \A outcome : Complete(MaterializeSetupFailure(outcome))
         /\ \A vec : IsFiniteSet(vec) => Complete(ContractTrials(strict, vec))
<1>1. \A vec : IsFiniteSet(vec) => Complete(ContractTrials(strict, vec))
  BY MissingAreMaterialized DEF ContractTrials
<1>2. IsFiniteSet({}) /\ Complete(MaterializeMissing({}))
  BY FS_EmptySet, MissingAreMaterialized
<1>3. ASSUME NEW outcome PROVE Complete(MaterializeSetupFailure(outcome))
  <2> DEFINE all == {Placeholder(id, outcome, "candidate") : id \in Identities}
  <2>1. IsFiniteSet(all)
    BY PlaceholdersAreFinite
  <2>2. \A id \in Identities : \E t \in all : IdentityOf(t) = id
    BY PlaceholderStands
  <2> HIDE DEF all
  <2>3. Complete(all)
    BY <2>1, <2>2 DEF Complete
  <2> QED
    BY <1>2, <2>3 DEF MaterializeSetupFailure, all
<1> QED
  BY <1>1, <1>2, <1>3

(* A record's diagnostics are readable, and they call it retryable if it has   *)
(* neither a score nor a candidate to blame.                                *)
Agreed(r) ==
  LET d == Diagnostics(r, Purpose, Expected)
  IN /\ DiagnosticsReadable(d)
     /\ d.retryEligible = (r.score = {} /\ r.outcome # "candidate_invalid")
     /\ d.expected <= d.observed + d.missing

(* The diagnostics of a record over such a vector agree with it. *)
LEMMA RecordsAgree ==
  ASSUME NEW r, Complete(r.trials),
         \E zero : r.scoreable \in {0, Cardinality(Scoreable(r.trials, zero))},
         r.outcome \in {"infrastructure_failed", "candidate_invalid", "cancelled",
                        "benchmark_complete", "timeout"},
         r.score = {} <=> r.outcome # "benchmark_complete"
  PROVE  Agreed(r)
<1> DEFINE trials == r.trials
           failed == {t \in trials : t.outcome # "benchmark_complete"}
           kinds == {FailureKind(t) : t \in failed}
           count == [kind \in kinds |-> Cardinality({t \in failed : FailureKind(t) = kind})]
           lost == {t \in trials : t.outcome = "missing"}
           d == Diagnostics(r, Purpose, Expected)
<1> HIDE DEF trials
<1>1. IsFiniteSet(trials) /\ Cardinality(trials) \in Nat
  BY FS_CardinalityType DEF Complete, trials
<1>2. \A s \in SUBSET trials : IsFiniteSet(s) /\ Cardinality(s) \in 0 .. Cardinality(trials)
  <2> TAKE s \in SUBSET trials
  <2>1. IsFiniteSet(s) /\ Cardinality(s) <= Cardinality(trials)
    BY <1>1, FS_Subset
  <2>2. Cardinality(s) \in Nat
    BY <2>1, FS_CardinalityType
  <2> QED
    BY <1>1, <2>1, <2>2
<1>3. /\ d.expected = Expected
      /\ d.observed = Cardinality(trials) - Cardinality(lost)
      /\ d.scoreable = r.scoreable
      /\ d.missing = Cardinality(lost)
      /\ d.outcomes = [o \in Outcomes |-> Cardinality({t \in trials : t.outcome = o})]
      /\ d.owners = {SafeOwner(t) : t \in trials}
      /\ d.failures = {[kind |-> kind, count |-> count[kind],
                        actionable |-> kind[2] = "candidate" /\ Purpose \in {"candidate", "genesis"}]
                       : kind \in MostFrequent(count)}
      /\ d.retryEligible = (r.outcome \in {"infrastructure_failed", "timeout", "cancelled", "missing"})
  BY DEF Diagnostics, trials
<1> HIDE DEF d
<1>4. IsFiniteSet(kinds)
  <2> DEFINE f == [t \in failed |-> FailureKind(t)]
  <2>1. f \in Surjection(failed, kinds)
    BY DEF Surjection
  <2>2. IsFiniteSet(failed)
    BY <1>2
  <2> HIDE DEF f, failed, kinds
  <2> QED
    BY <2>1, <2>2, FS_Surjection
<1>5. \A kind \in kinds : count[kind] \in 0 .. Cardinality(trials) /\ count[kind] >= 1
  <2> TAKE kind \in kinds
  <2> DEFINE those == {t \in failed : FailureKind(t) = kind}
  <2>1. those # {} /\ those \in SUBSET trials
    OBVIOUS
  <2>2. count[kind] = Cardinality(those)
    OBVIOUS
  <2> HIDE DEF those, count, failed, kinds
  <2>3. IsFiniteSet(those) /\ Cardinality(those) \in 0 .. Cardinality(trials)
    BY <1>2, <2>1
  <2>4. Cardinality(those) # 0
    BY <2>1, <2>3, FS_EmptySet
  <2> QED
    BY <1>1, <2>2, <2>3, <2>4
<1>6. DOMAIN count = kinds
  OBVIOUS
<1> HIDE DEF count, kinds
<1>7. /\ MostFrequent(count) \subseteq kinds /\ IsFiniteSet(MostFrequent(count))
      /\ Cardinality(MostFrequent(count)) <= FailureKindsKept
  BY <1>1, <1>4, <1>5, <1>6, KindsAreBounded
<1>8. Cardinality(d.failures) <= FailureKindsKept
  <2> DEFINE listed(kind) == [kind |-> kind, count |-> count[kind],
                              actionable |-> kind[2] = "candidate" /\ Purpose \in {"candidate", "genesis"}]
             f == [kind \in MostFrequent(count) |-> listed(kind)]
  <2>1. f \in Surjection(MostFrequent(count), {listed(kind) : kind \in MostFrequent(count)})
    BY DEF Surjection
  <2>2. {listed(kind) : kind \in MostFrequent(count)} = d.failures
    BY <1>3
  <2>3. f \in Surjection(MostFrequent(count), d.failures)
    BY <2>1, <2>2
  <2> HIDE DEF f
  <2>4. IsFiniteSet(d.failures) /\ Cardinality(d.failures) <= Cardinality(MostFrequent(count))
    BY <1>7, <2>3, FS_Surjection
  <2>5. Cardinality(d.failures) \in Nat /\ Cardinality(MostFrequent(count)) \in Nat /\ FailureKindsKept \in Nat
    BY <1>7, <2>4, FS_CardinalityType, KeptAssumption
  <2> QED
    BY <1>7, <2>4, <2>5
<1>9. \A f \in d.failures : f.count >= 1 /\ f.actionable \in BOOLEAN
  <2> TAKE f \in d.failures
  <2>1. PICK kind \in MostFrequent(count) :
          f = [kind |-> kind, count |-> count[kind],
               actionable |-> kind[2] = "candidate" /\ Purpose \in {"candidate", "genesis"}]
    BY <1>3
  <2>2. f.count = count[kind] /\ f.actionable \in BOOLEAN
    BY <2>1
  <2> QED
    BY <1>5, <1>7, <2>2
<1>10. Expected \in Nat /\ Cardinality(lost) \in 0 .. Cardinality(trials)
  BY <1>2, ExpectedIsPositive
<1>11. Cardinality(trials) - Cardinality(lost) = Cardinality(trials \ lost)
  <2>1. Cardinality(trials \ lost) = Cardinality(trials) - Cardinality(trials \cap lost)
    BY <1>1, FS_Difference
  <2>2. trials \cap lost = lost
    OBVIOUS
  <2> QED
    BY <2>1, <2>2
<1>12. d.scoreable \in 0 .. d.observed
  <2>1. ASSUME NEW zero PROVE Cardinality(Scoreable(trials, zero)) \in 0 .. Cardinality(trials \ lost)
    <3>1. Scoreable(trials, zero) \subseteq trials \ lost
      BY DEF Scoreable, ScoreEligible
    <3>2. IsFiniteSet(trials \ lost) /\ Scoreable(trials, zero) \in SUBSET trials
      BY <1>2, <3>1
    <3>3. Cardinality(Scoreable(trials, zero)) <= Cardinality(trials \ lost)
      BY <3>1, <3>2, FS_Subset
    <3>4. Cardinality(Scoreable(trials, zero)) \in Nat /\ Cardinality(trials \ lost) \in Nat
      BY <1>2, <3>2, FS_CardinalityType
    <3> QED
      BY <3>3, <3>4
  <2>2. Cardinality(trials \ lost) \in Nat
    <3>1. trials \ lost \in SUBSET trials
      OBVIOUS
    <3> QED
      BY <1>2, <3>1
  <2>3. PICK zero : r.scoreable \in {0, Cardinality(Scoreable(trials, zero))}
    BY DEF trials
  <2>4. r.scoreable \in 0 .. Cardinality(trials \ lost)
    BY <2>1, <2>2, <2>3
  <2> QED
    BY <1>3, <1>11, <2>4
<1>13. \A o \in Outcomes : d.outcomes[o] >= 0
  <2> TAKE o \in Outcomes
  <2>1. {t \in trials : t.outcome = o} \in SUBSET trials
    OBVIOUS
  <2>2. Cardinality({t \in trials : t.outcome = o}) \in 0 .. Cardinality(trials)
    BY <1>2, <2>1
  <2>3. d.outcomes[o] = Cardinality({t \in trials : t.outcome = o})
    BY <1>3
  <2> QED
    BY <1>1, <2>2, <2>3
<1>14. d.owners \subseteq KnownOwners \cup {"unknown"}
  BY <1>3 DEF SafeOwner
<1>15. d.expected >= 0 /\ d.observed >= 0 /\ d.missing >= 0
  BY <1>1, <1>3, <1>10
<1>16. DiagnosticsReadable(d)
  BY <1>8, <1>9, <1>12, <1>13, <1>14, <1>15 DEF DiagnosticsReadable
<1>17. d.retryEligible = (r.score = {} /\ r.outcome # "candidate_invalid")
  <2>1. r.outcome \in {"infrastructure_failed", "timeout", "cancelled", "missing"}
        <=> (r.score = {} /\ r.outcome # "candidate_invalid")
    OBVIOUS
  <2> QED
    BY <1>3, <2>1
<1>18. d.expected <= d.observed + d.missing
  <2> DEFINE image == {IdentityOf(t) : t \in trials}
             f == [t \in trials |-> IdentityOf(t)]
  <2>1. f \in Surjection(trials, image)
    BY DEF Surjection
  <2>2. Identities \subseteq image
    BY DEF Complete, trials
  <2> HIDE DEF f, image
  <2>3. IsFiniteSet(image) /\ Cardinality(image) <= Cardinality(trials)
    BY <1>1, <2>1, FS_Surjection
  <2>4. Expected <= Cardinality(image)
    BY <2>2, <2>3, FS_Subset DEF Expected
  <2>5. Cardinality(image) \in Nat
    BY <2>3, FS_CardinalityType
  <2>6. Expected <= Cardinality(trials)
    BY <1>1, <1>10, <2>3, <2>4, <2>5
  <2>7. d.observed + d.missing = Cardinality(trials)
    BY <1>1, <1>3, <1>10
  <2> QED
    BY <1>3, <2>6, <2>7
<1> QED
  BY <1>16, <1>17, <1>18 DEF Agreed, d

(* What a classification says fits together. *)
LEMMA ClassifiedAgree ==
  ASSUME NEW trials, Complete(trials), NEW zero,
         NEW setup \in {"candidate_invalid", "infrastructure_failed", "none"}
  PROVE  LET c == Classify(trials, Expected, Floor, zero, setup)
         IN /\ c.trials = trials /\ c.scoreable = Cardinality(Scoreable(trials, zero))
            /\ c.outcome \in {"infrastructure_failed", "candidate_invalid", "cancelled",
                              "benchmark_complete", "timeout"}
            /\ c.score = {} <=> c.outcome # "benchmark_complete"
<1> DEFINE outcome == ClassifiedOutcome(trials, Expected, Floor, zero, setup)
<1>1. outcome \in {"infrastructure_failed", "candidate_invalid", "cancelled",
                   "benchmark_complete", "timeout"}
  BY DEF ClassifiedOutcome
<1> HIDE DEF outcome
<1> QED
  BY <1>1 DEF Classify, outcome

------------------------------------------------------------------------------

(* Fitting a trial to the contract changes the name of its task only. *)
LEMMA NormalizedTrial ==
  ASSUME NEW u, IsTrial(u)
  PROVE  /\ IdentityOf(Normalized(u)) = <<ContractTask(u.task), u.trial>>
         /\ Normalized(u).outcome = u.outcome /\ Normalized(u).owner = u.owner
         /\ Normalized(u).reward = u.reward /\ Normalized(u).fault = u.fault
<1>1. DOMAIN u = {"task", "trial", "outcome", "owner", "reward", "fault"}
  BY DEF IsTrial
<1> QED
  BY <1>1 DEF Normalized, IdentityOf

(* If there are no more trials than identities, they are the identities' own,  *)
(* one each.                                                                *)
LEMMA NoExtraTrial ==
  ASSUME NEW trials, Complete(trials), Cardinality(trials) <= Expected
  PROVE  /\ \A t \in trials : IdentityOf(t) \in Identities
         /\ \A t, u \in trials : IdentityOf(t) = IdentityOf(u) => t = u
<1> DEFINE image == {IdentityOf(t) : t \in trials}
           f == [t \in trials |-> IdentityOf(t)]
<1>1. f \in Surjection(trials, image)
  BY DEF Surjection
<1>2. Identities \subseteq image /\ IsFiniteSet(trials)
  BY DEF Complete
<1>4. \A t \in trials : f[t] = IdentityOf(t) /\ IdentityOf(t) \in image
  OBVIOUS
<1> HIDE DEF f, image
<1>5. IsFiniteSet(image) /\ Cardinality(image) <= Cardinality(trials)
  BY <1>1, <1>2, FS_Surjection
<1>6. Cardinality(image) \in Nat /\ Cardinality(trials) \in Nat /\ Expected \in Nat
  BY <1>2, <1>5, FS_CardinalityType, ExpectedIsPositive
<1>7. Cardinality(Identities) <= Cardinality(image)
      /\ (Cardinality(Identities) = Cardinality(image) => Identities = image)
  BY <1>2, <1>5, FS_Subset
<1>8. Cardinality(image) = Cardinality(trials) /\ image = Identities
  BY <1>5, <1>6, <1>7 DEF Expected
<1>9. f \in Injection(trials, image)
  BY <1>1, <1>2, <1>8, FS_SurjSameCardinalityImpliesInj
<1>10. \A t, u \in trials : f[t] = f[u] => t = u
  BY <1>9 DEF Injection, IsInjective
<1> QED
  BY <1>4, <1>8, <1>10

(* The score of a vector that was fitted to its contract: what is scored are   *)
(* the identities that have a credit, and the sum is that of their credits.   *)
LEMMA ScoredFromContract ==
  ASSUME NEW vec, IsFiniteSet(vec), \A t \in vec : IsTrial(t),
         Classify(MaterializeMissing(vec), Expected, Floor, TimeoutIsZero, "none").score # {}
  PROVE  AccountsFor(Classify(MaterializeMissing(vec), Expected, Floor, TimeoutIsZero, "none").score, vec)
<1> DEFINE trials == MaterializeMissing(vec)
           scored == Scoreable(trials, TimeoutIsZero)
           credited == {id \in Identities : Credit(vec, id) # {}}
           earned(id) == CHOOSE r \in Credit(vec, id) : TRUE
           score == Classify(trials, Expected, Floor, TimeoutIsZero, "none").score
<1>1. Complete(trials) /\ IsFiniteSet(trials)
  BY MissingAreMaterialized DEF Complete
<1>2. /\ score = {<<TotalReward(scored), Expected>>}
      /\ Cardinality(trials) <= Expected
      /\ Covers(Cardinality(scored), Expected, Floor)
  <2>1. ClassifiedOutcome(trials, Expected, Floor, TimeoutIsZero, "none") = "benchmark_complete"
    BY DEF Classify
  <2>2. score = {<<TotalReward(scored), Expected>>}
    BY <2>1 DEF Classify
  <2>3. ~(Cardinality(trials) > Expected) /\ Covers(Cardinality(scored), Expected, Floor)
    <3> HIDE DEF trials
    <3> QED
      BY <2>1 DEF ClassifiedOutcome
  <2>4. Cardinality(trials) \in Nat /\ Expected \in Nat
    BY <1>1, FS_CardinalityType, ExpectedIsPositive
  <2> QED
    BY <2>2, <2>3, <2>4
<1>3. /\ \A t \in trials : IdentityOf(t) \in Identities
      /\ \A t, u \in trials : IdentityOf(t) = IdentityOf(u) => t = u
  BY <1>1, <1>2, NoExtraTrial
<1>4. \A u \in vec : Standing(vec, u) => Normalized(u) \in trials
  BY DEF MaterializeMissing
<1>5. \A t \in trials : t.reward = {} \/ \E u \in vec : Standing(vec, u) /\ t = Normalized(u)
  BY DEF MaterializeMissing, Placeholder
<1> HIDE DEF trials
<1>6. \A u \in vec : Standing(vec, u) /\ Earned(u) /\ u.reward # {}
        => Normalized(u) \in scored
  BY <1>4, NormalizedTrial DEF Scoreable, ScoreEligible, EffectiveOutcome, Earned
<1>7. \A t \in scored : t \in trials /\ \E u \in vec :
        Standing(vec, u) /\ Earned(u) /\ u.reward # {} /\ t = Normalized(u)
  <2> TAKE t \in scored
  <2>1. t \in trials /\ t.reward # {}
    BY DEF Scoreable, ScoreEligible
  <2>2. PICK u \in vec : Standing(vec, u) /\ t = Normalized(u)
    BY <1>5, <2>1
  <2>3. Earned(u) /\ u.reward # {}
    BY <2>2, NormalizedTrial DEF Scoreable, ScoreEligible, EffectiveOutcome, Earned
  <2> QED
    BY <2>1, <2>2, <2>3
<1> HIDE DEF scored
<1>8. \A t \in scored : t.reward # {} /\ \A r \in t.reward : r \in Int /\ t.reward = {r}
  <2> TAKE t \in scored
  <2>1. PICK u \in vec : u.reward # {} /\ t = Normalized(u)
    BY <1>7
  <2> QED
    BY <2>1, NormalizedTrial DEF IsTrial
<1>9. ASSUME NEW t \in scored PROVE Credit(vec, IdentityOf(t)) = t.reward
  <2>1. t \in trials
    BY <1>7
  <2>2. PICK u \in vec :
          Standing(vec, u) /\ Earned(u) /\ u.reward # {} /\ t = Normalized(u)
    BY <1>7
  <2>3. IdentityOf(t) = <<ContractTask(u.task), u.trial>> /\ t.reward = u.reward
    BY <2>2, NormalizedTrial
  <2>4. t.reward \subseteq Credit(vec, IdentityOf(t))
    BY <2>2, <2>3 DEF Credit
  <2>5. ASSUME NEW w \in vec, <<ContractTask(w.task), w.trial>> = IdentityOf(t),
               Standing(vec, w), Earned(w)
        PROVE  w.reward = t.reward
    <3>1. IdentityOf(Normalized(w)) = IdentityOf(t) /\ Normalized(w).reward = w.reward
      BY <2>5, NormalizedTrial
    <3>2. Normalized(w) = t
      BY <1>3, <1>4, <2>1, <2>5, <3>1
    <3> QED
      BY <3>1, <3>2
  <2>6. Credit(vec, IdentityOf(t)) \subseteq t.reward
    BY <2>5 DEF Credit
  <2> QED
    BY <2>4, <2>6
<1>10. \A t \in scored : IdentityOf(t) \in credited
  BY <1>3, <1>7, <1>8, <1>9
<1>11. \A id \in credited : \E t \in scored : IdentityOf(t) = id
  <2> TAKE id \in credited
  <2>1. PICK u \in vec : /\ <<ContractTask(u.task), u.trial>> = id /\ u.reward # {}
                                   /\ Standing(vec, u) /\ Earned(u)
    BY DEF Credit
  <2>2. Normalized(u) \in scored /\ IdentityOf(Normalized(u)) = id
    BY <1>6, <2>1, NormalizedTrial
  <2> QED
    BY <2>2
<1>12. \A t \in scored : /\ earned(IdentityOf(t)) = RewardOf(t) /\ RewardOf(t) \in Int
                         /\ Credit(vec, IdentityOf(t)) = {earned(IdentityOf(t))}
  <2> TAKE t \in scored
  <2>1. PICK r \in Int : t.reward = {r}
    BY <1>8
  <2>2. Credit(vec, IdentityOf(t)) = {r}
    BY <1>9, <2>1
  <2>3. (CHOOSE x \in {r} : TRUE) = r
    OBVIOUS
  <2>4. earned(IdentityOf(t)) = r /\ RewardOf(t) = r
    BY <2>1, <2>2, <2>3 DEF earned, RewardOf
  <2> QED
    BY <2>2, <2>4
<1> HIDE DEF credited, earned
<1> DEFINE of == [t \in scored |-> IdentityOf(t)]
<1>13. \A t, u \in scored : of[t] = of[u] => t = u
  BY <1>3, <1>7
<1>14. of \in [scored -> credited]
  BY <1>10
<1>15. \A id \in credited : \E t \in scored : of[t] = id
  BY <1>11
<1>16. IsFiniteSet(scored)
  <2>1. scored \subseteq trials
    BY <1>7
  <2> QED
    BY <1>1, <2>1, FS_Subset
<1>17. IsFiniteSet(credited) /\ Cardinality(credited) = Cardinality(scored)
  <2> HIDE DEF of
  <2>1. of \in Bijection(scored, credited)
    BY <1>13, <1>14, <1>15 DEF Bijection, Injection, IsInjective, Surjection
  <2> QED
    BY <1>16, <2>1, FS_Bijection DEF ExistsBijection
<1> DEFINE f == [id \in credited |-> earned(id)]
<1>18. PICK total : SumsOf(f, credited, total)
  <2>1. \A id \in credited : f[id] \in Int
    BY <1>11, <1>12
  <2> HIDE DEF f
  <2> QED
    BY <1>17, <2>1, SumsExist
<1>19. MapThenSumSet(earned, credited) = total[credited]
  <2>1. \A id \in credited : f[id] = earned(id)
    OBVIOUS
  <2> HIDE DEF f
  <2> QED
    BY <1>17, <1>18, <2>1, CreditsAreSummed DEF earned
<1>20. TotalReward(scored) = total[credited]
  <2> DEFINE h == [t \in scored |-> RewardOf(t)]
  <2>1. \A t \in scored : h[t] = RewardOf(t) /\ h[t] = f[of[t]]
    BY <1>10, <1>12
  <2>2. {of[t] : t \in scored} = credited
    BY <1>14, <1>15
  <2>3. \A t \in scored : of[t] \in credited
    BY <1>14
  <2> HIDE DEF h, of, f
  <2>4. PICK renamed : SumsOf(h, scored, renamed) /\ renamed[scored] = total[{of[t] : t \in scored}]
    <3>1. StandsFor(of, scored, credited, h, f)
      BY <1>13, <2>1, <2>3 DEF StandsFor
    <3> QED
      BY <1>18, <3>1, SumsRenamed
  <2>5. TotalReward(scored) = renamed[scored]
    BY <1>16, <2>1, <2>4, RewardsAreSummed
  <2> QED
    BY <2>2, <2>4, <2>5
<1>21. \A id \in credited : Credit(vec, id) = {earned(id)}
  BY <1>11, <1>12
<1> QED
  BY <1>2, <1>17, <1>19, <1>20, <1>21 DEF AccountsFor, credited, trials, earned

(* A record of trials that account for the contract has diagnostics to match. *)
LEMMA RecordedAgree ==
  ASSUME NEW trials, strict => Complete(trials), UNCHANGED strict,
         NEW setup \in {"candidate_invalid", "infrastructure_failed", "none"},
         record' = RecordWith(trials, setup)
  PROVE  DiagnosticsAgree'
<1> DEFINE c == Classify(trials, Expected, Floor, TimeoutIsZero, setup)
<1>1. record' = RecordOf(c)
  BY DEF RecordWith
<1>2. ASSUME strict
      PROVE  /\ Complete(c.trials) /\ c.trials = trials
             /\ c.scoreable = Cardinality(Scoreable(trials, TimeoutIsZero))
             /\ c.outcome \in {"infrastructure_failed", "candidate_invalid", "cancelled",
                               "benchmark_complete", "timeout"}
             /\ c.score = {} <=> c.outcome # "benchmark_complete"
  BY <1>2, ClassifiedAgree
<1> HIDE DEF c
<1>3. /\ Record'.outcome = c.outcome /\ Record'.score = c.score
      /\ Record'.trials = c.trials /\ Record'.scoreable = c.scoreable
  BY <1>1, OneRecord
<1>4. ASSUME strict PROVE Agreed(Record')
  <2> DEFINE r == Record'
  <2>1. /\ Complete(r.trials) /\ r.scoreable = Cardinality(Scoreable(r.trials, TimeoutIsZero))
        /\ r.outcome \in {"infrastructure_failed", "candidate_invalid", "cancelled",
                          "benchmark_complete", "timeout"}
        /\ r.score = {} <=> r.outcome # "benchmark_complete"
    BY <1>2, <1>3, <1>4
  <2> HIDE DEF r
  <2>2. Agreed(r)
    BY <2>1, RecordsAgree
  <2> QED
    BY <2>2 DEF r
<1> QED
  BY <1>4 DEF Agreed, DiagnosticsAgree

(* Without a score, nothing else is claimed of a record. *)
LEMMA Unscored ==
  ASSUME Record'.score = {}
  PROVE  ScoreFromContract'
  BY DEF ScoreFromContract, Scored

------------------------------------------------------------------------------
(* The steps.  What is said of a record holds while there is none, and as    *)
(* long as neither it nor what it stands on changes.                        *)
RecordOK == ScoreIsCertified /\ RecordFromContract /\ BlameIsEarned /\ HealthyIsScored

(* Of no record nothing is claimed. *)
LEMMA NoRecord == record' = {} => RecordOK'
  BY DEF RecordOK, ScoreIsCertified, Scored, RecordFromContract, ScoreFromContract, DiagnosticsAgree,
     BlameIsEarned, HealthyIsScored

(* A step that touches neither the record nor its grounds keeps what is    *)
(* said.                                                                   *)
LEMMA RecordStays ==
  ASSUME RecordOK, UNCHANGED <<record, script, setting, attempt, runtime>>,
         \A field \in {"contract", "preflight", "receipt"} :
           disk'[attempt][field] = disk[attempt][field]
  PROVE  RecordOK'
<1>1. UNCHANGED <<strict, managed, ailments>>
  BY DEF setting
<1>2. Record' = Record /\ Scored' = Scored
  BY DEF Record, Scored
<1>3. Certified' = Certified
  BY <1>1 DEF Certified, DigestsAgree, Sick
<1>4. ScoreIsCertified'
  BY <1>1, <1>2, <1>3 DEF RecordOK, ScoreIsCertified
<1>5. BlameIsEarned'
  BY <1>1, <1>2 DEF RecordOK, BlameIsEarned, SickOf, Ambiguous, Sick
<1>6. HealthyIsScored'
  BY <1>1, <1>2 DEF RecordOK, HealthyIsScored
<1>7. RecordFromContract'
  <2> QED
    BY <1>1, <1>2 DEF RecordOK, RecordFromContract, ScoreFromContract, DiagnosticsAgree
<1> QED
  BY <1>4, <1>5, <1>6, <1>7 DEF RecordOK

(* An evaluation begins in a directory of its own. *)
LEMMA BeginsKeepEvaluation ==
  ASSUME EvalInv, Start \/ ResolveFails \/ Reserve
  PROVE  EvalInv'
<1> USE DEF EvalInv
<1>1. record' = {}
  BY DEF Start, ResolveFails, Reserve, EvalTypeOK, Running, Prepared, Recorded
<1>2. CASE Start \/ ResolveFails
  <2>1. EvalTypeOK' /\ ChainOK' /\ RuntimeOK'
    BY <1>1, <1>2 DEF Start, ResolveFails, EvalTypeOK, ChainOK, RuntimeOK, Running, Prepared,
       Recorded, setting, history
  <2>2. CleanOK'
    BY <1>2 DEF Start, ResolveFails, CleanOK, OnlyTheKilledLeave, history
  <2> QED
    BY <1>1, <2>1, <2>2, NoRecord DEF RecordOK
<1>3. CASE Reserve
  <2> DEFINE new == NextAttempt
  <2>1. /\ pc = "resolve" /\ new \notin DOMAIN disk /\ attempt' = new
        /\ DOMAIN disk' = DOMAIN disk \cup {new}
        /\ \A n \in DOMAIN disk : disk'[n] = disk[n]
        /\ disk'[new] = [EmptyDirectory EXCEPT !.run = runs, !.contract = strict]
        /\ pc' \in {"preflight", "prepare"} /\ (strict => pc' = "preflight")
        /\ UNCHANGED <<setting, history, worktrees, venvs, runtime, script, record>>
    BY <1>3 DEF Reserve, WithDirectory
  <2>2. DOMAIN disk'[new] = Fields /\ disk'[new].run = runs /\ disk'[new].contract = strict
    BY <2>1 DEF EmptyDirectory, Fields
  <2> HIDE DEF new
  <2>3. EvalTypeOK' /\ ChainOK' /\ RuntimeOK'
    BY <1>1, <2>1, <2>2 DEF EvalTypeOK, ChainOK, RuntimeOK, Running, Prepared, Recorded, setting, history
  <2>4. CleanOK'
    BY <2>1 DEF EvalTypeOK, CleanOK, OnlyTheKilledLeave, history
  <2> QED
    BY <1>1, <2>3, <2>4, NoRecord DEF RecordOK
<1> QED
  BY <1>2, <1>3

(* A preflight that fails blames the candidate for its lock only.           *)
LEMMA PreflightKeepsEvaluation ==
  ASSUME EvalInv, PreflightPasses \/ PreflightFails
  PROVE  EvalInv'
<1> USE DEF EvalInv
<1>1. CASE PreflightPasses
  <2>1. /\ pc = "preflight" /\ pc' = "prepare" /\ disk' = Wrote("preflight", "passed")
        /\ UNCHANGED <<setting, history, attempt, worktrees, venvs, runtime, script, record>>
        /\ record = {} /\ pc \in Running /\ "preflight" \in Fields
    BY <1>1 DEF PreflightPasses, EvalTypeOK, Running, Recorded, Fields
  <2>2. /\ DOMAIN disk' = DOMAIN disk
        /\ \A n \in DOMAIN disk : DOMAIN disk'[n] = Fields /\ (n # attempt => disk'[n] = disk[n])
        /\ disk'[attempt].preflight = "passed"
        /\ \A g \in {"run", "contract", "receipt"} : disk'[attempt][g] = disk[attempt][g]
    BY <2>1, WroteOneFile DEF Fields
  <2>3. EvalTypeOK'
    BY <2>1, <2>2 DEF EvalTypeOK, Running, Prepared, Recorded, history
  <2>4. ChainOK' /\ RuntimeOK'
    BY <2>1, <2>2 DEF ChainOK, RuntimeOK, Running, Prepared, Recorded, setting
  <2>5. CleanOK'
    BY <2>1, <2>2 DEF EvalTypeOK, CleanOK, OnlyTheKilledLeave, history
  <2> QED
    BY <2>1, <2>3, <2>4, <2>5, NoRecord DEF RecordOK
<1>2. CASE PreflightFails
  <2> DEFINE failed == MaterializeSetupFailure(PreflightOutcome)
  <2>1. /\ pc = "preflight" /\ pc' = "leave" /\ PreflightFailure # "none"
        /\ record' = RecordOf(Classify(failed, Expected, Floor, TimeoutIsZero, PreflightOutcome))
        /\ disk' = [disk EXCEPT ![attempt].preflight = "failed", ![attempt].status = PreflightOutcome]
        /\ UNCHANGED <<setting, history, attempt, worktrees, venvs, runtime, script>>
    BY <1>2 DEF PreflightFails, RecordWith
  <2>2. /\ DOMAIN disk' = DOMAIN disk
        /\ \A n \in DOMAIN disk : /\ DOMAIN disk'[n] = Fields
                                  /\ \A g \in {"run", "contract", "receipt"} : disk'[n][g] = disk[n][g]
    BY <2>1 DEF EvalTypeOK, Fields
  <2> HIDE DEF failed
  <2>3. PreflightOutcome \in {"candidate_invalid", "infrastructure_failed"}
    BY DEF PreflightOutcome
  <2>4. record' # {} /\ Record'.outcome = PreflightOutcome /\ Record'.score = {}
    BY <2>1, <2>3, OneRecord, SetupDecides
  <2>5. EvalTypeOK'
    BY <2>1, <2>2 DEF EvalTypeOK, Running, Prepared, Recorded, history
  <2>6. ChainOK' /\ RuntimeOK'
    BY <2>1, <2>2 DEF EvalTypeOK, ChainOK, RuntimeOK, Running, Prepared, Recorded, setting
  <2>7. CleanOK'
    BY <2>1, <2>2 DEF EvalTypeOK, CleanOK, OnlyTheKilledLeave, history
  <2>8. ScoreIsCertified'
    BY <2>4 DEF ScoreIsCertified, Scored
  <2>9. BlameIsEarned'
    <3>1. PreflightOutcome = "candidate_invalid" =>
            SickOf({"files_missing", "lock_stale"}) \/ Sick("lock_check_fails")
      BY DEF PreflightOutcome, PreflightFailure, LockInvalid, SickOf, Sick
    <3> QED
      BY <2>1, <2>4, <3>1 DEF BlameIsEarned, SickOf, Sick, Ambiguous, CandidateDefects, setting
  <2>10. HealthyIsScored'
    <3>1. ailments # {}
      BY <2>1 DEF PreflightFailure, LockInvalid, SickOf, Sick
    <3> QED
      BY <2>1, <3>1 DEF HealthyIsScored, setting
  <2>11. RecordFromContract'
    <3>1. record' = RecordWith(failed, PreflightOutcome) /\ UNCHANGED strict
      BY <2>1 DEF RecordWith, setting
    <3>2. strict => Complete(failed)
      BY ContractsAreComplete DEF failed
    <3>3. DiagnosticsAgree'
      BY <2>3, <3>1, <3>2, RecordedAgree
    <3> QED
      BY <2>4, <3>3, Unscored DEF RecordFromContract
  <2> QED
    BY <2>5, <2>6, <2>7, <2>8, <2>9, <2>10, <2>11
<1> QED
  BY <1>1, <1>2

(* The preparation of the environment: its outcome is in the receipt. *)
LEMMA RuntimeEndsWell ==
  ASSUME EvalInv, NEW outcome \in {"ready", "candidate_invalid", "infrastructure_failed"},
         NEW receipt \in BOOLEAN, RuntimeEnds(outcome, receipt), pc \in {"prepare", "sync", "build"},
         UNCHANGED <<setting, history, attempt, worktrees, script, record>>,
         ~receipt => outcome = "ready" /\ (managed => ~strict /\ ailments # {}),
         outcome = "candidate_invalid" => SickOf(CandidateDefects \ {"crlf"}) \/ Ambiguous,
         outcome # "ready" => ailments # {}
  PROVE  EvalInv'
<1> USE DEF EvalInv
<1>1. /\ runtime' = outcome /\ pc' = "verify" /\ venvs' = venvs \ {attempt}
      /\ UNCHANGED <<strict, managed, ailments, runs, killed, attempt, worktrees, script, record>>
  BY DEF RuntimeEnds, setting, history
<1>2. record' = {} /\ pc \in Running /\ "receipt" \in Fields
  BY <1>1 DEF EvalTypeOK, Running, Prepared, Recorded, Fields
<1>3. /\ DOMAIN disk' = DOMAIN disk
      /\ \A n \in DOMAIN disk : DOMAIN disk'[n] = Fields /\ (n # attempt => disk'[n] = disk[n])
      /\ \A g \in {"run", "contract", "preflight"} : disk'[attempt][g] = disk[attempt][g]
      /\ receipt => disk'[attempt].receipt = outcome
  <2>1. CASE receipt
    <3>1. disk' = Wrote("receipt", outcome)
      BY <2>1 DEF RuntimeEnds, WithReceipt
    <3> QED
      BY <1>2, <2>1, <3>1, WroteOneFile DEF Fields
  <2>2. CASE ~receipt
    BY <2>2 DEF RuntimeEnds, EvalTypeOK
  <2> QED
    BY <2>1, <2>2
<1>4. EvalTypeOK'
  BY <1>1, <1>2, <1>3 DEF EvalTypeOK, Running, Prepared, Recorded
<1>5. ChainOK'
  BY <1>1, <1>3 DEF ChainOK, Running, Prepared, Recorded
<1>6. RuntimeOK'
  <2>1. ailments = {} => Certified'
    BY <1>1, <1>3 DEF Certified, DigestsAgree, Sick
  <2> QED
    BY <1>1, <2>1 DEF RuntimeOK, SickOf, Ambiguous, Sick
<1>7. CleanOK'
  BY <1>1, <1>3 DEF EvalTypeOK, CleanOK, OnlyTheKilledLeave, Running, Prepared
<1> QED
  BY <1>2, <1>4, <1>5, <1>6, <1>7, NoRecord DEF RecordOK

(* So does the preparation of the candidate's environment, and it cleans   *)
(* up.                                                                     *)
LEMMA PreparationKeepsEvaluation ==
  ASSUME EvalInv, NoRuntime \/ RuntimeRefused \/ CheckLock \/ SyncDependencies \/ BuildLocal
  PROVE  EvalInv'
<1>1. CASE NoRuntime
  BY <1>1, RuntimeEndsWell DEF NoRuntime, RuntimeConfigured, Sick
<1>2. CASE RuntimeRefused
  <2> DEFINE outcome == IF ~Sick("stub") /\ Sick("files_missing")
                          THEN "candidate_invalid" ELSE "infrastructure_failed"
  <2>1. /\ pc = "prepare" /\ RuntimeEnds(outcome, TRUE) /\ ailments # {}
        /\ UNCHANGED <<setting, history, attempt, worktrees, script, record>>
    BY <1>2 DEF RuntimeRefused, SickOf
  <2>2. outcome = "candidate_invalid" => SickOf(CandidateDefects \ {"crlf"})
    BY DEF SickOf, Sick, CandidateDefects
  <2>3. outcome \in {"ready", "candidate_invalid", "infrastructure_failed"}
    OBVIOUS
  <2> HIDE DEF outcome
  <2> QED
    BY <2>1, <2>2, <2>3, RuntimeEndsWell
<1>3. CASE CheckLock
  <2>1. CASE SickOf({"lock_stale", "lock_check_fails"})
    <3>1. ailments # {} /\ (SickOf(CandidateDefects \ {"crlf"}) \/ Ambiguous)
      BY <2>1 DEF SickOf, Sick, CandidateDefects, Ambiguous
    <3> QED
      BY <1>3, <2>1, <3>1, RuntimeEndsWell DEF CheckLock
  <2>2. CASE ~SickOf({"lock_stale", "lock_check_fails"})
    <3>1. /\ pc = "prepare" /\ pc' = "sync"
          /\ UNCHANGED <<setting, history, attempt, disk, worktrees, venvs, runtime, script, record>>
      BY <1>3, <2>2 DEF CheckLock
    <3> QED
      BY <3>1, NoRecord DEF EvalInv, EvalTypeOK, ChainOK, RuntimeOK, CleanOK, OnlyTheKilledLeave, RecordOK,
         Running, Prepared, Recorded, setting, history
  <2> QED
    BY <2>1, <2>2
<1>4. CASE SyncDependencies
  <2>1. CASE Sick("deps_not_cached") /\ Sick("index_down")
    BY <1>4, <2>1, RuntimeEndsWell DEF SyncDependencies, Sick
  <2>2. CASE ~(Sick("deps_not_cached") /\ Sick("index_down"))
    <3>1. /\ pc = "sync" /\ pc' = "build" /\ venvs' = venvs \cup {attempt}
          /\ UNCHANGED <<setting, history, attempt, disk, worktrees, runtime, script, record>>
      BY <1>4, <2>2 DEF SyncDependencies
    <3>2. record' = {}
      BY <3>1 DEF EvalInv, EvalTypeOK, Recorded
    <3>3. EvalTypeOK' /\ ChainOK' /\ RuntimeOK' /\ CleanOK'
      BY <3>1 DEF EvalInv, EvalTypeOK, ChainOK, RuntimeOK, CleanOK, OnlyTheKilledLeave, Running, Prepared,
         Recorded, setting, history
    <3> QED
      BY <3>2, <3>3, NoRecord DEF EvalInv, RecordOK
  <2> QED
    BY <2>1, <2>2
<1>5. CASE BuildLocal
  <2> DEFINE outcome == IF Sick("does_not_build") \/ (Sick("backend_not_cached") /\ Sick("index_down"))
                          THEN "candidate_invalid" ELSE "ready"
  <2>1. /\ pc = "build" /\ RuntimeEnds(outcome, TRUE)
        /\ UNCHANGED <<setting, history, attempt, worktrees, script, record>>
    BY <1>5 DEF BuildLocal
  <2>2. outcome # "ready" => ailments # {} /\ (SickOf(CandidateDefects \ {"crlf"}) \/ Ambiguous)
    BY DEF SickOf, Sick, CandidateDefects, Ambiguous
  <2>3. outcome \in {"ready", "candidate_invalid", "infrastructure_failed"}
    OBVIOUS
  <2> HIDE DEF outcome
  <2> QED
    BY <2>1, <2>2, <2>3, RuntimeEndsWell
<1> QED
  BY <1>1, <1>2, <1>3, <1>4, <1>5

(* Without a receipt that matches, a strict evaluation goes no further.     *)
LEMMA VerifyKeepsEvaluation ==
  ASSUME EvalInv, Verify
  PROVE  EvalInv'
<1> USE DEF EvalInv
<1>1. /\ pc = "verify" /\ runtime \in {"ready", "candidate_invalid", "infrastructure_failed"}
      /\ pc' = IF record' = {} THEN "script" ELSE "leave"
      /\ UNCHANGED <<setting, history, attempt, disk, worktrees, venvs, runtime, script>>
  BY DEF Verify, RuntimeOK
<1>2. UNCHANGED <<strict, managed, ailments, Certified>>
  BY <1>1 DEF setting, Certified, DigestsAgree, Sick
<1>3. EvalTypeOK' /\ CleanOK'
  BY <1>1 DEF EvalTypeOK, CleanOK, OnlyTheKilledLeave, Running, Prepared, Recorded, history
<1>4. CASE record' = {}
  <2>1. runtime = "ready" /\ (strict => Certified)
    <3>1. ASSUME NEW t, NEW setup, record' = RecordWith(t, setup) PROVE FALSE
      BY <1>4, <3>1 DEF RecordWith, RecordOf
    <3>2. CASE strict /\ ~Certified
      BY <3>1, <3>2 DEF Verify
    <3>3. CASE ~(strict /\ ~Certified) /\ runtime # "ready"
      BY <3>1, <3>3 DEF Verify
    <3> QED
      BY <3>2, <3>3
  <2>2. ChainOK' /\ RuntimeOK'
    BY <1>1, <1>2, <1>4, <2>1 DEF ChainOK, RuntimeOK, Running, Prepared, Recorded
  <2> QED
    BY <1>3, <1>4, <2>2, NoRecord DEF RecordOK
<1>5. CASE record' # {}
  <2>1. PICK setup \in {"candidate_invalid", "infrastructure_failed"} :
          /\ \E t : record' = RecordWith(t, setup) /\ (strict => Complete(t))
          /\ setup = "candidate_invalid" => runtime = "candidate_invalid"
          /\ ~(runtime = "ready" /\ Certified)
    <3>1. CASE strict /\ ~Certified
      <4>1. record' = RecordWith(ContractTrials(strict, {}), "infrastructure_failed")
        BY <3>1 DEF Verify
      <4>2. strict => Complete(ContractTrials(strict, {}))
        BY ContractsAreComplete
      <4> QED
        BY <3>1, <4>1, <4>2
    <3>2. CASE ~(strict /\ ~Certified)
      <4>1. runtime \in {"candidate_invalid", "infrastructure_failed"}
        BY <1>1, <1>5, <3>2 DEF Verify
      <4>2. \/ record' = RecordWith(ContractTrials(strict, {}), runtime)
            \/ record' = RecordWith(MaterializeSetupFailure(runtime), runtime)
        BY <3>2, <4>1 DEF Verify
      <4>3. strict => Complete(ContractTrials(strict, {})) /\ Complete(MaterializeSetupFailure(runtime))
        BY ContractsAreComplete
      <4> QED
        BY <3>2, <4>1, <4>2, <4>3
    <3> QED
      BY <3>1, <3>2
  <2>2. Record'.outcome = setup /\ Record'.score = {}
    <3>1. PICK t : record' = RecordWith(t, setup)
      BY <2>1
    <3> DEFINE c == Classify(t, Expected, Floor, TimeoutIsZero, setup)
    <3>2. record' = RecordOf(c)
      BY <3>1 DEF RecordWith
    <3>3. c.outcome = setup /\ c.score = {}
      BY <2>1, SetupDecides
    <3> HIDE DEF c
    <3> QED
      BY <3>2, <3>3, OneRecord
  <2>3. ChainOK' /\ RuntimeOK'
    BY <1>1, <1>2, <1>5 DEF ChainOK, RuntimeOK, Running, Prepared, Recorded
  <2>4. ScoreIsCertified'
    BY <2>2 DEF ScoreIsCertified, Scored
  <2>5. BlameIsEarned'
    BY <1>1, <1>2, <2>1, <2>2 DEF RuntimeOK, BlameIsEarned, SickOf, Ambiguous, Sick
  <2>6. HealthyIsScored'
    BY <1>1, <1>2, <2>1 DEF RuntimeOK, HealthyIsScored
  <2>7. RecordFromContract'
    <3>1. PICK t : record' = RecordWith(t, setup) /\ (strict => Complete(t))
      BY <2>1
    <3>2. DiagnosticsAgree'
      BY <1>2, <2>1, <3>1, RecordedAgree
    <3> QED
      BY <2>2, <3>2, Unscored DEF RecordFromContract
  <2> QED
    BY <1>3, <2>3, <2>4, <2>5, <2>6, <2>7
<1> QED
  BY <1>4, <1>5

(* What a script writes are trials, and only finitely many of them. *)
LEMMA VectorsAreFinite ==
  ASSUME NEW ids \in SUBSET RawIdentities, NEW kinds \in [ids -> Kinds]
  PROVE  IsFiniteSet(VectorOf(kinds)) /\ \A t \in VectorOf(kinds) : IsTrial(t)
<1>1. IsFiniteSet(0 .. Repetitions - 1)
  BY RepetitionsAssumption, FS_Interval
<1>2. IsFiniteSet(RawIdentities)
  BY <1>1, NamesAssumption, FS_Product DEF RawIdentities
<1>3. IsFiniteSet(ids)
  BY <1>2, FS_Subset
<1> DEFINE trial(id) == [task |-> id[1], trial |-> id[2], outcome |-> kinds[id].outcome,
                         owner |-> kinds[id].owner, reward |-> kinds[id].reward,
                         fault |-> kinds[id].fault]
<1>4. VectorOf(kinds) = {trial(id) : id \in ids}
  BY DEF VectorOf
<1>5. \A id \in ids : IsTrial(trial(id))
  <2> TAKE id \in ids
  <2>1. kinds[id] \in Kinds
    OBVIOUS
  <2>2. \A r \in kinds[id].reward : r \in Int /\ kinds[id].reward = {r}
    BY <2>1, KindsAssumption
  <2> QED
    BY <2>2 DEF IsTrial
<1>6. IsFiniteSet({trial(id) : id \in ids})
  <2> DEFINE f == [id \in ids |-> trial(id)]
  <2> HIDE DEF trial
  <2>1. f \in Surjection(ids, {trial(id) : id \in ids})
    BY DEF Surjection
  <2> QED
    BY <1>3, <2>1, FS_Surjection
<1> HIDE DEF trial
<1> QED
  BY <1>4, <1>5, <1>6

(* The script may leave any evidence. *)
LEMMA RunScriptKeepsEvaluation ==
  ASSUME EvalInv, RunScript
  PROVE  EvalInv'
<1> USE DEF EvalInv
<1>1. PICK quirk \in Quirks, ids \in SUBSET RawIdentities : \E kinds \in [ids -> Kinds] :
        script' = [quirk |-> quirk, vector |-> VectorOf(kinds)]
  BY DEF RunScript
<1>2. /\ script'.quirk \in Quirks /\ IsFiniteSet(script'.vector)
      /\ \A t \in script'.vector : IsTrial(t)
  BY <1>1, VectorsAreFinite
<1>3. /\ pc = "script" /\ pc' = "classify" /\ record' = {}
      /\ UNCHANGED <<setting, history, attempt, disk, worktrees, venvs, runtime, record>>
  BY DEF RunScript, EvalTypeOK, Recorded
<1>4. Certified' = Certified
  BY <1>3 DEF setting, Certified, DigestsAgree, Sick
<1>5. EvalTypeOK' /\ ChainOK' /\ RuntimeOK' /\ CleanOK'
  BY <1>2, <1>3, <1>4 DEF EvalTypeOK, ChainOK, RuntimeOK, CleanOK, OnlyTheKilledLeave, Running, Prepared,
     Recorded, setting, history
<1> QED
  BY <1>3, <1>5, NoRecord DEF RecordOK

(* The outcome of that evidence is one it supports. *)
LEMMA ClassifyKeepsEvaluation ==
  ASSUME EvalInv, ClassifyScript
  PROVE  EvalInv'
<1> USE DEF EvalInv
<1> DEFINE setup == IF ExitCounts(ScriptTrials) THEN "infrastructure_failed" ELSE ScriptSetup
           classified == Classify(ScriptTrials, Expected, Floor, TimeoutIsZero, setup)
<1>1. /\ pc = "classify" /\ script.quirk # "unreadable" /\ pc' = "leave"
      /\ record' = RecordOf(classified)
      /\ UNCHANGED <<setting, history, attempt, disk, worktrees, venvs, runtime, script>>
  BY DEF ClassifyScript, RecordWith
<1>2. UNCHANGED <<strict, managed, ailments, Certified>>
  BY <1>1 DEF setting, Certified, DigestsAgree, Sick
<1>3. EvalTypeOK' /\ ChainOK' /\ RuntimeOK' /\ CleanOK'
  BY <1>1, <1>2 DEF EvalTypeOK, ChainOK, RuntimeOK, CleanOK, OnlyTheKilledLeave, Running, Prepared,
     Recorded, history
<1>4. record' # {} /\ Record'.outcome = classified.outcome /\ Record'.score = classified.score
  <2> HIDE DEF classified
  <2> QED
    BY <1>1, OneRecord
<1>5. setup \in {"candidate_invalid", "infrastructure_failed", "none"}
  BY DEF ScriptSetup, SetupReported
<1>6. setup # "none" => classified.outcome = setup /\ classified.score = {}
  <2> HIDE DEF setup
  <2> QED
    BY <1>5, SetupDecides
<1>7. ScoreIsCertified'
  <2>1. Record'.score # {} => script.quirk \in {"none", "exits_nonzero"}
    <3>1. setup = "none" => ScriptSetup = "none"
      OBVIOUS
    <3>2. ScriptSetup = "none" => script.quirk \in {"none", "exits_nonzero"}
      BY <1>1 DEF ScriptSetup, SetupReported, SelectionMatches, EvalTypeOK, Quirks
    <3> HIDE DEF classified, setup
    <3> QED
      BY <1>4, <1>6, <3>1, <3>2
  <2> HIDE DEF classified, setup
  <2>2. /\ runtime = "ready"
        /\ strict => /\ Certified /\ disk[attempt].contract /\ disk[attempt].preflight = "passed"
                     /\ managed => disk[attempt].receipt = "ready"
    BY <1>1 DEF ChainOK, RuntimeOK, Running, Prepared
  <2> QED
    BY <1>1, <1>2, <2>1, <2>2 DEF ScoreIsCertified, Scored
<1>8. BlameIsEarned'
  <2>1. ASSUME Record'.outcome = "candidate_invalid"
        PROVE  \/ script.quirk = "blames_candidate"
               \/ \E t \in script.vector :
                    t.owner = "candidate" /\ (t.outcome = "candidate_invalid" \/ t.fault)
    <3>1. CASE setup = "none"
      <4>1. Classify(ScriptTrials, Expected, Floor, TimeoutIsZero, "none").outcome = "candidate_invalid"
        BY <1>4, <2>1, <3>1
      <4>2. PICK s \in ScriptTrials :
              s.owner = "candidate" /\ (s.outcome = "candidate_invalid" \/ s.fault)
        <5> HIDE DEF classified, setup
        <5> QED
          BY <4>1, TrialsBlame
      <4>3. CASE ValidVector(script.vector)
        <5>1. s \in ContractTrials(strict, script.vector) /\ \A t \in script.vector : IsTrial(t)
          BY <4>2, <4>3 DEF ScriptTrials, EvalTypeOK
        <5>2. \E t \in script.vector : t.owner = s.owner /\ t.outcome = s.outcome /\ t.fault = s.fault
          BY <4>2, <5>1, BlameIsOfTheScript
        <5> QED
          BY <4>2, <5>2
      <4>4. CASE ~ValidVector(script.vector)
        <5>1. ScriptSetup = "infrastructure_failed"
          BY <4>4 DEF ScriptSetup
        <5> QED
          BY <3>1, <5>1
      <4> QED
        BY <4>3, <4>4
    <3>2. CASE setup # "none"
      <4>1. setup = "candidate_invalid"
        <5> HIDE DEF classified, setup
        <5> QED
          BY <1>4, <1>6, <2>1, <3>2
      <4> QED
        BY <4>1 DEF ScriptSetup, SetupReported
    <3> QED
      BY <3>1, <3>2
  <2> QED
    BY <1>1, <2>1 DEF BlameIsEarned
<1>9. HealthyIsScored'
  <2>1. script.quirk # "not_run"
    BY <1>1 DEF EvalTypeOK, Quirks
  <2>2. ASSUME script.quirk = "none",
               {IdentityOf(Normalized(t)) : t \in script.vector} = Identities,
               Cardinality(script.vector) = Expected,
               \A t \in script.vector :
                 t.outcome = "benchmark_complete" /\ ~t.fault /\ t.reward # {}
        PROVE  Record'.score # {}
    <3>1. IsFiniteSet(script.vector) /\ \A t \in script.vector : IsTrial(t)
      BY DEF EvalTypeOK
    <3>2. /\ ValidVector(script.vector)
          /\ Classify(ContractTrials(strict, script.vector), Expected, Floor, TimeoutIsZero, "none").score # {}
      BY <2>2, <3>1, CleanVectorScores
    <3>3. ScriptSetup = "none" /\ ~ExitCounts(ScriptTrials)
      BY <2>2, <3>2 DEF ScriptSetup, SelectionMatches, SetupReported, ExitCounts
    <3>4. ScriptTrials = ContractTrials(strict, script.vector)
      BY <3>2 DEF ScriptTrials
    <3>5. setup = "none"
      BY <3>3
    <3> HIDE DEF setup
    <3> QED
      BY <1>4, <3>2, <3>4, <3>5
  <2> HIDE DEF classified, setup
  <2> QED
    BY <1>1, <2>1, <2>2 DEF HealthyIsScored
<1>10. DiagnosticsAgree'
  <2>1. strict => Complete(ScriptTrials)
    BY FS_EmptySet, ContractsAreComplete DEF ScriptTrials, EvalTypeOK
  <2>2. record' = RecordWith(ScriptTrials, setup)
    BY <1>1 DEF RecordWith
  <2> HIDE DEF setup
  <2> QED
    BY <1>2, <1>5, <2>1, <2>2, RecordedAgree
<1>11. ScoreFromContract'
  <2>1. ASSUME strict, Record'.score # {} PROVE AccountsFor(Record'.score, script.vector)
    <3>1. setup = "none"
      <4> HIDE DEF classified, setup
      <4> QED
        BY <1>4, <1>6, <2>1
    <3>2. ValidVector(script.vector)
      BY <3>1 DEF ScriptSetup
    <3>3. ScriptTrials = MaterializeMissing(script.vector)
      BY <2>1, <3>2 DEF ScriptTrials, ContractTrials
    <3>4. Record'.score = Classify(MaterializeMissing(script.vector), Expected, Floor, TimeoutIsZero, "none").score
      <4> HIDE DEF setup
      <4> QED
        BY <1>4, <3>1, <3>3
    <3>5. IsFiniteSet(script.vector) /\ \A t \in script.vector : IsTrial(t)
      BY DEF EvalTypeOK
    <3> HIDE DEF classified, setup
    <3> QED
      BY <2>1, <3>4, <3>5, ScoredFromContract
  <2> HIDE DEF classified, setup
  <2> QED
    BY <1>1, <1>2, <2>1 DEF ScoreFromContract, Scored
<1>12. RecordFromContract'
  BY <1>10, <1>11 DEF RecordFromContract
<1> QED
  BY <1>3, <1>7, <1>8, <1>9, <1>12

(* An exception is the host's and has no score. *)
LEMMA RaiseKeepsEvaluation ==
  ASSUME EvalInv, EvaluationRaises
  PROVE  EvalInv'
<1> USE DEF EvalInv
<1> DEFINE bare == [outcome |-> "infrastructure_failed", score |-> {},
                    trials |-> ContractTrials(strict, {}), scoreable |-> 0]
<1>1. /\ pc \in {"script", "classify"} /\ pc' = "return" /\ record' = RecordOf(bare)
      /\ worktrees' = worktrees \ {runs}
      /\ ailments # {} \/ script.quirk = "unreadable"
      /\ UNCHANGED <<setting, history, attempt, disk, venvs, runtime, script>>
  BY DEF EvaluationRaises, BareRecord, Sick
<1>2. UNCHANGED <<strict, managed, ailments>>
  BY <1>1 DEF setting
<1>3. EvalTypeOK' /\ ChainOK' /\ RuntimeOK' /\ CleanOK'
  BY <1>1, <1>2 DEF EvalTypeOK, ChainOK, RuntimeOK, CleanOK, OnlyTheKilledLeave, Running, Prepared,
     Recorded, history
<1>4. bare.outcome = "infrastructure_failed" /\ bare.score = {}
  OBVIOUS
<1> HIDE DEF bare
<1>5. Record'.outcome = "infrastructure_failed" /\ Record'.score = {}
  BY <1>1, <1>4, OneRecord
<1>6. ScoreIsCertified' /\ BlameIsEarned' /\ HealthyIsScored'
  BY <1>1, <1>2, <1>5 DEF ScoreIsCertified, Scored, BlameIsEarned, HealthyIsScored
<1>7. DiagnosticsAgree'
  <2>1. Record'.trials = ContractTrials(strict, {}) /\ Record'.scoreable = 0
    BY <1>1, OneRecord DEF bare
  <2>2. ASSUME strict PROVE Agreed(Record')
    <3> DEFINE r == Record'
    <3>1. Complete(r.trials) /\ r.scoreable = 0 /\ r.outcome = "infrastructure_failed" /\ r.score = {}
      BY <1>5, <2>1, <2>2, ContractsAreComplete
    <3> HIDE DEF r
    <3>2. Agreed(r)
      BY <3>1, RecordsAgree
    <3> QED
      BY <3>2 DEF r
  <2> QED
    BY <1>2, <2>2 DEF Agreed, DiagnosticsAgree
<1>8. RecordFromContract'
  BY <1>5, <1>7, Unscored DEF RecordFromContract
<1> QED
  BY <1>3, <1>6, <1>8

(* However an evaluation ends, only a kill leaves something behind.         *)
LEMMA EndsKeepEvaluation ==
  ASSUME EvalInv, LeaveWorktree \/ WriteSummary \/ Return \/ Interrupt \/ Kill
  PROVE  EvalInv'
<1> USE DEF EvalInv
<1>1. CASE LeaveWorktree
  <2>1. /\ pc = "leave" /\ pc' \in {"summary", "return"} /\ worktrees' = worktrees \ {runs}
        /\ UNCHANGED <<setting, history, attempt, disk, venvs, runtime, script, record>>
    BY <1>1 DEF LeaveWorktree
  <2>2. EvalTypeOK' /\ ChainOK' /\ RuntimeOK' /\ CleanOK'
    BY <2>1 DEF EvalTypeOK, ChainOK, RuntimeOK, CleanOK, OnlyTheKilledLeave, Running, Prepared,
       Recorded, setting, history
  <2> QED
    BY <2>1, <2>2, RecordStays DEF RecordOK
<1>2. CASE WriteSummary
  <2>1. /\ pc = "summary" /\ pc' = "return" /\ disk' = Wrote("status", Record.outcome)
        /\ UNCHANGED <<setting, history, attempt, worktrees, venvs, runtime, script, record>>
        /\ pc \in Running /\ "status" \in Fields
    BY <1>2 DEF WriteSummary, Running, Recorded, Fields
  <2>2. /\ DOMAIN disk' = DOMAIN disk
        /\ \A n \in DOMAIN disk : DOMAIN disk'[n] = Fields /\ (n # attempt => disk'[n] = disk[n])
        /\ \A g \in {"run", "contract", "preflight", "receipt"} : disk'[attempt][g] = disk[attempt][g]
    BY <2>1, WroteOneFile DEF Fields
  <2>3. EvalTypeOK' /\ ChainOK' /\ RuntimeOK'
    BY <2>1, <2>2 DEF EvalTypeOK, ChainOK, RuntimeOK, Running, Prepared, Recorded, setting, history
  <2>4. CleanOK'
    BY <2>1, <2>2 DEF EvalTypeOK, CleanOK, OnlyTheKilledLeave, history
  <2> QED
    BY <2>1, <2>2, <2>3, <2>4, RecordStays DEF RecordOK
<1>3. CASE Return \/ Interrupt \/ Kill
  <2>1. /\ pc' = "idle" /\ record' = {} /\ script' = NoScript
        /\ UNCHANGED <<setting, disk, runs>>
    BY <1>3 DEF Return, Interrupt, Kill, Ended
  <2>2. /\ venvs' \subseteq venvs /\ worktrees' \subseteq worktrees /\ killed \subseteq killed'
        /\ runs \in killed' \/ (worktrees' = worktrees \ {runs} /\ attempt \notin venvs')
                            \/ (pc = "return" /\ UNCHANGED <<worktrees, venvs>>)
    BY <1>3 DEF Return, Interrupt, Kill, Ended
  <2>3. EvalTypeOK' /\ ChainOK' /\ RuntimeOK'
    <3>1. NoScript.vector = {} /\ IsFiniteSet({})
      BY FS_EmptySet DEF NoScript
    <3> QED
      BY <2>1, <2>2, <3>1 DEF EvalTypeOK, ChainOK, RuntimeOK, Running, Prepared, Recorded, setting
  <2>4. CleanOK'
    BY <2>1, <2>2 DEF EvalTypeOK, CleanOK, OnlyTheKilledLeave, Running, Prepared
  <2> QED
    BY <2>1, <2>3, <2>4, NoRecord DEF RecordOK
<1> QED
  BY <1>1, <1>2, <1>3

(* At first nothing has been evaluated. *)
LEMMA EvaluationInit == Init => EvalInv
<1> SUFFICES ASSUME Init PROVE EvalInv
  OBVIOUS
<1>1. NoScript.vector = {} /\ IsFiniteSet({})
  BY FS_EmptySet DEF NoScript
<1> QED
  BY <1>1 DEF Init, EvalInv, EvalTypeOK, ChainOK, RuntimeOK, CleanOK, OnlyTheKilledLeave, Running,
     Prepared, Recorded, ScoreIsCertified, Scored, RecordFromContract, ScoreFromContract, DiagnosticsAgree, BlameIsEarned,
     HealthyIsScored

(* Every step keeps the invariant. *)
LEMMA EvaluationNext ==
  ASSUME EvalInv, [Next]_vars
  PROVE  EvalInv'
<1>1. CASE UNCHANGED vars
  <2>1. /\ UNCHANGED <<setting, record, script, attempt, runtime, disk, pc, venvs, worktrees, killed, runs>>
    BY <1>1 DEF vars, setting
  <2>2. EvalTypeOK' /\ ChainOK' /\ RuntimeOK' /\ CleanOK'
    BY <2>1 DEF EvalInv, EvalTypeOK, ChainOK, RuntimeOK, CleanOK, OnlyTheKilledLeave, Running,
       Prepared, Recorded, setting, Certified, DigestsAgree, Sick, SickOf, Ambiguous
  <2> QED
    BY <2>1, <2>2, RecordStays DEF EvalInv, RecordOK
<1> QED
  BY <1>1, BeginsKeepEvaluation, PreflightKeepsEvaluation, PreparationKeepsEvaluation,
     VerifyKeepsEvaluation, RunScriptKeepsEvaluation, ClassifyKeepsEvaluation,
     RaiseKeepsEvaluation, EndsKeepEvaluation
  DEF Next

(* The inductive invariant of an evaluation. *)
LEMMA EvaluationIsSound == Spec => []EvalInv
  BY EvaluationInit, EvaluationNext, PTL DEF Spec

(* Whatever is wrong with the candidate or the host, and wherever evaluations *)
(* are interrupted or killed, a strict score stands on an unbroken chain of   *)
(* evidence from its own attempt (execution.py, runtime/uv.py).              *)
THEOREM StrictScoresAreCertified == Spec => []ScoreIsCertified
  BY EvaluationIsSound, PTL DEF EvalInv

(* For every contract, every integer reward and every number of kinds kept: a   *)
(* strict score is the sum over the contract's own identities divided by all    *)
(* of them, and the diagnostics are ones their reader accepts (results.py).     *)
THEOREM StrictRecordsAccount == Spec => []RecordFromContract
  BY EvaluationIsSound, PTL DEF EvalInv

(* A candidate is declared invalid only for a defect of its own, on the word  *)
(* of the evaluator, or by one of the two ambiguous checks.                  *)
THEOREM BlameIsNeverGuessed == Spec => []BlameIsEarned
  BY EvaluationIsSound, PTL DEF EvalInv

(* Worktrees and temporary environments outlive only an evaluation that was   *)
(* killed.                                                                  *)
THEOREM EvaluationsCleanUp == Spec => []OnlyTheKilledLeave
  BY EvaluationIsSound, PTL DEF EvalInv, CleanOK

(* A healthy candidate on a healthy host is scored, for every task set, number *)
(* of repetitions and partial floor.                                        *)
THEOREM HealthyCandidatesScore == Spec => []HealthyIsScored
  BY EvaluationIsSound, PTL DEF EvalInv

(* No evaluation writes into the directory of another attempt.              *)
THEOREM AttemptsAreImmutable == Spec => EvidenceKept
<1>1. ASSUME [Next]_vars
      PROVE  \A n \in DOMAIN disk : n # attempt => n \in DOMAIN disk' /\ disk'[n] = disk[n]
  <2>1. CASE UNCHANGED disk
    BY <2>1
  <2>2. CASE Reserve
    BY <2>2 DEF Reserve, WithDirectory
  <2>3. CASE \E field, value : disk' = Wrote(field, value)
    BY <2>3 DEF Wrote
  <2>4. CASE PreflightFails
    BY <2>4 DEF PreflightFails
  <2> QED
    BY <1>1, <2>1, <2>2, <2>3, <2>4 DEF Next, vars, Start, ResolveFails, PreflightPasses, NoRuntime,
       RuntimeRefused, CheckLock, SyncDependencies, BuildLocal, RuntimeEnds, WithReceipt, Verify,
       RunScript, ClassifyScript, EvaluationRaises, LeaveWorktree, WriteSummary, Return, Interrupt, Kill
<1>2. [Next]_vars => [\A n \in DOMAIN disk : n # attempt => n \in DOMAIN disk' /\ disk'[n] = disk[n]]_vars
  BY <1>1
<1> QED
  BY <1>2, PTL DEF Spec, EvidenceKept
==============================================================================
