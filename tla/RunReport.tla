------------------------------- MODULE RunReport -------------------------------
(***************************************************************************)
(* What people and scripts read of a run: the assertion of a finished run   *)
(* (run_summary.py), the claims of evolve report (report.py), the receipt   *)
(* audit (archive.verify_integrity) and the lineage and diff in the bundle  *)
(* the mutate operator is given (feedback.py).  Each reads the archive and  *)
(* the tags again, with conditions of its own; nothing here changes them.   *)
(***************************************************************************)
EXTENDS Driver, FiniteSets

HasRow(g) == DOMAIN Row(g) # {}

RowStatus(g) ==
    IF Get(Row(g), "status") = None THEN "pending" ELSE Row(g).status

ClaimsParent(g) == Get(Row(g), "valid_parent") = TRUE

------------------------------------------------------------------------------
(* run_summary.py                                                           *)

(* The first generation with a claimed parent at the target score or above; *)
(* no target is None.                                                       *)
ReachedAt(target) ==
    LET reached == {g[1] : g \in {h \in Genids :
                        /\ target # None
                        /\ ClaimsParent(h)
                        /\ Get(Row(h), "score") # None
                        /\ Row(h).score >= target}}
    IN  IF reached = {} THEN None
        ELSE CHOOSE n \in reached : \A m \in reached : n <= m

(* verify_integrity: an evaluation whose receipt is not in the receipts.    *)
(* A generation has one keyed evaluation (EvaluatedOnce).                   *)
UnreceiptedRows == {g \in Genids : Evaluated(g) /\ ~IsCertified(Row(g))}

(* The validate stage is configured, and its result is the rejection that   *)
(* was recorded; the file outlives the run.                                 *)
ValidationRejection(g) ==
    /\ "validate" \in {Stages[i] : i \in DOMAIN Stages}
    /\ ~Tagged(g)

DecisionOK(g) ==
    /\ Get(Row(g), "valid_parent") \in BOOLEAN
    /\ Get(Row(g), "verdict") \in {"keep", "discard"}
    /\ ClaimsParent(g) <=> Row(g).verdict = "keep"

(* Deviation: whether gate and record are done is not asked.                *)
EvaluatedPerhapsUngated(g) ==
    /\ IsCertified(Row(g))
    /\ Get(Row(g), "outcome") = Complete
    /\ DecisionOK(g)
    /\ Tagged(g)

EvaluatedGeneration(g) ==
    /\ IsCertified(Row(g))
    /\ Get(Row(g), "outcome") = Complete
    /\ Get(Row(g), "pending_gate_record") = FALSE
    /\ DecisionOK(g)
    /\ Tagged(g)

TerminalRow(g) ==
    \/ /\ RowStatus(g) = "complete"
       /\ EvaluatedGeneration(g)
       /\ g = Genesis => ClaimsParent(g)
    \/ /\ RowStatus(g) = "rejected_validation" /\ g # Genesis
       /\ ValidationRejection(g)

GenerationRows(n) == {g \in Genids : g[1] = n /\ HasRow(g)}

(* build_run_summary without findings, for the generations up to through.   *)
Passed(through, target) ==
    LET reached == ReachedAt(target)
        wanted(n) == reached = None \/ n <= reached
    IN  /\ UnreceiptedRows = {}
        /\ \A n \in 0..through :
              /\ wanted(n) => GenerationRows(n) = {g \in Genids : g[1] = n}
              /\ \A g \in GenerationRows(n) : TerminalRow(g)

------------------------------------------------------------------------------
(* report.py; the score of an anchor is not kept, its receipt is taken to be  *)
(* written with it.                                                         *)

ReportableAnchor(g) ==
    \E key \in DOMAIN rows[g].evals :
        /\ Get(rows[g].evals[key], "kind") = "anchor"
        /\ Get(rows[g].evals[key], "outcome") = Complete
        /\ Tagged(g)

AnchorClaims == {g \in Genids : ReportableAnchor(g)}

ParentClaims == {g \in Genids : Accepted(g)}

TaskSetsClaimed == {Row(g).task_set_hash : g \in ParentClaims}

CohortBest(hash) ==
    {g \in ParentClaims :
        /\ Row(g).task_set_hash = hash
        /\ \A h \in ParentClaims :
              Row(h).task_set_hash = hash => Row(h).score <= Row(g).score}

ReportedBest == IF Cardinality(TaskSetsClaimed) <= 1 THEN Champion ELSE None

------------------------------------------------------------------------------
(* feedback.py: the bundle mutate reads, made from the archive just before  *)

LineageOfBundle ==
    [g \in {h \in Genids : HasRow(h)} |->
        [parent |-> Get(Row(g), "parent"), status |-> RowStatus(g)]]

(* The newest claimed parent whose own tag and whose parent's tag exist, with *)
(* the parent the diff is taken against.  Its row names a tag once it has   *)
(* been evaluated.                                                          *)
Diffable(g) ==
    /\ ClaimsParent(g) /\ Evaluated(g) /\ Tagged(g)
    /\ Get(Row(g), "parent") # None /\ Tagged(Row(g).parent)

LatestAccepted ==
    {<<Row(g).parent, g>> : g \in {h \in Genids :
        Diffable(h) /\ \A k \in Genids : Diffable(k) => ~Before(h, k)}}

------------------------------------------------------------------------------
(* Properties                                                               *)

SettledIn(g) ==
    /\ g # Genesis => ~GenerationIsPending(g)
    /\ RowStatus(g) = "complete" => (ClaimsParent(g) <=> Accepted(g))

TargetEarned(target, reached) ==
    /\ \E g \in Genids : g[1] = reached /\ Accepted(g) /\ Row(g).score >= target
    /\ \A g \in Children : g[1] <= reached => ~GenerationIsPending(g)

(* A summary that passes means what the driver means: every generation it   *)
(* covers is settled for resume, a keep in it is a parent that select will  *)
(* offer, and a target it says was reached was reached by such a parent,    *)
(* with nothing left to do up to there, although the target is looked for   *)
(* with fewer conditions.  A settled complete generation is only ever       *)
(* faulted for the receipt a crash kept from it, a rejected one never, and a *)
(* rejection of any kind is of a generation without a use: without a tag, or *)
(* refused at the second look at its tag (build_run_summary against           *)
(* is_parent_record and _generation_is_pending).                            *)
SummaryAgrees ==
    pc = "idle" =>
        /\ UnreceiptedRows = {} => \A target \in Scores \cup {None} :
              LET reached == ReachedAt(target)
              IN  \A n \in 0..MaxGeneration : Passed(n, target) =>
                      IF reached = None
                      THEN \A g \in Genids : g[1] <= n => SettledIn(g)
                      ELSE reached <= n => TargetEarned(target, reached)
        /\ \A g \in Children : ~GenerationIsPending(g) =>
              /\ RowStatus(g) = "complete" =>
                    EvaluatedGeneration(g) \/ g \in UnreceiptedRows
              /\ RowStatus(g) = "rejected_validation" => TerminalRow(g)
        /\ RejectedIsUnused

(* What is published can be relied on: the archive is in the order that the *)
(* ties of the best generation are broken in; one task set is compared and  *)
(* the best of the report is the best of its cohort; an anchor is claimed   *)
(* only of the baseline or of an accepted generation; and the diff a        *)
(* mutation is shown as accepted is of an accepted generation, or of one    *)
(* whose receipt a crash, or whose score a failed gate, took away.  A report *)
(* is read between runs, and the bundle by mutate.                          *)
ReportIsHonest ==
    /\ ArchiveInOrder
    /\ pc \in {"idle", "mutate"} =>
          /\ ReportedBest = Champion
          /\ ReportedBest # None => ReportedBest \in CohortBest("selection")
          /\ AnchorClaims \subseteq {Genesis} \cup ParentClaims
          /\ \A pair \in LatestAccepted :
                \/ Accepted(pair[2])
                \/ pair[2] \in UnreceiptedRows \/ Row(pair[2]).score = None
    /\ pc = "mutate" => Current \notin DOMAIN LineageOfBundle
==============================================================================
