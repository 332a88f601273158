---------------------------- MODULE DriverLineage ----------------------------
(* Driver implements Lineage. *)
EXTENDS Driver

(* The baseline has no gate: until its receipt is written it is evaluated.  *)
AwaitsVerdict(g) == g \in gatePending \/ (g = Genesis /\ ~Accepted(g))

StageOf(g) ==
    IF ~Tagged(g)
    THEN IF EvaluationStatus(Row(g)) \in TerminalStatuses THEN "rejected" ELSE "open"
    ELSE IF Accepted(g) THEN "accepted"
    ELSE IF Evaluated(g)
    THEN IF Row(g).outcome = Complete /\ AwaitsVerdict(g) THEN "evaluated" ELSE "closed"
    ELSE IF EvaluationStatus(Row(g)) \in TerminalStatuses THEN "closed"
    ELSE "committed"

stage == [g \in Genids |-> StageOf(g)]

Abstract == INSTANCE Lineage WITH base <- tags

(* The run, with every interruption and resume, is a run of Lineage.        *)
ImplementsLineage == Abstract!Spec
==============================================================================
