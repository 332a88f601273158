--------------------------- MODULE DriverInvariant ---------------------------
(***************************************************************************)
(* An inductive strengthening of Driver's safety properties: what is known *)
(* of a merged row whatever its history, and what is known of the child    *)
(* the driver works on at each point of its control.                       *)
(***************************************************************************)
EXTENDS Driver

(* A row without an outcome has no owner and no eligibility yet, and a      *)
(* complete one is eligible.                                                *)
EntryOK(entry) ==
    /\ IsEntry(entry)
    /\ RowOK(entry.row)
    /\ "outcome" \in DOMAIN entry.row =>
          entry.row["outcome"] \in FailedOutcomes \cup {Complete}
    /\ "outcome" \notin DOMAIN entry.row =>
          entry.top = None /\ "selection_eligible" \notin DOMAIN entry.row
    /\ Get(entry.row, "outcome") = Complete =>
          Get(entry.row, "selection_eligible") = TRUE

EntriesOK == \A g \in Genids : EntryOK(rows[g])

Undecided(g) == "outcome" \notin DOMAIN Row(g)

(* Where the driver is, and which generation it is about. *)
OutsideLabels    == {"idle", "genesis", "anchor", "anchorrun"}
UncommittedLabels == StageNames \cup {"commit", "tag"}
UnevaluatedLabels == {"lineage", "unfork", "evalstart", "evaluate"}
EvaluatedLabels  == {"receipt", "materialize"}
GateLabels       == {"gateenter", "gate"}
EndLabels        == {"record", "recording", "leave"}

PositionOK ==
    /\ pc \in OutsideLabels => gen = 0 /\ slot = 0
    /\ pc = "generation" => gen > 0 /\ slot = 0
    /\ pc = "select" => gen \in Generations /\ slot = 0
    /\ pc \in {"unselected", "child"} => gen \in Generations
    /\ pc = "finalrun" => parent \in Genids /\ gen > MaxGeneration
    /\ pc \in UnevaluatedLabels \cup EvaluatedLabels => Current \in Genids
    /\ pc \in UncommittedLabels \cup GateLabels \cup EndLabels =>
          Current \in Children
    /\ pc \in StageNames => \E i \in DOMAIN Stages : Stages[i] = pc

CurrentOK ==
    /\ pc \in UncommittedLabels => ~Tagged(Current) /\ parent \in Genids
    /\ pc = "tag" => Accepted(parent) /\ DOMAIN Row(Current) = {}
    /\ pc \in UnevaluatedLabels => Tagged(Current) /\ Undecided(Current)
    /\ pc \in EvaluatedLabels =>
          (Current \in Children /\ Get(Row(Current), "outcome") = Complete
              => Current \in gatePending)
    /\ pc \in GateLabels => Current \in gatePending

IInv ==
    /\ TypeOK
    /\ EntriesOK
    /\ PositionOK
    /\ CurrentOK
    /\ PendingIsConsistent
    /\ CommittedOnAccepted
    /\ Tagged(Genesis)
==============================================================================
