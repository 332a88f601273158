----------------------------- MODULE ArchiveRows -----------------------------
(***************************************************************************)
(* How archive.jsonl becomes one row per generation (archive.py).          *)
(*                                                                         *)
(* The archive is a sequence of events.  merged_rows is a left fold over   *)
(* them, so the merged state after one more line is a function of the      *)
(* state before it and of the line: MergeEvent below is the body of that   *)
(* loop, and every module that appends events applies it.                  *)
(*                                                                         *)
(* Events and rows are dictionaries: functions whose DOMAIN is the set of  *)
(* keys present.  That a key is present with the value None is not the     *)
(* same as the key being absent, because a stamped key that is present is  *)
(* protected.                                                              *)
(***************************************************************************)
EXTENDS Naturals

CONSTANTS None,      \* Python's None
          Genesis    \* the generation id of the seed, "0"

(* The keys of STAMPED_FIELDS that some definition here reads. *)
StampedFields == {"outcome", "status", "score", "task_set_hash", "attempt",
                  "selection_eligible", "cost"}

(* Keys that never enter a row: the mechanism flag, the record marker.  The *)
(* key "evals" is kept in the evals component of an accumulator.            *)
ReservedAuxiliaryFields == {"evals", "kind", "mechanism", "record_attempted"}

EvaluationFields == StampedFields \cup
    {"genid", "parent", "valid_parent", "verdict", "note", "kind",
     "pending_gate_record", "certified"}

AuxiliaryBlockedFields ==
    (EvaluationFields \ {"note"}) \cup {"evals", "mechanism"}

PendingNote  == "mechanism evaluation recorded before gate/record"
ScaffoldNote == "initial scaffold"

Complete == "benchmark_complete"
FailedOutcomes ==
    {"candidate_invalid", "infrastructure_failed", "timeout", "cancelled"}
CanonicalOutcomes == FailedOutcomes \cup {Complete, "missing"}

Get(dict, key) == IF key \in DOMAIN dict THEN dict[key] ELSE None

(* dict with the keys in taken read from update *)
Overlay(dict, update, taken) ==
    [key \in DOMAIN dict \cup taken |->
        IF key \in taken THEN update[key] ELSE dict[key]]

EvaluationStatus(dict) ==
    IF Get(dict, "outcome") = Complete THEN "complete"
    ELSE IF Get(dict, "outcome") \in CanonicalOutcomes THEN dict.outcome
    ELSE Get(dict, "status")

------------------------------------------------------------------------------
(* The three ways in which a stamped key already in a row is replaced. *)

ReplacesPendingRecord(current, event) ==
    /\ \/ Get(current, "note") \in {ScaffoldNote, PendingNote}
       \/ Get(current, "pending_gate_record") = TRUE
    /\ Get(event, "mechanism") = TRUE
    /\ event.genid = Get(current, "genid")
    /\ Get(event, "outcome") = Complete
    /\ Get(event, "selection_eligible") = TRUE
    /\ Get(event, "score") # None
    /\ Get(event, "valid_parent") = TRUE

(* That both records are of the same commit, generation and purpose is left  *)
(* out: the lines merged here are of one generation, its commit is its tag's. *)
ReplacesInfrastructureFailure(current, event) ==
    /\ EvaluationStatus(current) \in {"infra_failed", "infrastructure_failed"}
    /\ Get(event, "mechanism") = TRUE
    /\ Get(event, "outcome") \in CanonicalOutcomes
    /\ Get(current, "attempt") # None
    /\ Get(event, "attempt") # None
    /\ event.attempt > current.attempt

CanReplaceStamped(current, event) ==
    \/ Get(event, "kind") = "baseline" /\ Get(event, "mechanism") = TRUE
    \/ ReplacesPendingRecord(current, event)
    \/ ReplacesInfrastructureFailure(current, event)

TerminalOverride(current, event) ==
    /\ Get(current, "pending_gate_record") = TRUE
    /\ Get(event, "status") = "operator_failed"

(* The keys an event writes into a row, valid_parent aside. *)
Writable(row, event) ==
    {key \in DOMAIN event \ ReservedAuxiliaryFields :
        \/ key \notin StampedFields
        \/ key \notin DOMAIN row
        \/ CanReplaceStamped(row, event)
        \/ TerminalOverride(row, event) /\ key \in {"status", "score", "cost"}}

(* A claim to be a valid parent is dropped when the row is not selection     *)
(* eligible.  Lines are written with sorted keys, so selection_eligible has  *)
(* been merged before valid_parent is looked at.                             *)
RefusesValidParent(row, event) ==
    LET merged == Overlay(row, event, Writable(row, event) \ {"valid_parent"})
    IN  /\ Get(event, "valid_parent") = TRUE
        /\ "selection_eligible" \in DOMAIN merged
        /\ merged["selection_eligible"] # TRUE

MergeEventFields(row, event) ==
    Overlay(row, event,
            Writable(row, event) \
                (IF RefusesValidParent(row, event) THEN {"valid_parent"} ELSE {}))

(* What an evaluation that does not own the row may still add to it. *)
MergeAuxiliaryFields(row, event) ==
    Overlay(row, event,
            DOMAIN event \ (StampedFields \cup AuxiliaryBlockedFields))

ReplaceTopEvaluation(row, event) ==
    Overlay(row, event, DOMAIN event \ ReservedAuxiliaryFields)

EvaluationEntry(event) ==
    [key \in DOMAIN event \cap EvaluationFields |-> event[key]]

------------------------------------------------------------------------------
(* The accumulator of one generation: its row, the task set hash of the      *)
(* evaluation that owns the row (top), and the entries of row["evals"].      *)

EmptyDict == [key \in {} |-> None]
IsEntry(entry) ==
    "row" \in DOMAIN entry /\ "top" \in DOMAIN entry /\ "evals" \in DOMAIN entry

EmptyEntry == [row |-> EmptyDict, top |-> None, evals |-> EmptyDict]

IsKeyedEvaluation(event) == Get(event, "task_set_hash") # None

IsCertified(dict) == Get(dict, "certified") = TRUE

IsGenesisReplacement(row, event) ==
    /\ event.genid = Genesis
    /\ EvaluationStatus(row) = "pending"
    /\ Get(row, "score") = None
    /\ Get(row, "valid_parent") = FALSE
    /\ Get(event, "kind") = "genesis_eval"
    /\ Get(event, "mechanism") = TRUE

(* An anchor evaluation, and a genesis evaluation of another generation,     *)
(* only ever become an entry of evals.                                       *)
IsAuxiliary(event) ==
    \/ Get(event, "kind") = "anchor"
    \/ Get(event, "kind") = "genesis_eval" /\ event.genid # Genesis

WithEntry(evals, key, entry) == Overlay(evals, [k \in {key} |-> entry], {key})

MergeAuxiliaryEvaluation(entry, event) ==
    [entry EXCEPT
        !.row   = Overlay(@, event, {"genid"} \ DOMAIN @),
        !.evals = WithEntry(@, <<event.kind, event.task_set_hash>>,
                            EvaluationEntry(event))]

(* A second task set: one entry of evals, stamped keys protected in it. *)
MergeOtherTaskSet(entry, event) ==
    LET key == <<"eval", event.task_set_hash>>
        old == IF key \in DOMAIN entry.evals THEN entry.evals[key] ELSE EmptyDict
        new == EvaluationEntry(event)
        taken == {k \in DOMAIN new : \/ k \notin StampedFields
                                     \/ k \notin DOMAIN old
                                     \/ CanReplaceStamped(old, event)}
    IN  [entry EXCEPT !.row   = MergeAuxiliaryFields(@, event),
                      !.evals = WithEntry(@, key, Overlay(old, new, taken))]

MergeKeyedEvaluation(entry, event) ==
    LET row  == entry.row
        kept == [key \in (DOMAIN row \cap {"note"}) \ DOMAIN event |-> row[key]]
    IN  IF IsGenesisReplacement(row, event)
        THEN [entry EXCEPT !.row = ReplaceTopEvaluation(row, event),
                           !.top = event.task_set_hash]
        ELSE IF entry.top = None
        THEN [entry EXCEPT !.row = MergeEventFields(row, event),
                           !.top = event.task_set_hash]
        ELSE IF entry.top # event.task_set_hash
        THEN MergeOtherTaskSet(entry, event)
        ELSE IF IsCertified(event) /\ ~IsCertified(row)
        THEN [entry EXCEPT !.row = ReplaceTopEvaluation(kept, event)]
        ELSE [entry EXCEPT !.row = MergeEventFields(row, event)]

(* One line of the archive.  The key "certified" of an event says that its   *)
(* receipt is in the receipts file.                                          *)
MergeEvent(entry, event) ==
    IF ~IsKeyedEvaluation(event)
    THEN [entry EXCEPT !.row = MergeEventFields(@, event)]
    ELSE IF IsAuxiliary(event)
    THEN MergeAuxiliaryEvaluation(entry, event)
    ELSE IF entry.top # None /\ ~IsCertified(event)
    THEN [entry EXCEPT !.row = MergeAuxiliaryFields(@, event)]
    ELSE MergeKeyedEvaluation(entry, event)

------------------------------------------------------------------------------
(* The second reading of the same lines: which generations have a complete   *)
(* evaluation and no gate verdict yet (driver.py).                           *)

MarksPendingGateRecord(event) ==
    \/ Get(event, "pending_gate_record") = TRUE
    \/ Get(event, "note") = PendingNote

IsEvaluationStamp(event) ==
    Get(event, "outcome") \in CanonicalOutcomes /\ MarksPendingGateRecord(event)

(* Deviation: only a record error ends the wait for the gate. *)
IsRecordError(event) ==
    DOMAIN event \cap StampedFields = {} /\ "record_error" \in DOMAIN event

IsGateRecordEvent(event) ==
    /\ DOMAIN event \cap StampedFields = {}
    /\ \/ "record_error" \in DOMAIN event
       \/ {"valid_parent", "verdict"} \subseteq DOMAIN event

ScanPending(pending, event) ==
    IF IsEvaluationStamp(event) THEN pending \cup {event.genid}
    ELSE IF IsGateRecordEvent(event) THEN pending \ {event.genid}
    ELSE pending

(* ... and on which the record operator has been tried. *)
ScanRecordAttempted(attempted, event) ==
    IF "record_error" \in DOMAIN event \/ "record_attempted" \in DOMAIN event
    THEN attempted \cup {event.genid}
    ELSE attempted

(* population.is_parent_record on a row, its tag aside. *)
IsParentRecord(row) ==
    /\ Get(row, "outcome") = Complete
    /\ Get(row, "selection_eligible") = TRUE
    /\ Get(row, "pending_gate_record") = FALSE
    /\ Get(row, "valid_parent") = TRUE
    /\ Get(row, "verdict") = "keep"
    /\ IsCertified(row)
    /\ Get(row, "score") # None
==============================================================================
