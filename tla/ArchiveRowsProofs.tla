-------------------------- MODULE ArchiveRowsProofs --------------------------
(***************************************************************************)
(* What merging one line of the archive does to a row, for every row and   *)
(* every line.                                                             *)
(***************************************************************************)
EXTENDS ArchiveRows, TLAPS

(* An overlay has the update's value under the keys taken and the old value  *)
(* under the others (_merge_event_fields, _replace_top).                     *)
LEMMA OverlayDomain ==
    \A dict, update, taken, key :
        key \in DOMAIN Overlay(dict, update, taken)
            <=> key \in DOMAIN dict \/ key \in taken
  BY DEF Overlay

(* A key that is taken has the update's value.                              *)
LEMMA OverlayTaken ==
    \A dict, update, taken, key : key \in taken =>
        Overlay(dict, update, taken)[key] = update[key]
  BY DEF Overlay

(* A key that is not taken keeps its value.                                 *)
LEMMA OverlayKept ==
    \A dict, update, taken, key : key \in DOMAIN dict /\ key \notin taken =>
        Overlay(dict, update, taken)[key] = dict[key]
  BY DEF Overlay

(* Reading a key of an overlay, present or not.                             *)
LEMMA OverlayGet ==
    \A dict, update, taken, key : key \notin taken =>
        Get(Overlay(dict, update, taken), key) = Get(dict, key)
  BY DEF Overlay, Get

(* What MergeEvent does in the three cases that arise: a line without a task *)
(* set, an anchor, and the first evaluation of a generation.                 *)
LEMMA UnkeyedMergeRow ==
    ASSUME NEW entry, IsEntry(entry), NEW event,
           NEW merged, merged = MergeEvent(entry, event),
           ~IsKeyedEvaluation(event)
    PROVE  /\ IsEntry(merged)
           /\ merged.top = entry.top
           /\ merged.row = MergeEventFields(entry.row, event)
  <1>1. merged =
            [entry EXCEPT !.row = MergeEventFields(entry.row, event)]
    BY DEF MergeEvent
  <1> QED
    BY <1>1 DEF IsEntry

(* What MergeEvent does with an auxiliary evaluation.                       *)
LEMMA AuxiliaryMergeRow ==
    ASSUME NEW entry, IsEntry(entry), NEW event,
           NEW merged, merged = MergeEvent(entry, event),
           IsKeyedEvaluation(event), IsAuxiliary(event)
    PROVE  /\ IsEntry(merged)
           /\ merged.top = entry.top
           /\ merged.row =
                  Overlay(entry.row, event, {"genid"} \ DOMAIN entry.row)
  <1> DEFINE row == Overlay(entry.row, event, {"genid"} \ DOMAIN entry.row)
             evals == WithEntry(entry.evals, <<event.kind, event.task_set_hash>>,
                                EvaluationEntry(event))
  <1>1. merged = [entry EXCEPT !.row = row, !.evals = evals]
    BY DEF MergeEvent, MergeAuxiliaryEvaluation
  <1> HIDE DEF row, evals
  <1>2. /\ IsEntry(merged)
        /\ merged.top = entry.top
        /\ merged.row = row
    BY <1>1 DEF IsEntry
  <1> QED
    BY <1>2 DEF row

(* What MergeEvent does with the first keyed evaluation of a generation.    *)
LEMMA FirstMergeRow ==
    ASSUME NEW entry, IsEntry(entry), NEW event,
           NEW merged, merged = MergeEvent(entry, event),
           IsKeyedEvaluation(event), ~IsAuxiliary(event), entry.top = None
    PROVE  /\ IsEntry(merged)
           /\ \/ merged.row = ReplaceTopEvaluation(entry.row, event)
              \/ merged.row = MergeEventFields(entry.row, event)
  <1>1. merged = MergeKeyedEvaluation(entry, event)
    BY DEF MergeEvent
  <1>2. CASE IsGenesisReplacement(entry.row, event)
    <2>1. MergeKeyedEvaluation(entry, event) =
             [entry EXCEPT !.row = ReplaceTopEvaluation(entry.row, event),
                           !.top = event.task_set_hash]
      BY <1>2 DEF MergeKeyedEvaluation
    <2> QED
      BY <1>1, <2>1 DEF IsEntry
  <1>3. CASE ~IsGenesisReplacement(entry.row, event)
    <2>1. MergeKeyedEvaluation(entry, event) =
             [entry EXCEPT !.row = MergeEventFields(entry.row, event),
                           !.top = event.task_set_hash]
      BY <1>3 DEF MergeKeyedEvaluation
    <2> QED
      BY <1>1, <2>1 DEF IsEntry
  <1> QED
    BY <1>2, <1>3

(* Keys are only ever written from the line's own.                           *)
LEMMA FieldsTaken ==
    ASSUME NEW row, NEW event
    PROVE  \E taken \in SUBSET DOMAIN event :
              MergeEventFields(row, event) = Overlay(row, event, taken)
  <1> DEFINE taken == Writable(row, event) \
                 (IF RefusesValidParent(row, event) THEN {"valid_parent"} ELSE {})
  <1>1. taken \in SUBSET DOMAIN event
    BY DEF Writable
  <1>2. MergeEventFields(row, event) = Overlay(row, event, taken)
    BY DEF MergeEventFields
  <1> HIDE DEF taken
  <1> QED
    BY <1>1, <1>2

(* Replacing the owner of a row takes the event's own keys.                 *)
LEMMA TopTaken ==
    ASSUME NEW row, NEW event
    PROVE  \E taken \in SUBSET DOMAIN event :
              ReplaceTopEvaluation(row, event) = Overlay(row, event, taken)
  <1> DEFINE taken == DOMAIN event \ ReservedAuxiliaryFields
  <1>1. taken \in SUBSET DOMAIN event
    OBVIOUS
  <1>2. ReplaceTopEvaluation(row, event) = Overlay(row, event, taken)
    BY DEF ReplaceTopEvaluation
  <1> HIDE DEF taken
  <1> QED
    BY <1>1, <1>2

(* A line without a task set (commit, verdict, record, discard) leaves the   *)
(* owner of the row alone, and every key it does not carry (merged_rows).    *)
LEMMA UnkeyedMerge ==
    ASSUME NEW entry, IsEntry(entry), NEW event,
           NEW merged, merged = MergeEvent(entry, event),
           ~IsKeyedEvaluation(event)
    PROVE  /\ IsEntry(merged)
           /\ merged.top = entry.top
           /\ \A key : key \notin DOMAIN event =>
                 /\ key \in DOMAIN merged.row
                        <=> key \in DOMAIN entry.row
                 /\ Get(merged.row, key) = Get(entry.row, key)
  <1>1. PICK taken \in SUBSET DOMAIN event :
            MergeEventFields(entry.row, event) = Overlay(entry.row, event, taken)
    BY FieldsTaken
  <1>2. merged.row = Overlay(entry.row, event, taken)
    BY <1>1, UnkeyedMergeRow
  <1>3. ASSUME NEW key, key \notin DOMAIN event
        PROVE  /\ key \in DOMAIN merged.row
                      <=> key \in DOMAIN entry.row
               /\ Get(merged.row, key) = Get(entry.row, key)
    BY <1>2, <1>3, OverlayDomain, OverlayGet
  <1> QED
    BY <1>3, UnkeyedMergeRow

(* An anchor evaluation only gives a row its genid                           *)
(* (_merge_auxiliary_evaluation).                                            *)
LEMMA AuxiliaryMerge ==
    ASSUME NEW entry, IsEntry(entry), NEW event,
           NEW merged, merged = MergeEvent(entry, event),
           IsKeyedEvaluation(event), IsAuxiliary(event)
    PROVE  /\ IsEntry(merged)
           /\ merged.top = entry.top
           /\ \A key : key # "genid" =>
                 /\ key \in DOMAIN merged.row
                        <=> key \in DOMAIN entry.row
                 /\ Get(merged.row, key) = Get(entry.row, key)
  <1> DEFINE taken == {"genid"} \ DOMAIN entry.row
  <1>1. merged.row = Overlay(entry.row, event, taken)
    BY AuxiliaryMergeRow
  <1>2. \A key : key # "genid" => key \notin taken
    OBVIOUS
  <1> HIDE DEF taken
  <1>3. ASSUME NEW key, key # "genid"
        PROVE  /\ key \in DOMAIN merged.row
                      <=> key \in DOMAIN entry.row
               /\ Get(merged.row, key) = Get(entry.row, key)
    BY <1>1, <1>2, <1>3, OverlayDomain, OverlayGet
  <1> QED
    BY <1>3, AuxiliaryMergeRow

(* The first evaluation of a generation owns the row; its outcome, its       *)
(* eligibility and its pending mark are all taken (_merge_keyed_evaluation). *)
LEMMA FirstEvaluationMerge ==
    ASSUME NEW entry, IsEntry(entry), NEW event,
           NEW merged, merged = MergeEvent(entry, event),
           IsKeyedEvaluation(event), ~IsAuxiliary(event),
           entry.top = None,
           NEW key \in DOMAIN event \ ReservedAuxiliaryFields,
           key # "valid_parent",
           key \notin StampedFields \/ key \notin DOMAIN entry.row
    PROVE  /\ key \in DOMAIN merged.row
           /\ merged.row[key] = event[key]
  <1>1. CASE merged.row = ReplaceTopEvaluation(entry.row, event)
    BY <1>1, OverlayDomain, OverlayTaken DEF ReplaceTopEvaluation
  <1>2. CASE merged.row = MergeEventFields(entry.row, event)
    <2> DEFINE taken == Writable(entry.row, event) \
                   (IF RefusesValidParent(entry.row, event)
                    THEN {"valid_parent"} ELSE {})
    <2>1. key \in taken
      BY DEF Writable
    <2>2. merged.row = Overlay(entry.row, event, taken)
      BY <1>2 DEF MergeEventFields
    <2> HIDE DEF taken
    <2> QED
      BY <2>1, <2>2, OverlayDomain, OverlayTaken
  <1> QED
    BY <1>1, <1>2, FirstMergeRow

(* A merged row takes every value from the old row or from the line, and     *)
(* loses no key.                                                             *)
LEMMA MergedValues ==
    ASSUME NEW entry, IsEntry(entry), NEW event,
           NEW merged, merged = MergeEvent(entry, event),
           ~IsKeyedEvaluation(event) \/ (~IsAuxiliary(event) /\ entry.top = None)
    PROVE  /\ IsEntry(merged)
           /\ DOMAIN entry.row \subseteq DOMAIN merged.row
           /\ \A key \in DOMAIN merged.row :
                 \/ /\ key \in DOMAIN entry.row
                    /\ merged.row[key] = entry.row[key]
                 \/ /\ key \in DOMAIN event
                    /\ merged.row[key] = event[key]
  <1>1. /\ IsEntry(merged)
        /\ \/ merged.row = ReplaceTopEvaluation(entry.row, event)
           \/ merged.row = MergeEventFields(entry.row, event)
    BY UnkeyedMergeRow, FirstMergeRow
  <1>2. PICK taken \in SUBSET DOMAIN event :
            merged.row = Overlay(entry.row, event, taken)
    BY <1>1, FieldsTaken, TopTaken
  <1>3. \A key : key \in DOMAIN merged.row
                   <=> key \in DOMAIN entry.row \/ key \in taken
    BY <1>2, OverlayDomain
  <1>4. ASSUME NEW key \in DOMAIN merged.row
        PROVE  \/ /\ key \in DOMAIN entry.row
                  /\ merged.row[key] = entry.row[key]
               \/ /\ key \in DOMAIN event
                  /\ merged.row[key] = event[key]
    BY <1>2, <1>3, OverlayTaken, OverlayKept
  <1> QED
    BY <1>1, <1>3, <1>4
==============================================================================
