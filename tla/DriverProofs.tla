----------------------------- MODULE DriverProofs -----------------------------
(***************************************************************************)
(* Driver's safety for every number of generations and children, every set *)
(* of scores and outcomes, every list of stages and every number of        *)
(* faults.  IInv of DriverInvariant is inductive; a step that keeps it     *)
(* also keeps every acceptance and every outcome.                          *)
(***************************************************************************)
EXTENDS DriverInvariant, ArchiveRowsProofs

------------------------------------------------------------------------------
(* Facts about the constants *)

(* Python's None is none of the values it is compared with.                  *)
LEMMA NoneFacts ==
    /\ None \notin Genids /\ None \notin Scores /\ None \notin BOOLEAN
    /\ None \notin CanonicalOutcomes /\ None # Complete /\ None # PendingNote
    /\ None # "sealed" /\ None # "selection" /\ None # "anchor"
    /\ None # "genesis_eval" /\ None # "keep" /\ None # TRUE /\ None # FALSE
  BY NoneAssumption DEF CanonicalOutcomes

(* The seed has the id 0 and no child has it (format_genid).                 *)
LEMMA GenidFacts ==
    /\ Genesis \in Genids /\ Genesis \notin Children
    /\ <<0, 0>> = Genesis
    /\ \A g \in Genids : g # Genesis => g \in Children
    /\ \A g \in Children : g \in Genids
  BY GenesisAssumption DEF Genids, Children, Generations

(* best_row names a generation or nothing.                                   *)
LEMMA ChampionType ==
    /\ Champion \in OptionalGenid
    /\ Champion' \in OptionalGenid
  BY DEF Champion, OptionalGenid

------------------------------------------------------------------------------
(* Lines of the archive *)

(* A line that is no evaluation: what it does not say stays as it was.       *)
PlainEvent(event) ==
    /\ ~IsKeyedEvaluation(event)
    /\ RowOK(event)
    /\ "outcome" \notin DOMAIN event
    /\ "selection_eligible" \notin DOMAIN event

(* A rejection's line (_append_operator_failed and its siblings).           *)
LEMMA DiscardIsPlain ==
    ASSUME NEW g \in Genids, NEW p \in OptionalGenid, NEW status,
           NEW event, event = DiscardEvent(g, p, status)
    PROVE  /\ PlainEvent(event)
           /\ event.genid = g
           /\ "pending_gate_record" \notin DOMAIN event
           /\ \A S : ScanPending(S, event) = S
  BY NoneFacts DEF DiscardEvent, PlainEvent, IsKeyedEvaluation, RowOK, Get,
     OptionalGenid, ScanPending, IsEvaluationStamp, IsGateRecordEvent,
     StampedFields

(* The lineage line of commit_child.                                        *)
LEMMA CommitIsPlain ==
    ASSUME NEW g \in Genids, NEW p \in OptionalGenid,
           NEW event, event = CommitEvent(g, p)
    PROVE  /\ PlainEvent(event)
           /\ event.genid = g
           /\ DOMAIN event = {"genid", "parent"}
           /\ \A S : ScanPending(S, event) = S
  BY NoneFacts DEF CommitEvent, PlainEvent, IsKeyedEvaluation, RowOK, Get,
     OptionalGenid, ScanPending, IsEvaluationStamp, IsGateRecordEvent

(* The gate's verdict ends the wait of its generation.                      *)
LEMMA VerdictIsPlain ==
    ASSUME NEW g \in Genids, NEW accept \in BOOLEAN,
           NEW event, event = VerdictEvent(g, accept)
    PROVE  /\ PlainEvent(event)
           /\ event.genid = g
           /\ \A S : ScanPending(S, event) = S \ {g}
  BY NoneFacts DEF VerdictEvent, PlainEvent, IsKeyedEvaluation, RowOK, Get,
     OptionalGenid, ScanPending, IsEvaluationStamp, IsGateRecordEvent,
     StampedFields

(* What _run_terminal_record appends.                                       *)
LEMMA RecordIsPlain ==
    ASSUME NEW g \in Genids,
           NEW event, event = RecordedEvent(g) \/ event = RecordErrorEvent(g)
    PROVE  /\ PlainEvent(event)
           /\ event.genid = g
           /\ DOMAIN event \subseteq {"genid", "record_attempted", "record_error"}
           /\ \A S : ScanPending(S, event) \subseteq S
  BY NoneFacts DEF RecordedEvent, RecordErrorEvent, PlainEvent,
     IsKeyedEvaluation, RowOK, Get, OptionalGenid, ScanPending,
     IsEvaluationStamp, IsGateRecordEvent, StampedFields

(* A plain line keeps a row what EntryOK says, and its outcome.             *)
LEMMA PlainKeepsEntry ==
    ASSUME NEW entry, EntryOK(entry), NEW event, PlainEvent(event),
           NEW merged, merged = MergeEvent(entry, event)
    PROVE  /\ EntryOK(merged)
           /\ Get(merged.row, "outcome") = Get(entry.row, "outcome")
           /\ "outcome" \in DOMAIN merged.row <=> "outcome" \in DOMAIN entry.row
  <1>1. /\ IsEntry(merged) /\ merged.top = entry.top
        /\ "outcome" \in DOMAIN merged.row <=> "outcome" \in DOMAIN entry.row
        /\ "selection_eligible" \in DOMAIN merged.row
               <=> "selection_eligible" \in DOMAIN entry.row
        /\ Get(merged.row, "outcome") = Get(entry.row, "outcome")
        /\ Get(merged.row, "selection_eligible") = Get(entry.row, "selection_eligible")
    BY UnkeyedMerge DEF EntryOK, PlainEvent
  <1>2. RowOK(merged.row)
    <2>1. \A key \in DOMAIN merged.row :
             \/ key \in DOMAIN entry.row /\ merged.row[key] = entry.row[key]
             \/ key \in DOMAIN event /\ merged.row[key] = event[key]
      BY MergedValues DEF EntryOK, PlainEvent
    <2> QED
      BY <2>1 DEF RowOK, Get, OptionalGenid, EntryOK, PlainEvent
  <1> QED
    BY <1>1, <1>2 DEF EntryOK, Get

------------------------------------------------------------------------------
(* What a step owes to the archive *)

(* The keys population.is_parent_record reads. *)
AcceptanceKeys == {"outcome", "selection_eligible", "pending_gate_record",
                   "valid_parent", "verdict", "certified", "score"}

AcceptanceKept ==
    \A g \in Genids : Accepted(g) =>
        Accepted(g)' /\ Row(g).score' = Row(g).score

OutcomesKept ==
    \A g \in Genids : Evaluated(g) => Row(g).outcome' = Row(g).outcome

ArchiveKept ==
    /\ DOMAIN rows' = Genids
    /\ gatePending' \subseteq Genids /\ recordAttempted' \subseteq Genids
    /\ EntriesOK'
    /\ PendingIsConsistent'
    /\ CommittedOnAccepted'
    /\ Tagged(Genesis)'
    /\ AcceptanceKept
    /\ OutcomesKept

(* Acceptance depends on the keys is_parent_record reads, and on no other.  *)
LEMMA SameKeysSameAcceptance ==
    ASSUME NEW old, NEW new,
           \A key \in AcceptanceKeys : Get(new, key) = Get(old, key),
           IsParentRecord(old)
    PROVE  IsParentRecord(new) /\ new.score = old.score
  BY NoneFacts DEF AcceptanceKeys, IsParentRecord, IsCertified, Get

(* Without an outcome a generation is neither a parent nor evaluated.       *)
LEMMA UndecidedIsOpen ==
    ASSUME NEW g, Undecided(g)
    PROVE  ~Accepted(g) /\ ~Evaluated(g)
  BY NoneFacts DEF Undecided, Accepted, IsParentRecord, Evaluated, Get

(* An evaluated generation has the key outcome in its row.                  *)
LEMMA EvaluatedHasOutcome ==
    ASSUME NEW g, Evaluated(g)
    PROVE  ~Undecided(g) /\ Row(g).outcome = Get(Row(g), "outcome")
  BY NoneFacts DEF Undecided, Evaluated, Get

(* Who awaits the gate is committed and evaluated, and nobody's parent.     *)
LEMMA PendingIsNotAccepted ==
    ASSUME PendingIsConsistent, NEW g \in gatePending
    PROVE  Tagged(g) /\ ~Accepted(g) /\ ~Undecided(g)
  BY UndecidedIsOpen, NoneFacts DEF PendingIsConsistent, Undecided, Get

(* append_event touches one generation. *)
LEMMA AppendTouchesOne ==
    ASSUME TypeOK, NEW event, event.genid \in Genids, AppendEvent(event)
    PROVE  /\ DOMAIN rows' = Genids
           /\ rows'[event.genid] = MergeEvent(rows[event.genid], event)
           /\ \A g \in Genids : g # event.genid => rows'[g] = rows[g]
           /\ gatePending' = ScanPending(gatePending, event)
           /\ recordAttempted' \subseteq Genids
  BY DEF AppendEvent, TypeOK, ArchiveTypeOK, ScanRecordAttempted

(* Nothing durable that the invariant speaks of changes. *)
LEMMA ArchiveUnchanged ==
    ASSUME IInv, UNCHANGED <<archive, tags>>
    PROVE  ArchiveKept
  BY DEF IInv, TypeOK, ArchiveTypeOK, archive, ArchiveKept, EntriesOK, PendingIsConsistent,
     CommittedOnAccepted, AcceptanceKept, OutcomesKept, Accepted, Tagged, Row

(* Commit, discard, verdict and record lines: they must not speak about an   *)
(* accepted generation, nor contradict a pending one.                        *)
LEMMA PlainArchiveKept ==
    ASSUME IInv, UNCHANGED tags,
           NEW event, PlainEvent(event), event.genid \in Genids,
           AppendEvent(event),
           gatePending' \subseteq gatePending,
           \/ ~Accepted(event.genid)
           \/ DOMAIN event \cap AcceptanceKeys = {},
           \/ event.genid \notin gatePending'
           \/ "pending_gate_record" \notin DOMAIN event
    PROVE  /\ ArchiveKept
           /\ \A g \in Genids : /\ Undecided(g)' <=> Undecided(g)
                                /\ Get(Row(g), "outcome")' = Get(Row(g), "outcome")
  <1> DEFINE e == event.genid
  <1>1. /\ DOMAIN rows' = Genids
        /\ rows'[e] = MergeEvent(rows[e], event)
        /\ \A g \in Genids : g # e => rows'[g] = rows[g]
        /\ gatePending' \subseteq Genids /\ recordAttempted' \subseteq Genids
    BY AppendTouchesOne DEF IInv, TypeOK, ArchiveTypeOK
  <1>2. /\ EntryOK(rows'[e])
        /\ Get(rows'[e].row, "outcome") = Get(rows[e].row, "outcome")
        /\ "outcome" \in DOMAIN rows'[e].row <=> "outcome" \in DOMAIN rows[e].row
    BY <1>1, PlainKeepsEntry DEF IInv, EntriesOK
  <1>3. \A key : key \notin DOMAIN event =>
            Get(rows'[e].row, key) = Get(rows[e].row, key)
    BY <1>1, UnkeyedMerge DEF IInv, EntriesOK, EntryOK, PlainEvent
  <1>4. EntriesOK'
    BY <1>1, <1>2 DEF IInv, EntriesOK
  <1>5. \A g \in Genids : /\ Undecided(g)' <=> Undecided(g)
                          /\ Get(Row(g), "outcome")' = Get(Row(g), "outcome")
    BY <1>1, <1>2 DEF Undecided, Row
  <1>6. OutcomesKept
    BY <1>5, EvaluatedHasOutcome, NoneFacts DEF OutcomesKept, Evaluated, Undecided, Get
  <1>7. AcceptanceKept
    <2>1. ASSUME NEW g \in Genids, Accepted(g), g = e
          PROVE  Accepted(g)' /\ Row(g).score' = Row(g).score
      <3>1. \A key \in AcceptanceKeys : Get(rows'[g].row, key) = Get(rows[g].row, key)
        BY <1>3, <2>1
      <3> QED
        BY <2>1, <3>1, SameKeysSameAcceptance DEF Accepted, Row, Tagged
    <2>2. ASSUME NEW g \in Genids, Accepted(g), g # e
          PROVE  Accepted(g)' /\ Row(g).score' = Row(g).score
      BY <1>1, <2>2 DEF Accepted, Row, Tagged
    <2> QED
      BY <2>1, <2>2 DEF AcceptanceKept
  <1>8. PendingIsConsistent'
    <2> SUFFICES ASSUME NEW g \in gatePending'
                 PROVE  /\ Tagged(g)'
                        /\ Get(Row(g), "outcome")' = Complete
                        /\ Get(Row(g), "pending_gate_record")' = TRUE
                        /\ ~Accepted(g)'
      BY DEF PendingIsConsistent
    <2>1. g \in gatePending /\ g \in Genids
      BY <1>1
    <2>2. Tagged(g)' /\ Get(Row(g), "outcome")' = Complete
      BY <1>5, <2>1 DEF IInv, PendingIsConsistent, Tagged
    <2>3. Get(Row(g), "pending_gate_record")' = TRUE
      BY <1>1, <1>3, <2>1 DEF IInv, PendingIsConsistent, Row
    <2> QED
      BY <2>2, <2>3 DEF Accepted, IsParentRecord
  <1>9. CommittedOnAccepted'
    BY <1>7, GenidFacts DEF IInv, CommittedOnAccepted, AcceptanceKept, Tagged
  <1> QED
    BY <1>1, <1>4, <1>5, <1>6, <1>7, <1>8, <1>9 DEF ArchiveKept, IInv, Tagged

(* The line of an evaluation, as far as the invariant needs it.              *)
LEMMA EvaluationEventFacts ==
    ASSUME NEW g \in Genids, NEW p \in OptionalGenid,
           NEW outcome \in FailedOutcomes \cup {Complete},
           NEW score \in Scores \cup {None},
           NEW event, event = EvaluationEvent(g, p, outcome, score)
    PROVE  /\ event.genid = g
           /\ IsKeyedEvaluation(event) /\ ~IsAuxiliary(event)
           /\ RowOK(event)
           /\ {"outcome", "selection_eligible", "pending_gate_record"}
                 \subseteq DOMAIN event
           /\ event["outcome"] = outcome
           /\ event["selection_eligible"] = (outcome = Complete)
           /\ event["pending_gate_record"] = (outcome = Complete /\ g # Genesis)
           /\ \A S : ScanPending(S, event) =
                 IF outcome = Complete /\ g # Genesis THEN S \cup {g} ELSE S
  <1> DEFINE complete == outcome = Complete
             pending == complete /\ g # Genesis
             valid == complete /\ ~pending
             common ==
                 [genid |-> g, parent |-> p, outcome |-> outcome,
                  status |-> IF complete THEN "complete" ELSE outcome,
                  score |-> IF complete THEN score ELSE None,
                  task_set_hash |-> "selection", attempt |-> attempts[g],
                  selection_eligible |-> complete, pending_gate_record |-> pending,
                  valid_parent |-> valid,
                  verdict |-> IF valid THEN "keep" ELSE "discard",
                  note |-> IF pending THEN PendingNote ELSE "evaluated",
                  mechanism |-> TRUE]
             kinded == Overlay(common, [kind |-> "genesis_eval"], {"kind"})
             keys == {"genid", "parent", "outcome", "score", "task_set_hash",
                      "selection_eligible", "pending_gate_record", "note"}
  <1>1. event = IF g = Genesis THEN kinded ELSE common
    BY DEF EvaluationEvent
  <1>2. /\ keys \subseteq DOMAIN event
        /\ \A key \in keys : event[key] = common[key]
        /\ Get(event, "kind") = IF g = Genesis THEN "genesis_eval" ELSE None
    <2>1. CASE g # Genesis
      BY <1>1, <2>1 DEF Get
    <2>2. CASE g = Genesis
      <3>1. event = Overlay(common, [kind |-> "genesis_eval"], {"kind"})
        BY <1>1, <2>2
      <3>2. \A key : key \in DOMAIN event <=> key \in DOMAIN common \/ key = "kind"
        BY <3>1 DEF Overlay
      <3>3. /\ event["kind"] = "genesis_eval"
            /\ \A key \in keys : event[key] = common[key]
        BY <3>1 DEF Overlay
      <3> QED
        BY <2>2, <3>2, <3>3 DEF Get
    <2> QED
      BY <2>1, <2>2
  <1>3. /\ event["genid"] = g /\ event["parent"] = p
        /\ event["outcome"] = outcome
        /\ event["score"] = (IF complete THEN score ELSE None)
        /\ event["task_set_hash"] = "selection"
        /\ event["selection_eligible"] = complete
        /\ event["pending_gate_record"] = pending
        /\ event["note"] = (IF pending THEN PendingNote ELSE "evaluated")
    BY <1>2
  <1> HIDE DEF kinded, common
  <1>4. event.genid = g
    BY <1>2, <1>3
  <1>5. IsKeyedEvaluation(event) /\ ~IsAuxiliary(event)
    BY <1>2, <1>3, <1>4, NoneFacts DEF IsKeyedEvaluation, IsAuxiliary, Get
  <1>6. RowOK(event)
    BY <1>2, <1>3 DEF RowOK, Get, OptionalGenid, CanonicalOutcomes
  <1>7. IsEvaluationStamp(event) <=> pending
    BY <1>2, <1>3 DEF IsEvaluationStamp, MarksPendingGateRecord, Get,
       CanonicalOutcomes, PendingNote
  <1>8. ~IsGateRecordEvent(event)
    BY <1>2 DEF IsGateRecordEvent, StampedFields
  <1>9. \A S : ScanPending(S, event) = IF pending THEN S \cup {g} ELSE S
    BY <1>4, <1>7, <1>8 DEF ScanPending
  <1> QED
    BY <1>2, <1>3, <1>4, <1>5, <1>6, <1>9

(* A generation that is evaluated had no outcome, and afterwards has the one *)
(* reported; a complete child awaits the gate.                               *)
LEMMA EvaluationArchiveKept ==
    ASSUME IInv, UNCHANGED tags,
           NEW g \in Genids, Undecided(g), Tagged(g),
           NEW p \in OptionalGenid,
           NEW outcome \in FailedOutcomes \cup {Complete},
           NEW score \in Scores \cup {None},
           AppendEvent(EvaluationEvent(g, p, outcome, score))
    PROVE  /\ ArchiveKept
           /\ Get(Row(g), "outcome")' = outcome
           /\ outcome = Complete /\ g # Genesis => g \in gatePending'
  <1> DEFINE event == EvaluationEvent(g, p, outcome, score)
             pending == outcome = Complete /\ g # Genesis
  <1>1. /\ event.genid = g
        /\ IsKeyedEvaluation(event) /\ ~IsAuxiliary(event) /\ RowOK(event)
        /\ {"outcome", "selection_eligible", "pending_gate_record"}
              \subseteq DOMAIN event
        /\ event["outcome"] = outcome
        /\ event["selection_eligible"] = (outcome = Complete)
        /\ event["pending_gate_record"] = pending
        /\ \A S : ScanPending(S, event) = IF pending THEN S \cup {g} ELSE S
    BY EvaluationEventFacts
  <1> HIDE DEF event
  <1>2. /\ DOMAIN rows' = Genids
        /\ rows'[g] = MergeEvent(rows[g], event)
        /\ \A h \in Genids : h # g => rows'[h] = rows[h]
        /\ gatePending' = IF pending THEN gatePending \cup {g} ELSE gatePending
        /\ recordAttempted' \subseteq Genids
    BY <1>1, AppendTouchesOne DEF event, IInv
  <1>3. /\ IsEntry(rows[g]) /\ RowOK(rows[g].row) /\ rows[g].top = None
        /\ "outcome" \notin DOMAIN rows[g].row
        /\ "selection_eligible" \notin DOMAIN rows[g].row
    BY DEF IInv, EntriesOK, EntryOK, Undecided, Row
  <1>4. /\ IsEntry(rows'[g])
        /\ \A key \in DOMAIN rows'[g].row :
             \/ key \in DOMAIN rows[g].row /\ rows'[g].row[key] = rows[g].row[key]
             \/ key \in DOMAIN event /\ rows'[g].row[key] = event[key]
    BY <1>1, <1>2, <1>3, MergedValues
  <1>5. /\ "outcome" \in DOMAIN rows'[g].row
        /\ rows'[g].row["outcome"] = outcome
    BY <1>1, <1>2, <1>3, FirstEvaluationMerge DEF ReservedAuxiliaryFields
  <1>6. /\ "selection_eligible" \in DOMAIN rows'[g].row
        /\ rows'[g].row["selection_eligible"] = (outcome = Complete)
    BY <1>1, <1>2, <1>3, FirstEvaluationMerge DEF ReservedAuxiliaryFields
  <1>7. /\ "pending_gate_record" \in DOMAIN rows'[g].row
        /\ rows'[g].row["pending_gate_record"] = pending
    BY <1>1, <1>2, <1>3, FirstEvaluationMerge
       DEF ReservedAuxiliaryFields, StampedFields
  <1>8. RowOK(rows'[g].row)
    BY <1>1, <1>3, <1>4 DEF RowOK, Get, OptionalGenid
  <1>9. EntriesOK'
    BY <1>2, <1>4, <1>5, <1>6, <1>8 DEF IInv, EntriesOK, EntryOK, Get
  <1>10. AcceptanceKept /\ OutcomesKept
    BY <1>2, UndecidedIsOpen
       DEF AcceptanceKept, OutcomesKept, Accepted, Row, Tagged, Evaluated
  <1>11. PendingIsConsistent'
    <2> SUFFICES ASSUME NEW h \in gatePending'
                 PROVE  /\ Tagged(h)'
                        /\ Get(Row(h), "outcome")' = Complete
                        /\ Get(Row(h), "pending_gate_record")' = TRUE
                        /\ ~Accepted(h)'
      BY DEF PendingIsConsistent
    <2>1. CASE h # g
      BY <1>2, <2>1 DEF IInv, TypeOK, ArchiveTypeOK, PendingIsConsistent, Accepted, Tagged, Row
    <2>2. CASE h = g
      <3>1. g \notin gatePending
        BY PendingIsNotAccepted DEF IInv
      <3>2. pending
        BY <1>2, <2>2, <3>1
      <3>3. Get(Row(g), "pending_gate_record")' = TRUE
        BY <1>7, <3>2 DEF Get, Row
      <3> QED
        BY <1>5, <2>2, <3>2, <3>3 DEF Tagged, Accepted, IsParentRecord, Get, Row
    <2> QED
      BY <2>1, <2>2
  <1>12. CommittedOnAccepted'
    BY <1>10, GenidFacts DEF IInv, CommittedOnAccepted, AcceptanceKept, Tagged
  <1>13. gatePending' \subseteq Genids
    BY <1>2 DEF IInv, TypeOK, ArchiveTypeOK
  <1>14. /\ Get(Row(g), "outcome")' = outcome
         /\ outcome = Complete /\ g # Genesis => g \in gatePending'
    BY <1>2, <1>5 DEF Get, Row
  <1> QED
    BY <1>2, <1>9, <1>10, <1>11, <1>12, <1>13, <1>14 DEF ArchiveKept, IInv, Tagged

(* A sealed evaluation stays out of selection: no key that acceptance,       *)
(* resume or the gate reads is touched.                                      *)
LEMMA AnchorArchiveKept ==
    ASSUME IInv, UNCHANGED tags, NEW g \in Genids,
           NEW outcome \in FailedOutcomes \cup {Complete},
           AppendEvent(AnchorEvent(g, outcome))
    PROVE  ArchiveKept
  <1> DEFINE event == AnchorEvent(g, outcome)
  <1>1. /\ event.genid = g
        /\ IsKeyedEvaluation(event) /\ IsAuxiliary(event)
        /\ \A S : ScanPending(S, event) = S
    BY NoneFacts DEF AnchorEvent, IsKeyedEvaluation, IsAuxiliary, Get,
       ScanPending, IsEvaluationStamp, MarksPendingGateRecord,
       IsGateRecordEvent, StampedFields
  <1> HIDE DEF event
  <1>2. /\ DOMAIN rows' = Genids
        /\ rows'[g] = MergeEvent(rows[g], event)
        /\ \A h \in Genids : h # g => rows'[h] = rows[h]
        /\ gatePending' = gatePending
        /\ recordAttempted' \subseteq Genids
    BY <1>1, AppendTouchesOne DEF event, IInv
  <1>3. /\ IsEntry(rows'[g]) /\ rows'[g].top = rows[g].top
        /\ \A key : key # "genid" =>
              /\ key \in DOMAIN rows'[g].row <=> key \in DOMAIN rows[g].row
              /\ Get(rows'[g].row, key) = Get(rows[g].row, key)
    BY <1>1, <1>2, AuxiliaryMerge DEF IInv, EntriesOK, EntryOK
  <1>4. RowOK(rows'[g].row)
    BY <1>3 DEF IInv, EntriesOK, EntryOK, RowOK
  <1>5. EntriesOK'
    BY <1>2, <1>3, <1>4 DEF IInv, EntriesOK, EntryOK, Get
  <1>6. \A h \in Genids, key \in AcceptanceKeys :
            Get(Row(h), key)' = Get(Row(h), key)
    BY <1>2, <1>3 DEF Row, AcceptanceKeys
  <1>7. AcceptanceKept
    BY <1>6, SameKeysSameAcceptance DEF AcceptanceKept, Accepted, Tagged
  <1>8. OutcomesKept
    BY <1>6, NoneFacts DEF OutcomesKept, Evaluated, AcceptanceKeys, Get
  <1>9. PendingIsConsistent'
    BY <1>2, <1>6 DEF IInv, TypeOK, ArchiveTypeOK, PendingIsConsistent, AcceptanceKeys, Tagged,
       Accepted, IsParentRecord
  <1>10. CommittedOnAccepted'
    BY <1>7, GenidFacts DEF IInv, CommittedOnAccepted, AcceptanceKept, Tagged
  <1> QED
    BY <1>2, <1>5, <1>7, <1>8, <1>9, <1>10 DEF ArchiveKept, IInv, Tagged, TypeOK, ArchiveTypeOK

(* Writing a receipt certifies one row and takes nothing from any other.     *)
LEMMA ReceiptArchiveKept ==
    ASSUME IInv, AppendReceipt
    PROVE  /\ ArchiveKept
           /\ \A g \in Genids : /\ Undecided(g)' <=> Undecided(g)
                                /\ Get(Row(g), "outcome")' = Get(Row(g), "outcome")
  <1> DEFINE c == Current
             receipt == [certified |-> TRUE]
  <1>1. c \in Genids
    BY DEF AppendReceipt, IInv, PositionOK, EvaluatedLabels
  <1>2. /\ rows' = [rows EXCEPT ![c].row = Overlay(@, receipt, {"certified"})]
        /\ UNCHANGED <<gatePending, recordAttempted, tags>>
    BY DEF AppendReceipt, others
  <1>3. IsEntry(rows[c]) /\ DOMAIN rows = Genids
    BY <1>1 DEF IInv, TypeOK, ArchiveTypeOK, EntriesOK, EntryOK
  <1> HIDE DEF c, receipt
  <1>4. /\ DOMAIN rows' = Genids
        /\ \A g \in Genids : g # c => rows'[g] = rows[g]
        /\ IsEntry(rows'[c]) /\ rows'[c].top = rows[c].top
        /\ rows'[c].row = Overlay(rows[c].row, receipt, {"certified"})
    BY <1>1, <1>2, <1>3 DEF IsEntry
  <1>5. \A key : key # "certified" =>
            /\ key \in DOMAIN rows'[c].row <=> key \in DOMAIN rows[c].row
            /\ Get(rows'[c].row, key) = Get(rows[c].row, key)
    BY <1>4, OverlayDomain, OverlayGet
  <1>6. Get(rows'[c].row, "certified") = TRUE
    BY <1>4, OverlayDomain, OverlayTaken DEF Get, receipt
  <1>7. RowOK(rows'[c].row)
    BY <1>1, <1>5 DEF IInv, EntriesOK, EntryOK, RowOK
  <1>8. EntriesOK'
    BY <1>1, <1>4, <1>5, <1>7 DEF IInv, EntriesOK, EntryOK, Get
  <1>9. ASSUME NEW g \in Genids, Accepted(g)
        PROVE  Accepted(g)' /\ Row(g).score' = Row(g).score
    <2>1. \A key \in AcceptanceKeys : Get(rows'[g].row, key) = Get(rows[g].row, key)
      BY <1>4, <1>5, <1>6, <1>9
         DEF AcceptanceKeys, Accepted, IsParentRecord, IsCertified, Row
    <2> QED
      BY <1>2, <1>9, <2>1, SameKeysSameAcceptance DEF Accepted, Row, Tagged
  <1>10. \A g \in Genids : /\ Undecided(g)' <=> Undecided(g)
                           /\ Get(Row(g), "outcome")' = Get(Row(g), "outcome")
    BY <1>4, <1>5 DEF Undecided, Row
  <1>11. OutcomesKept
    BY <1>10, EvaluatedHasOutcome, NoneFacts
       DEF OutcomesKept, Evaluated, Undecided, Get
  <1>12. PendingIsConsistent'
    BY <1>2, <1>4, <1>5 DEF IInv, TypeOK, ArchiveTypeOK, PendingIsConsistent, Row, Tagged,
       Accepted, IsParentRecord
  <1>13. AcceptanceKept
    BY <1>9 DEF AcceptanceKept
  <1>14. CommittedOnAccepted'
    BY <1>2, <1>13, GenidFacts DEF IInv, CommittedOnAccepted, AcceptanceKept, Tagged
  <1>15. gatePending' \subseteq Genids /\ recordAttempted' \subseteq Genids
    BY <1>2 DEF IInv, TypeOK, ArchiveTypeOK
  <1> QED
    BY <1>2, <1>4, <1>8, <1>10, <1>11, <1>12, <1>13, <1>14, <1>15
       DEF ArchiveKept, IInv, Tagged

(* The tag of a new child points to an accepted parent; no other tag moves.  *)
LEMMA TagArchiveKept ==
    ASSUME IInv, CreateTag
    PROVE  ArchiveKept /\ Tagged(Current)'
  <1>1. /\ Current \in Children /\ Current \in Genids
        /\ ~Tagged(Current) /\ parent \in Genids /\ Accepted(parent)
    BY GenidFacts DEF CreateTag, IInv, PositionOK, CurrentOK, UncommittedLabels
  <1>2. /\ UNCHANGED <<rows, gatePending, recordAttempted, gen, slot>>
        /\ tags' = [tags EXCEPT ![Current] = parent]
        /\ DOMAIN tags = Genids
    BY DEF CreateTag, archive, Goto, local, IInv, TypeOK, FilesTypeOK
  <1>3. /\ tags'[Current] = parent
        /\ \A g \in Genids : g # Current => tags'[g] = tags[g]
    BY <1>1, <1>2
  <1>4. \A g \in Genids : Tagged(g) => Tagged(g)'
    BY <1>1, <1>3 DEF Tagged
  <1>5. AcceptanceKept /\ OutcomesKept
    BY <1>2, <1>4 DEF AcceptanceKept, OutcomesKept, Accepted, Row, Evaluated
  <1>6. PendingIsConsistent'
    BY <1>2, <1>4 DEF IInv, TypeOK, ArchiveTypeOK, PendingIsConsistent, Row, Accepted, IsParentRecord
  <1>7. CommittedOnAccepted'
    <2> SUFFICES ASSUME NEW g \in Children, Tagged(g)'
                 PROVE  tags'[g] \in Genids /\ Accepted(tags[g])'
      BY DEF CommittedOnAccepted
    <2>1. CASE g = Current
      BY <1>1, <1>3, <1>5, <2>1 DEF AcceptanceKept
    <2>2. CASE g # Current
      BY <1>3, <1>5, <2>2, GenidFacts
         DEF AcceptanceKept, IInv, CommittedOnAccepted, Tagged
    <2> QED
      BY <2>1, <2>2
  <1>8. EntriesOK' /\ DOMAIN rows' = Genids
    BY <1>2 DEF IInv, TypeOK, ArchiveTypeOK, EntriesOK
  <1>9. gatePending' \subseteq Genids /\ recordAttempted' \subseteq Genids
    BY <1>2 DEF IInv, TypeOK, ArchiveTypeOK
  <1>10. Tagged(Current)'
    BY <1>1, <1>2, <1>3, NoneFacts DEF Tagged, Current
  <1> QED
    BY <1>4, <1>5, <1>6, <1>7, <1>8, <1>9, <1>10, GenidFacts
       DEF ArchiveKept, IInv

------------------------------------------------------------------------------
(* Every action *)

AttemptsKept == \A g \in Genids : Evaluated(g) => attempts'[g] = attempts[g]

StepOK ==
    /\ ArchiveKept /\ AttemptsKept
    /\ FilesTypeOK' /\ ProcessTypeOK'
    /\ PositionOK' /\ CurrentOK'

(* What the control part of a step rests on. *)
LEMMA ControlFacts ==
    ASSUME IInv
    PROVE  /\ FilesTypeOK /\ ProcessTypeOK /\ PositionOK /\ CurrentOK
           /\ MaxGeneration \in Nat \ {0} /\ ChildrenPerGen \in Nat \ {0}
           /\ NoParents \in [Slots -> OptionalGenid]
           /\ None \in OptionalGenid
  BY SizeAssumption DEF IInv, TypeOK, NoParents, OptionalGenid

(* git worktree add registers a checkout of a known kind.                   *)
LEMMA WorktreeType ==
    \A kind \in TempKinds \cup {"child"}, g \in Genids :
        Worktree(kind, g) \in Worktrees
  BY DEF Worktree, Worktrees

(* Finally blocks only remove checkouts.                                     *)
LEMMA DropType ==
    ASSUME FilesTypeOK, NEW kinds
    PROVE  Drop(kinds) \subseteq Worktrees
  BY DEF Drop, FilesTypeOK

(* A step of the process or of the checkouts alone owes the archive nothing.*)
LEMMA UnchangedArchiveStep ==
    ASSUME IInv, UNCHANGED <<archive, others>>
    PROVE  ArchiveKept /\ AttemptsKept
  BY ArchiveUnchanged DEF others, AttemptsKept, archive

(* A discard of a generation that is not accepted.                           *)
LEMMA DiscardArchiveKept ==
    ASSUME IInv, UNCHANGED tags, NEW g \in Genids, ~Accepted(g),
           NEW p \in OptionalGenid, NEW status,
           AppendEvent(DiscardEvent(g, p, status))
    PROVE  /\ ArchiveKept
           /\ \A h \in Genids : Undecided(h)' <=> Undecided(h)
  <1> DEFINE event == DiscardEvent(g, p, status)
  <1>1. /\ PlainEvent(event) /\ event.genid = g
        /\ "pending_gate_record" \notin DOMAIN event
        /\ \A S : ScanPending(S, event) = S
    BY DiscardIsPlain
  <1> HIDE DEF event
  <1>2. AppendEvent(event)
    BY DEF event
  <1>3. gatePending' = gatePending
    BY <1>1, <1>2 DEF AppendEvent
  <1> QED
    BY <1>1, <1>2, <1>3, PlainArchiveKept

(* _ensure_genesis_evaluated and the baseline's anchor.                     *)
LEMMA GenesisSteps ==
    ASSUME IInv, GenesisStep
    PROVE  StepOK
  <1> USE DEF ProcessTypeOK, FilesTypeOK, PositionOK, Labels,
              OutsideLabels, UncommittedLabels, UnevaluatedLabels,
              EvaluatedLabels, GateLabels, EndLabels, StageNames
  <1>1. CASE GenesisReady
    <2>1. ArchiveKept /\ AttemptsKept
      BY <1>1, UnchangedArchiveStep DEF GenesisReady
    <2>2. FilesTypeOK' /\ ProcessTypeOK' /\ PositionOK' /\ CurrentOK'
      BY <1>1, ControlFacts DEF GenesisReady, Goto, local, others, archive, CurrentOK
    <2> QED
      BY <2>1, <2>2 DEF StepOK
  <1>2. CASE GenesisRefused
    <2>1. ArchiveKept /\ AttemptsKept
      BY <1>2, UnchangedArchiveStep DEF GenesisRefused
    <2>2. FilesTypeOK' /\ ProcessTypeOK' /\ PositionOK' /\ CurrentOK'
      BY <1>2, ControlFacts DEF GenesisRefused, Exit, others, archive, CurrentOK
    <2> QED
      BY <2>1, <2>2 DEF StepOK
  <1>3. CASE GenesisEvaluation
    <2>1. ArchiveKept /\ AttemptsKept
      BY <1>3, UnchangedArchiveStep DEF GenesisEvaluation
    <2>2. Current = Genesis /\ Tagged(Genesis) /\ Undecided(Genesis)
      <3>1. Current = Genesis /\ Tagged(Genesis)
        BY <1>3, GenidFacts DEF GenesisEvaluation, IInv, Current
      <3>2. EntryOK(rows[Genesis])
        BY GenidFacts DEF IInv, EntriesOK
      <3>3. ASSUME ~Undecided(Genesis) PROVE FALSE
        <4>1. CASE Row(Genesis)["outcome"] = Complete
          BY <1>3, <3>2, <3>3, <4>1
             DEF GenesisEvaluation, GenesisComplete, EntryOK, Undecided, Get, Row
        <4>2. CASE Row(Genesis)["outcome"] \in FailedOutcomes
          BY <1>3, <3>3, <4>2
             DEF GenesisEvaluation, GenesisFailed, EvaluationStatus, Undecided,
                 Get, CanonicalOutcomes, FailedOutcomes, Complete
        <4> QED
          BY <3>2, <3>3, <4>1, <4>2 DEF EntryOK, Undecided, Row
      <3> QED
        BY <3>1, <3>3
    <2>3. FilesTypeOK' /\ ProcessTypeOK' /\ PositionOK' /\ CurrentOK'
      BY <1>3, <2>2, ControlFacts, GenidFacts
         DEF GenesisEvaluation, Goto, local, others, archive, CurrentOK, Current,
             Tagged, Undecided, Row
    <2> QED
      BY <2>1, <2>3 DEF StepOK
  <1>4. CASE GenesisAnchorSkipped
    <2>1. ArchiveKept /\ AttemptsKept
      BY <1>4, UnchangedArchiveStep DEF GenesisAnchorSkipped
    <2>2. FilesTypeOK' /\ ProcessTypeOK' /\ PositionOK' /\ CurrentOK'
      BY <1>4, ControlFacts DEF GenesisAnchorSkipped, ToGeneration, others, archive, CurrentOK
    <2> QED
      BY <2>1, <2>2 DEF StepOK
  <1>5. CASE GenesisAnchorStarts
    <2>1. ArchiveKept /\ AttemptsKept
      BY <1>5, UnchangedArchiveStep DEF GenesisAnchorStarts
    <2>2. FilesTypeOK' /\ ProcessTypeOK' /\ PositionOK' /\ CurrentOK'
      BY <1>5, ControlFacts, GenidFacts, WorktreeType
         DEF GenesisAnchorStarts, Goto, local, others, archive, CurrentOK,
             TempKinds
    <2> QED
      BY <2>1, <2>2 DEF StepOK
  <1>6. ASSUME NEW outcome \in Outcomes, GenesisAnchorEvaluated(outcome)
        PROVE  StepOK
    <2>1. ArchiveKept
      BY <1>6, AnchorArchiveKept, GenidFacts, OutcomeAssumption
         DEF GenesisAnchorEvaluated
    <2>2. AttemptsKept
      BY <1>6 DEF GenesisAnchorEvaluated, AttemptsKept
    <2>3. FilesTypeOK' /\ ProcessTypeOK' /\ PositionOK' /\ CurrentOK'
      BY <1>6, ChampionType, ControlFacts, GenidFacts
         DEF GenesisAnchorEvaluated, Exit, ToGeneration, CurrentOK, Drop
    <2> QED
      BY <2>1, <2>2, <2>3 DEF StepOK
  <1> QED
    BY <1>1, <1>2, <1>3, <1>4, <1>5, <1>6 DEF GenesisStep

(* _select_generation_parents.                                              *)
LEMMA SelectSteps ==
    ASSUME IInv, SelectStep
    PROVE  StepOK
  <1> USE DEF ProcessTypeOK, FilesTypeOK, PositionOK, Labels,
              OutsideLabels, UncommittedLabels, UnevaluatedLabels,
              EvaluatedLabels, GateLabels, EndLabels, StageNames
  <1>1. CASE SkipGeneration
    <2>1. ArchiveKept /\ AttemptsKept
      BY <1>1, UnchangedArchiveStep DEF SkipGeneration
    <2>2. FilesTypeOK' /\ ProcessTypeOK' /\ PositionOK' /\ CurrentOK'
      BY <1>1, ControlFacts
         DEF SkipGeneration, ToGeneration, others, archive, CurrentOK
    <2> QED
      BY <2>1, <2>2 DEF StepOK
  <1>2. CASE EnterSelect
    <2>1. ArchiveKept /\ AttemptsKept
      BY <1>2, UnchangedArchiveStep DEF EnterSelect
    <2>2. Current \in Genids
      BY <1>2, ControlFacts, GenidFacts
         DEF EnterSelect, Current, Children, Slots, Generations
    <2>3. FilesTypeOK' /\ ProcessTypeOK' /\ PositionOK' /\ CurrentOK'
      BY <1>2, <2>2, ControlFacts, WorktreeType
         DEF EnterSelect, Goto, local, others, archive, CurrentOK, Generations,
             TempKinds
    <2> QED
      BY <2>1, <2>3 DEF StepOK
  <1>3. CASE SelectFails
    <2>1. ArchiveKept /\ AttemptsKept
      BY <1>3, UnchangedArchiveStep DEF SelectFails, LeaveSelect
    <2>2. FilesTypeOK' /\ ProcessTypeOK' /\ PositionOK' /\ CurrentOK'
      BY <1>3, ControlFacts, DropType
         DEF SelectFails, LeaveSelect, others, archive, CurrentOK
    <2> QED
      BY <2>1, <2>2 DEF StepOK
  <1>4. ASSUME NEW parents \in ParentLists, SelectSucceeds(parents)
        PROVE  StepOK
    <2>1. ArchiveKept /\ AttemptsKept
      BY <1>4, UnchangedArchiveStep DEF SelectSucceeds, LeaveSelect
    <2>2. PICK n \in 1..ChildrenPerGen : parents \in [1..n -> Genids]
      BY DEF ParentLists
    <2>3. parents \in Seq(Genids) /\ Len(parents) = n
      BY <2>2, ControlFacts
    <2>4. \A s \in Slots : ParentFor(parents, s) \in OptionalGenid
      BY <2>2, <2>3, ControlFacts DEF ParentFor, OptionalGenid, Slots
    <2>5. FilesTypeOK' /\ ProcessTypeOK' /\ PositionOK' /\ CurrentOK'
      BY <1>4, <2>4, ControlFacts, DropType
         DEF SelectSucceeds, LeaveSelect, others, archive, CurrentOK
    <2> QED
      BY <2>1, <2>5 DEF StepOK
  <1>5. CASE FailUnselected
    <2>1. /\ Current \in Children /\ Current \in Genids
          /\ GenerationIsPending(Current)
      BY <1>5, ControlFacts, GenidFacts
         DEF FailUnselected, Current, Children, Generations, Slots
    <2>2. ~Accepted(Current)
      BY <2>1, PendingIsNotAccepted DEF IInv, GenerationIsPending, Accepted,
         IsParentRecord, EvaluationStatus, TerminalStatuses
    <2>3. ArchiveKept
      BY <1>5, <2>1, <2>2, DiscardArchiveKept, ControlFacts
         DEF FailUnselected, others
    <2>4. AttemptsKept
      BY <1>5 DEF FailUnselected, others, AttemptsKept
    <2>5. FilesTypeOK' /\ ProcessTypeOK' /\ PositionOK' /\ CurrentOK'
      BY <1>5, <2>1, ControlFacts
         DEF FailUnselected, ToRecord, others, CurrentOK, Current
    <2> QED
      BY <2>3, <2>4, <2>5 DEF StepOK
  <1>6. CASE PassSelected
    <2>1. ArchiveKept /\ AttemptsKept
      BY <1>6, UnchangedArchiveStep DEF PassSelected
    <2>2. FilesTypeOK' /\ ProcessTypeOK' /\ PositionOK' /\ CurrentOK'
      BY <1>6, ControlFacts
         DEF PassSelected, ToSlot, others, archive, CurrentOK, Slots
    <2> QED
      BY <2>1, <2>2 DEF StepOK
  <1>7. CASE EnterChildren
    <2>1. ArchiveKept /\ AttemptsKept
      BY <1>7, UnchangedArchiveStep DEF EnterChildren
    <2>2. FilesTypeOK' /\ ProcessTypeOK' /\ PositionOK' /\ CurrentOK'
      BY <1>7, ControlFacts
         DEF EnterChildren, ToSlot, others, archive, CurrentOK, Slots
    <2> QED
      BY <2>1, <2>2 DEF StepOK
  <1> QED
    BY <1>1, <1>2, <1>3, <1>4, <1>5, <1>6, <1>7 DEF SelectStep

(* The child at hand and the parent the driver has for it.                   *)
LEMMA AtChildFacts ==
    ASSUME IInv, AtChild
    PROVE  /\ Current \in Children /\ Current \in Genids
           /\ ChildParent \in OptionalGenid
  <1>1. Current \in Children /\ Current \in Genids
    BY ControlFacts, GenidFacts
       DEF AtChild, PositionOK, Current, Children, Slots
  <1>2. Get(Row(Current), "parent") \in OptionalGenid
    BY <1>1 DEF IInv, EntriesOK, EntryOK, RowOK, Row
  <1> QED
    BY <1>1, <1>2, ControlFacts DEF ChildParent, AtChild, ProcessTypeOK

(* With an outcome is evaluated, without is undecided: there is no third.    *)
LEMMA EvaluatedOrUndecided ==
    ASSUME IInv, NEW g \in Genids
    PROVE  Evaluated(g) \/ Undecided(g)
  BY DEF IInv, EntriesOK, EntryOK, Evaluated, Undecided, Get, Row,
     CanonicalOutcomes

(* The stages run in the configured order and end in the commit.             *)
LEMMA StageFacts ==
    ASSUME NEW name, \E i \in DOMAIN Stages : Stages[i] = name
    PROVE  \/ StageAfter(name) = "commit"
           \/ /\ StageAfter(name) \in StageNames
              /\ \E i \in DOMAIN Stages : Stages[i] = StageAfter(name)
  <1> DEFINE i == CHOOSE j \in DOMAIN Stages : Stages[j] = name
  <1>1. i \in DOMAIN Stages
    OBVIOUS
  <1>2. StageAfter(name) = IF i = Len(Stages) THEN "commit" ELSE Stages[i + 1]
    BY DEF StageAfter
  <1> HIDE DEF i
  <1>3. CASE i # Len(Stages)
    <2>1. i + 1 \in DOMAIN Stages /\ Stages[i + 1] \in StageNames
      BY <1>1, <1>3, StageAssumption
    <2> QED
      BY <1>2, <1>3, <2>1
  <1> QED
    BY <1>2, <1>3

(* A child starts with the first configured stage.                          *)
LEMMA FirstStage ==
    /\ Stages[1] \in StageNames
    /\ \E i \in DOMAIN Stages : Stages[i] = Stages[1]
  BY StageAssumption

(* _run_child up to the commit, and _resume_tagged_child.                   *)
LEMMA ChildSteps ==
    ASSUME IInv, ChildStep
    PROVE  StepOK
  <1> USE DEF ProcessTypeOK, FilesTypeOK, PositionOK, Labels,
              OutsideLabels, UncommittedLabels, UnevaluatedLabels,
              EvaluatedLabels, GateLabels, EndLabels, StageNames
  <1>1. CASE EnterNextGeneration
    <2>1. ArchiveKept /\ AttemptsKept
      BY <1>1, UnchangedArchiveStep DEF EnterNextGeneration
    <2>2. FilesTypeOK' /\ ProcessTypeOK' /\ PositionOK' /\ CurrentOK'
      BY <1>1, ControlFacts
         DEF EnterNextGeneration, ToGeneration, others, archive, CurrentOK, Generations, Slots
    <2> QED
      BY <2>1, <2>2 DEF StepOK
  <1>2. CASE SkipChild
    <2>1. ArchiveKept /\ AttemptsKept
      BY <1>2, UnchangedArchiveStep DEF SkipChild
    <2>2. FilesTypeOK' /\ ProcessTypeOK' /\ PositionOK' /\ CurrentOK'
      BY <1>2, ControlFacts
         DEF SkipChild, AtChild, NextChild, ToSlot, others, archive, CurrentOK, Slots
    <2> QED
      BY <2>1, <2>2 DEF StepOK
  <1>3. CASE ResumeTaggedChild
    <2>1. ArchiveKept /\ AttemptsKept
      BY <1>3, UnchangedArchiveStep DEF ResumeTaggedChild
    <2>2. /\ Current \in Children /\ Current \in Genids
          /\ ChildParent \in OptionalGenid
      BY <1>3, AtChildFacts DEF ResumeTaggedChild
    <2>3. ~Evaluated(Current) => Undecided(Current)
      BY <2>2, EvaluatedOrUndecided
    <2>4. FilesTypeOK' /\ ProcessTypeOK' /\ PositionOK' /\ CurrentOK'
      BY <1>3, <2>2, <2>3, ControlFacts
         DEF ResumeTaggedChild, others, archive, CurrentOK, Current, Tagged,
             Undecided, Row
    <2> QED
      BY <2>1, <2>4 DEF StepOK
  <1>4. CASE ForkChild
    <2>1. ArchiveKept /\ AttemptsKept
      BY <1>4, UnchangedArchiveStep DEF ForkChild
    <2>2. /\ Current \in Children /\ Current \in Genids
          /\ ChildParent \in Genids
      BY <1>4, AtChildFacts DEF ForkChild, OptionalGenid
    <2>3. /\ pc' \in StageNames /\ \E i \in DOMAIN Stages : Stages[i] = pc'
          /\ parent' \in Genids /\ ~Tagged(Current)
          /\ UNCHANGED <<archive, others, gen, slot, selected, back, faults>>
      BY <1>4, <2>2, FirstStage DEF ForkChild
    <2>4. worktrees' \subseteq Worktrees
      <3>1. Worktree("child", Current) \in Worktrees
        BY <2>2, WorktreeType
      <3>2. worktrees \subseteq Worktrees
        BY ControlFacts
      <3> QED
        BY <1>4, <3>1, <3>2 DEF ForkChild
    <2>5. FilesTypeOK' /\ ProcessTypeOK'
      BY <2>3, <2>4, ControlFacts DEF others, OptionalGenid
    <2>6. PositionOK' /\ CurrentOK'
      BY <2>2, <2>3, ControlFacts
         DEF others, archive, CurrentOK, Current, Tagged
    <2> QED
      BY <2>1, <2>5, <2>6 DEF StepOK
  <1>5. CASE ForkFails
    <2>1. /\ Current \in Children /\ Current \in Genids
          /\ ChildParent \in OptionalGenid
      BY <1>5, AtChildFacts DEF ForkFails
    <2>2. ArchiveKept
      BY <1>5, <2>1, DiscardArchiveKept DEF ForkFails, others, Accepted
    <2>3. AttemptsKept
      BY <1>5 DEF ForkFails, others, AttemptsKept
    <2>4. FilesTypeOK' /\ ProcessTypeOK' /\ PositionOK' /\ CurrentOK'
      BY <1>5, <2>1, ControlFacts DEF ForkFails, others, CurrentOK, Current
    <2> QED
      BY <2>2, <2>3, <2>4 DEF StepOK
  <1>6. CASE StageSucceeds
    <2>1. ArchiveKept /\ AttemptsKept
      BY <1>6, UnchangedArchiveStep DEF StageSucceeds
    <2>2. WithDirtyChild \subseteq Worktrees
      BY ControlFacts DEF WithDirtyChild, Worktrees
    <2>3. pc \in StageNames /\ \E i \in DOMAIN Stages : Stages[i] = pc
      BY <1>6, ControlFacts DEF StageSucceeds
    <2>4. \/ StageAfter(pc) = "commit"
          \/ /\ StageAfter(pc) \in StageNames
             /\ \E i \in DOMAIN Stages : Stages[i] = StageAfter(pc)
      BY <2>3, StageFacts
    <2>5. /\ \/ pc' = "commit"
             \/ pc' \in StageNames /\ \E i \in DOMAIN Stages : Stages[i] = pc'
          /\ UNCHANGED <<local, faults, archive, others>>
          /\ worktrees' \subseteq Worktrees
      BY <1>6, <2>2, <2>4, ControlFacts DEF StageSucceeds, Goto
    <2>6. /\ Current \in Children /\ ~Tagged(Current) /\ parent \in Genids
      BY <2>3, ControlFacts DEF CurrentOK
    <2>7. FilesTypeOK' /\ ProcessTypeOK'
      BY <2>5, ControlFacts DEF local, others
    <2>8. PositionOK' /\ CurrentOK'
      BY <2>5, <2>6, ControlFacts
         DEF local, others, archive, CurrentOK, Current, Tagged
    <2> QED
      BY <2>1, <2>7, <2>8 DEF StepOK
  <1>7. ASSUME NEW status, StageDiscards(status)
        PROVE  StepOK
    <2>1. /\ Current \in Children /\ Current \in Genids
          /\ ~Accepted(Current) /\ parent \in OptionalGenid
      BY <1>7, ControlFacts, GenidFacts DEF StageDiscards, CurrentOK, Accepted
    <2>2. ArchiveKept
      BY <1>7, <2>1, DiscardArchiveKept DEF StageDiscards, others
    <2>3. AttemptsKept
      BY <1>7 DEF StageDiscards, others, AttemptsKept
    <2>4. FilesTypeOK' /\ ProcessTypeOK' /\ PositionOK' /\ CurrentOK'
      BY <1>7, <2>1, ControlFacts
         DEF StageDiscards, ToRecord, others, CurrentOK, Current
    <2> QED
      BY <2>2, <2>3, <2>4 DEF StepOK
  <1>8. CASE CommitSnapshot
    <2>1. ArchiveKept /\ AttemptsKept
      BY <1>8, UnchangedArchiveStep DEF CommitSnapshot
    <2>2. /\ Current \in Genids /\ Current \in Children
          /\ parent \in Genids /\ ~Tagged(Current)
      BY <1>8, ControlFacts, GenidFacts DEF CommitSnapshot, CurrentOK
    <2>3. Worktree("child", Current) \in Worktrees
      BY <2>2, WorktreeType
    <2>4. worktrees' \subseteq Worktrees
      BY <1>8, <2>3, ControlFacts DEF CommitSnapshot
    <2>5. Accepted(parent)' /\ DOMAIN Row(Current)' = {} /\ ~Tagged(Current)'
      BY <1>8, <2>2
         DEF CommitSnapshot, Goto, local, others, archive, Accepted, Row, Tagged,
             Current
    <2>6. FilesTypeOK' /\ ProcessTypeOK'
      BY <1>8, <2>4, ControlFacts DEF CommitSnapshot, Goto, local, others
    <2>7. PositionOK' /\ CurrentOK'
      BY <1>8, <2>2, <2>5, ControlFacts
         DEF CommitSnapshot, Goto, local, others, CurrentOK, Current
    <2> QED
      BY <2>1, <2>6, <2>7 DEF StepOK
  <1>9. ASSUME NEW status, CommitRejects(status)
        PROVE  StepOK
    <2>1. /\ Current \in Children /\ Current \in Genids
          /\ ~Accepted(Current) /\ parent \in OptionalGenid
      BY <1>9, ControlFacts, GenidFacts DEF CommitRejects, CurrentOK, Accepted
    <2>2. ArchiveKept
      BY <1>9, <2>1, DiscardArchiveKept DEF CommitRejects, others
    <2>3. AttemptsKept
      BY <1>9 DEF CommitRejects, others, AttemptsKept
    <2>4. FilesTypeOK' /\ ProcessTypeOK' /\ PositionOK' /\ CurrentOK'
      BY <1>9, <2>1, ControlFacts DEF CommitRejects, others, CurrentOK, Current
    <2> QED
      BY <2>2, <2>3, <2>4 DEF StepOK
  <1>10. CASE CreateTag
    <2>1. ArchiveKept /\ Tagged(Current)'
      BY <1>10, TagArchiveKept
    <2>2. AttemptsKept
      BY <1>10 DEF CreateTag, AttemptsKept
    <2>3. Current \in Genids /\ parent \in OptionalGenid /\ Undecided(Current)
      BY <1>10, ControlFacts, GenidFacts DEF CreateTag, CurrentOK, Undecided
    <2>4. FilesTypeOK' /\ ProcessTypeOK'
      BY <1>10, <2>3, ControlFacts DEF CreateTag, Goto, local
    <2>5. PositionOK' /\ CurrentOK'
      BY <1>10, <2>1, <2>3, ControlFacts
         DEF CreateTag, Goto, local, archive, CurrentOK, Current, Undecided, Row
    <2> QED
      BY <2>1, <2>2, <2>4, <2>5 DEF StepOK
  <1>11. CASE AppendLineage
    <2> DEFINE event == CommitEvent(Current, parent)
    <2>1. /\ Current \in Genids /\ parent \in OptionalGenid
          /\ Tagged(Current) /\ Undecided(Current)
      BY <1>11, ControlFacts DEF AppendLineage, CurrentOK
    <2>2. /\ PlainEvent(event) /\ event.genid = Current
          /\ "pending_gate_record" \notin DOMAIN event
          /\ \A S : ScanPending(S, event) = S
      BY <2>1, CommitIsPlain
    <2>3. AppendEvent(event) /\ UNCHANGED <<tags, attempts>>
      BY <1>11 DEF AppendLineage, others
    <2> HIDE DEF event
    <2>4. gatePending' = gatePending
      BY <2>2, <2>3 DEF AppendEvent
    <2>5. /\ ArchiveKept
          /\ \A g \in Genids : Undecided(g)' <=> Undecided(g)
      BY <2>1, <2>2, <2>3, <2>4, UndecidedIsOpen, PlainArchiveKept
    <2>6. AttemptsKept
      BY <2>3 DEF AttemptsKept
    <2>7. Undecided(Current)' /\ Tagged(Current)'
      BY <1>11, <2>1, <2>3, <2>5
         DEF AppendLineage, Goto, local, Current, Tagged, Undecided, Row
    <2>8. FilesTypeOK' /\ ProcessTypeOK' /\ PositionOK' /\ CurrentOK'
      BY <1>11, <2>7, ControlFacts
         DEF AppendLineage, Goto, local, others, CurrentOK, Current
    <2> QED
      BY <2>5, <2>6, <2>8 DEF StepOK
  <1>12. CASE LeaveWorktree
    <2>1. ArchiveKept /\ AttemptsKept
      BY <1>12, UnchangedArchiveStep DEF LeaveWorktree
    <2>2. FilesTypeOK' /\ ProcessTypeOK' /\ PositionOK' /\ CurrentOK'
      BY <1>12, ControlFacts, DropType
         DEF LeaveWorktree, Goto, local, others, archive, CurrentOK, Current,
             Tagged, Undecided, Row
    <2> QED
      BY <2>1, <2>2 DEF StepOK
  <1> QED
    BY <1>1, <1>2, <1>3, <1>4, <1>5, <1>6, <1>7, <1>8, <1>9, <1>10, <1>11,
       <1>12 DEF ChildStep

(* A child that its row gives no parent is evaluated under the champion.     *)
LEMMA EvaluationParentType ==
    ASSUME IInv, NEW g \in Genids
    PROVE  EvaluationParent(g) \in OptionalGenid
  <1>1. Get(Row(g), "parent") \in OptionalGenid
    BY DEF IInv, EntriesOK, EntryOK, RowOK, Row
  <1> QED
    BY <1>1, ChampionType DEF EvaluationParent

(* A generation that is not the seed is a child of the current generation.  *)
LEMMA ChildFacts ==
    ASSUME Current \in Genids, Current # Genesis, ChildrenPerGen \in Nat
    PROVE  /\ Current \in Children
           /\ gen \in Generations /\ slot \in Slots /\ slot + 1 \in 0..ChildrenPerGen
  <1>1. Current \in Children
    BY GenidFacts
  <1> QED
    BY <1>1 DEF Current, Children, Slots

(* The second look is at a child with a tag and without a decision.         *)
LEMMA RecheckFacts ==
    ASSUME IInv, RecheckRejects
    PROVE  /\ Current \in Children /\ Current \in Genids
           /\ gen \in Generations /\ slot + 1 \in 0..ChildrenPerGen
           /\ Tagged(Current) /\ Undecided(Current) /\ ~Accepted(Current)
           /\ EvaluationParent(Current) \in OptionalGenid
  <1>1. /\ Current \in Genids /\ Current # Genesis /\ pc = "evalstart"
        /\ Tagged(Current) /\ Undecided(Current)
    BY ControlFacts
       DEF RecheckRejects, LineageLost, CurrentOK, PositionOK, UnevaluatedLabels
  <1>2. ~Accepted(Current)
    BY <1>1, UndecidedIsOpen DEF Accepted
  <1>3. EvaluationParent(Current) \in OptionalGenid
    BY <1>1, EvaluationParentType
  <1> QED
    BY <1>1, <1>2, <1>3, ChildFacts, ControlFacts, SizeAssumption

(* eval_child and the evaluation of the seed.                               *)
LEMMA EvaluationSteps ==
    ASSUME IInv, EvaluationStep
    PROVE  StepOK
  <1> USE DEF ProcessTypeOK, FilesTypeOK, PositionOK, Labels,
              OutsideLabels, UncommittedLabels, UnevaluatedLabels,
              EvaluatedLabels, GateLabels, EndLabels, StageNames
  <1>1. CASE StartEvaluation
    <2>1. /\ Current \in Genids /\ Tagged(Current) /\ Undecided(Current)
      BY <1>1, ControlFacts DEF StartEvaluation, CurrentOK
    <2>2. ArchiveKept
      BY <1>1, ArchiveUnchanged DEF StartEvaluation
    <2>3. attempts' \in [Genids -> Nat] /\ AttemptsKept
      BY <1>1, <2>1, UndecidedIsOpen, ControlFacts DEF StartEvaluation, AttemptsKept
    <2>4. worktrees' \subseteq Worktrees
      BY <1>1, <2>1, WorktreeType, ControlFacts DEF StartEvaluation, TempKinds
    <2>5. FilesTypeOK' /\ ProcessTypeOK'
      BY <1>1, <2>3, <2>4, ControlFacts DEF StartEvaluation, Goto, local
    <2>6. PositionOK' /\ CurrentOK'
      BY <1>1, <2>1, ControlFacts
         DEF StartEvaluation, Goto, local, archive, CurrentOK, Current, Tagged,
             Undecided, Row
    <2> QED
      BY <2>2, <2>3, <2>5, <2>6 DEF StepOK
  <1>2. ASSUME NEW outcome \in Outcomes, NEW score \in Scores,
               FinishEvaluation(outcome, score)
        PROVE  StepOK
    <2>1. /\ Current \in Genids /\ Tagged(Current) /\ Undecided(Current)
      BY <1>2, ControlFacts DEF FinishEvaluation, CurrentOK
    <2>2. /\ EvaluationParent(Current) \in OptionalGenid
          /\ outcome \in FailedOutcomes \cup {Complete}
      BY <2>1, EvaluationParentType, OutcomeAssumption
    <2>3. /\ ArchiveKept
          /\ Get(Row(Current), "outcome")' = outcome
          /\ outcome = Complete /\ Current # Genesis => Current \in gatePending'
      <3>1. PICK g \in Genids, p \in OptionalGenid :
                g = Current /\ p = EvaluationParent(Current)
        BY <2>1, <2>2
      <3>2. /\ AppendEvent(EvaluationEvent(g, p, outcome, score))
            /\ UNCHANGED <<tags, gen, slot>>
        BY <1>2, <3>1 DEF FinishEvaluation, others, Goto, local
      <3>3. Tagged(g) /\ Undecided(g)
        BY <2>1, <3>1
      <3>4. /\ ArchiveKept
            /\ Get(Row(g), "outcome")' = outcome
            /\ outcome = Complete /\ g # Genesis => g \in gatePending'
        BY <2>2, <3>2, <3>3, EvaluationArchiveKept
      <3>5. g = Current'
        BY <3>1, <3>2 DEF Current
      <3> QED
        BY <3>1, <3>4, <3>5 DEF Row
    <2>4. AttemptsKept
      BY <1>2 DEF FinishEvaluation, others, AttemptsKept
    <2>5. FilesTypeOK' /\ ProcessTypeOK' /\ PositionOK' /\ CurrentOK'
      BY <1>2, <2>1, <2>3, ControlFacts, DropType, GenidFacts
         DEF FinishEvaluation, Goto, local, others, CurrentOK, Current
    <2> QED
      BY <2>3, <2>4, <2>5 DEF StepOK
  <1>3. CASE AppendReceipt
    <2>1. /\ ArchiveKept
          /\ \A g \in Genids : Get(Row(g), "outcome")' = Get(Row(g), "outcome")
      BY <1>3, ReceiptArchiveKept
    <2>2. AttemptsKept
      BY <1>3 DEF AppendReceipt, others, AttemptsKept
    <2>3. /\ Current \in Genids
          /\ UNCHANGED <<gen, slot, gatePending>>
          /\ Current \in Children /\ Get(Row(Current), "outcome") = Complete
                => Current \in gatePending
      BY <1>3, ControlFacts DEF AppendReceipt, CurrentOK, Goto, local
    <2>4. Get(Row(Current), "outcome")' = Get(Row(Current), "outcome")
      BY <2>1, <2>3 DEF Row, Current
    <2>5. FilesTypeOK' /\ ProcessTypeOK' /\ PositionOK' /\ CurrentOK'
      BY <1>3, <2>3, <2>4, ControlFacts
         DEF AppendReceipt, Goto, local, others, CurrentOK, Current
    <2> QED
      BY <2>1, <2>2, <2>5 DEF StepOK
  <1>4. CASE MaterializeBestEver
    <2>1. ArchiveKept /\ AttemptsKept
      BY <1>4, ArchiveUnchanged DEF MaterializeBestEver, AttemptsKept
    <2>2. FilesTypeOK'
      BY <1>4, ControlFacts, ChampionType DEF MaterializeBestEver
    <2>3. /\ Current \in Genids
          /\ Current \in Children /\ Get(Row(Current), "outcome") = Complete
                => Current \in gatePending
      BY <1>4, ControlFacts DEF MaterializeBestEver, CurrentOK
    <2>4. ProcessTypeOK' /\ PositionOK' /\ CurrentOK'
      <3>1. CASE Exit /\ UNCHANGED faults
        BY <1>4, <3>1, ControlFacts
           DEF MaterializeBestEver, Exit, archive, CurrentOK
      <3>2. CASE Current = Genesis /\ Goto("anchor")
        BY <1>4, <3>2, ControlFacts, GenidFacts
           DEF MaterializeBestEver, Goto, local, archive, CurrentOK, Current
      <3>3. CASE /\ Current # Genesis /\ Goto("gateenter")
                 /\ Get(Row(Current), "outcome") = Complete
        <4>1. Current \in Children /\ Current \in gatePending
          BY <2>3, <3>3, GenidFacts
        <4> QED
          BY <1>4, <3>3, <4>1, ControlFacts
             DEF MaterializeBestEver, Goto, local, archive, CurrentOK, Current
      <3>4. CASE Current # Genesis /\ NextChild /\ UNCHANGED faults
        BY <1>4, <2>3, <3>4, ChildFacts, ControlFacts
           DEF MaterializeBestEver, NextChild, ToSlot, archive, CurrentOK
      <3> QED
        BY <1>4, <3>1, <3>2, <3>3, <3>4 DEF MaterializeBestEver
    <2> QED
      BY <2>1, <2>2, <2>4 DEF StepOK
  <1>5. CASE RecheckRejects
    <2>1. ArchiveKept
      BY <1>5, RecheckFacts, DiscardArchiveKept DEF RecheckRejects, others
    <2>2. AttemptsKept
      BY <1>5 DEF RecheckRejects, others, AttemptsKept
    <2>3. FilesTypeOK' /\ ProcessTypeOK' /\ PositionOK' /\ CurrentOK'
      BY <1>5, RecheckFacts, ControlFacts
         DEF RecheckRejects, NextChild, ToSlot, others, CurrentOK
    <2> QED
      BY <2>1, <2>2, <2>3 DEF StepOK
  <1> QED
    BY <1>1, <1>2, <1>3, <1>4, <1>5 DEF EvaluationStep

(* _run_gate_and_record.                                                    *)
LEMMA GateSteps ==
    ASSUME IInv, GateStep
    PROVE  StepOK
  <1> USE DEF ProcessTypeOK, FilesTypeOK, PositionOK, Labels,
              OutsideLabels, UncommittedLabels, UnevaluatedLabels,
              EvaluatedLabels, GateLabels, EndLabels, StageNames
  <1>1. CASE EnterGate
    <2>1. ArchiveKept /\ AttemptsKept
      BY <1>1, ArchiveUnchanged DEF EnterGate, AttemptsKept
    <2>2. /\ Current \in Children /\ Current \in Genids
          /\ Current \in gatePending /\ MatchedParent \in OptionalGenid
      BY <1>1, ControlFacts, GenidFacts DEF EnterGate, CurrentOK, MatchedParent
    <2>3. /\ worktrees' \subseteq Worktrees
          /\ gateInput' \in [Genids -> OptionalGenid]
      BY <1>1, <2>2, WorktreeType, ControlFacts DEF EnterGate, TempKinds
    <2>4. FilesTypeOK' /\ ProcessTypeOK'
      BY <1>1, <2>3, ControlFacts DEF EnterGate, Goto, local
    <2>5. PositionOK' /\ CurrentOK'
      BY <1>1, <2>2, ControlFacts
         DEF EnterGate, Goto, local, archive, CurrentOK, Current
    <2> QED
      BY <2>1, <2>4, <2>5 DEF StepOK
  <1>2. CASE GateFails
    <2>1. /\ Current \in Children /\ Current \in Genids
          /\ ~Accepted(Current) /\ parent \in OptionalGenid
      BY <1>2, ControlFacts, GenidFacts, PendingIsNotAccepted
         DEF GateFails, CurrentOK, IInv
    <2>2. ArchiveKept
      BY <1>2, <2>1, DiscardArchiveKept DEF GateFails, others
    <2>3. AttemptsKept
      BY <1>2 DEF GateFails, others, AttemptsKept
    <2>4. FilesTypeOK' /\ ProcessTypeOK' /\ PositionOK' /\ CurrentOK'
      BY <1>2, <2>1, ControlFacts
         DEF GateFails, ToRecord, others, CurrentOK, Current
    <2> QED
      BY <2>2, <2>3, <2>4 DEF StepOK
  <1>3. ASSUME NEW accept \in BOOLEAN, GateDecides(accept)
        PROVE  StepOK
    <2> DEFINE event == VerdictEvent(Current, accept)
    <2>1. /\ Current \in Children /\ Current \in Genids /\ ~Accepted(Current)
      BY <1>3, ControlFacts, GenidFacts, PendingIsNotAccepted
         DEF GateDecides, CurrentOK, IInv
    <2>2. /\ PlainEvent(event) /\ event.genid = Current
          /\ \A S : ScanPending(S, event) = S \ {Current}
      BY <2>1, VerdictIsPlain
    <2>3. AppendEvent(event) /\ UNCHANGED <<tags, attempts>>
      BY <1>3 DEF GateDecides, others
    <2> HIDE DEF event
    <2>4. gatePending' = gatePending \ {Current}
      BY <2>2, <2>3 DEF AppendEvent
    <2>5. ArchiveKept
      BY <2>1, <2>2, <2>3, <2>4, PlainArchiveKept
    <2>6. AttemptsKept
      BY <2>3 DEF AttemptsKept
    <2>7. FilesTypeOK' /\ ProcessTypeOK' /\ PositionOK' /\ CurrentOK'
      BY <1>3, <2>1, ControlFacts
         DEF GateDecides, ToRecord, others, CurrentOK, Current
    <2> QED
      BY <2>5, <2>6, <2>7 DEF StepOK
  <1> QED
    BY <1>1, <1>2, <1>3 DEF GateStep

(* The record operator's own line changes no acceptance.                     *)
LEMMA FinishRecordStep ==
    ASSUME IInv, NEW event,
           event = RecordedEvent(Current) \/ event = RecordErrorEvent(Current),
           FinishRecord(event)
    PROVE  StepOK
  <1> USE DEF ProcessTypeOK, FilesTypeOK, PositionOK, Labels,
              OutsideLabels, UncommittedLabels, UnevaluatedLabels,
              EvaluatedLabels, GateLabels, EndLabels, StageNames
  <1>1. Current \in Children /\ Current \in Genids
    BY ControlFacts, GenidFacts DEF FinishRecord
  <1>2. /\ PlainEvent(event) /\ event.genid = Current
        /\ DOMAIN event \subseteq {"genid", "record_attempted", "record_error"}
        /\ \A S : ScanPending(S, event) \subseteq S
    BY <1>1, RecordIsPlain
  <1>3. AppendEvent(event) /\ UNCHANGED <<tags, attempts>>
    BY DEF FinishRecord, others
  <1>4. /\ gatePending' \subseteq gatePending
        /\ DOMAIN event \cap AcceptanceKeys = {}
        /\ "pending_gate_record" \notin DOMAIN event
    BY <1>2, <1>3 DEF AppendEvent, AcceptanceKeys
  <1>5. ArchiveKept
    BY <1>1, <1>2, <1>3, <1>4, PlainArchiveKept
  <1>6. AttemptsKept
    BY <1>3 DEF AttemptsKept
  <1>7. FilesTypeOK' /\ ProcessTypeOK' /\ PositionOK' /\ CurrentOK'
    BY <1>1, ControlFacts, DropType
       DEF FinishRecord, Goto, local, others, CurrentOK, Current
  <1> QED
    BY <1>5, <1>6, <1>7 DEF StepOK

(* _run_terminal_record and the returns from it.                            *)
LEMMA RecordSteps ==
    ASSUME IInv, RecordStep
    PROVE  StepOK
  <1> USE DEF ProcessTypeOK, FilesTypeOK, PositionOK, Labels,
              OutsideLabels, UncommittedLabels, UnevaluatedLabels,
              EvaluatedLabels, GateLabels, EndLabels, StageNames
  <1>1. CASE SkipRecord
    <2>1. ArchiveKept /\ AttemptsKept
      BY <1>1, UnchangedArchiveStep DEF SkipRecord
    <2>2. FilesTypeOK' /\ ProcessTypeOK' /\ PositionOK' /\ CurrentOK'
      BY <1>1, ControlFacts
         DEF SkipRecord, Goto, local, others, archive, CurrentOK, Current
    <2> QED
      BY <2>1, <2>2 DEF StepOK
  <1>2. CASE StartRecord
    <2>1. ArchiveKept /\ AttemptsKept
      BY <1>2, UnchangedArchiveStep DEF StartRecord
    <2>2. /\ Current \in Children /\ Current \in Genids
          /\ worktrees' \subseteq Worktrees
      BY <1>2, ControlFacts, GenidFacts, WorktreeType DEF StartRecord, TempKinds
    <2>3. FilesTypeOK' /\ ProcessTypeOK' /\ PositionOK' /\ CurrentOK'
      BY <1>2, <2>2, ControlFacts
         DEF StartRecord, Goto, local, others, archive, CurrentOK, Current
    <2> QED
      BY <2>1, <2>3 DEF StepOK
  <1>3. CASE RecordRefMissing
    <2>1. ArchiveKept /\ AttemptsKept
      BY <1>3, UnchangedArchiveStep DEF RecordRefMissing
    <2>2. FilesTypeOK' /\ ProcessTypeOK' /\ PositionOK' /\ CurrentOK'
      BY <1>3, ControlFacts
         DEF RecordRefMissing, Exit, others, archive, CurrentOK
    <2> QED
      BY <2>1, <2>2 DEF StepOK
  <1>4. CASE RecordSucceeds \/ RecordFails
    BY <1>4, FinishRecordStep DEF RecordSucceeds, RecordFails
  <1>5. CASE LeaveUnselected
    <2>1. ArchiveKept /\ AttemptsKept
      BY <1>5, UnchangedArchiveStep DEF LeaveUnselected
    <2>2. /\ gen \in Generations /\ slot \in Slots
          /\ slot + 1 \in 0..ChildrenPerGen
      BY <1>5, ChildFacts, GenidFacts, ControlFacts DEF LeaveUnselected
    <2>3. FilesTypeOK' /\ ProcessTypeOK' /\ PositionOK' /\ CurrentOK'
      BY <1>5, <2>2, ControlFacts, DropType, ChampionType
         DEF LeaveUnselected, ToSlot, others, archive, CurrentOK
    <2> QED
      BY <2>1, <2>3 DEF StepOK
  <1>6. CASE LeaveChild
    <2>1. ArchiveKept /\ AttemptsKept
      BY <1>6, UnchangedArchiveStep DEF LeaveChild
    <2>2. /\ gen \in Generations /\ slot \in Slots
          /\ slot + 1 \in 0..ChildrenPerGen
      BY <1>6, ChildFacts, GenidFacts, ControlFacts DEF LeaveChild
    <2>3. FilesTypeOK' /\ ProcessTypeOK' /\ PositionOK' /\ CurrentOK'
      BY <1>6, <2>2, ControlFacts, DropType, ChampionType
         DEF LeaveChild, NextChild, ToSlot, others, archive, CurrentOK
    <2> QED
      BY <2>1, <2>3 DEF StepOK
  <1>7. CASE LeaveGate
    <2>1. ArchiveKept /\ AttemptsKept
      BY <1>7, ArchiveUnchanged DEF LeaveGate, AttemptsKept
    <2>2. /\ gen \in Generations /\ slot \in Slots
          /\ slot + 1 \in 0..ChildrenPerGen
      BY <1>7, ChildFacts, GenidFacts, ControlFacts DEF LeaveGate
    <2>3. FilesTypeOK' /\ ProcessTypeOK' /\ PositionOK' /\ CurrentOK'
      BY <1>7, <2>2, ControlFacts, DropType, ChampionType
         DEF LeaveGate, NextChild, ToSlot, archive, CurrentOK
    <2> QED
      BY <2>1, <2>3 DEF StepOK
  <1> QED
    BY <1>1, <1>2, <1>3, <1>4, <1>5, <1>6, <1>7 DEF RecordStep

(* _maybe_final_anchor and the end of the run.                              *)
LEMMA EndSteps ==
    ASSUME IInv, EndStep
    PROVE  StepOK
  <1> USE DEF ProcessTypeOK, FilesTypeOK, PositionOK, Labels,
              OutsideLabels, UncommittedLabels, UnevaluatedLabels,
              EvaluatedLabels, GateLabels, EndLabels, StageNames
  <1>1. CASE FinalAnchorStarts
    <2>1. ArchiveKept /\ AttemptsKept
      BY <1>1, UnchangedArchiveStep DEF FinalAnchorStarts
    <2>2. Champion \in Genids
      BY <1>1, ChampionType DEF FinalAnchorStarts, AnchorWanted, OptionalGenid
    <2>3. worktrees' \subseteq Worktrees /\ parent' \in Genids
      BY <1>1, <2>2, WorktreeType, ControlFacts DEF FinalAnchorStarts, TempKinds
    <2>4. FilesTypeOK' /\ ProcessTypeOK' /\ PositionOK' /\ CurrentOK'
      BY <1>1, <2>3, ControlFacts
         DEF FinalAnchorStarts, others, archive, CurrentOK, OptionalGenid
    <2> QED
      BY <2>1, <2>4 DEF StepOK
  <1>2. ASSUME NEW outcome \in Outcomes, FinalAnchorEvaluated(outcome)
        PROVE  StepOK
    <2>1. ArchiveKept
      BY <1>2, AnchorArchiveKept, OutcomeAssumption, ControlFacts
         DEF FinalAnchorEvaluated
    <2>2. AttemptsKept
      BY <1>2 DEF FinalAnchorEvaluated, AttemptsKept
    <2>3. FilesTypeOK' /\ ProcessTypeOK' /\ PositionOK' /\ CurrentOK'
      BY <1>2, ChampionType, DropType, ControlFacts
         DEF FinalAnchorEvaluated, Exit, CurrentOK
    <2> QED
      BY <2>1, <2>2, <2>3 DEF StepOK
  <1>3. CASE FinishRun
    <2>1. ArchiveKept /\ AttemptsKept
      BY <1>3, UnchangedArchiveStep DEF FinishRun
    <2>2. FilesTypeOK' /\ ProcessTypeOK' /\ PositionOK' /\ CurrentOK'
      BY <1>3, ControlFacts
         DEF FinishRun, Exit, others, archive, CurrentOK
    <2> QED
      BY <2>1, <2>2 DEF StepOK
  <1> QED
    BY <1>1, <1>2, <1>3 DEF EndStep

(* A killed driver leaves every file as it was, at any point.                *)
LEMMA FaultSteps ==
    ASSUME IInv, FaultStep
    PROVE  StepOK
  <1> USE DEF ProcessTypeOK, FilesTypeOK, PositionOK, Labels,
              OutsideLabels, UncommittedLabels, UnevaluatedLabels,
              EvaluatedLabels, GateLabels, EndLabels, StageNames
  <1>1. CASE Abort
    <2>1. ArchiveKept /\ AttemptsKept
      BY <1>1, ArchiveUnchanged DEF Abort, AttemptsKept
    <2>2. faults' \in 0..MaxFaults
      BY <1>1, FaultAssumption, ControlFacts DEF Abort
    <2>3. FilesTypeOK' /\ ProcessTypeOK' /\ PositionOK' /\ CurrentOK'
      BY <1>1, <2>2, ChampionType, ControlFacts DEF Abort, Exit, archive, CurrentOK
    <2> QED
      BY <2>1, <2>3 DEF StepOK
  <1>2. CASE InterruptEvaluation
    <2>1. /\ Current \in Genids /\ Tagged(Current) /\ Undecided(Current)
      BY <1>2, ControlFacts DEF InterruptEvaluation, CurrentOK
    <2>2. PICK g \in Genids, p \in OptionalGenid :
              g = Current /\ p = EvaluationParent(Current)
      BY <2>1, EvaluationParentType
    <2>3. /\ AppendEvent(EvaluationEvent(g, p, "cancelled", None))
          /\ UNCHANGED <<tags, attempts, gen, slot>>
      BY <1>2, <2>2 DEF InterruptEvaluation, others
    <2>4. "cancelled" \in FailedOutcomes /\ "cancelled" # Complete
      BY DEF FailedOutcomes, Complete
    <2>5. ArchiveKept /\ Get(Row(g), "outcome")' = "cancelled"
      BY <2>1, <2>2, <2>3, <2>4, EvaluationArchiveKept
    <2>6. Get(Row(Current), "outcome")' # Complete
      BY <2>2, <2>3, <2>4, <2>5 DEF Row, Current
    <2>7. AttemptsKept
      BY <2>3 DEF AttemptsKept
    <2>8. faults' \in 0..MaxFaults
      BY <1>2, FaultAssumption, ControlFacts DEF InterruptEvaluation
    <2>9. FilesTypeOK' /\ ProcessTypeOK' /\ PositionOK' /\ CurrentOK'
      BY <1>2, <2>1, <2>6, <2>8, DropType, ControlFacts
         DEF InterruptEvaluation, others, CurrentOK, Current
    <2> QED
      BY <2>5, <2>7, <2>9 DEF StepOK
  <1>3. ASSUME NEW edited \in BOOLEAN, Crash(edited)
        PROVE  StepOK
    <2>1. ArchiveKept /\ AttemptsKept
      BY <1>3, UnchangedArchiveStep DEF Crash
    <2>2. WithDirtyChild \subseteq Worktrees
      BY ControlFacts DEF WithDirtyChild, Worktrees
    <2>3. faults' \in 0..MaxFaults
      BY <1>3, FaultAssumption, ControlFacts DEF Crash
    <2>4. FilesTypeOK' /\ ProcessTypeOK' /\ PositionOK' /\ CurrentOK'
      BY <1>3, <2>2, <2>3, ControlFacts DEF Crash, Exit, others, archive, CurrentOK
    <2> QED
      BY <2>1, <2>4 DEF StepOK
  <1> QED
    BY <1>1, <1>2, <1>3 DEF FaultStep

(* What people do between runs touches checkouts only.                       *)
LEMMA PeopleSteps ==
    ASSUME IInv, PeopleStep
    PROVE  StepOK
  <1> USE DEF ProcessTypeOK, FilesTypeOK, PositionOK, Labels,
              OutsideLabels, UncommittedLabels, UnevaluatedLabels,
              EvaluatedLabels, GateLabels, EndLabels, StageNames
  <1>1. CASE StartRun
    <2>1. ArchiveKept /\ AttemptsKept
      BY <1>1, UnchangedArchiveStep DEF StartRun
    <2>2. FilesTypeOK' /\ ProcessTypeOK' /\ PositionOK' /\ CurrentOK'
      BY <1>1, ControlFacts
         DEF StartRun, local, others, archive, CurrentOK
    <2> QED
      BY <2>1, <2>2 DEF StepOK
  <1>2. CASE Repair
    <2>1. ArchiveKept /\ AttemptsKept
      BY <1>2, UnchangedArchiveStep DEF Repair
    <2>2. worktrees' \subseteq Worktrees
      BY <1>2, ControlFacts DEF Repair, Worktrees
    <2>3. FilesTypeOK' /\ ProcessTypeOK' /\ PositionOK' /\ CurrentOK'
      BY <1>2, <2>2, ControlFacts DEF Repair, local, others, archive, CurrentOK
    <2> QED
      BY <2>1, <2>3 DEF StepOK
  <1>3. CASE TemporaryFilesDeleted
    <2>1. ArchiveKept /\ AttemptsKept
      BY <1>3, UnchangedArchiveStep DEF TemporaryFilesDeleted
    <2>2. worktrees' \subseteq Worktrees
      <3>1. \A w \in Worktrees : [w EXCEPT !.dir = FALSE] \in Worktrees
        BY DEF Worktrees
      <3>2. worktrees \subseteq Worktrees
        BY ControlFacts
      <3> QED
        BY <1>3, <3>1, <3>2 DEF TemporaryFilesDeleted
    <2>3. FilesTypeOK' /\ ProcessTypeOK' /\ PositionOK' /\ CurrentOK'
      BY <1>3, <2>2, ControlFacts DEF TemporaryFilesDeleted, local, others, archive, CurrentOK
    <2> QED
      BY <2>1, <2>3 DEF StepOK
  <1>4. CASE EditsPreserved
    <2>1. ArchiveKept /\ AttemptsKept
      BY <1>4, UnchangedArchiveStep DEF EditsPreserved
    <2>2. worktrees' \subseteq Worktrees
      <3>1. \A w \in Worktrees : [w EXCEPT !.dirty = FALSE] \in Worktrees
        BY DEF Worktrees
      <3>2. worktrees \subseteq Worktrees
        BY ControlFacts
      <3> QED
        BY <1>4, <3>1, <3>2 DEF EditsPreserved
    <2>3. FilesTypeOK' /\ ProcessTypeOK' /\ PositionOK' /\ CurrentOK'
      BY <1>4, <2>2, ControlFacts DEF EditsPreserved, local, others, archive, CurrentOK
    <2> QED
      BY <2>1, <2>3 DEF StepOK
  <1> QED
    BY <1>1, <1>2, <1>3, <1>4 DEF PeopleStep

------------------------------------------------------------------------------
(* The invariant and what follows from it *)

(* Every action of the driver, of a fault and of people.                    *)
LEMMA NextSteps ==
    ASSUME IInv, Next
    PROVE  StepOK
  BY GenesisSteps, SelectSteps, ChildSteps, EvaluationSteps, GateSteps,
     RecordSteps, EndSteps, FaultSteps, PeopleSteps DEF Next, DriverStep

(* A step that owes what StepOK says keeps the whole invariant.              *)
LEMMA StepKeepsIInv ==
    ASSUME IInv, StepOK
    PROVE  IInv'
  <1>1. ArchiveTypeOK'
    BY DEF StepOK, ArchiveKept, ArchiveTypeOK, EntriesOK, EntryOK, Row
  <1> QED
    BY <1>1 DEF StepOK, ArchiveKept, IInv, TypeOK

(* A step that changes nothing owes nothing.                                *)
LEMMA StutterKeepsIInv ==
    ASSUME IInv, UNCHANGED vars
    PROVE  StepOK
  <1>1. ArchiveKept /\ AttemptsKept
    BY UnchangedArchiveStep DEF vars, others
  <1>2. FilesTypeOK' /\ ProcessTypeOK' /\ PositionOK' /\ CurrentOK'
    BY ControlFacts
       DEF vars, local, archive, FilesTypeOK, ProcessTypeOK, PositionOK,
           CurrentOK, Current, Accepted, Tagged, Undecided, Row
  <1> QED
    BY <1>1, <1>2 DEF StepOK

(* A new workspace: the scaffold line and the seed's tag.                   *)
LEMMA InitIInv ==
    ASSUME Init
    PROVE  IInv
  <1> DEFINE scaffolded == MergeEvent(EmptyEntry, ScaffoldEvent)
  <1>1. EntryOK(EmptyEntry) /\ DOMAIN EmptyEntry.row = {}
    <2> DEFINE row == EmptyEntry.row
    <2>1. IsEntry(EmptyEntry) /\ EmptyEntry.top = None /\ DOMAIN row = {}
      BY DEF EmptyEntry, IsEntry, EmptyDict
    <2>2. row = EmptyEntry.row
      OBVIOUS
    <2> HIDE DEF row
    <2>3. \A key : Get(row, key) = None
      BY <2>1 DEF Get
    <2> QED
      BY <2>1, <2>2, <2>3, NoneFacts DEF EntryOK, RowOK, OptionalGenid
  <1>2. PlainEvent(ScaffoldEvent)
    BY NoneFacts DEF ScaffoldEvent, PlainEvent, IsKeyedEvaluation, RowOK, Get,
       OptionalGenid
  <1>3. EntryOK(scaffolded)
    BY <1>1, <1>2, PlainKeepsEntry
  <1> HIDE DEF scaffolded
  <1>4. /\ DOMAIN rows = Genids
        /\ rows[Genesis] = scaffolded
        /\ \A g \in Children : rows[g] = EmptyEntry
    BY GenidFacts DEF Init, scaffolded
  <1>5. EntriesOK
    BY <1>1, <1>3, <1>4, GenidFacts DEF EntriesOK
  <1>6. ArchiveTypeOK
    BY <1>4, <1>5 DEF Init, ArchiveTypeOK, EntriesOK, EntryOK, Row
  <1>7. FilesTypeOK /\ ProcessTypeOK
    BY SizeAssumption, FaultAssumption, GenidFacts
       DEF Init, FilesTypeOK, ProcessTypeOK, OptionalGenid, NoParents, Labels
  <1>8. PositionOK /\ CurrentOK
    BY DEF Init, PositionOK, CurrentOK, OutsideLabels, UncommittedLabels,
       UnevaluatedLabels, EvaluatedLabels, GateLabels, EndLabels, StageNames
  <1>9. PendingIsConsistent /\ CommittedOnAccepted /\ Tagged(Genesis)
    BY GenidFacts, NoneFacts
       DEF Init, PendingIsConsistent, CommittedOnAccepted, Tagged
  <1> QED
    BY <1>5, <1>6, <1>7, <1>8, <1>9 DEF IInv, TypeOK

(* The inductive invariant holds in every reachable state.                   *)
THEOREM Invariant == Spec => []IInv
  <1>1. Init => IInv
    BY InitIInv
  <1>2. IInv /\ [Next]_vars => IInv'
    BY NextSteps, StutterKeepsIInv, StepKeepsIInv
  <1> QED
    BY <1>1, <1>2, PTL DEF Spec

(* The archive, the files and the driver's process hold what they may.       *)
THEOREM TypeCorrect == Spec => []TypeOK
  <1>1. IInv => TypeOK
    BY DEF IInv
  <1> QED
    BY <1>1, Invariant, PTL

(* Every committed candidate was forked from a generation that is a valid    *)
(* parent, and it stays one (fork_child, commit_child, is_parent_record).    *)
THEOREM AncestorsAccepted == Spec => []CommittedOnAccepted
  <1>1. IInv => CommittedOnAccepted
    BY DEF IInv
  <1> QED
    BY <1>1, Invariant, PTL

(* The scan of the events and the merged rows agree on who awaits the gate.  *)
THEOREM PendingAgrees == Spec => []PendingIsConsistent
  <1>1. IInv => PendingIsConsistent
    BY DEF IInv
  <1> QED
    BY <1>1, Invariant, PTL

(* No select failure, verdict, crash, repair or resume takes back that a     *)
(* generation is a valid parent, or changes its score.                       *)
THEOREM AcceptanceFinal == Spec => AcceptanceIsFinal
  <1> DEFINE Kept == \A g \in Genids : Accepted(g) =>
                 Accepted(g)' /\ Row(g).score' = Row(g).score
  <1>1. IInv /\ [Next]_vars => [Kept]_vars
    BY NextSteps DEF StepOK, ArchiveKept, AcceptanceKept
  <1> QED
    BY <1>1, Invariant, PTL DEF Spec, AcceptanceIsFinal

(* However often runs are interrupted and resumed, a generation that has an  *)
(* outcome keeps it, and no further attempt of its evaluation is made.       *)
THEOREM OutcomeFinal == Spec => EvaluatedOnce
  <1> DEFINE Kept == \A g \in Genids : Evaluated(g) =>
                 /\ Row(g).outcome' = Row(g).outcome
                 /\ attempts'[g] = attempts[g]
  <1>1. IInv /\ [Next]_vars => [Kept]_vars
    BY NextSteps DEF StepOK, ArchiveKept, OutcomesKept, AttemptsKept
  <1> QED
    BY <1>1, Invariant, PTL DEF Spec, EvaluatedOnce
==============================================================================
