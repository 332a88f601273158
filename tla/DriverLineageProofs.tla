-------------------------- MODULE DriverLineageProofs --------------------------
(***************************************************************************)
(* Driver implements Lineage, for every size of experiment and every       *)
(* number of faults: a new workspace maps to Lineage's initial state, and   *)
(* every step of the driver, of a fault or of people moves one generation   *)
(* along its life as Lineage allows, or none.                              *)
(***************************************************************************)
EXTENDS DriverProofs, DriverLineage

Unsettled(g) == EvaluationStatus(Row(g)) \notin TerminalStatuses

(* What the mapping needs beyond IInv: a receipt is for an evaluation, and   *)
(* what is going to be evaluated has not been given up.                     *)
RowsInv ==
    /\ \A g \in Genids : Undecided(g) => ~IsCertified(Row(g))
    /\ Undecided(Genesis) => Unsettled(Genesis)

ControlInv ==
    /\ pc \in UnevaluatedLabels => Unsettled(Current)
    /\ pc \in EvaluatedLabels => ~Undecided(Current)

LineageInv == IInv /\ RowsInv /\ ControlInv

LineageStep == [Abstract!Next]_<<stage, tags>>

(* What a step owes to the rows and to Lineage. *)
LineageKept == RowsInv' /\ LineageStep

NothingAccepted == \A g \in Genids : Accepted(g)' => Accepted(g)

------------------------------------------------------------------------------
(* The stage of one generation *)

(* The keys StageOf reads. *)
StageKeys == AcceptanceKeys \cup {"status"}

SameStageKeys(old, new) ==
    \A key \in StageKeys : Get(new, key) = Get(old, key)

(* The status of a row without an outcome is the key "status".               *)
LEMMA StatusReads ==
    ASSUME NEW dict
    PROVE  /\ Get(dict, "outcome") = Complete => EvaluationStatus(dict) = "complete"
           /\ Get(dict, "outcome") \in FailedOutcomes =>
                 EvaluationStatus(dict) = Get(dict, "outcome")
           /\ "outcome" \notin DOMAIN dict =>
                 EvaluationStatus(dict) = Get(dict, "status")
  BY NoneFacts DEF EvaluationStatus, Get, CanonicalOutcomes, Complete, FailedOutcomes

(* Rows that agree on the keys StageOf reads are read the same.              *)
LEMMA SameKeysSameReading ==
    ASSUME NEW old, NEW new, SameStageKeys(old, new)
    PROVE  /\ EvaluationStatus(new) = EvaluationStatus(old)
           /\ IsParentRecord(new) <=> IsParentRecord(old)
           /\ IsCertified(new) <=> IsCertified(old)
           /\ Get(new, "outcome") \in CanonicalOutcomes =>
                 old.outcome = Get(old, "outcome") /\ new.outcome = Get(old, "outcome")
           /\ Get(new, "outcome") = Get(old, "outcome")
           /\ Get(new, "status") = Get(old, "status")
  BY NoneFacts DEF SameStageKeys, StageKeys, AcceptanceKeys, EvaluationStatus,
     IsParentRecord, IsCertified, Get

(* A generation stays where it is when what StageOf reads is unchanged.      *)
LEMMA SameReadingSameStage ==
    ASSUME NEW g \in Genids, SameStageKeys(Row(g), Row(g)'),
           tags'[g] = tags[g], g \in gatePending' <=> g \in gatePending
    PROVE  StageOf(g)' = StageOf(g)
  <1>1. /\ Accepted(g)' <=> Accepted(g)
        /\ Tagged(g)' <=> Tagged(g)
        /\ Evaluated(g)' <=> Evaluated(g)
        /\ AwaitsVerdict(g)' <=> AwaitsVerdict(g)
        /\ EvaluationStatus(Row(g))' = EvaluationStatus(Row(g))
        /\ Evaluated(g) => Row(g).outcome' = Row(g).outcome
    BY SameKeysSameReading DEF Accepted, Tagged, Evaluated, AwaitsVerdict
  <1> QED
    BY <1>1 DEF StageOf

(* What decides each of the six stages. *)
StageTable(g) ==
    /\ ~Tagged(g) /\ Unsettled(g) => StageOf(g) = "open"
    /\ ~Tagged(g) /\ ~Unsettled(g) => StageOf(g) = "rejected"
    /\ Accepted(g) => StageOf(g) = "accepted"
    /\ Tagged(g) /\ Undecided(g) /\ Unsettled(g) => StageOf(g) = "committed"
    /\ Tagged(g) /\ Undecided(g) /\ ~Unsettled(g) => StageOf(g) = "closed"
    /\ /\ Tagged(g) /\ ~Undecided(g) /\ ~Accepted(g)
       /\ Get(Row(g), "outcome") # Complete \/ ~AwaitsVerdict(g)
       => StageOf(g) = "closed"
    /\ /\ Tagged(g) /\ ~Undecided(g) /\ ~Accepted(g)
       /\ Get(Row(g), "outcome") = Complete /\ AwaitsVerdict(g)
       => StageOf(g) = "evaluated"

(* A row's outcome is one of the five that an evaluation writes.             *)
LEMMA OutcomeReads ==
    ASSUME NEW entry, EntryOK(entry), NEW row, row = entry.row
    PROVE  /\ "outcome" \in DOMAIN row =>
                 /\ Get(row, "outcome") \in CanonicalOutcomes
                 /\ Get(row, "outcome") = row.outcome
           /\ "outcome" \notin DOMAIN row =>
                 /\ Get(row, "outcome") \notin CanonicalOutcomes
                 /\ ~IsParentRecord(row)
  BY NoneFacts DEF EntryOK, Get, CanonicalOutcomes, IsParentRecord

(* The table holds before a step and after it.                               *)
LEMMA StageMeans ==
    ASSUME NEW g \in Genids
    PROVE  /\ EntriesOK => StageTable(g)
           /\ EntriesOK' => StageTable(g)'
  <1>1. EntriesOK => StageTable(g)
    <2>1. EntriesOK =>
             /\ ~Undecided(g) => Evaluated(g) /\ Row(g).outcome = Get(Row(g), "outcome")
             /\ Undecided(g) => ~Evaluated(g) /\ ~Accepted(g)
      BY OutcomeReads DEF EntriesOK, Undecided, Evaluated, Accepted, Row
    <2> QED
      BY <2>1 DEF StageTable, StageOf, Unsettled, Accepted
  <1>2. EntriesOK' => StageTable(g)'
    <2>1. EntriesOK' =>
             /\ ~Undecided(g)' =>
                   Evaluated(g)' /\ Row(g).outcome' = Get(Row(g), "outcome")'
             /\ Undecided(g)' => ~Evaluated(g)' /\ ~Accepted(g)'
      BY OutcomeReads DEF EntriesOK, Undecided, Evaluated, Accepted, Row
    <2> QED
      BY <2>1 DEF StageTable, StageOf, Unsettled, Accepted
  <1> QED
    BY <1>1, <1>2

LegalMove(from, to) ==
    \/ from = to
    \/ from = "open" /\ to = "rejected"
    \/ from = "committed" /\ to \in {"evaluated", "closed"}
    \/ from = "evaluated" /\ to \in {"accepted", "closed"}

(* One generation makes a legal move and the others stay: a step of Lineage. *)
LEMMA OneGenerationMoves ==
    ASSUME NEW g \in Genids, UNCHANGED tags,
           \A h \in Genids : h # g => StageOf(h)' = StageOf(h),
           NEW from, from = StageOf(g), NEW to, to = StageOf(g)',
           LegalMove(from, to)
    PROVE  LineageStep
  <1>1. stage' = [stage EXCEPT ![g] = to] /\ stage[g] = from
    BY DEF stage
  <1>2. CASE from = to
    <2>1. stage' = stage
      BY <1>1, <1>2 DEF stage
    <2> QED
      BY <2>1 DEF LineageStep
  <1>3. CASE from # to
    <2>1. \/ Abstract!Reject(g) \/ Abstract!Evaluate(g) \/ Abstract!Fail(g)
          \/ Abstract!Accept(g) \/ Abstract!Decline(g)
      BY <1>1, <1>3
         DEF LegalMove, Abstract!Reject, Abstract!Evaluate, Abstract!Fail,
             Abstract!Accept, Abstract!Decline, Abstract!Move
    <2> QED
      BY <2>1 DEF LineageStep, Abstract!Next
  <1> QED
    BY <1>2, <1>3

(* Rows, tags and the scan unchanged: nobody moves.                          *)
LEMMA NobodyMoves ==
    ASSUME RowsInv, UNCHANGED <<archive, tags>>
    PROVE  LineageKept
  <1>1. stage' = stage
    BY DEF stage, StageOf, archive, Tagged, Accepted, Evaluated, AwaitsVerdict, Row
  <1>2. RowsInv'
    BY DEF RowsInv, Undecided, Unsettled, Row, archive
  <1> QED
    BY <1>1, <1>2 DEF LineageKept, LineageStep

------------------------------------------------------------------------------
(* Every kind of line, the receipt and the tag *)

(* An unstamped key of a line without a task set is always written.          *)
LEMMA UnkeyedKeyWritten ==
    ASSUME NEW entry, IsEntry(entry), NEW event,
           NEW merged, merged = MergeEvent(entry, event),
           ~IsKeyedEvaluation(event),
           NEW key \in DOMAIN event \ ReservedAuxiliaryFields,
           key \notin StampedFields, key # "valid_parent"
    PROVE  Get(merged.row, key) = event[key]
  <1> DEFINE taken == Writable(entry.row, event) \
                 (IF RefusesValidParent(entry.row, event) THEN {"valid_parent"} ELSE {})
  <1>1. merged.row = Overlay(entry.row, event, taken)
    BY UnkeyedMergeRow DEF MergeEventFields
  <1>2. key \in taken
    BY DEF Writable
  <1> HIDE DEF taken
  <1> QED
    BY <1>1, <1>2, OverlayDomain, OverlayTaken DEF Get

(* A plain line touches one generation, keeps its outcome and owner, and     *)
(* every key it does not carry.                                              *)
LEMMA PlainTouches ==
    ASSUME IInv, NEW event, PlainEvent(event), event.genid \in Genids,
           AppendEvent(event)
    PROVE  /\ rows'[event.genid] = MergeEvent(rows[event.genid], event)
           /\ \A h \in Genids : h # event.genid => Row(h)' = Row(h)
           /\ \A key : key \notin DOMAIN event =>
                 Get(Row(event.genid), key)' = Get(Row(event.genid), key)
           /\ \A h \in Genids : Undecided(h)' <=> Undecided(h)
           /\ gatePending' = ScanPending(gatePending, event)
  <1> DEFINE e == event.genid
  <1>1. /\ rows'[e] = MergeEvent(rows[e], event)
        /\ \A h \in Genids : h # e => rows'[h] = rows[h]
        /\ gatePending' = ScanPending(gatePending, event)
    BY AppendTouchesOne DEF IInv
  <1>2. IsEntry(rows[e]) /\ ~IsKeyedEvaluation(event) /\ "outcome" \notin DOMAIN event
    BY DEF IInv, EntriesOK, EntryOK, PlainEvent
  <1>3. \A key : key \notin DOMAIN event =>
            /\ key \in DOMAIN rows'[e].row <=> key \in DOMAIN rows[e].row
            /\ Get(rows'[e].row, key) = Get(rows[e].row, key)
    BY <1>1, <1>2, UnkeyedMerge
  <1> QED
    BY <1>1, <1>2, <1>3 DEF Row, Undecided

(* Lineage and record lines and anchors carry no key StageOf reads: rows     *)
(* keep their meaning.                                                       *)
LEMMA SameReadingKeepsRows ==
    ASSUME RowsInv,
           \A h \in Genids : SameStageKeys(Row(h), Row(h)'),
           \A h \in Genids : Undecided(h)' <=> Undecided(h)
    PROVE  RowsInv'
  <1>1. \A h \in Genids : /\ IsCertified(Row(h))' <=> IsCertified(Row(h))
                          /\ Unsettled(h)' <=> Unsettled(h)
    BY SameKeysSameReading DEF Unsettled
  <1> QED
    BY <1>1, GenidFacts DEF RowsInv

(* ... and nobody becomes a valid parent.                                    *)
LEMMA SameReadingAcceptsNothing ==
    ASSUME UNCHANGED tags, \A h \in Genids : SameStageKeys(Row(h), Row(h)')
    PROVE  NothingAccepted
  BY SameKeysSameReading DEF NothingAccepted, Accepted, Tagged

(* A discard rejects a generation without a tag, closes a committed one that *)
(* has no outcome, and leaves an evaluated one where it is.                  *)
LEMMA DiscardLineage ==
    ASSUME LineageInv, UNCHANGED tags, NEW g \in Children, ~Accepted(g),
           NEW p \in OptionalGenid, NEW status \in TerminalStatuses,
           AppendEvent(DiscardEvent(g, p, status))
    PROVE  LineageKept /\ NothingAccepted
  <1> DEFINE event == DiscardEvent(g, p, status)
  <1>1. /\ PlainEvent(event) /\ event.genid = g /\ g \in Genids
        /\ \A S : ScanPending(S, event) = S
    BY DiscardIsPlain, GenidFacts
  <1>2. /\ "verdict" \in DOMAIN event \ ReservedAuxiliaryFields
        /\ event["verdict"] = "discard" /\ event["status"] = status
        /\ "certified" \notin DOMAIN event /\ "outcome" \notin DOMAIN event
    BY DEF DiscardEvent, ReservedAuxiliaryFields
  <1> HIDE DEF event
  <1>3. /\ IInv /\ RowsInv /\ AppendEvent(event)
        /\ IsEntry(rows[g]) /\ ~IsKeyedEvaluation(event)
    BY <1>1 DEF event, LineageInv, IInv, EntriesOK, EntryOK, PlainEvent
  <1>4. /\ rows'[g] = MergeEvent(rows[g], event)
        /\ \A h \in Genids : h # g => Row(h)' = Row(h)
        /\ \A key : key \notin DOMAIN event => Get(Row(g), key)' = Get(Row(g), key)
        /\ \A h \in Genids : Undecided(h)' <=> Undecided(h)
        /\ gatePending' = gatePending
    BY <1>1, <1>3, PlainTouches
  <1>5. ~Accepted(g)'
    <2>1. Get(Row(g), "verdict")' = "discard"
      BY <1>2, <1>3, <1>4, UnkeyedKeyWritten DEF StampedFields, Row
    <2> QED
      BY <2>1 DEF Accepted, IsParentRecord
  <1>6. Get(Row(g), "outcome")' = Get(Row(g), "outcome")
    BY <1>2, <1>4
  <1>7. ~Unsettled(g) => ~Unsettled(g)'
    <2>1. Get(Row(g), "status")' \in {Get(Row(g), "status"), status}
      <3>1. /\ DOMAIN rows[g].row \subseteq DOMAIN rows'[g].row
            /\ \A key \in DOMAIN rows'[g].row :
                 \/ key \in DOMAIN rows[g].row /\ rows'[g].row[key] = rows[g].row[key]
                 \/ key \in DOMAIN event /\ rows'[g].row[key] = event[key]
        BY <1>3, <1>4, MergedValues
      <3> QED
        BY <1>2, <3>1 DEF Get, Row
    <2> QED
      BY <1>6, <2>1, NoneFacts DEF Unsettled, EvaluationStatus, Get
  <1>8. ArchiveKept
    BY <1>1, <1>3, DiscardArchiveKept DEF event
  <1>9. LegalMove(StageOf(g), StageOf(g)')
    <2>1. /\ Tagged(g)' <=> Tagged(g)
          /\ AwaitsVerdict(g)' <=> AwaitsVerdict(g)
          /\ Undecided(g)' <=> Undecided(g)
      BY <1>1, <1>4, GenidFacts DEF Tagged, AwaitsVerdict
    <2>2. StageTable(g) /\ StageTable(g)'
      BY <1>1, <1>3, <1>8, StageMeans DEF IInv, ArchiveKept
    <2> QED
      BY <1>5, <1>6, <1>7, <2>1, <2>2 DEF StageTable, LegalMove
  <1>10. \A h \in Genids : h # g => StageOf(h)' = StageOf(h)
    BY <1>4, SameReadingSameStage DEF SameStageKeys
  <1>11. RowsInv'
    <2>1. \A h \in Genids : IsCertified(Row(h))' <=> IsCertified(Row(h))
      BY <1>2, <1>4 DEF IsCertified
    <2>2. Unsettled(Genesis)' <=> Unsettled(Genesis)
      BY <1>4, GenidFacts DEF Unsettled
    <2> QED
      BY <1>3, <1>4, <2>1, <2>2, GenidFacts DEF RowsInv
  <1>12. NothingAccepted
    BY <1>4, <1>5 DEF NothingAccepted, Accepted, Tagged
  <1> QED
    BY <1>1, <1>9, <1>10, <1>11, <1>12, OneGenerationMoves DEF LineageKept

(* The lineage line of a child that has its tag says nothing StageOf reads.  *)
LEMMA CommitLineage ==
    ASSUME LineageInv, UNCHANGED tags, NEW g \in Genids, NEW p \in OptionalGenid,
           AppendEvent(CommitEvent(g, p))
    PROVE  LineageKept /\ NothingAccepted /\ Unsettled(g)' = Unsettled(g)
  <1> DEFINE event == CommitEvent(g, p)
  <1>1. /\ PlainEvent(event) /\ event.genid = g
        /\ DOMAIN event = {"genid", "parent"}
        /\ \A S : ScanPending(S, event) = S
    BY CommitIsPlain
  <1> HIDE DEF event
  <1>2. IInv /\ RowsInv /\ AppendEvent(event)
    BY DEF event, LineageInv
  <1>3. /\ \A h \in Genids : h # g => Row(h)' = Row(h)
        /\ \A key : key \notin DOMAIN event => Get(Row(g), key)' = Get(Row(g), key)
        /\ \A h \in Genids : Undecided(h)' <=> Undecided(h)
        /\ gatePending' = gatePending
    BY <1>1, <1>2, PlainTouches
  <1>4. \A h \in Genids : SameStageKeys(Row(h), Row(h)')
    BY <1>1, <1>3 DEF SameStageKeys, StageKeys, AcceptanceKeys
  <1>5. RowsInv'
    BY <1>2, <1>3, <1>4, SameReadingKeepsRows
  <1>6. \A h \in Genids : StageOf(h)' = StageOf(h)
    BY <1>3, <1>4, SameReadingSameStage
  <1>7. LineageStep
    BY <1>6, OneGenerationMoves DEF LegalMove
  <1>8. Unsettled(g)' = Unsettled(g)
    BY <1>4, SameKeysSameReading DEF Unsettled
  <1> QED
    BY <1>4, <1>5, <1>7, <1>8, SameReadingAcceptsNothing DEF LineageKept

(* A record line may end the wait of a child whose gate has failed.          *)
LEMMA RecordLineage ==
    ASSUME LineageInv, UNCHANGED tags, NEW g \in Children,
           NEW event, event = RecordedEvent(g) \/ event = RecordErrorEvent(g),
           AppendEvent(event)
    PROVE  LineageKept /\ NothingAccepted
  <1>1. /\ PlainEvent(event) /\ event.genid = g /\ g \in Genids
        /\ DOMAIN event \subseteq {"genid", "record_attempted", "record_error"}
    BY RecordIsPlain, GenidFacts
  <1>2. IInv /\ RowsInv
    BY DEF LineageInv
  <1>3. /\ \A h \in Genids : h # g => Row(h)' = Row(h)
        /\ \A key : key \notin DOMAIN event => Get(Row(g), key)' = Get(Row(g), key)
        /\ \A h \in Genids : Undecided(h)' <=> Undecided(h)
        /\ gatePending' = ScanPending(gatePending, event)
    BY <1>1, <1>2, PlainTouches
  <1>4. \A h \in Genids : SameStageKeys(Row(h), Row(h)')
    BY <1>1, <1>3 DEF SameStageKeys, StageKeys, AcceptanceKeys
  <1>5. RowsInv'
    BY <1>2, <1>3, <1>4, SameReadingKeepsRows
  <1>6. gatePending' = gatePending \/ gatePending' = gatePending \ {g}
    BY <1>1, <1>3, NoneFacts DEF ScanPending, IsEvaluationStamp, Get, PlainEvent
  <1>7. \A h \in Genids : h # g => StageOf(h)' = StageOf(h)
    BY <1>4, <1>6, SameReadingSameStage
  <1>8. NothingAccepted
    BY <1>4, SameReadingAcceptsNothing
  <1>9. CASE gatePending' = gatePending
    BY <1>1, <1>4, <1>5, <1>7, <1>8, <1>9, SameReadingSameStage, OneGenerationMoves
       DEF LegalMove, LineageKept
  <1>10. CASE g \in gatePending /\ gatePending' = gatePending \ {g}
    <2>1. StageTable(g)
      BY <1>1, <1>2, StageMeans DEF IInv
    <2>2. /\ Tagged(g) /\ ~Accepted(g) /\ ~Undecided(g)
          /\ Get(Row(g), "outcome") = Complete
      BY <1>2, <1>10, PendingIsNotAccepted DEF IInv, PendingIsConsistent
    <2>3. StageOf(g) = "evaluated"
      BY <1>10, <2>1, <2>2 DEF StageTable, AwaitsVerdict
    <2>4. /\ Tagged(g)' /\ ~Accepted(g)' /\ ~AwaitsVerdict(g)'
          /\ ~Undecided(g)'
          /\ Get(Row(g), "outcome")' = Complete
      BY <1>1, <1>3, <1>4, <1>10, <2>2, SameKeysSameReading, GenidFacts
         DEF Tagged, Accepted, AwaitsVerdict
    <2>5. StageOf(g)' = "closed"
      <3>1. Evaluated(g)'
        BY <2>4, NoneFacts DEF Evaluated, CanonicalOutcomes
      <3> QED
        BY <2>4, <3>1 DEF StageOf
    <2> QED
      BY <1>1, <1>5, <1>7, <1>8, <2>3, <2>5, OneGenerationMoves DEF LegalMove, LineageKept
  <1> QED
    BY <1>5, <1>6, <1>8, <1>9, <1>10 DEF LineageKept

(* A verdict takes an evaluated child to accepted or to closed.              *)
LEMMA VerdictLineage ==
    ASSUME LineageInv, UNCHANGED tags, NEW g \in Children, g \in gatePending,
           NEW accept \in BOOLEAN, AppendEvent(VerdictEvent(g, accept))
    PROVE  LineageKept
  <1> DEFINE event == VerdictEvent(g, accept)
  <1>1. /\ PlainEvent(event) /\ event.genid = g /\ g \in Genids
        /\ \A S : ScanPending(S, event) = S \ {g}
    BY VerdictIsPlain, GenidFacts
  <1>2. "certified" \notin DOMAIN event /\ "outcome" \notin DOMAIN event
    BY DEF VerdictEvent
  <1> HIDE DEF event
  <1>3. IInv /\ RowsInv /\ AppendEvent(event)
    BY DEF event, LineageInv
  <1>4. /\ rows'[g] = MergeEvent(rows[g], event)
        /\ \A h \in Genids : h # g => Row(h)' = Row(h)
        /\ \A key : key \notin DOMAIN event => Get(Row(g), key)' = Get(Row(g), key)
        /\ \A h \in Genids : Undecided(h)' <=> Undecided(h)
        /\ gatePending' = gatePending \ {g}
    BY <1>1, <1>3, PlainTouches
  <1>5. RowsInv'
    <2>1. \A h \in Genids : IsCertified(Row(h))' <=> IsCertified(Row(h))
      BY <1>2, <1>4 DEF IsCertified
    <2>2. Unsettled(Genesis)' <=> Unsettled(Genesis)
      BY <1>4, GenidFacts DEF Unsettled
    <2> QED
      BY <1>3, <1>4, <2>1, <2>2, GenidFacts DEF RowsInv
  <1>6. \A h \in Genids : h # g => StageOf(h)' = StageOf(h)
    BY <1>4, SameReadingSameStage DEF SameStageKeys
  <1>7. /\ Tagged(g) /\ ~Accepted(g) /\ ~Undecided(g)
        /\ Get(Row(g), "outcome") = Complete
    BY <1>3, PendingIsNotAccepted DEF IInv, PendingIsConsistent
  <1>8. StageOf(g) = "evaluated"
    BY <1>1, <1>3, <1>7, StageMeans DEF IInv, StageTable, AwaitsVerdict
  <1>9. /\ Tagged(g)' /\ ~AwaitsVerdict(g)' /\ Evaluated(g)'
    BY <1>1, <1>2, <1>4, <1>7, GenidFacts
       DEF Tagged, AwaitsVerdict, Evaluated, CanonicalOutcomes
  <1>10. StageOf(g)' \in {"accepted", "closed"}
    BY <1>9 DEF StageOf
  <1> QED
    BY <1>1, <1>5, <1>6, <1>8, <1>10, OneGenerationMoves DEF LegalMove, LineageKept

(* A sealed evaluation moves nobody.                                         *)
LEMMA AnchorLineage ==
    ASSUME LineageInv, UNCHANGED tags, NEW g \in Genids,
           NEW outcome \in FailedOutcomes \cup {Complete},
           AppendEvent(AnchorEvent(g, outcome))
    PROVE  LineageKept /\ NothingAccepted
  <1> DEFINE event == AnchorEvent(g, outcome)
  <1>1. /\ event.genid = g
        /\ IsKeyedEvaluation(event) /\ IsAuxiliary(event)
        /\ \A S : ScanPending(S, event) = S
    BY NoneFacts DEF AnchorEvent, IsKeyedEvaluation, IsAuxiliary, Get,
       ScanPending, IsEvaluationStamp, MarksPendingGateRecord,
       IsGateRecordEvent, StampedFields
  <1> HIDE DEF event
  <1>2. IInv /\ RowsInv /\ AppendEvent(event)
    BY DEF event, LineageInv
  <1>3. /\ rows'[g] = MergeEvent(rows[g], event)
        /\ \A h \in Genids : h # g => rows'[h] = rows[h]
        /\ gatePending' = gatePending
    BY <1>1, <1>2, AppendTouchesOne DEF IInv
  <1>4. \A key : key # "genid" =>
           /\ key \in DOMAIN rows'[g].row <=> key \in DOMAIN rows[g].row
           /\ Get(rows'[g].row, key) = Get(rows[g].row, key)
    BY <1>1, <1>2, <1>3, AuxiliaryMerge DEF IInv, EntriesOK, EntryOK
  <1>5. /\ \A h \in Genids : SameStageKeys(Row(h), Row(h)')
        /\ \A h \in Genids : Undecided(h)' <=> Undecided(h)
    BY <1>3, <1>4 DEF SameStageKeys, StageKeys, AcceptanceKeys, Row, Undecided
  <1>6. RowsInv'
    BY <1>2, <1>5, SameReadingKeepsRows
  <1>7. \A h \in Genids : StageOf(h)' = StageOf(h)
    BY <1>3, <1>5, SameReadingSameStage
  <1> QED
    BY <1>5, <1>6, <1>7, SameReadingAcceptsNothing, OneGenerationMoves DEF LegalMove, LineageKept

(* An evaluation takes a committed generation to evaluated or to closed; it  *)
(* accepts nothing, the seed included, whose receipt is still to come.       *)
LEMMA EvaluationLineage ==
    ASSUME LineageInv, UNCHANGED tags,
           NEW g \in Genids, Undecided(g), Tagged(g), Unsettled(g),
           NEW p \in OptionalGenid,
           NEW outcome \in FailedOutcomes \cup {Complete},
           NEW score \in Scores \cup {None},
           AppendEvent(EvaluationEvent(g, p, outcome, score))
    PROVE  LineageKept /\ NothingAccepted /\ ~Undecided(g)'
  <1> DEFINE event == EvaluationEvent(g, p, outcome, score)
             pending == outcome = Complete /\ g # Genesis
  <1>1. /\ event.genid = g
        /\ IsKeyedEvaluation(event) /\ ~IsAuxiliary(event) /\ RowOK(event)
        /\ \A S : ScanPending(S, event) = IF pending THEN S \cup {g} ELSE S
    BY EvaluationEventFacts
  <1>2. "certified" \notin DOMAIN event
    BY OverlayDomain DEF EvaluationEvent
  <1>3. /\ IInv /\ RowsInv
        /\ ArchiveKept
        /\ Get(Row(g), "outcome")' = outcome
        /\ outcome = Complete /\ g # Genesis => g \in gatePending'
    BY EvaluationArchiveKept DEF LineageInv
  <1> HIDE DEF event
  <1>4. /\ rows'[g] = MergeEvent(rows[g], event)
        /\ \A h \in Genids : h # g => rows'[h] = rows[h]
        /\ gatePending' = IF pending THEN gatePending \cup {g} ELSE gatePending
    BY <1>1, <1>3, AppendTouchesOne DEF event, IInv
  <1>5. ~Undecided(g)'
    BY <1>3, NoneFacts DEF Undecided, Get, CanonicalOutcomes
  <1>6. ~IsCertified(Row(g))'
    <2>1. IsEntry(rows[g]) /\ rows[g].top = None
      BY <1>3 DEF IInv, EntriesOK, EntryOK, Undecided, Row
    <2>2. \A key \in DOMAIN rows'[g].row :
             \/ key \in DOMAIN rows[g].row /\ rows'[g].row[key] = rows[g].row[key]
             \/ key \in DOMAIN event /\ rows'[g].row[key] = event[key]
      BY <1>1, <1>4, <2>1, MergedValues
    <2>3. ~IsCertified(Row(g))
      BY <1>3 DEF RowsInv
    <2> QED
      BY <1>2, <2>2, <2>3, NoneFacts DEF IsCertified, Get, Row
  <1>7. ~Accepted(g)'
    BY <1>6 DEF Accepted, IsParentRecord
  <1>8. \A h \in Genids : h # g => StageOf(h)' = StageOf(h)
    BY <1>4, SameReadingSameStage DEF SameStageKeys, Row
  <1>9. RowsInv'
    BY <1>3, <1>4, <1>5, GenidFacts DEF RowsInv, Undecided, Unsettled, Row
  <1>10. LegalMove(StageOf(g), StageOf(g)')
    <2>1. StageTable(g) /\ StageTable(g)' /\ Tagged(g)'
      BY <1>3, StageMeans DEF IInv, ArchiveKept, Tagged
    <2>2. outcome = Complete => AwaitsVerdict(g)'
      BY <1>3, <1>7 DEF AwaitsVerdict
    <2> QED
      BY <1>3, <1>5, <1>7, <2>1, <2>2 DEF StageTable, LegalMove
  <1>11. NothingAccepted
    BY <1>4, <1>7 DEF NothingAccepted, Accepted, Tagged, Row
  <1> QED
    BY <1>5, <1>8, <1>9, <1>10, <1>11, OneGenerationMoves DEF LineageKept

(* The receipt of a complete seed accepts it; a child's waits for the gate.  *)
LEMMA ReceiptLineage ==
    ASSUME LineageInv, AppendReceipt
    PROVE  LineageKept
  <1>1. PICK c \in Genids : c = Current
    BY DEF AppendReceipt, LineageInv, IInv, PositionOK, EvaluatedLabels
  <1>2. /\ IInv /\ RowsInv /\ ~Undecided(c)
        /\ c \in Children /\ Get(Row(c), "outcome") = Complete => c \in gatePending
    BY <1>1 DEF AppendReceipt, LineageInv, ControlInv, IInv, CurrentOK, EvaluatedLabels
  <1>3. /\ ArchiveKept
        /\ \A h \in Genids : /\ Undecided(h)' <=> Undecided(h)
                             /\ Get(Row(h), "outcome")' = Get(Row(h), "outcome")
    BY <1>2, ReceiptArchiveKept
  <1>4. /\ UNCHANGED <<gatePending, tags>>
        /\ \A h \in Genids : h # c => rows'[h] = rows[h]
    BY <1>1, <1>2 DEF AppendReceipt, others, IInv, TypeOK, ArchiveTypeOK
  <1>5. \A h \in Genids : h # c => StageOf(h)' = StageOf(h)
    BY <1>4, SameReadingSameStage DEF SameStageKeys, Row
  <1>6. RowsInv'
    <2>1. CASE c = Genesis
      BY <1>2, <1>3, <1>4, <2>1 DEF RowsInv, Row
    <2>2. CASE c # Genesis
      BY <1>2, <1>3, <1>4, <2>2, GenidFacts DEF RowsInv, Row, Unsettled
    <2> QED
      BY <2>1, <2>2
  <1>7. LegalMove(StageOf(c), StageOf(c)')
    <2>1. StageTable(c) /\ StageTable(c)' /\ (Tagged(c)' <=> Tagged(c))
      BY <1>2, <1>3, <1>4, StageMeans DEF IInv, ArchiveKept, Tagged
    <2>2. ~Undecided(c)' /\ Get(Row(c), "outcome")' = Get(Row(c), "outcome")
      BY <1>2, <1>3
    <2>3. Accepted(c) => Accepted(c)'
      BY <1>3 DEF ArchiveKept, AcceptanceKept
    <2>4. Unsettled(c)' <=> Unsettled(c)
      BY <2>2, <1>2, <1>3, NoneFacts, EvaluatedHasOutcome
         DEF Unsettled, EvaluationStatus, IInv, EntriesOK, EntryOK, Undecided, Get, Row,
             CanonicalOutcomes, ArchiveKept
    <2>5. CASE Get(Row(c), "outcome") # Complete
      <3>1. ~Accepted(c) /\ ~Accepted(c)'
        BY <2>2, <2>5 DEF Accepted, IsParentRecord
      <3> QED
        BY <1>2, <2>1, <2>2, <2>4, <2>5, <3>1 DEF StageTable, LegalMove
    <2>6. CASE c # Genesis /\ Get(Row(c), "outcome") = Complete
      <3>1. c \in gatePending /\ c \in gatePending'
        BY <1>2, <1>4, <2>6, GenidFacts
      <3>2. ~Accepted(c) /\ ~Accepted(c)'
        BY <1>2, <1>3, <3>1 DEF IInv, ArchiveKept, PendingIsConsistent
      <3> QED
        BY <1>2, <2>1, <2>2, <2>4, <2>6, <3>1, <3>2
           DEF StageTable, LegalMove, AwaitsVerdict
    <2>7. CASE c = Genesis /\ Get(Row(c), "outcome") = Complete
      BY <1>2, <2>1, <2>2, <2>3, <2>7 DEF StageTable, LegalMove, AwaitsVerdict, IInv
    <2> QED
      BY <2>5, <2>6, <2>7
  <1> QED
    BY <1>4, <1>5, <1>6, <1>7, OneGenerationMoves DEF LineageKept

(* The tag commits an open child on an accepted parent.                      *)
LEMMA TagLineage ==
    ASSUME LineageInv, CreateTag
    PROVE  LineageKept /\ Unsettled(Current)'
  <1>1. PICK c \in Genids, p \in Genids : c = Current /\ p = parent
    BY GenidFacts DEF CreateTag, LineageInv, IInv, PositionOK, CurrentOK, UncommittedLabels
  <1>2. /\ IInv /\ RowsInv
        /\ ~Tagged(c) /\ Accepted(p) /\ DOMAIN Row(c) = {}
    BY <1>1 DEF CreateTag, LineageInv, IInv, CurrentOK, UncommittedLabels
  <1>3. /\ UNCHANGED <<rows, gatePending, recordAttempted, gen, slot>>
        /\ tags' = [tags EXCEPT ![c] = p]
        /\ DOMAIN tags = Genids
    BY <1>1, <1>2 DEF CreateTag, archive, Goto, local, IInv, TypeOK, FilesTypeOK
  <1>4. Unsettled(c) /\ Undecided(c) /\ Unsettled(c)' /\ Undecided(c)'
    BY <1>2, <1>3, StatusReads, StatusAssumption DEF Unsettled, Undecided, Get, Row
  <1>5. RowsInv'
    BY <1>2, <1>3 DEF RowsInv, Undecided, Unsettled, Row
  <1>6. Tagged(c)' /\ EntriesOK'
    BY <1>2, <1>3, NoneFacts DEF Tagged, IInv, EntriesOK
  <1>7. \A h \in Genids : h # c => StageOf(h)' = StageOf(h)
    BY <1>3, SameReadingSameStage DEF SameStageKeys, Row
  <1>8. /\ StageOf(c) = "open" /\ StageOf(c)' = "committed"
        /\ StageOf(p) = "accepted"
    BY <1>2, <1>4, <1>6, StageMeans DEF StageTable, IInv
  <1>9. Abstract!Commit(c, p)
    BY <1>3, <1>7, <1>8 DEF Abstract!Commit, Abstract!Move, stage
  <1>10. Unsettled(Current)'
    BY <1>1, <1>3, <1>4 DEF Current
  <1> QED
    BY <1>5, <1>9, <1>10 DEF LineageKept, LineageStep, Abstract!Next

------------------------------------------------------------------------------
(* Every action *)

StepKeeps == LineageKept /\ ControlInv'

(* No evaluation is under way. *)
Elsewhere == pc \notin UnevaluatedLabels \cup EvaluatedLabels

(* A step of the process, its checkouts or its caches moves nobody.          *)
LEMMA QuietStep ==
    ASSUME LineageInv, UNCHANGED <<archive, tags>>, Elsewhere'
    PROVE  StepKeeps
  BY NobodyMoves DEF LineageInv, StepKeeps, ControlInv, Elsewhere

(* Nor does a quiet step of the evaluation itself, or before it.             *)
LEMMA QuietEvaluationStep ==
    ASSUME LineageInv, UNCHANGED <<archive, tags, gen, slot>>,
           pc' \in UnevaluatedLabels, Unsettled(Current)
    PROVE  StepKeeps
  <1>1. LineageKept
    BY NobodyMoves DEF LineageInv
  <1>2. Unsettled(Current)'
    BY DEF Unsettled, Current, Row, archive
  <1> QED
    BY <1>1, <1>2 DEF StepKeeps, ControlInv, UnevaluatedLabels, EvaluatedLabels

(* A discard is never in the middle of an evaluation.                        *)
LEMMA DiscardStep ==
    ASSUME LineageInv, UNCHANGED tags, Elsewhere', ~Accepted(Current),
           Current \in Children, NEW p \in OptionalGenid,
           NEW status \in TerminalStatuses,
           AppendEvent(DiscardEvent(Current, p, status))
    PROVE  StepKeeps
  <1>1. LineageKept
    BY DiscardLineage
  <1> QED
    BY <1>1 DEF StepKeeps, ControlInv, Elsewhere

(* The seed is evaluated only while no outcome of it is known.               *)
LEMMA GenesisStepsKeep ==
    ASSUME LineageInv, GenesisStep
    PROVE  StepKeeps
  <1> USE DEF Elsewhere, UnevaluatedLabels, EvaluatedLabels
  <1>1. CASE GenesisReady \/ GenesisAnchorStarts
    BY <1>1, QuietStep DEF GenesisReady, GenesisAnchorStarts, Goto, others
  <1>2. CASE GenesisRefused
    BY <1>2, QuietStep DEF GenesisRefused, Exit, others
  <1>3. CASE GenesisAnchorSkipped
    BY <1>3, QuietStep DEF GenesisAnchorSkipped, ToGeneration, others
  <1>4. CASE GenesisEvaluation
    <2>1. Current = Genesis
      BY <1>4, GenidFacts
         DEF GenesisEvaluation, Current, LineageInv, IInv, PositionOK, OutsideLabels
    <2>2. Undecided(Genesis)
      <3>1. SUFFICES ASSUME "outcome" \in DOMAIN Row(Genesis) PROVE FALSE
        BY DEF Undecided
      <3>2. /\ Get(Row(Genesis), "outcome") \in FailedOutcomes \cup {Complete}
            /\ Get(Row(Genesis), "outcome") = Complete => GenesisComplete
        BY <3>1, GenidFacts
           DEF LineageInv, IInv, EntriesOK, EntryOK, Get, Row, GenesisComplete
      <3> QED
        BY <1>4, <3>2, StatusReads DEF GenesisEvaluation, GenesisFailed
    <2>3. Unsettled(Current)
      BY <2>1, <2>2 DEF LineageInv, RowsInv
    <2> QED
      BY <1>4, <2>3, QuietEvaluationStep DEF GenesisEvaluation, Goto, local, others
  <1>5. ASSUME NEW outcome \in Outcomes, GenesisAnchorEvaluated(outcome)
        PROVE  StepKeeps
    <2>1. LineageKept
      BY <1>5, AnchorLineage, GenidFacts, OutcomeAssumption DEF GenesisAnchorEvaluated
    <2>2. Elsewhere'
      BY <1>5 DEF GenesisAnchorEvaluated, ToGeneration, Exit
    <2> QED
      BY <2>1, <2>2 DEF StepKeeps, ControlInv
  <1> QED
    BY <1>1, <1>2, <1>3, <1>4, <1>5 DEF GenesisStep

(* Who is given up for want of a parent is nobody's parent itself.           *)
LEMMA UnselectedFacts ==
    ASSUME LineageInv, FailUnselected
    PROVE  /\ Current \in Children /\ ~Accepted(Current)
           /\ None \in OptionalGenid /\ "operator_failed" \in TerminalStatuses
  <1>1. Current \in Children
    BY DEF FailUnselected, LineageInv, IInv, PositionOK, Current, Children
  <1>2. CASE Current \in gatePending
    BY <1>1, <1>2, PendingIsNotAccepted
       DEF LineageInv, IInv, OptionalGenid, TerminalStatuses
  <1>3. CASE EvaluationStatus(Row(Current)) \notin TerminalStatuses
    BY <1>1, <1>3, StatusReads
       DEF Accepted, IsParentRecord, OptionalGenid, TerminalStatuses
  <1> QED
    BY <1>2, <1>3 DEF FailUnselected, GenerationIsPending

(* Select may give a child up, also one with a tag.                          *)
LEMMA SelectStepsKeep ==
    ASSUME LineageInv, SelectStep
    PROVE  StepKeeps
  <1> USE DEF Elsewhere, UnevaluatedLabels, EvaluatedLabels
  <1>1. CASE SkipGeneration
    BY <1>1, QuietStep DEF SkipGeneration, ToGeneration, others
  <1>2. CASE EnterSelect
    BY <1>2, QuietStep DEF EnterSelect, Goto, others
  <1>3. CASE SelectFails \/ \E parents \in ParentLists : SelectSucceeds(parents)
    BY <1>3, QuietStep DEF SelectFails, SelectSucceeds, LeaveSelect, others
  <1>4. CASE PassSelected \/ EnterChildren
    BY <1>4, QuietStep DEF PassSelected, EnterChildren, ToSlot, others
  <1>5. CASE FailUnselected
    <2>1. /\ Current \in Children /\ ~Accepted(Current)
          /\ None \in OptionalGenid /\ "operator_failed" \in TerminalStatuses
      BY <1>5, UnselectedFacts
    <2> QED
      BY <1>5, <2>1, DiscardStep DEF FailUnselected, ToRecord, others
  <1> QED
    BY <1>1, <1>2, <1>3, <1>4, <1>5 DEF SelectStep

(* Before the tag a child is open; with it, committed and not given up.      *)
LEMMA ChildStepsKeep ==
    ASSUME LineageInv, ChildStep
    PROVE  StepKeeps
  <1> USE DEF Elsewhere, UnevaluatedLabels, EvaluatedLabels
  <1>1. CASE EnterNextGeneration
    BY <1>1, QuietStep DEF EnterNextGeneration, ToGeneration, others
  <1>2. CASE SkipChild
    BY <1>2, QuietStep DEF SkipChild, NextChild, ToSlot, others
  <1>3. CASE ResumeTaggedChild
    <2>1. Current \in Genids /\ IInv
      BY <1>3, AtChildFacts DEF ResumeTaggedChild, LineageInv
    <2>2. CASE Evaluated(Current)
      BY <1>3, <2>2, QuietStep DEF ResumeTaggedChild, others
    <2>3. CASE ~Evaluated(Current)
      <3>1. Current \notin gatePending
        BY <2>1, <2>3 DEF IInv, PendingIsConsistent, Evaluated, CanonicalOutcomes
      <3>2. Unsettled(Current)
        BY <1>3, <3>1 DEF ResumeTaggedChild, GenerationIsPending, Unsettled
      <3> QED
        BY <1>3, <2>3, <3>2, QuietEvaluationStep DEF ResumeTaggedChild, others
    <2> QED
      BY <2>2, <2>3
  <1>4. CASE ForkChild
    BY <1>4, FirstStage, QuietStep DEF ForkChild, StageNames, others
  <1>5. CASE ForkFails
    <2>1. /\ Current \in Children /\ ChildParent \in OptionalGenid
          /\ ~Accepted(Current) /\ "operator_failed" \in TerminalStatuses
      BY <1>5, AtChildFacts DEF ForkFails, LineageInv, Accepted, TerminalStatuses
    <2> QED
      BY <1>5, <2>1, DiscardStep DEF ForkFails, others
  <1>6. CASE StageSucceeds
    <2>1. StageAfter(pc) \in StageNames \cup {"commit"}
      BY <1>6, StageFacts DEF StageSucceeds, LineageInv, IInv, PositionOK
    <2> QED
      BY <1>6, <2>1, QuietStep DEF StageSucceeds, Goto, StageNames, others
  <1>7. ASSUME NEW status \in TerminalStatuses,
               StageDiscards(status) \/ CommitRejects(status)
        PROVE  StepKeeps
    <2>1. /\ Current \in Children /\ ~Accepted(Current) /\ parent \in OptionalGenid
      BY <1>7
         DEF StageDiscards, CommitRejects, LineageInv, IInv, PositionOK, CurrentOK,
             UncommittedLabels, Accepted, OptionalGenid
    <2> QED
      BY <1>7, <2>1, DiscardStep DEF StageDiscards, CommitRejects, ToRecord, others
  <1>8. CASE CommitSnapshot
    BY <1>8, QuietStep DEF CommitSnapshot, Goto, others
  <1>9. CASE CreateTag
    <2>1. LineageKept /\ Unsettled(Current)'
      BY <1>9, TagLineage
    <2> QED
      BY <1>9, <2>1 DEF CreateTag, Goto, StepKeeps, ControlInv
  <1>10. CASE AppendLineage
    <2>1. PICK c \in Genids, p \in OptionalGenid : c = Current /\ p = parent
      BY <1>10 DEF AppendLineage, LineageInv, IInv, PositionOK, TypeOK, ProcessTypeOK
    <2>2. LineageKept /\ Unsettled(c)' = Unsettled(c) /\ Unsettled(c)
      BY <1>10, <2>1, CommitLineage DEF AppendLineage, others, LineageInv, ControlInv
    <2>3. c = Current'
      BY <1>10, <2>1 DEF AppendLineage, Goto, local, Current
    <2> QED
      BY <1>10, <2>2, <2>3 DEF AppendLineage, Goto, StepKeeps, ControlInv, Unsettled
  <1>11. CASE LeaveWorktree
    BY <1>11, QuietEvaluationStep
       DEF LeaveWorktree, Goto, local, others, LineageInv, ControlInv
  <1> QED
    BY <1>1, <1>2, <1>3, <1>4, <1>5, <1>6, <1>7, <1>8, <1>9, <1>10, <1>11 DEF ChildStep

(* The evaluation event of the current generation, reported or cancelled.    *)
LEMMA EvaluationEnds ==
    ASSUME LineageInv, pc = "evaluate", pc' = "receipt", UNCHANGED <<tags, gen, slot>>,
           NEW outcome \in FailedOutcomes \cup {Complete},
           NEW score \in Scores \cup {None},
           AppendEvent(EvaluationEvent(Current, EvaluationParent(Current), outcome, score))
    PROVE  StepKeeps
  <1>1. /\ IInv /\ Current \in Genids
        /\ Undecided(Current) /\ Tagged(Current) /\ Unsettled(Current)
    BY DEF LineageInv, ControlInv, IInv, PositionOK, CurrentOK, UnevaluatedLabels
  <1>2. PICK g \in Genids, p \in OptionalGenid :
            g = Current /\ p = EvaluationParent(Current)
    BY <1>1, EvaluationParentType
  <1>3. LineageKept /\ ~Undecided(g)'
    BY <1>1, <1>2, EvaluationLineage
  <1>4. g = Current'
    BY <1>2 DEF Current
  <1> QED
    BY <1>3, <1>4 DEF StepKeeps, ControlInv, Undecided, UnevaluatedLabels, Row

(* eval_child and the evaluation of the seed.                               *)
LEMMA EvaluationStepsKeep ==
    ASSUME LineageInv, EvaluationStep
    PROVE  StepKeeps
  <1>1. CASE StartEvaluation
    BY <1>1, QuietEvaluationStep
       DEF StartEvaluation, Goto, local, LineageInv, ControlInv, UnevaluatedLabels
  <1>2. ASSUME NEW outcome \in Outcomes, NEW score \in Scores,
               FinishEvaluation(outcome, score)
        PROVE  StepKeeps
    BY <1>2, EvaluationEnds, OutcomeAssumption
       DEF FinishEvaluation, Goto, local, others
  <1>3. CASE AppendReceipt
    <2>1. LineageKept
      BY <1>3, ReceiptLineage
    <2>2. PICK c \in Genids : c = Current
      BY <1>3 DEF AppendReceipt, LineageInv, IInv, PositionOK, EvaluatedLabels
    <2>3. ~Undecided(c)'
      BY <1>3, <2>2, ReceiptArchiveKept
         DEF AppendReceipt, LineageInv, ControlInv, EvaluatedLabels
    <2>4. c = Current'
      BY <1>3, <2>2 DEF AppendReceipt, Goto, local, Current
    <2> QED
      BY <1>3, <2>1, <2>3, <2>4
         DEF AppendReceipt, Goto, StepKeeps, ControlInv, UnevaluatedLabels, Undecided
  <1>4. CASE MaterializeBestEver
    BY <1>4, QuietStep
       DEF MaterializeBestEver, Exit, Goto, NextChild, ToSlot, Elsewhere,
           UnevaluatedLabels, EvaluatedLabels
  <1>5. CASE RecheckRejects
    <2>1. /\ Current \in Children /\ ~Accepted(Current)
          /\ EvaluationParent(Current) \in OptionalGenid
          /\ "invalid_proposal" \in TerminalStatuses
      BY <1>5, RecheckFacts DEF LineageInv, TerminalStatuses
    <2>2. Elsewhere' /\ UNCHANGED tags
      BY <1>5 DEF RecheckRejects, NextChild, ToSlot, others, Elsewhere,
                  UnevaluatedLabels, EvaluatedLabels
    <2> QED
      BY <1>5, <2>1, <2>2, DiscardStep DEF RecheckRejects
  <1> QED
    BY <1>1, <1>2, <1>3, <1>4, <1>5 DEF EvaluationStep

(* _run_gate_and_record and _run_terminal_record.                           *)
LEMMA GateAndRecordStepsKeep ==
    ASSUME LineageInv, GateStep \/ RecordStep
    PROVE  StepKeeps
  <1> USE DEF Elsewhere, UnevaluatedLabels, EvaluatedLabels
  <1>1. CASE EnterGate
    BY <1>1, QuietStep DEF EnterGate, Goto
  <1>2. CASE GateFails
    <2>1. /\ Current \in Children /\ ~Accepted(Current) /\ parent \in OptionalGenid
          /\ "operator_failed" \in TerminalStatuses
      BY <1>2, PendingIsNotAccepted
         DEF GateFails, LineageInv, IInv, PositionOK, CurrentOK, GateLabels, TypeOK,
             ProcessTypeOK, TerminalStatuses
    <2> QED
      BY <1>2, <2>1, DiscardStep DEF GateFails, ToRecord, others
  <1>3. ASSUME NEW accept \in BOOLEAN, GateDecides(accept)
        PROVE  StepKeeps
    <2>1. Current \in Children /\ Current \in gatePending
      BY <1>3 DEF GateDecides, LineageInv, IInv, PositionOK, CurrentOK, GateLabels
    <2>2. LineageKept
      BY <1>3, <2>1, VerdictLineage DEF GateDecides, others
    <2> QED
      BY <1>3, <2>2 DEF GateDecides, ToRecord, StepKeeps, ControlInv
  <1>4. CASE SkipRecord \/ StartRecord
    BY <1>4, QuietStep DEF SkipRecord, StartRecord, Goto, others
  <1>5. CASE RecordRefMissing
    BY <1>5, QuietStep DEF RecordRefMissing, Exit, others
  <1>6. ASSUME NEW event, FinishRecord(event),
               event = RecordedEvent(Current) \/ event = RecordErrorEvent(Current)
        PROVE  StepKeeps
    <2>1. Current \in Children
      BY <1>6 DEF FinishRecord, LineageInv, IInv, PositionOK, EndLabels
    <2>2. LineageKept
      BY <1>6, <2>1, RecordLineage DEF FinishRecord, others
    <2> QED
      BY <1>6, <2>2 DEF FinishRecord, Goto, StepKeeps, ControlInv
  <1>7. CASE LeaveUnselected \/ LeaveChild \/ LeaveGate
    BY <1>7, QuietStep
       DEF LeaveUnselected, LeaveChild, LeaveGate, NextChild, ToSlot, others
  <1> QED
    BY <1>1, <1>2, <1>3, <1>4, <1>5, <1>6, <1>7
       DEF GateStep, RecordStep, RecordSucceeds, RecordFails

(* The final anchor, the end of the run, faults and people.                  *)
LEMMA OtherStepsKeep ==
    ASSUME LineageInv, EndStep \/ FaultStep \/ PeopleStep
    PROVE  StepKeeps
  <1> USE DEF Elsewhere, UnevaluatedLabels, EvaluatedLabels
  <1>1. CASE FinalAnchorStarts
    BY <1>1, QuietStep DEF FinalAnchorStarts, others
  <1>2. ASSUME NEW outcome \in Outcomes, FinalAnchorEvaluated(outcome)
        PROVE  StepKeeps
    <2>1. parent \in Genids /\ outcome \in FailedOutcomes \cup {Complete}
      BY <1>2, OutcomeAssumption DEF FinalAnchorEvaluated, LineageInv, IInv, PositionOK
    <2>2. LineageKept
      BY <1>2, <2>1, AnchorLineage DEF FinalAnchorEvaluated
    <2> QED
      BY <1>2, <2>2 DEF FinalAnchorEvaluated, Exit, StepKeeps, ControlInv
  <1>3. CASE FinishRun
    BY <1>3, QuietStep DEF FinishRun, Exit, others
  <1>4. CASE Abort \/ \E edited \in BOOLEAN : Crash(edited)
    BY <1>4, QuietStep DEF Abort, Crash, Exit, others
  <1>5. CASE InterruptEvaluation
    <2>1. "cancelled" \in FailedOutcomes \cup {Complete} /\ None \in Scores \cup {None}
      BY DEF FailedOutcomes
    <2> QED
      BY <1>5, <2>1, EvaluationEnds DEF InterruptEvaluation, others
  <1>6. CASE StartRun
    BY <1>6, QuietStep DEF StartRun, others
  <1>7. CASE Repair \/ TemporaryFilesDeleted \/ EditsPreserved
    BY <1>7, QuietStep DEF Repair, TemporaryFilesDeleted, EditsPreserved, others
  <1> QED
    BY <1>1, <1>2, <1>3, <1>4, <1>5, <1>6, <1>7 DEF EndStep, FaultStep, PeopleStep

------------------------------------------------------------------------------
(* The refinement *)

(* Every step, and none at all, owes Lineage a step or a stutter.            *)
LEMMA EveryStepKeeps ==
    ASSUME LineageInv, [Next]_vars
    PROVE  LineageStep /\ LineageInv'
  <1>1. IInv'
    BY NextSteps, StutterKeepsIInv, StepKeepsIInv DEF LineageInv
  <1>2. CASE Next
    <2>1. StepKeeps
      BY <1>2, GenesisStepsKeep, SelectStepsKeep, ChildStepsKeep, EvaluationStepsKeep,
         GateAndRecordStepsKeep, OtherStepsKeep DEF Next, DriverStep
    <2> QED
      BY <1>1, <2>1 DEF StepKeeps, LineageKept, LineageInv
  <1>3. CASE UNCHANGED vars
    <2>1. LineageKept
      BY <1>3, NobodyMoves DEF vars, LineageInv
    <2>2. ControlInv'
      BY <1>3 DEF vars, archive, local, LineageInv, ControlInv, Unsettled, Undecided,
         Current, Row
    <2> QED
      BY <1>1, <2>1, <2>2 DEF LineageKept, LineageInv
  <1> QED
    BY <1>2, <1>3

(* A new workspace: the seed is committed and everything else is open.       *)
LEMMA InitIsLineage ==
    ASSUME Init
    PROVE  Abstract!Init /\ LineageInv
  <1> DEFINE scaffolded == MergeEvent(EmptyEntry, ScaffoldEvent)
  <1>1. IInv
    BY InitIInv
  <1>2. /\ rows[Genesis] = scaffolded
        /\ \A g \in Children : rows[g] = EmptyEntry
    BY GenidFacts DEF Init
  <1>3. /\ IsEntry(EmptyEntry) /\ DOMAIN EmptyEntry.row = {}
        /\ ~IsKeyedEvaluation(ScaffoldEvent)
    BY DEF EmptyEntry, IsEntry, EmptyDict, IsKeyedEvaluation, ScaffoldEvent, Get
  <1>4. \A key \in DOMAIN scaffolded.row :
            key \in DOMAIN ScaffoldEvent /\ scaffolded.row[key] = ScaffoldEvent[key]
    BY <1>3, MergedValues
  <1> HIDE DEF scaffolded
  <1>5. /\ "outcome" \notin DOMAIN scaffolded.row
        /\ "certified" \notin DOMAIN scaffolded.row
        /\ Get(scaffolded.row, "status") \in {"pending", None}
    BY <1>4 DEF ScaffoldEvent, Get
  <1>6. Undecided(Genesis) /\ Unsettled(Genesis) /\ ~IsCertified(Row(Genesis))
    BY <1>2, <1>5, StatusReads, StatusAssumption, NoneFacts
       DEF Undecided, Unsettled, Row, IsCertified, Get, TerminalStatuses, FailedOutcomes
  <1>7. ASSUME NEW g \in Children
        PROVE  Undecided(g) /\ Unsettled(g) /\ ~IsCertified(Row(g)) /\ ~Tagged(g)
    <2>1. DOMAIN Row(g) = {}
      BY <1>2, <1>3 DEF Row
    <2>2. tags[g] = None
      BY GenidFacts DEF Init
    <2> QED
      BY <2>1, <2>2, StatusReads, StatusAssumption, NoneFacts
         DEF Undecided, Unsettled, IsCertified, Get, Tagged
  <1>8. Abstract!Init
    <2>1. StageOf(Genesis) = "committed"
      BY <1>1, <1>6, StageMeans, GenidFacts DEF IInv, StageTable
    <2>2. \A g \in Children : StageOf(g) = "open"
      BY <1>1, <1>7, StageMeans, GenidFacts DEF IInv, StageTable
    <2> QED
      BY <2>1, <2>2, GenidFacts DEF Abstract!Init, stage, Init
  <1>9. RowsInv /\ ControlInv
    BY <1>6, <1>7, GenidFacts
       DEF Init, RowsInv, ControlInv, UnevaluatedLabels, EvaluatedLabels
  <1> QED
    BY <1>1, <1>8, <1>9 DEF LineageInv

(* A run with all its interruptions and resumes is a run of Lineage: nothing *)
(* is rejected, committed, evaluated or judged twice or taken back, and      *)
(* every commit is on a generation accepted before (_run_locked and all that *)
(* it calls).                                                                *)
THEOREM DriverRefinesLineage == Spec => ImplementsLineage
  <1>1. Init => Abstract!Init /\ LineageInv
    BY InitIsLineage
  <1>2. LineageInv /\ [Next]_vars => [Abstract!Next]_<<stage, tags>> /\ LineageInv'
    BY EveryStepKeeps DEF LineageStep
  <1> QED
    BY <1>1, <1>2, PTL DEF Spec, ImplementsLineage, Abstract!Spec
==============================================================================
