------------------------- MODULE DriverSafetyProofs --------------------------
(***************************************************************************)
(* What Driver owes its users, for every size of experiment: a run without  *)
(* faults leaves no linked worktree, and its operators read the current     *)
(* champion; the loop skips nothing; candidates enter the archive in the    *)
(* order of their ids, and what is rejected is out of use.                  *)
(* What a run publishes, its summary and its report, agrees with its rows.  *)
(***************************************************************************)
EXTENDS DriverLineageProofs, RunReport, FiniteSetTheorems, WellFoundedInduction

------------------------------------------------------------------------------
(* Clean runs.                                                               *)

(* Where no checkout is registered, and where the child's is. *)
BareLabels == {"idle", "genesis", "anchor", "generation", "unselected", "child",
               "evalstart", "receipt", "materialize", "gateenter"}
ChildLabels == StageNames \cup {"commit", "tag", "lineage", "unfork"}

OnlyKinds(kinds) == \A w \in worktrees : w.kind \in kinds

(* What _run_terminal_record's caller still holds. *)
HeldBy(origin) ==
    IF origin = "child" THEN {"child"}
    ELSE IF origin = "gate" THEN {"gate"}
    ELSE {}

CheckoutsOK ==
    faults = 0 =>
        /\ pc \in BareLabels => worktrees = {}
        /\ pc \in {"anchorrun", "finalrun", "evaluate"} => OnlyKinds({"eval"})
        /\ pc = "select" => OnlyKinds({"select"})
        /\ pc \in ChildLabels => OnlyKinds({"child"})
        /\ pc = "gate" => OnlyKinds({"gate"})
        /\ pc \in {"record", "leave"} => OnlyKinds(HeldBy(back))
        /\ pc = "recording" => OnlyKinds(HeldBy(back) \cup {"record"})

(* The cache is behind the archive between a receipt and materialize, and    *)
(* between a verdict and the return from the gate.                          *)
CacheIsBehind ==
    pc = "materialize" \/ (pc \in EndLabels /\ back = "gate")

CacheOK == faults = 0 /\ ~CacheIsBehind => bestEver = Champion

CleanInv == LineageInv /\ CheckoutsOK /\ CacheOK

------------------------------------------------------------------------------
(* Checkouts *)

(* git worktree add: one more checkout, of one kind.                         *)
LEMMA AddKind ==
    ASSUME NEW kinds, OnlyKinds(kinds), NEW kind, NEW g,
           worktrees' = worktrees \cup {Worktree(kind, g)}
    PROVE  OnlyKinds(kinds \cup {kind})'
  BY DEF OnlyKinds, Worktree

(* The finally blocks remove every checkout of a kind.                       *)
LEMMA DropKind ==
    ASSUME NEW kinds, OnlyKinds(kinds), NEW kind, worktrees' = Drop({kind})
    PROVE  OnlyKinds(kinds \ {kind})'
  BY DEF OnlyKinds, Drop

(* No kind, no checkout.                                                     *)
LEMMA NoKind ==
    /\ OnlyKinds({}) <=> worktrees = {}
    /\ OnlyKinds({})' <=> worktrees' = {}
  BY DEF OnlyKinds

(* Any step that is no fault, with the archive owed elsewhere.               *)
LEMMA CheckoutsGenesis ==
    ASSUME CheckoutsOK, GenesisStep \/ EndStep
    PROVE  CheckoutsOK'
  <1> USE DEF CheckoutsOK, BareLabels, ChildLabels, StageNames
  <1>1. CASE GenesisReady \/ GenesisEvaluation
    BY <1>1 DEF GenesisReady, GenesisEvaluation, Goto
  <1>2. CASE GenesisRefused \/ FinishRun
    BY <1>2 DEF GenesisRefused, FinishRun, Exit
  <1>3. CASE GenesisAnchorSkipped
    BY <1>3 DEF GenesisAnchorSkipped, ToGeneration
  <1>4. CASE GenesisAnchorStarts
    BY <1>4 DEF GenesisAnchorStarts, Goto, OnlyKinds, Worktree
  <1>5. ASSUME NEW outcome \in Outcomes, GenesisAnchorEvaluated(outcome)
        PROVE  CheckoutsOK'
    BY <1>5 DEF GenesisAnchorEvaluated, ToGeneration, Exit, OnlyKinds, Drop
  <1>6. CASE FinalAnchorStarts
    BY <1>6 DEF FinalAnchorStarts, OnlyKinds, Worktree
  <1>7. ASSUME NEW outcome \in Outcomes, FinalAnchorEvaluated(outcome)
        PROVE  CheckoutsOK'
    BY <1>7 DEF FinalAnchorEvaluated, Exit, OnlyKinds, Drop
  <1> QED
    BY <1>1, <1>2, <1>3, <1>4, <1>5, <1>6, <1>7 DEF GenesisStep, EndStep

(* Select has its own checkout, and removes it before it records anything.   *)
LEMMA CheckoutsSelect ==
    ASSUME CheckoutsOK, SelectStep
    PROVE  CheckoutsOK'
  <1> USE DEF CheckoutsOK, BareLabels, ChildLabels, StageNames
  <1>1. CASE SkipGeneration
    BY <1>1 DEF SkipGeneration, ToGeneration
  <1>2. CASE EnterSelect
    BY <1>2 DEF EnterSelect, Goto, OnlyKinds, Worktree
  <1>3. CASE SelectFails \/ \E parents \in ParentLists : SelectSucceeds(parents)
    BY <1>3 DEF SelectFails, SelectSucceeds, LeaveSelect, OnlyKinds, Drop
  <1>4. CASE FailUnselected
    BY <1>4, NoKind DEF FailUnselected, ToRecord, HeldBy
  <1>5. CASE PassSelected \/ EnterChildren
    BY <1>5 DEF PassSelected, EnterChildren, ToSlot
  <1> QED
    BY <1>1, <1>2, <1>3, <1>4, <1>5 DEF SelectStep

(* The child's checkout lives from the fork to the return of commit_child.   *)
LEMMA CheckoutsChild ==
    ASSUME IInv, CheckoutsOK, ChildStep
    PROVE  CheckoutsOK'
  <1> USE DEF CheckoutsOK, BareLabels, ChildLabels, StageNames
  <1>1. CASE EnterNextGeneration
    BY <1>1 DEF EnterNextGeneration, ToGeneration
  <1>2. CASE SkipChild
    BY <1>2 DEF SkipChild, AtChild, NextChild, ToSlot
  <1>3. CASE ResumeTaggedChild
    BY <1>3 DEF ResumeTaggedChild, AtChild
  <1>4. CASE ForkChild
    <2>1. PICK name \in StageNames : name = Stages[1]
      BY FirstStage
    <2>2. pc = "child" /\ pc' = name /\ faults' = faults
      BY <1>4, <2>1 DEF ForkChild, AtChild
    <2>3. worktrees = {} => OnlyKinds({"child"})'
      BY <1>4 DEF ForkChild, OnlyKinds, Worktree
    <2> QED
      BY <2>1, <2>2, <2>3
  <1>5. CASE ForkFails
    BY <1>5, NoKind DEF ForkFails, AtChild, OnlyKinds
  <1>6. CASE StageSucceeds
    <2>1. StageAfter(pc) \in StageNames \cup {"commit"}
      BY <1>6, StageFacts DEF StageSucceeds, IInv, PositionOK
    <2>2. OnlyKinds({"child"}) => OnlyKinds({"child"})'
      <3>1. \A w \in worktrees : [w EXCEPT !.dirty = TRUE].kind = w.kind
        BY DEF IInv, TypeOK, FilesTypeOK, Worktrees
      <3>2. \A w \in WithDirtyChild : \E v \in worktrees : w.kind = v.kind
        <4>1. SUFFICES ASSUME NEW v \in worktrees
                       PROVE  (IF v.kind = "child" THEN [v EXCEPT !.dirty = TRUE]
                               ELSE v).kind = v.kind
          BY DEF WithDirtyChild
        <4> QED
          BY <3>1
      <3>3. worktrees' = WithDirtyChild \/ worktrees' = worktrees
        BY <1>6 DEF StageSucceeds
      <3> QED
        BY <3>2, <3>3 DEF OnlyKinds
    <2>3. pc \in StageNames /\ pc' = StageAfter(pc) /\ faults' = faults
      BY <1>6 DEF StageSucceeds, Goto
    <2> QED
      BY <2>1, <2>2, <2>3
  <1>7. ASSUME NEW status \in TerminalStatuses, StageDiscards(status)
        PROVE  CheckoutsOK'
    BY <1>7 DEF StageDiscards, ToRecord, OnlyKinds, HeldBy
  <1>8. ASSUME NEW status \in TerminalStatuses, CommitRejects(status)
        PROVE  CheckoutsOK'
    BY <1>8 DEF CommitRejects, OnlyKinds, HeldBy
  <1>9. CASE CommitSnapshot
    BY <1>9 DEF CommitSnapshot, Goto, OnlyKinds, Worktree, ChildWorktrees
  <1>10. CASE CreateTag \/ AppendLineage
    BY <1>10 DEF CreateTag, AppendLineage, Goto, OnlyKinds
  <1>11. CASE LeaveWorktree
    BY <1>11 DEF LeaveWorktree, Goto, OnlyKinds, Drop
  <1> QED
    BY <1>1, <1>2, <1>3, <1>4, <1>5, <1>6, <1>7, <1>8, <1>9, <1>10, <1>11 DEF ChildStep

(* Evaluation and gate have a checkout each; record's is on top of the one   *)
(* its caller holds.                                                        *)
LEMMA CheckoutsLater ==
    ASSUME CheckoutsOK, EvaluationStep \/ GateStep \/ RecordStep
    PROVE  CheckoutsOK'
  <1> USE DEF CheckoutsOK, BareLabels, ChildLabels, StageNames
  <1>1. CASE StartEvaluation
    BY <1>1 DEF StartEvaluation, Goto, OnlyKinds, Worktree
  <1>2. ASSUME NEW outcome \in Outcomes, NEW score \in Scores,
               FinishEvaluation(outcome, score)
        PROVE  CheckoutsOK'
    BY <1>2 DEF FinishEvaluation, Goto, OnlyKinds, Drop
  <1>3. CASE AppendReceipt
    BY <1>3 DEF AppendReceipt, Goto
  <1>4. CASE MaterializeBestEver
    BY <1>4 DEF MaterializeBestEver, Exit, Goto, NextChild, ToSlot
  <1>5. CASE EnterGate
    BY <1>5 DEF EnterGate, Goto, OnlyKinds, Worktree
  <1>6. CASE GateFails \/ \E accept \in BOOLEAN : GateDecides(accept)
    BY <1>6 DEF GateFails, GateDecides, ToRecord, OnlyKinds, HeldBy
  <1>7. CASE SkipRecord
    BY <1>7 DEF SkipRecord, Goto, local, OnlyKinds
  <1>8. CASE StartRecord
    BY <1>8 DEF StartRecord, Goto, local, OnlyKinds, Worktree
  <1>9. CASE RecordRefMissing
    BY <1>9 DEF RecordRefMissing, Exit
  <1>10. CASE RecordSucceeds \/ RecordFails
    BY <1>10 DEF RecordSucceeds, RecordFails, FinishRecord, Goto, local, OnlyKinds, Drop
  <1>11. CASE LeaveUnselected
    BY <1>11, NoKind DEF LeaveUnselected, ToSlot, HeldBy
  <1>12. CASE LeaveChild
    BY <1>12 DEF LeaveChild, NextChild, ToSlot, HeldBy, OnlyKinds, Drop
  <1>13. CASE LeaveGate
    BY <1>13 DEF LeaveGate, NextChild, ToSlot, HeldBy, OnlyKinds, Drop
  <1>14. CASE RecheckRejects
    BY <1>14 DEF RecheckRejects, NextChild, ToSlot
  <1> QED
    BY <1>1, <1>2, <1>3, <1>4, <1>5, <1>6, <1>7, <1>8, <1>9, <1>10, <1>11, <1>12, <1>13,
       <1>14 DEF EvaluationStep, GateStep, RecordStep

(* After a fault nothing is claimed; people only remove.                     *)
LEMMA CheckoutsFaultsPeople ==
    ASSUME TypeOK, CheckoutsOK, FaultStep \/ PeopleStep
    PROVE  CheckoutsOK'
  <1> USE DEF CheckoutsOK, BareLabels, ChildLabels, StageNames
  <1>1. CASE FaultStep
    <2>1. faults' = faults + 1
      BY <1>1 DEF FaultStep, Abort, InterruptEvaluation, Crash
    <2>2. faults' # 0
      BY <2>1, FaultAssumption DEF TypeOK, ProcessTypeOK
    <2> QED
      BY <2>2
  <1>2. CASE StartRun
    BY <1>2 DEF StartRun
  <1>3. CASE Repair
    BY <1>3 DEF Repair
  <1>4. CASE TemporaryFilesDeleted \/ EditsPreserved
    BY <1>4 DEF TemporaryFilesDeleted, EditsPreserved, ChildWorktrees
  <1> QED
    BY <1>1, <1>2, <1>3, <1>4 DEF PeopleStep

------------------------------------------------------------------------------
(* The champion cache *)

(* best_row reads acceptances and scores, and nothing else.                  *)
LEMMA SameChampion ==
    ASSUME AcceptanceKept, NothingAccepted
    PROVE  Champion' = Champion
  <1>1. ASSUME NEW g \in Genids
        PROVE  /\ Accepted(g)' <=> Accepted(g)
               /\ Accepted(g) => Row(g)'.score = Row(g).score
    BY DEF AcceptanceKept, NothingAccepted
  <1>2. \A g \in Genids : IsChampion(g)' <=> IsChampion(g)
    BY <1>1 DEF IsChampion
  <1>3. (\E g \in Genids : IsChampion(g)') <=> (\E g \in Genids : IsChampion(g))
    BY <1>2
  <1>4. (CHOOSE g \in Genids : IsChampion(g)') = (CHOOSE g \in Genids : IsChampion(g))
    BY <1>2
  <1> QED
    BY <1>3, <1>4 DEF Champion

(* Neither does a step that leaves the archive and the tags alone.           *)
LEMMA QuietChampion ==
    ASSUME UNCHANGED <<archive, tags>>
    PROVE  Champion' = Champion
  BY DEF archive, Champion, IsChampion, Accepted, Tagged, Row

(* A step that keeps archive, tags and cache keeps the cache current.        *)
LEMMA QuietCache ==
    ASSUME CacheOK, UNCHANGED <<archive, tags, bestEver, faults>>,
           CacheIsBehind => CacheIsBehind'
    PROVE  CacheOK'
  BY QuietChampion DEF CacheOK

(* So does one that accepts nobody.                                          *)
LEMMA UnacceptingCache ==
    ASSUME CacheOK, AcceptanceKept, NothingAccepted, UNCHANGED <<bestEver, faults>>,
           ~CacheIsBehind
    PROVE  CacheOK'
  BY SameChampion DEF CacheOK

(* Rejections accept nobody.                                                 *)
LEMMA DiscardCache ==
    ASSUME LineageInv, CacheOK, ~CacheIsBehind, UNCHANGED <<tags, bestEver, faults>>,
           Current \in Children, ~Accepted(Current), NEW p \in OptionalGenid,
           NEW status \in TerminalStatuses,
           AppendEvent(DiscardEvent(Current, p, status))
    PROVE  CacheOK'
  <1>1. NothingAccepted
    BY DiscardLineage
  <1>2. PICK g \in Genids : g = Current
    BY GenidFacts
  <1>3. AcceptanceKept
    BY <1>2, DiscardArchiveKept DEF LineageInv, ArchiveKept
  <1> QED
    BY <1>1, <1>3, UnacceptingCache

(* The seed's evaluation and the anchors write the cache themselves.         *)
LEMMA CacheGenesis ==
    ASSUME LineageInv, CacheOK, GenesisStep \/ EndStep
    PROVE  CacheOK'
  <1> USE DEF CacheIsBehind, EndLabels
  <1>1. CASE GenesisReady \/ GenesisAnchorStarts \/ GenesisEvaluation
    BY <1>1, QuietCache
       DEF GenesisReady, GenesisAnchorStarts, GenesisEvaluation, Goto, others
  <1>2. CASE GenesisRefused \/ FinishRun
    BY <1>2, QuietCache DEF GenesisRefused, FinishRun, Exit, others
  <1>3. CASE GenesisAnchorSkipped
    BY <1>3, QuietCache DEF GenesisAnchorSkipped, ToGeneration, others
  <1>4. CASE FinalAnchorStarts
    BY <1>4, QuietCache DEF FinalAnchorStarts, others
  <1>5. CASE \E outcome \in Outcomes :
                GenesisAnchorEvaluated(outcome) \/ FinalAnchorEvaluated(outcome)
    BY <1>5 DEF GenesisAnchorEvaluated, FinalAnchorEvaluated, CacheOK
  <1> QED
    BY <1>1, <1>2, <1>3, <1>4, <1>5 DEF GenesisStep, EndStep

(* Select and the child's stages read the cache and reject.                  *)
LEMMA CacheSelectChild ==
    ASSUME LineageInv, CacheOK, SelectStep \/ ChildStep
    PROVE  CacheOK'
  <1> USE DEF CacheIsBehind, EndLabels
  <1>1. CASE SkipGeneration \/ EnterNextGeneration
    BY <1>1, QuietCache DEF SkipGeneration, EnterNextGeneration, ToGeneration, others
  <1>2. CASE EnterSelect
    BY <1>2, QuietCache DEF EnterSelect, Goto, others
  <1>3. CASE SelectFails \/ \E parents \in ParentLists : SelectSucceeds(parents)
    BY <1>3, QuietCache DEF SelectFails, SelectSucceeds, LeaveSelect, others
  <1>4. CASE PassSelected \/ EnterChildren
    BY <1>4, QuietCache DEF PassSelected, EnterChildren, ToSlot, others
  <1>5. CASE FailUnselected
    <2>1. /\ Current \in Children /\ ~Accepted(Current)
          /\ None \in OptionalGenid /\ "operator_failed" \in TerminalStatuses
      BY <1>5, UnselectedFacts
    <2> QED
      BY <1>5, <2>1, DiscardCache DEF FailUnselected, others
  <1>6. CASE SkipChild
    BY <1>6, QuietCache DEF SkipChild, AtChild, NextChild, ToSlot, others
  <1>7. CASE ResumeTaggedChild \/ ForkChild
    BY <1>7, QuietCache DEF ResumeTaggedChild, ForkChild, AtChild, others
  <1>8. CASE ForkFails
    <2>1. /\ Current \in Children /\ ChildParent \in OptionalGenid
          /\ ~Accepted(Current) /\ "operator_failed" \in TerminalStatuses
          /\ pc = "child"
      BY <1>8, AtChildFacts
         DEF ForkFails, LineageInv, Accepted, TerminalStatuses, AtChild
    <2> QED
      BY <1>8, <2>1, DiscardCache DEF ForkFails, others
  <1>9. CASE StageSucceeds
    BY <1>9, QuietCache DEF StageSucceeds, Goto, StageNames, others
  <1>10. ASSUME NEW status \in TerminalStatuses,
                StageDiscards(status) \/ CommitRejects(status)
         PROVE  CacheOK'
    <2>1. /\ Current \in Children /\ ~Accepted(Current) /\ parent \in OptionalGenid
      BY <1>10
         DEF StageDiscards, CommitRejects, LineageInv, IInv, PositionOK, CurrentOK,
             UncommittedLabels, Accepted, OptionalGenid
    <2>2. pc \in StageNames \cup {"commit"}
      BY <1>10 DEF StageDiscards, CommitRejects
    <2> QED
      BY <1>10, <2>1, <2>2, DiscardCache
         DEF StageDiscards, CommitRejects, others, StageNames
  <1>11. CASE CommitSnapshot \/ LeaveWorktree
    BY <1>11, QuietCache DEF CommitSnapshot, LeaveWorktree, Goto, others
  <1>12. CASE CreateTag
    <2>1. AcceptanceKept
      BY <1>12, TagArchiveKept DEF LineageInv, ArchiveKept
    <2>2. NothingAccepted
      <3>1. Undecided(Current)
        BY <1>12 DEF CreateTag, LineageInv, IInv, CurrentOK, Undecided
      <3>2. ~IsParentRecord(Row(Current))
        BY <3>1, NoneFacts DEF Undecided, IsParentRecord, Get
      <3>3. /\ Current \in Genids /\ rows' = rows
            /\ \A g \in Genids : g # Current => tags'[g] = tags[g]
        BY <1>12, GenidFacts
           DEF CreateTag, archive, LineageInv, IInv, PositionOK, UncommittedLabels,
               TypeOK, FilesTypeOK
      <3> QED
        BY <3>2, <3>3 DEF NothingAccepted, Accepted, Tagged, Row
    <2> QED
      BY <1>12, <2>1, <2>2, UnacceptingCache DEF CreateTag, Goto
  <1>13. CASE AppendLineage
    <2>1. PICK c \in Genids, p \in OptionalGenid : c = Current /\ p = parent
      BY <1>13
         DEF AppendLineage, LineageInv, IInv, PositionOK, TypeOK, ProcessTypeOK,
             UnevaluatedLabels
    <2>2. NothingAccepted
      BY <1>13, <2>1, CommitLineage DEF AppendLineage, others
    <2>3. AcceptanceKept
      BY <1>13, NextSteps
         DEF LineageInv, Next, DriverStep, ChildStep, StepOK, ArchiveKept
    <2> QED
      BY <1>13, <2>2, <2>3, UnacceptingCache DEF AppendLineage, Goto, others
  <1> QED
    BY <1>1, <1>2, <1>3, <1>4, <1>5, <1>6, <1>7, <1>8, <1>9, <1>10, <1>11, <1>12,
       <1>13 DEF SelectStep, ChildStep

(* A receipt and a verdict may change the champion; the cache is written     *)
(* before anyone reads it.                                                   *)
LEMMA CacheLater ==
    ASSUME LineageInv, CacheOK, EvaluationStep \/ GateStep \/ RecordStep
    PROVE  CacheOK'
  <1> USE DEF CacheIsBehind, EndLabels
  <1>1. CASE StartEvaluation
    BY <1>1, QuietCache DEF StartEvaluation, Goto
  <1>2. ASSUME NEW outcome \in Outcomes, NEW score \in Scores,
               FinishEvaluation(outcome, score)
        PROVE  CacheOK'
    <2>1. NothingAccepted
      <3>1. /\ IInv /\ Current \in Genids
            /\ Undecided(Current) /\ Tagged(Current) /\ Unsettled(Current)
        BY <1>2
           DEF FinishEvaluation, LineageInv, ControlInv, IInv, PositionOK, CurrentOK,
               UnevaluatedLabels
      <3>2. EvaluationParent(Current) \in OptionalGenid
        BY <3>1, EvaluationParentType
      <3> QED
        BY <1>2, <3>1, <3>2, EvaluationLineage, OutcomeAssumption
           DEF FinishEvaluation, others
    <2>2. AcceptanceKept
      BY <1>2, NextSteps
         DEF LineageInv, Next, DriverStep, EvaluationStep, StepOK, ArchiveKept
    <2> QED
      BY <1>2, <2>1, <2>2, UnacceptingCache DEF FinishEvaluation, Goto, others
  <1>3. CASE AppendReceipt
    BY <1>3 DEF AppendReceipt, Goto, CacheOK
  <1>4. CASE MaterializeBestEver
    <2>1. bestEver' = Champion /\ Champion' = Champion
      BY <1>4, QuietChampion DEF MaterializeBestEver
    <2> QED
      BY <2>1 DEF CacheOK
  <1>5. CASE EnterGate
    BY <1>5, QuietCache DEF EnterGate, Goto
  <1>6. CASE GateFails \/ \E accept \in BOOLEAN : GateDecides(accept)
    BY <1>6 DEF GateFails, GateDecides, ToRecord, CacheOK
  <1>7. CASE SkipRecord \/ StartRecord
    BY <1>7, QuietCache DEF SkipRecord, StartRecord, Goto, local, others
  <1>8. CASE RecordRefMissing
    BY <1>8, QuietCache DEF RecordRefMissing, RecordRefExists, Exit, others
  <1>9. ASSUME NEW event, FinishRecord(event),
               event = RecordedEvent(Current) \/ event = RecordErrorEvent(Current)
        PROVE  CacheOK'
    <2>1. CASE back = "gate"
      BY <1>9, <2>1 DEF FinishRecord, Goto, local, CacheOK
    <2>2. CASE back # "gate"
      <3>1. NothingAccepted
        <4>1. Current \in Children
          BY <1>9 DEF FinishRecord, LineageInv, IInv, PositionOK
        <4> QED
          BY <1>9, <4>1, RecordLineage DEF FinishRecord, others
      <3>2. AcceptanceKept
        BY <1>9, FinishRecordStep DEF LineageInv, StepOK, ArchiveKept
      <3> QED
        BY <1>9, <2>2, <3>1, <3>2, UnacceptingCache DEF FinishRecord, Goto, others
    <2> QED
      BY <2>1, <2>2
  <1>10. CASE LeaveUnselected \/ LeaveChild
    BY <1>10, QuietCache DEF LeaveUnselected, LeaveChild, NextChild, ToSlot, others
  <1>11. CASE LeaveGate
    <2>1. bestEver' = Champion /\ Champion' = Champion
      BY <1>11, QuietChampion DEF LeaveGate
    <2> QED
      BY <2>1 DEF CacheOK
  <1>12. CASE RecheckRejects
    <2>1. /\ Current \in Children /\ ~Accepted(Current)
          /\ EvaluationParent(Current) \in OptionalGenid
          /\ "invalid_proposal" \in TerminalStatuses
      BY <1>12, RecheckFacts DEF LineageInv, TerminalStatuses
    <2> QED
      BY <1>12, <2>1, DiscardCache DEF RecheckRejects, NextChild, ToSlot, others
  <1> QED
    BY <1>1, <1>2, <1>3, <1>4, <1>5, <1>6, <1>7, <1>8, <1>9, <1>10, <1>11, <1>12
       DEF EvaluationStep, GateStep, RecordStep, RecordSucceeds, RecordFails

(* After a fault nothing is claimed; people do not touch the archive.        *)
LEMMA CacheFaultsPeople ==
    ASSUME TypeOK, CacheOK, FaultStep \/ PeopleStep
    PROVE  CacheOK'
  <1> USE DEF CacheIsBehind, EndLabels
  <1>1. CASE FaultStep
    <2>1. faults' = faults + 1
      BY <1>1 DEF FaultStep, Abort, InterruptEvaluation, Crash
    <2>2. faults' # 0
      BY <2>1, FaultAssumption DEF TypeOK, ProcessTypeOK
    <2> QED
      BY <2>2 DEF CacheOK
  <1>2. CASE StartRun
    BY <1>2, QuietCache DEF StartRun, others, local
  <1>3. CASE Repair \/ TemporaryFilesDeleted \/ EditsPreserved
    BY <1>3, QuietCache DEF Repair, TemporaryFilesDeleted, EditsPreserved, others, local
  <1> QED
    BY <1>1, <1>2, <1>3 DEF PeopleStep

------------------------------------------------------------------------------
(* The theorems *)

(* Every step, and none at all, keeps checkouts and cache.                   *)
LEMMA EveryStepIsClean ==
    ASSUME CleanInv, [Next]_vars
    PROVE  CleanInv'
  <1>1. LineageInv'
    BY EveryStepKeeps DEF CleanInv
  <1>2. CASE Next
    BY <1>1, <1>2, CheckoutsGenesis, CheckoutsSelect, CheckoutsChild, CheckoutsLater,
       CheckoutsFaultsPeople, CacheGenesis, CacheSelectChild, CacheLater,
       CacheFaultsPeople
       DEF CleanInv, LineageInv, IInv, Next, DriverStep
  <1>3. CASE UNCHANGED vars
    <2>1. CheckoutsOK'
      BY <1>3 DEF CleanInv, CheckoutsOK, OnlyKinds, vars, local
    <2>2. CacheOK'
      BY <1>3, QuietCache DEF CleanInv, CacheIsBehind, vars, local
    <2> QED
      BY <1>1, <2>1, <2>2 DEF CleanInv
  <1> QED
    BY <1>2, <1>3

(* In a new workspace nobody is accepted and nothing is checked out.         *)
LEMMA InitIsClean ==
    ASSUME Init
    PROVE  CleanInv
  <1>1. LineageInv
    BY InitIsLineage
  <1>2. CheckoutsOK
    BY DEF Init, CheckoutsOK, BareLabels, ChildLabels, StageNames
  <1>3. \A g \in Genids : ~Accepted(g)
    <2>1. \A g \in Genids : StageOf(g) # "accepted"
      BY InitIsLineage DEF Abstract!Init, stage
    <2> QED
      BY <1>1, <2>1, StageMeans DEF LineageInv, IInv, StageTable
  <1>4. bestEver = Champion
    BY <1>3 DEF Init, Champion, IsChampion
  <1> QED
    BY <1>1, <1>2, <1>4 DEF CleanInv, CacheOK

(* The strengthened invariant of faultless runs.                             *)
THEOREM CleanInvariant == Spec => []CleanInv
  <1>1. Init => CleanInv
    BY InitIsClean
  <1>2. CleanInv /\ [Next]_vars => CleanInv'
    BY EveryStepIsClean
  <1> QED
    BY <1>1, <1>2, PTL DEF Spec

(* A run that meets no fault leaves no linked worktree, whatever its         *)
(* operators answer, so the next one is not refused (the finally blocks of   *)
(* _run_child, evaluate, _run_gate_and_record and _run_terminal_record).     *)
THEOREM NothingIsLeftBehind == Spec => []NoWorktreeLeft
  <1>1. CleanInv => NoWorktreeLeft
    BY DEF CleanInv, CheckoutsOK, BareLabels, NoWorktreeLeft
  <1> QED
    BY <1>1, CleanInvariant, PTL

(* best_ever.json is the archive's champion whenever an operator that reads  *)
(* it is run (materialize_best_ever_file against best_row).                  *)
THEOREM CacheIsCurrent == Spec => []OperatorsSeeChampion
  <1>1. CleanInv => OperatorsSeeChampion
    BY DEF CleanInv, CacheOK, CacheIsBehind, OperatorsSeeChampion, EndLabels, StageNames
  <1> QED
    BY <1>1, CleanInvariant, PTL

------------------------------------------------------------------------------
(* The loop of Driver skips nothing: for every number of faults, what it has *)
(* passed is settled, or only its gate failed.                               *)

Settled(g) ==
    GenerationIsPending(g) =>
        g \in gatePending /\ Get(Row(g), "status") = "operator_failed"

(* Which half of a generation the loop is in. *)
SelectPhase == pc = "unselected" \/ (pc \in EndLabels /\ back = "unselected")
ChildPhase ==
    /\ gen \in Generations
    /\ \/ pc \in {"child"} \cup UncommittedLabels \cup UnevaluatedLabels
                           \cup EvaluatedLabels \cup GateLabels
       \/ pc \in EndLabels /\ back # "unselected"

(* A child without an outcome has no status, or one that gives it up.        *)
StatusOK ==
    \A g \in Children : Undecided(g) /\ "status" \in DOMAIN Row(g) =>
        Row(g)["status"] \in TerminalStatuses

EarlierSettled == \A g \in Children : g[1] < gen => Settled(g)
SiblingsSettled == \A s \in Slots : s < slot => Settled(<<gen, s>>)
GivenUpSettled(from) ==
    \A s \in Slots : s \in from /\ selected[s] = None => Settled(<<gen, s>>)

PastInv ==
    /\ StatusOK
    /\ pc \notin OutsideLabels => EarlierSettled
    /\ SelectPhase => GivenUpSettled(0..(slot - 1))
    /\ ChildPhase => SiblingsSettled /\ GivenUpSettled((slot + 1)..ChildrenPerGen)
    /\ pc = "child" /\ slot \in Slots /\ selected[slot] = None => Settled(Current)
    /\ pc \in EndLabels => Settled(Current)

(* What a step about one generation leaves to the others. *)
SettledElsewhere(g) == \A h \in Children : h # g /\ Settled(h) => Settled(h)'

------------------------------------------------------------------------------
(* Lines of the archive *)

(* An event writes the status of a row that has none, and operator_failed    *)
(* over the status of one that awaits its gate (_can_terminal_override).     *)
LEMMA StatusWritten ==
    ASSUME NEW entry, IsEntry(entry), NEW event,
           NEW merged, merged = MergeEvent(entry, event),
           ~IsKeyedEvaluation(event), "status" \in DOMAIN event,
           "status" \notin DOMAIN entry.row \/ TerminalOverride(entry.row, event)
    PROVE  Get(merged.row, "status") = event["status"]
  <1> DEFINE taken == Writable(entry.row, event) \
                 (IF RefusesValidParent(entry.row, event) THEN {"valid_parent"} ELSE {})
  <1>1. merged.row = Overlay(entry.row, event, taken)
    BY UnkeyedMergeRow DEF MergeEventFields
  <1>2. "status" \in taken
    BY DEF Writable, ReservedAuxiliaryFields
  <1> HIDE DEF taken
  <1> QED
    BY <1>1, <1>2, OverlayDomain, OverlayTaken DEF Get

(* Settled reads the status and the scan, and nothing else.                  *)
LEMMA SameReadingSameSettled ==
    ASSUME NEW g, Get(Row(g), "outcome")' = Get(Row(g), "outcome"),
           Get(Row(g), "status")' = Get(Row(g), "status"),
           g \in gatePending' <=> g \in gatePending
    PROVE  Settled(g)' <=> Settled(g)
  <1>1. EvaluationStatus(Row(g))' = EvaluationStatus(Row(g))
    BY NoneFacts DEF EvaluationStatus, Get
  <1> QED
    BY <1>1 DEF Settled, GenerationIsPending

(* Rows and scan unchanged: everybody is as settled as before.               *)
LEMMA QuietSettled ==
    ASSUME StatusOK, UNCHANGED <<rows, gatePending>>
    PROVE  /\ StatusOK'
           /\ \A g \in Children : Settled(g)' <=> Settled(g)
  BY DEF StatusOK, Undecided, Settled, GenerationIsPending, Row

(* A plain line concerns its own generation only.                            *)
LEMMA PlainElsewhere ==
    ASSUME IInv, StatusOK, NEW event, PlainEvent(event), event.genid \in Genids,
           AppendEvent(event),
           "status" \in DOMAIN event => event["status"] \in TerminalStatuses,
           \A h \in Genids : h # event.genid =>
               (h \in gatePending' <=> h \in gatePending)
    PROVE  StatusOK' /\ SettledElsewhere(event.genid)
  <1> DEFINE e == event.genid
  <1>1. /\ rows'[e] = MergeEvent(rows[e], event)
        /\ \A h \in Genids : h # e => Row(h)' = Row(h)
        /\ \A h \in Genids : Undecided(h)' <=> Undecided(h)
    BY PlainTouches
  <1>2. IsEntry(rows[e]) /\ ~IsKeyedEvaluation(event)
    BY DEF IInv, EntriesOK, EntryOK, PlainEvent
  <1>3. \A key \in DOMAIN rows'[e].row :
             \/ key \in DOMAIN rows[e].row /\ rows'[e].row[key] = rows[e].row[key]
             \/ key \in DOMAIN event /\ rows'[e].row[key] = event[key]
    BY <1>1, <1>2, MergedValues
  <1>4. StatusOK'
    <2> SUFFICES ASSUME NEW g \in Children, Undecided(g)', "status" \in DOMAIN Row(g)'
                 PROVE  Row(g)'["status"] \in TerminalStatuses
      BY DEF StatusOK
    <2>1. Undecided(g) /\ g \in Genids
      BY <1>1, GenidFacts
    <2>2. CASE g # e
      BY <1>1, <2>1, <2>2 DEF StatusOK
    <2>3. CASE g = e
      BY <1>3, <2>1, <2>3 DEF StatusOK, Row
    <2> QED
      BY <2>2, <2>3
  <1>5. SettledElsewhere(e)
    BY <1>1, SameReadingSameSettled, GenidFacts DEF SettledElsewhere
  <1> QED
    BY <1>4, <1>5

(* A discarded generation is given up, or waits for its gate as one whose    *)
(* gate failed.                                                              *)
LEMMA DiscardSettles ==
    ASSUME IInv, StatusOK, NEW g \in Children, NEW p \in OptionalGenid,
           NEW status \in TerminalStatuses,
           g \in gatePending => status = "operator_failed",
           AppendEvent(DiscardEvent(g, p, status))
    PROVE  StatusOK' /\ SettledElsewhere(g) /\ Settled(g)'
  <1> DEFINE event == DiscardEvent(g, p, status)
  <1>1. /\ PlainEvent(event) /\ event.genid = g /\ g \in Genids
        /\ \A S : ScanPending(S, event) = S
    BY DiscardIsPlain, GenidFacts
  <1>2. /\ "status" \in DOMAIN event /\ event["status"] = status
        /\ "outcome" \notin DOMAIN event
    BY DEF DiscardEvent
  <1> HIDE DEF event
  <1>3. /\ AppendEvent(event) /\ IsEntry(rows[g]) /\ ~IsKeyedEvaluation(event)
    BY <1>1 DEF event, IInv, EntriesOK, EntryOK, PlainEvent
  <1>4. /\ rows'[g] = MergeEvent(rows[g], event)
        /\ Get(Row(g), "outcome")' = Get(Row(g), "outcome")
        /\ Undecided(g)' <=> Undecided(g)
        /\ gatePending' = gatePending
    BY <1>1, <1>2, <1>3, PlainTouches
  <1>5. StatusOK' /\ SettledElsewhere(g)
    BY <1>1, <1>2, <1>3, <1>4, PlainElsewhere
  <1>6. CASE g \in gatePending
    <2>1. TerminalOverride(rows[g].row, event)
      BY <1>2, <1>6 DEF IInv, PendingIsConsistent, TerminalOverride, Row, Get
    <2>2. Get(Row(g), "status")' = "operator_failed"
      BY <1>2, <1>3, <1>4, <1>6, <2>1, StatusWritten DEF Row
    <2> QED
      BY <1>4, <1>5, <1>6, <2>2 DEF Settled
  <1>7. CASE g \notin gatePending
    <2>1. EvaluationStatus(Row(g))' \in TerminalStatuses
      <3>1. CASE Undecided(g)
        <4>1. Get(Row(g), "status")' \in TerminalStatuses
          <5>1. CASE "status" \in DOMAIN Row(g)
            <6>1. /\ Row(g)["status"] \in TerminalStatuses
                  /\ "status" \in DOMAIN rows'[g].row
              BY <1>3, <1>4, <3>1, <5>1, MergedValues DEF StatusOK, Row
            <6> QED
              BY <1>4, <1>5, <3>1, <6>1 DEF StatusOK, Get, Row
          <5>2. CASE "status" \notin DOMAIN Row(g)
            BY <1>2, <1>3, <1>4, <5>2, StatusWritten DEF Row
          <5> QED
            BY <5>1, <5>2
        <4>2. Undecided(g)'
          BY <1>4, <3>1
        <4> QED
          BY <4>1, <4>2, StatusReads DEF Undecided
      <3>2. CASE ~Undecided(g)
        <4>1. Get(Row(g), "outcome")' \in FailedOutcomes \cup {Complete}
          BY <1>1, <1>4, <3>2 DEF IInv, EntriesOK, EntryOK, Undecided, Get, Row
        <4> QED
          BY <4>1, StatusReads DEF TerminalStatuses
      <3> QED
        BY <3>1, <3>2
    <2> QED
      BY <1>4, <1>5, <1>7, <2>1 DEF Settled, GenerationIsPending
  <1> QED
    BY <1>5, <1>6, <1>7

(* The verdict settles its generation.                                       *)
LEMMA VerdictSettles ==
    ASSUME IInv, StatusOK, NEW g \in Children, g \in gatePending,
           NEW accept \in BOOLEAN, AppendEvent(VerdictEvent(g, accept))
    PROVE  StatusOK' /\ SettledElsewhere(g) /\ Settled(g)'
  <1> DEFINE event == VerdictEvent(g, accept)
  <1>1. /\ PlainEvent(event) /\ event.genid = g /\ g \in Genids
        /\ \A S : ScanPending(S, event) = S \ {g}
        /\ "outcome" \notin DOMAIN event /\ "status" \notin DOMAIN event
    BY VerdictIsPlain, GenidFacts DEF VerdictEvent
  <1> HIDE DEF event
  <1>2. AppendEvent(event)
    BY DEF event
  <1>3. /\ Get(Row(g), "outcome")' = Get(Row(g), "outcome")
        /\ gatePending' = gatePending \ {g}
    BY <1>1, <1>2, PlainTouches
  <1>4. EvaluationStatus(Row(g))' \in TerminalStatuses
    BY <1>3, StatusReads DEF IInv, PendingIsConsistent, TerminalStatuses
  <1>5. StatusOK' /\ SettledElsewhere(g)
    BY <1>1, <1>2, <1>3, PlainElsewhere
  <1> QED
    BY <1>3, <1>4, <1>5 DEF Settled, GenerationIsPending

(* A record line leaves a settled generation settled: if it ends the wait,   *)
(* the evaluation was complete.                                              *)
LEMMA RecordSettles ==
    ASSUME IInv, StatusOK, NEW g \in Children, Settled(g),
           NEW event, event = RecordedEvent(g) \/ event = RecordErrorEvent(g),
           AppendEvent(event)
    PROVE  StatusOK' /\ SettledElsewhere(g) /\ Settled(g)'
  <1>1. /\ PlainEvent(event) /\ event.genid = g /\ g \in Genids
        /\ DOMAIN event \subseteq {"genid", "record_attempted", "record_error"}
    BY RecordIsPlain, GenidFacts
  <1>2. /\ Get(Row(g), "outcome")' = Get(Row(g), "outcome")
        /\ Get(Row(g), "status")' = Get(Row(g), "status")
        /\ gatePending' = ScanPending(gatePending, event)
    BY <1>1, PlainTouches
  <1>3. gatePending' = gatePending \/ gatePending' = gatePending \ {g}
    BY <1>1, <1>2, NoneFacts DEF ScanPending, IsEvaluationStamp, Get, PlainEvent
  <1>4. StatusOK' /\ SettledElsewhere(g)
    BY <1>1, <1>3, PlainElsewhere
  <1>5. CASE g \in gatePending' <=> g \in gatePending
    BY <1>2, <1>4, <1>5, SameReadingSameSettled
  <1>6. CASE g \in gatePending /\ g \notin gatePending'
    <2>1. EvaluationStatus(Row(g))' \in TerminalStatuses
      BY <1>2, <1>6, StatusReads DEF IInv, PendingIsConsistent, TerminalStatuses
    <2> QED
      BY <1>4, <1>6, <2>1 DEF Settled, GenerationIsPending
  <1> QED
    BY <1>3, <1>5, <1>6

(* The lineage line concerns its own generation only.                        *)
LEMMA CommitElsewhere ==
    ASSUME IInv, StatusOK, NEW g \in Genids, NEW p \in OptionalGenid,
           AppendEvent(CommitEvent(g, p))
    PROVE  StatusOK' /\ SettledElsewhere(g)
  <1> DEFINE event == CommitEvent(g, p)
  <1>1. /\ PlainEvent(event) /\ event.genid = g
        /\ DOMAIN event = {"genid", "parent"}
        /\ \A S : ScanPending(S, event) = S
    BY CommitIsPlain
  <1> HIDE DEF event
  <1>2. AppendEvent(event) /\ gatePending' = gatePending
    BY <1>1 DEF event, AppendEvent
  <1> QED
    BY <1>1, <1>2, PlainElsewhere

(* An evaluation concerns its own generation only.                           *)
LEMMA EvaluationElsewhere ==
    ASSUME IInv, StatusOK, UNCHANGED tags,
           NEW g \in Genids, Undecided(g), Tagged(g), NEW p \in OptionalGenid,
           NEW outcome \in FailedOutcomes \cup {Complete},
           NEW score \in Scores \cup {None},
           AppendEvent(EvaluationEvent(g, p, outcome, score))
    PROVE  StatusOK' /\ SettledElsewhere(g)
  <1> DEFINE event == EvaluationEvent(g, p, outcome, score)
             pending == outcome = Complete /\ g # Genesis
  <1>1. /\ event.genid = g
        /\ \A S : ScanPending(S, event) = IF pending THEN S \cup {g} ELSE S
    BY EvaluationEventFacts
  <1>2. Get(Row(g), "outcome")' = outcome
    BY EvaluationArchiveKept
  <1> HIDE DEF event
  <1>3. /\ \A h \in Genids : h # g => rows'[h] = rows[h]
        /\ gatePending' = IF pending THEN gatePending \cup {g} ELSE gatePending
    BY <1>1, AppendTouchesOne DEF event, IInv
  <1>4. ~Undecided(g)'
    BY <1>2, NoneFacts DEF Undecided, Get, CanonicalOutcomes
  <1>5. StatusOK'
    BY <1>3, <1>4, GenidFacts DEF StatusOK, Undecided, Row
  <1>6. SettledElsewhere(g)
    BY <1>3, SameReadingSameSettled, GenidFacts DEF SettledElsewhere, Row
  <1> QED
    BY <1>5, <1>6

(* A receipt changes nobody's status.                                        *)
LEMMA ReceiptSettles ==
    ASSUME IInv, StatusOK, AppendReceipt
    PROVE  StatusOK' /\ \A h \in Children : Settled(h)' <=> Settled(h)
  <1> DEFINE c == Current
             receipt == [certified |-> TRUE]
  <1>1. c \in Genids
    BY DEF AppendReceipt, IInv, PositionOK, EvaluatedLabels
  <1>2. /\ rows' = [rows EXCEPT ![c].row = Overlay(@, receipt, {"certified"})]
        /\ gatePending' = gatePending
    BY DEF AppendReceipt
  <1>3. IsEntry(rows[c]) /\ DOMAIN rows = Genids
    BY <1>1 DEF IInv, TypeOK, ArchiveTypeOK, EntriesOK, EntryOK
  <1> HIDE DEF c, receipt
  <1>4. /\ \A g \in Genids : g # c => rows'[g] = rows[g]
        /\ rows'[c].row = Overlay(rows[c].row, receipt, {"certified"})
    BY <1>1, <1>2, <1>3 DEF IsEntry
  <1>5. \A key : key # "certified" =>
            /\ key \in DOMAIN rows'[c].row <=> key \in DOMAIN rows[c].row
            /\ Get(rows'[c].row, key) = Get(rows[c].row, key)
    BY <1>4, OverlayDomain, OverlayGet
  <1>6. StatusOK'
    BY <1>1, <1>4, <1>5, GenidFacts DEF StatusOK, Undecided, Row, Get
  <1>7. \A h \in Children : Settled(h)' <=> Settled(h)
    BY <1>2, <1>4, <1>5, SameReadingSameSettled, GenidFacts DEF Row
  <1> QED
    BY <1>6, <1>7

(* Nor does a sealed evaluation.                                             *)
LEMMA AnchorSettles ==
    ASSUME IInv, StatusOK, NEW g \in Genids, NEW outcome,
           AppendEvent(AnchorEvent(g, outcome))
    PROVE  StatusOK' /\ \A h \in Children : Settled(h)' <=> Settled(h)
  <1> DEFINE event == AnchorEvent(g, outcome)
  <1>1. /\ event.genid = g
        /\ IsKeyedEvaluation(event) /\ IsAuxiliary(event)
        /\ \A S : ScanPending(S, event) = S
    BY NoneFacts DEF AnchorEvent, IsKeyedEvaluation, IsAuxiliary, Get,
       ScanPending, IsEvaluationStamp, MarksPendingGateRecord,
       IsGateRecordEvent, StampedFields
  <1> HIDE DEF event
  <1>2. /\ rows'[g] = MergeEvent(rows[g], event)
        /\ \A h \in Genids : h # g => rows'[h] = rows[h]
        /\ gatePending' = gatePending
    BY <1>1, AppendTouchesOne DEF event, IInv
  <1>3. \A key : key # "genid" =>
           /\ key \in DOMAIN rows'[g].row <=> key \in DOMAIN rows[g].row
           /\ Get(rows'[g].row, key) = Get(rows[g].row, key)
    BY <1>1, <1>2, AuxiliaryMerge DEF IInv, EntriesOK, EntryOK
  <1>4. StatusOK'
    BY <1>2, <1>3, GenidFacts DEF StatusOK, Undecided, Row, Get
  <1>5. \A h \in Children : Settled(h)' <=> Settled(h)
    BY <1>2, <1>3, SameReadingSameSettled, GenidFacts DEF Row
  <1> QED
    BY <1>4, <1>5

------------------------------------------------------------------------------
(* Control *)

(* The current child, its siblings and the generations before.               *)
LEMMA SiblingFacts ==
    ASSUME gen \in Generations
    PROVE  /\ \A s \in Slots : <<gen, s>> \in Children
           /\ \A s \in Slots : s # slot => <<gen, s>> # Current
           /\ \A g \in Children : g[1] < gen => g # Current
           /\ \A g \in Children : g[1] < gen + 1 =>
                 g[1] < gen \/ \E s \in Slots : g = <<gen, s>>
  BY SizeAssumption DEF Children, Current, Generations, Slots

(* Before the first generation there are no children.                        *)
LEMMA NoEarlierChildren ==
    /\ gen = 0 => EarlierSettled
    /\ gen' \in {0, 1} => EarlierSettled'
  BY SizeAssumption DEF EarlierSettled, Children, Generations

(* Where the loop is, in numbers.                                            *)
LEMMA PhaseFacts ==
    ASSUME IInv
    PROVE  /\ slot \in 0..ChildrenPerGen /\ ChildrenPerGen \in Nat
           /\ SelectPhase => gen \in Generations
           /\ pc = "child" => ChildPhase
           /\ pc \in UncommittedLabels \cup GateLabels \cup EndLabels =>
                 gen \in Generations /\ slot \in Slots /\ Current \in Children
           /\ pc \in UnevaluatedLabels \cup EvaluatedLabels =>
                 gen \in Generations \/ gen = 0
  <1>1. /\ PositionOK /\ slot \in 0..ChildrenPerGen /\ ChildrenPerGen \in Nat
    BY SizeAssumption DEF IInv, TypeOK, ProcessTypeOK
  <1>2. Current \in Children => gen \in Generations /\ slot \in Slots
    BY DEF Current, Children
  <1>3. Current \in Genids => gen \in Generations \/ gen = 0
    BY <1>2, GenesisAssumption DEF Genids, Current
  <1> QED
    BY <1>1, <1>2, <1>3 DEF PositionOK, SelectPhase, ChildPhase

(* Outside the loop nothing is claimed of it.                                *)
LEMMA GoOutside ==
    ASSUME StatusOK', pc' \in OutsideLabels
    PROVE  PastInv'
  BY DEF PastInv, SelectPhase, ChildPhase, OutsideLabels, EndLabels,
     UncommittedLabels, UnevaluatedLabels, EvaluatedLabels, GateLabels, StageNames

(* Nor while the seed is evaluated.                                          *)
LEMMA GoToSeed ==
    ASSUME StatusOK', gen' = 0, pc' \notin EndLabels \cup {"child", "unselected"}
    PROVE  PastInv'
  BY NoEarlierChildren, SizeAssumption
     DEF PastInv, SelectPhase, ChildPhase, Generations

(* At the head of a generation the earlier ones are settled.                 *)
LEMMA GoToHead ==
    ASSUME StatusOK', pc' \in {"generation", "select", "finalrun"}, EarlierSettled'
    PROVE  PastInv'
  BY DEF PastInv, SelectPhase, ChildPhase, EndLabels, UncommittedLabels,
     UnevaluatedLabels, EvaluatedLabels, GateLabels, StageNames

(* A step about the current child, within its half of the generation.        *)
LEMMA StayWithin ==
    ASSUME IInv, PastInv, StatusOK', SettledElsewhere(Current),
           UNCHANGED <<gen, slot, selected>>,
           pc \notin OutsideLabels, pc' # "child",
           SelectPhase' => SelectPhase, ChildPhase' => ChildPhase,
           \/ gen \in Generations
           \/ gen = 0 /\ pc' \notin EndLabels \cup {"unselected"},
           pc' \in EndLabels => Settled(Current)'
    PROVE  PastInv'
  <1>1. CASE gen = 0 /\ pc' \notin EndLabels \cup {"unselected"}
    BY <1>1, GoToSeed
  <1>2. CASE gen \in Generations
    <2>1. EarlierSettled'
      BY <1>2, SiblingFacts DEF PastInv, EarlierSettled, SettledElsewhere
    <2>2. \A s \in Slots : s # slot /\ Settled(<<gen, s>>) => Settled(<<gen, s>>)'
      BY <1>2, SiblingFacts DEF SettledElsewhere
    <2>3. SelectPhase' => GivenUpSettled(0..(slot - 1))'
      BY <2>2, PhaseFacts DEF PastInv, GivenUpSettled, Slots
    <2>4. ChildPhase' => SiblingsSettled' /\ GivenUpSettled((slot + 1)..ChildrenPerGen)'
      BY <2>2, PhaseFacts DEF PastInv, SiblingsSettled, GivenUpSettled, Slots
    <2> QED
      BY <2>1, <2>3, <2>4 DEF PastInv
  <1> QED
    BY <1>1, <1>2

(* A step that settles nobody and unsettles nobody.                          *)
LEMMA StayQuietly ==
    ASSUME IInv, PastInv, StatusOK', \A h \in Children : Settled(h)' <=> Settled(h),
           UNCHANGED <<gen, slot, selected>>,
           pc \notin OutsideLabels, pc' # "child",
           SelectPhase' => SelectPhase, ChildPhase' => ChildPhase,
           \/ gen \in Generations
           \/ gen = 0 /\ pc' \notin EndLabels \cup {"unselected"},
           pc' \in EndLabels => pc \in EndLabels
    PROVE  PastInv'
  <1>1. SettledElsewhere(Current)
    BY DEF SettledElsewhere
  <1>2. pc' \in EndLabels => Settled(Current)'
    <2>1. SUFFICES ASSUME pc \in EndLabels
                   PROVE  Settled(Current)'
      OBVIOUS
    <2>2. Current \in Children /\ Settled(Current)
      BY <2>1, PhaseFacts DEF PastInv
    <2>3. PICK c \in Children : c = Current
      BY <2>2
    <2>4. c = Current'
      BY <2>3 DEF Current
    <2>5. Settled(c)'
      BY <2>2, <2>3
    <2> QED
      BY <2>4, <2>5 DEF Settled, GenerationIsPending, Row
  <1> QED
    BY <1>1, <1>2, StayWithin

(* The child is settled or becomes so, and the loop goes on to its sibling.  *)
LEMMA GoToSibling ==
    ASSUME IInv, PastInv, StatusOK', \A h \in Children : Settled(h) => Settled(h)',
           \A h \in Children : h = Current => Settled(h)',
           ChildPhase, pc \notin OutsideLabels, slot \in Slots, NextChild
    PROVE  PastInv'
  <1>1. /\ pc' = "child" /\ slot' = slot + 1 /\ UNCHANGED <<gen, selected>>
        /\ gen \in Generations
    BY DEF NextChild, ToSlot, ChildPhase
  <1>2. EarlierSettled'
    BY <1>1 DEF PastInv, EarlierSettled
  <1>3. ASSUME NEW s \in Slots, Settled(<<gen, s>>) \/ s = slot
        PROVE  Settled(<<gen, s>>)'
    <2>1. PICK h \in Children : h = <<gen, s>>
      BY <1>1, SiblingFacts
    <2>2. h = <<gen, s>>'
      BY <1>1, <2>1
    <2>3. Settled(h)'
      BY <1>3, <2>1 DEF Current
    <2> QED
      BY <2>1, <2>2, <2>3 DEF Settled, GenerationIsPending, Row
  <1>4. SiblingsSettled'
    BY <1>1, <1>3 DEF PastInv, SiblingsSettled, Current, Slots
  <1>5. /\ GivenUpSettled((slot + 1)..ChildrenPerGen)'
        /\ slot' \in Slots /\ selected[slot]' = None => Settled(Current)'
    BY <1>1, <1>3, PhaseFacts DEF PastInv, GivenUpSettled, Current, Slots
  <1>6. ~SelectPhase' /\ pc' \notin EndLabels
    BY <1>1 DEF SelectPhase, EndLabels
  <1> QED
    BY <1>1, <1>2, <1>4, <1>5, <1>6 DEF PastInv

(* The child has a parent or is settled, and the failures of select go on.   *)
LEMMA GoToNextFailure ==
    ASSUME IInv, PastInv, StatusOK', \A h \in Children : Settled(h)' <=> Settled(h),
           SelectPhase, slot \in Slots, selected[slot] # None \/ Settled(Current),
           ToSlot("unselected", slot + 1)
    PROVE  PastInv'
  <1>1. /\ pc' = "unselected" /\ slot' = slot + 1 /\ UNCHANGED <<gen, selected>>
        /\ gen \in Generations /\ pc \notin OutsideLabels
    BY PhaseFacts DEF ToSlot, SelectPhase, OutsideLabels, EndLabels
  <1>2. EarlierSettled'
    BY <1>1 DEF PastInv, EarlierSettled
  <1>3. ASSUME NEW s \in Slots
        PROVE  Settled(<<gen, s>>) => Settled(<<gen, s>>)'
    <2>1. PICK h \in Children : h = <<gen, s>>
      BY <1>1, SiblingFacts
    <2>2. h = <<gen, s>>'
      BY <1>1, <2>1
    <2>3. Settled(h)' <=> Settled(h)
      OBVIOUS
    <2> QED
      BY <2>1, <2>2, <2>3 DEF Settled, GenerationIsPending, Row
  <1>4. GivenUpSettled(0..(slot - 1))'
    BY <1>1, <1>3, PhaseFacts DEF PastInv, GivenUpSettled, Current, Slots
  <1>5. ~ChildPhase' /\ pc' \notin EndLabels
    BY <1>1 DEF ChildPhase, EndLabels, UncommittedLabels, UnevaluatedLabels,
       EvaluatedLabels, GateLabels, StageNames
  <1> QED
    BY <1>1, <1>2, <1>4, <1>5 DEF PastInv
------------------------------------------------------------------------------
(* Steps that write nothing, and lines that end the work on a child *)

(* A run that ends or begins with nothing written. *)
LEMMA QuietOutside ==
    ASSUME PastInv, UNCHANGED archive, pc' \in OutsideLabels
    PROVE  PastInv'
  BY QuietSettled, GoOutside DEF PastInv, archive

(* Nothing is written, and the loop stays at the head of its generation. *)
LEMMA QuietHead ==
    ASSUME PastInv, UNCHANGED archive, pc \notin OutsideLabels, gen' = gen,
           pc' \in {"generation", "select", "finalrun"}
    PROVE  PastInv'
  <1>1. StatusOK' /\ \A g \in Children : Settled(g)' <=> Settled(g)
    BY QuietSettled DEF PastInv, archive
  <1>2. EarlierSettled'
    BY <1>1 DEF PastInv, EarlierSettled
  <1> QED
    BY <1>1, <1>2, GoToHead

(* The next generation begins when every child of this one is settled.       *)
LEMMA QuietNextHead ==
    ASSUME PastInv, UNCHANGED archive, pc \notin OutsideLabels,
           gen \in Generations, \A s \in Slots : Settled(<<gen, s>>),
           pc' = "generation", gen' = gen + 1
    PROVE  PastInv'
  <1>1. StatusOK' /\ \A g \in Children : Settled(g)' <=> Settled(g)
    BY QuietSettled DEF PastInv, archive
  <1>2. ASSUME NEW g \in Children, g[1] < gen + 1
        PROVE  Settled(g)
    <2>1. CASE g[1] < gen
      BY <1>2, <2>1 DEF PastInv, EarlierSettled
    <2>2. CASE \E s \in Slots : g = <<gen, s>>
      BY <2>2
    <2> QED
      BY <1>2, <2>1, <2>2, SiblingFacts
  <1>3. EarlierSettled'
    BY <1>1, <1>2 DEF EarlierSettled
  <1> QED
    BY <1>1, <1>3, GoToHead

(* Nothing is written, within one half of a generation. *)
LEMMA QuietWithin ==
    ASSUME IInv, PastInv, UNCHANGED archive, UNCHANGED <<gen, slot, selected>>,
           pc \notin OutsideLabels, pc' # "child",
           SelectPhase' => SelectPhase, ChildPhase' => ChildPhase,
           \/ gen \in Generations
           \/ gen = 0 /\ pc' \notin EndLabels \cup {"unselected"},
           pc' \in EndLabels => pc \in EndLabels
    PROVE  PastInv'
  BY QuietSettled, StayQuietly DEF PastInv, archive

(* A line that ends the work on the current child settles it.                *)
LEMMA EventEnds ==
    ASSUME IInv, PastInv, StatusOK', NEW c \in Children, c = Current,
           SettledElsewhere(c), Settled(c)', UNCHANGED <<gen, slot, selected>>,
           pc \notin OutsideLabels, pc' \in EndLabels,
           SelectPhase' => SelectPhase, ChildPhase' => ChildPhase
    PROVE  PastInv'
  <1>1. c = Current' /\ gen \in Generations
    BY DEF Current, Children
  <1>2. Settled(Current)'
    BY <1>1 DEF Settled, GenerationIsPending, Row
  <1>3. pc' # "child" /\ SettledElsewhere(Current)
    BY DEF EndLabels
  <1> QED
    BY <1>1, <1>2, <1>3, StayWithin

(* So does a discard. *)
LEMMA DiscardEnds ==
    ASSUME IInv, PastInv, Current \in Children,
           NEW p \in OptionalGenid, NEW status \in TerminalStatuses,
           Current \in gatePending => status = "operator_failed",
           AppendEvent(DiscardEvent(Current, p, status)),
           UNCHANGED <<gen, slot, selected>>,
           pc \notin OutsideLabels, pc' \in EndLabels,
           SelectPhase' => SelectPhase, ChildPhase' => ChildPhase
    PROVE  PastInv'
  <1>1. PICK c \in Children : c = Current
    OBVIOUS
  <1>2. StatusOK' /\ SettledElsewhere(c) /\ Settled(c)'
    BY <1>1, DiscardSettles DEF PastInv
  <1> QED
    BY <1>1, <1>2, EventEnds

------------------------------------------------------------------------------
(* Every step *)

(* The seed and the end of the run.                                          *)
LEMMA GenesisAndEndKeepPast ==
    ASSUME IInv, PastInv, GenesisStep \/ EndStep
    PROVE  PastInv'
  <1> USE DEF OutsideLabels
  <1>1. CASE GenesisReady \/ GenesisRefused \/ GenesisAnchorStarts \/ FinishRun
    BY <1>1, QuietOutside
       DEF GenesisReady, GenesisRefused, GenesisAnchorStarts, FinishRun, Goto, Exit
  <1>2. CASE GenesisEvaluation
    <2>1. gen' = 0 /\ pc' = "evalstart"
      BY <1>2 DEF GenesisEvaluation, Goto, local, IInv, PositionOK
    <2>2. StatusOK'
      BY <1>2, QuietSettled DEF GenesisEvaluation, PastInv, archive
    <2> QED
      BY <2>1, <2>2, GoToSeed DEF EndLabels
  <1>3. CASE GenesisAnchorSkipped
    <2>1. gen' = 1 /\ pc' = "generation"
      BY <1>3 DEF GenesisAnchorSkipped, ToGeneration
    <2>2. StatusOK'
      BY <1>3, QuietSettled DEF GenesisAnchorSkipped, PastInv, archive
    <2> QED
      BY <2>1, <2>2, GoToHead, NoEarlierChildren
  <1>4. ASSUME NEW outcome \in Outcomes, GenesisAnchorEvaluated(outcome)
        PROVE  PastInv'
    <2>1. StatusOK'
      BY <1>4, AnchorSettles, GenidFacts DEF GenesisAnchorEvaluated, PastInv
    <2>2. CASE gen' = 1 /\ pc' = "generation"
      BY <2>1, <2>2, GoToHead, NoEarlierChildren
    <2>3. CASE pc' = "idle"
      BY <2>1, <2>3, GoOutside
    <2> QED
      BY <1>4, <2>2, <2>3 DEF GenesisAnchorEvaluated, ToGeneration, Exit
  <1>5. CASE FinalAnchorStarts
    BY <1>5, QuietHead DEF FinalAnchorStarts
  <1>6. ASSUME NEW outcome \in Outcomes, FinalAnchorEvaluated(outcome)
        PROVE  PastInv'
    <2>1. StatusOK'
      BY <1>6, AnchorSettles DEF FinalAnchorEvaluated, PastInv, IInv, PositionOK
    <2> QED
      BY <1>6, <2>1, GoOutside DEF FinalAnchorEvaluated, Exit
  <1> QED
    BY <1>1, <1>2, <1>3, <1>4, <1>5, <1>6 DEF GenesisStep, EndStep

(* A parent is selected for every pending child, or the child is given up.   *)
LEMMA SelectKeepsPast ==
    ASSUME LineageInv, PastInv, SelectStep
    PROVE  PastInv'
  <1>0. IInv
    BY DEF LineageInv
  <1> USE DEF OutsideLabels
  <1>1. CASE SkipGeneration
    <2>1. /\ gen \in Generations /\ pc \notin OutsideLabels
          /\ pc' = "generation" /\ gen' = gen + 1 /\ UNCHANGED archive
      BY <1>0, <1>1, SizeAssumption
         DEF SkipGeneration, ToGeneration, IInv, PositionOK, TypeOK, ProcessTypeOK,
             Generations
    <2>2. \A s \in Slots : Settled(<<gen, s>>)
      BY <1>1 DEF SkipGeneration, Settled
    <2> QED
      BY <2>1, <2>2, QuietNextHead
  <1>2. CASE EnterSelect
    BY <1>2, QuietHead DEF EnterSelect, Goto, local
  <1>3. CASE SelectFails \/ \E parents \in ParentLists : SelectSucceeds(parents)
    <2>1. /\ pc = "select" /\ pc' = "unselected" /\ slot' = 0 /\ gen' = gen
          /\ UNCHANGED archive
      BY <1>0, <1>3
         DEF SelectFails, SelectSucceeds, LeaveSelect, IInv, PositionOK
    <2>2. StatusOK' /\ \A g \in Children : Settled(g)' <=> Settled(g)
      BY <2>1, QuietSettled DEF PastInv, archive
    <2>3. EarlierSettled'
      BY <2>1, <2>2 DEF PastInv, EarlierSettled
    <2>4. GivenUpSettled(0..(slot - 1))'
      BY <2>1 DEF GivenUpSettled, Slots
    <2> QED
      BY <2>1, <2>2, <2>3, <2>4
         DEF PastInv, ChildPhase, EndLabels, UncommittedLabels, UnevaluatedLabels,
             EvaluatedLabels, GateLabels, StageNames
  <1>4. CASE FailUnselected
    <2>1. /\ Current \in Children /\ None \in OptionalGenid
          /\ "operator_failed" \in TerminalStatuses
      BY <1>4, UnselectedFacts
    <2>2. /\ pc = "unselected" /\ pc' = "record" /\ back' = "unselected"
          /\ UNCHANGED <<gen, slot, selected>>
      BY <1>4 DEF FailUnselected, ToRecord
    <2>3. pc' \in EndLabels /\ SelectPhase /\ ~ChildPhase'
      BY <2>2 DEF SelectPhase, ChildPhase, EndLabels, UncommittedLabels,
         UnevaluatedLabels, EvaluatedLabels, GateLabels, StageNames
    <2> QED
      BY <1>0, <1>4, <2>1, <2>2, <2>3, DiscardEnds DEF FailUnselected
  <1>5. CASE PassSelected
    <2>1. StatusOK' /\ \A g \in Children : Settled(g)' <=> Settled(g)
      BY <1>5, QuietSettled DEF PassSelected, PastInv, archive
    <2> QED
      BY <1>0, <1>5, <2>1, GoToNextFailure DEF PassSelected, SelectPhase, Settled
  <1>6. CASE EnterChildren
    <2>1. /\ pc = "unselected" /\ pc' = "child" /\ slot' = 0
          /\ slot = ChildrenPerGen /\ UNCHANGED <<gen, selected, archive>>
      BY <1>0, <1>6, PhaseFacts DEF EnterChildren, ToSlot, Slots
    <2>2. StatusOK' /\ \A g \in Children : Settled(g)' <=> Settled(g)
      BY <2>1, QuietSettled DEF PastInv, archive
    <2>3. gen \in Generations /\ GivenUpSettled(0..(slot - 1))
      BY <1>0, <2>1, PhaseFacts DEF PastInv, SelectPhase
    <2>4. ASSUME NEW s \in Slots, selected[s] = None
          PROVE  Settled(<<gen, s>>)'
      <3>1. PICK h \in Children : h = <<gen, s>>
        BY <2>3, SiblingFacts
      <3>2. h = <<gen, s>>'
        BY <2>1, <3>1
      <3>3. Settled(<<gen, s>>)
        BY <2>1, <2>3, <2>4, <1>0, PhaseFacts DEF GivenUpSettled, Slots
      <3>4. Settled(h)'
        BY <2>2, <3>1, <3>3
      <3> QED
        BY <3>2, <3>4 DEF Settled, GenerationIsPending, Row
    <2>5. EarlierSettled'
      BY <2>1, <2>2 DEF PastInv, EarlierSettled
    <2>6. /\ SiblingsSettled' /\ GivenUpSettled((slot + 1)..ChildrenPerGen)'
          /\ slot' \in Slots /\ selected[slot]' = None => Settled(Current)'
      BY <2>1, <2>4 DEF SiblingsSettled, GivenUpSettled, Current, Slots
    <2> QED
      BY <2>1, <2>2, <2>5, <2>6 DEF PastInv, SelectPhase, EndLabels
  <1> QED
    BY <1>1, <1>2, <1>3, <1>4, <1>5, <1>6 DEF SelectStep

(* A child goes on, is settled, or is left as it is because it is.           *)
LEMMA ChildKeepsPast ==
    ASSUME LineageInv, PastInv, ChildStep
    PROVE  PastInv'
  <1>0. IInv
    BY DEF LineageInv
  <1> USE DEF OutsideLabels, EndLabels, UncommittedLabels, UnevaluatedLabels,
              EvaluatedLabels, GateLabels, StageNames
  <1>1. CASE EnterNextGeneration
    <2>1. /\ gen \in Generations /\ pc \notin OutsideLabels
          /\ slot = ChildrenPerGen /\ ChildPhase
          /\ pc' = "generation" /\ gen' = gen + 1 /\ UNCHANGED archive
      BY <1>0, <1>1, PhaseFacts
         DEF EnterNextGeneration, ToGeneration, IInv, PositionOK, Slots
    <2>2. \A s \in Slots : Settled(<<gen, s>>)
      BY <2>1, <1>0, PhaseFacts DEF PastInv, SiblingsSettled, Slots
    <2> QED
      BY <2>1, <2>2, QuietNextHead
  <1>2. CASE SkipChild
    <2>1. StatusOK' /\ \A g \in Children : Settled(g)' <=> Settled(g)
      BY <1>2, QuietSettled DEF SkipChild, PastInv, archive
    <2>2. ChildPhase /\ pc \notin OutsideLabels /\ slot \in Slots /\ NextChild
      BY <1>0, <1>2, PhaseFacts DEF SkipChild, AtChild
    <2>3. Settled(Current)
      <3>1. CASE ~GenerationIsPending(Current)
        BY <3>1 DEF Settled
      <3>2. CASE ChildParent = None
        BY <1>2, <3>2 DEF SkipChild, AtChild, ChildParent, PastInv
      <3> QED
        BY <1>2, <3>1, <3>2 DEF SkipChild
    <2> QED
      BY <1>0, <2>1, <2>2, <2>3, GoToSibling
  <1>3. CASE ResumeTaggedChild \/ ForkChild
    <2>1. pc = "child" /\ UNCHANGED <<archive, gen, slot, selected>>
      BY <1>3 DEF ResumeTaggedChild, ForkChild, AtChild
    <2>2. pc' \notin EndLabels \cup {"child", "unselected"}
      BY <1>3, FirstStage DEF ResumeTaggedChild, ForkChild
    <2>3. gen \in Generations /\ ChildPhase /\ ~SelectPhase'
      BY <1>0, <2>1, <2>2, PhaseFacts DEF ChildPhase, SelectPhase
    <2> QED
      BY <1>0, <2>1, <2>2, <2>3, QuietWithin
  <1>4. CASE ForkFails
    <2>1. /\ Current \in Children /\ ChildParent \in OptionalGenid
          /\ "operator_failed" \in TerminalStatuses
      BY <1>0, <1>4, AtChildFacts DEF ForkFails, TerminalStatuses
    <2>2. /\ pc = "child" /\ pc' = "record" /\ back' = "child"
          /\ UNCHANGED <<gen, slot, selected>>
      BY <1>4 DEF ForkFails, AtChild
    <2>3. ChildPhase /\ ~SelectPhase'
      BY <1>0, <2>2, PhaseFacts DEF SelectPhase
    <2> QED
      BY <1>0, <1>4, <2>1, <2>2, <2>3, DiscardEnds DEF ForkFails
  <1>5. CASE StageSucceeds
    <2>1. StageAfter(pc) \in StageNames \cup {"commit"}
      BY <1>5, StageFacts DEF StageSucceeds, LineageInv, IInv, PositionOK
    <2>2. /\ pc \in StageNames /\ pc' = StageAfter(pc)
          /\ UNCHANGED <<archive, gen, slot, selected>>
      BY <1>5 DEF StageSucceeds, Goto, local
    <2>3. /\ pc' \notin EndLabels \cup {"child", "unselected"}
          /\ pc \notin OutsideLabels
      BY <2>1, <2>2
    <2>4. gen \in Generations /\ ChildPhase /\ ~SelectPhase'
      BY <1>0, <2>2, <2>3, PhaseFacts DEF ChildPhase, SelectPhase
    <2> QED
      BY <1>0, <2>2, <2>3, <2>4, QuietWithin
  <1>6. ASSUME NEW status \in TerminalStatuses,
               StageDiscards(status) \/ CommitRejects(status)
        PROVE  PastInv'
    <2>1. /\ pc \in StageNames \cup {"commit"}
          /\ pc' \in {"record", "leave"} /\ back' = "child"
          /\ UNCHANGED <<gen, slot, selected>>
          /\ AppendEvent(DiscardEvent(Current, parent, status))
      BY <1>6 DEF StageDiscards, CommitRejects, ToRecord
    <2>2. /\ Current \in Children /\ parent \in OptionalGenid
          /\ Current \notin gatePending
      BY <1>0, <2>1
         DEF IInv, PositionOK, CurrentOK, PendingIsConsistent, OptionalGenid
    <2>3. ChildPhase /\ ~SelectPhase'
      BY <1>0, <2>1, PhaseFacts DEF ChildPhase, SelectPhase
    <2> QED
      BY <1>0, <2>1, <2>2, <2>3, DiscardEnds
  <1>7. CASE CommitSnapshot \/ CreateTag \/ LeaveWorktree
    <2>1. /\ pc \in {"commit", "tag", "unfork"} /\ pc' \in {"tag", "lineage", "evalstart"}
          /\ UNCHANGED <<archive, gen, slot, selected>>
      BY <1>7 DEF CommitSnapshot, CreateTag, LeaveWorktree, Goto, local
    <2>2. ~SelectPhase' /\ (ChildPhase' => ChildPhase)
      BY <2>1 DEF ChildPhase, SelectPhase
    <2>3. gen \in Generations \/ gen = 0
      BY <1>0, <2>1, PhaseFacts
    <2> QED
      BY <1>0, <2>1, <2>2, <2>3, QuietWithin
  <1>8. CASE AppendLineage
    <2>1. /\ pc = "lineage" /\ pc' = "unfork" /\ UNCHANGED <<gen, slot, selected>>
      BY <1>8 DEF AppendLineage, Goto, local
    <2>2. PICK c \in Genids, p \in OptionalGenid : c = Current /\ p = parent
      BY <1>0, <2>1 DEF IInv, PositionOK, TypeOK, ProcessTypeOK
    <2>3. StatusOK' /\ SettledElsewhere(c)
      BY <1>0, <1>8, <2>2, CommitElsewhere DEF AppendLineage, PastInv
    <2>4. ~SelectPhase' /\ (ChildPhase' => ChildPhase) /\ SettledElsewhere(Current)
      BY <2>1, <2>2, <2>3 DEF ChildPhase, SelectPhase
    <2>5. gen \in Generations \/ gen = 0
      BY <1>0, <2>1, PhaseFacts
    <2> QED
      BY <1>0, <2>1, <2>3, <2>4, <2>5, StayWithin
  <1> QED
    BY <1>1, <1>2, <1>3, <1>4, <1>5, <1>6, <1>7, <1>8 DEF ChildStep

(* The evaluation event, reported or cancelled, leaves the siblings alone.   *)
LEMMA EvaluationEndKeepsPast ==
    ASSUME IInv, PastInv, pc = "evaluate", pc' = "receipt",
           UNCHANGED <<tags, gen, slot, selected>>,
           NEW outcome \in FailedOutcomes \cup {Complete},
           NEW score \in Scores \cup {None},
           AppendEvent(EvaluationEvent(Current, EvaluationParent(Current), outcome, score))
    PROVE  PastInv'
  <1>1. Current \in Genids /\ Undecided(Current) /\ Tagged(Current)
    BY DEF IInv, PositionOK, CurrentOK, UnevaluatedLabels
  <1>2. PICK c \in Genids, p \in OptionalGenid :
            c = Current /\ p = EvaluationParent(Current)
    BY <1>1, EvaluationParentType
  <1>3. StatusOK' /\ SettledElsewhere(c)
    BY <1>1, <1>2, EvaluationElsewhere DEF PastInv
  <1>4. /\ ~SelectPhase' /\ (ChildPhase' => ChildPhase) /\ SettledElsewhere(Current)
        /\ pc \notin OutsideLabels /\ pc' \notin EndLabels \cup {"child", "unselected"}
    BY <1>2, <1>3
       DEF ChildPhase, SelectPhase, OutsideLabels, EndLabels, UncommittedLabels,
           UnevaluatedLabels, EvaluatedLabels, GateLabels, StageNames
  <1>5. gen \in Generations \/ gen = 0
    BY PhaseFacts DEF UnevaluatedLabels
  <1> QED
    BY <1>3, <1>4, <1>5, StayWithin

(* An evaluation that fails settles its generation; a complete one goes on   *)
(* to the gate.                                                              *)
LEMMA EvaluationKeepsPast ==
    ASSUME LineageInv, PastInv, EvaluationStep
    PROVE  PastInv'
  <1>0. IInv
    BY DEF LineageInv
  <1> USE DEF OutsideLabels, EndLabels, UncommittedLabels, UnevaluatedLabels,
              EvaluatedLabels, GateLabels, StageNames
  <1>1. CASE StartEvaluation
    <2>1. /\ pc = "evalstart" /\ pc' = "evaluate"
          /\ UNCHANGED <<archive, gen, slot, selected>>
      BY <1>1 DEF StartEvaluation, Goto, local
    <2>2. ~SelectPhase' /\ (ChildPhase' => ChildPhase)
      BY <2>1 DEF ChildPhase, SelectPhase
    <2>3. gen \in Generations \/ gen = 0
      BY <1>0, <2>1, PhaseFacts
    <2> QED
      BY <1>0, <2>1, <2>2, <2>3, QuietWithin
  <1>2. ASSUME NEW outcome \in Outcomes, NEW score \in Scores,
               FinishEvaluation(outcome, score)
        PROVE  PastInv'
    BY <1>0, <1>2, EvaluationEndKeepsPast, OutcomeAssumption
       DEF FinishEvaluation, Goto, local, others
  <1>3. CASE AppendReceipt
    <2>1. /\ pc = "receipt" /\ pc' = "materialize" /\ UNCHANGED <<gen, slot, selected>>
      BY <1>3 DEF AppendReceipt, Goto, local
    <2>2. StatusOK' /\ \A h \in Children : Settled(h)' <=> Settled(h)
      BY <1>0, <1>3, ReceiptSettles DEF PastInv
    <2>3. ~SelectPhase' /\ (ChildPhase' => ChildPhase)
      BY <2>1 DEF ChildPhase, SelectPhase
    <2>4. gen \in Generations \/ gen = 0
      BY <1>0, <2>1, PhaseFacts
    <2> QED
      BY <1>0, <2>1, <2>2, <2>3, <2>4, StayQuietly
  <1>4. CASE MaterializeBestEver
    <2>1. /\ pc = "materialize" /\ UNCHANGED archive /\ Current \in Genids
          /\ ~Undecided(Current)
      BY <1>0, <1>4 DEF MaterializeBestEver, LineageInv, ControlInv, IInv, PositionOK
    <2>2. CASE pc' \in {"idle", "anchor"}
      BY <2>1, <2>2, QuietOutside
    <2>3. CASE /\ pc' = "gateenter" /\ UNCHANGED <<gen, slot, selected>>
               /\ Current \in Children
      <3>1. gen \in Generations
        BY <2>3 DEF Current, Children
      <3>2. ~SelectPhase' /\ (ChildPhase' => ChildPhase)
        BY <2>1, <2>3 DEF ChildPhase, SelectPhase
      <3> QED
        BY <1>0, <2>1, <2>3, <3>1, <3>2, QuietWithin
    <2>4. CASE /\ NextChild /\ Current \in Children
               /\ Get(Row(Current), "outcome") # Complete
      <3>1. gen \in Generations /\ slot \in Slots /\ ChildPhase
        BY <2>1, <2>4 DEF Current, Children, ChildPhase
      <3>2. StatusOK' /\ \A g \in Children : Settled(g)' <=> Settled(g)
        BY <2>1, QuietSettled DEF PastInv, archive
      <3>3. Get(Row(Current), "outcome") \in FailedOutcomes
        BY <1>0, <2>1, <2>4 DEF IInv, EntriesOK, EntryOK, Undecided, Get, Row
      <3>4. Settled(Current)
        BY <1>0, <2>4, <3>3, StatusReads
           DEF Settled, GenerationIsPending, TerminalStatuses, IInv, PendingIsConsistent
      <3> QED
        BY <1>0, <2>1, <2>4, <3>1, <3>2, <3>4, GoToSibling
    <2> QED
      BY <1>4, <2>1, <2>2, <2>3, <2>4, GenidFacts
         DEF MaterializeBestEver, Exit, Goto, local
  <1>5. CASE RecheckRejects
    <2>1. PICK c \in Children, p \in OptionalGenid :
              c = Current /\ p = EvaluationParent(Current)
      BY <1>0, <1>5, RecheckFacts
    <2>2. /\ pc = "evalstart" /\ NextChild
          /\ AppendEvent(DiscardEvent(c, p, "invalid_proposal"))
      BY <1>5, <2>1 DEF RecheckRejects
    <2>3. c \notin gatePending /\ "invalid_proposal" \in TerminalStatuses
      BY <1>0, <1>5, <2>1, RecheckFacts, NoneFacts
         DEF IInv, PendingIsConsistent, Undecided, Get, TerminalStatuses
    <2>4. StatusOK' /\ SettledElsewhere(c) /\ Settled(c)'
      BY <1>0, <2>2, <2>3, DiscardSettles DEF PastInv
    <2>5. slot \in Slots /\ ChildPhase
      BY <2>1, <2>2 DEF Current, Children, ChildPhase
    <2> QED
      BY <1>0, <2>1, <2>2, <2>4, <2>5, GoToSibling DEF SettledElsewhere
  <1> QED
    BY <1>1, <1>2, <1>3, <1>4, <1>5 DEF EvaluationStep

(* The gate settles its child either way, and record leaves it settled.      *)
LEMMA GateAndRecordKeepPast ==
    ASSUME IInv, PastInv, GateStep \/ RecordStep
    PROVE  PastInv'
  <1> USE DEF OutsideLabels, EndLabels, UncommittedLabels, UnevaluatedLabels,
              EvaluatedLabels, GateLabels, StageNames
  <1>1. CASE EnterGate
    <2>1. /\ pc = "gateenter" /\ pc' = "gate" /\ gen \in Generations
          /\ UNCHANGED <<archive, gen, slot, selected>>
      BY <1>1, PhaseFacts DEF EnterGate, Goto, local
    <2>2. ~SelectPhase' /\ (ChildPhase' => ChildPhase)
      BY <2>1 DEF ChildPhase, SelectPhase
    <2> QED
      BY <2>1, <2>2, QuietWithin
  <1>2. CASE GateStep /\ ~EnterGate
    <2>1. /\ pc = "gate" /\ pc' = "record" /\ back' = "gate"
          /\ UNCHANGED <<gen, slot, selected>>
      BY <1>2 DEF GateStep, GateFails, GateDecides, ToRecord
    <2>2. Current \in Children /\ Current \in gatePending /\ parent \in OptionalGenid
      BY <2>1 DEF IInv, PositionOK, CurrentOK, TypeOK, ProcessTypeOK
    <2>3. ChildPhase /\ ~SelectPhase'
      BY <2>1, PhaseFacts DEF ChildPhase, SelectPhase
    <2>4. CASE GateFails
      <3>1. "operator_failed" \in TerminalStatuses
        BY DEF TerminalStatuses
      <3> QED
        BY <2>1, <2>2, <2>3, <2>4, <3>1, DiscardEnds DEF GateFails
    <2>5. ASSUME NEW accept \in BOOLEAN, GateDecides(accept)
          PROVE  PastInv'
      <3>1. PICK c \in Children : c = Current
        BY <2>2
      <3>2. StatusOK' /\ SettledElsewhere(c) /\ Settled(c)'
        BY <2>2, <2>5, <3>1, VerdictSettles DEF GateDecides, PastInv
      <3> QED
        BY <2>1, <2>3, <3>1, <3>2, EventEnds
    <2> QED
      BY <1>2, <2>4, <2>5 DEF GateStep
  <1>3. CASE SkipRecord \/ StartRecord
    <2>1. /\ pc = "record" /\ pc' \in {"leave", "recording"} /\ gen \in Generations
          /\ UNCHANGED <<archive, gen, slot, selected, back>>
      BY <1>3, PhaseFacts DEF SkipRecord, StartRecord, Goto, local
    <2>2. (SelectPhase' => SelectPhase) /\ (ChildPhase' => ChildPhase)
      BY <2>1 DEF ChildPhase, SelectPhase
    <2> QED
      BY <2>1, <2>2, QuietWithin
  <1>4. CASE RecordRefMissing
    BY <1>4, QuietOutside DEF RecordRefMissing, Exit
  <1>5. ASSUME NEW event, FinishRecord(event),
               event = RecordedEvent(Current) \/ event = RecordErrorEvent(Current)
        PROVE  PastInv'
    <2>1. /\ pc = "recording" /\ pc' = "leave" /\ UNCHANGED <<gen, slot, selected, back>>
          /\ AppendEvent(event)
      BY <1>5 DEF FinishRecord, Goto, local
    <2>2. PICK c \in Children : c = Current
      BY <2>1, PhaseFacts
    <2>3. Settled(c)
      BY <2>1, <2>2 DEF PastInv
    <2>4. StatusOK' /\ SettledElsewhere(c) /\ Settled(c)'
      BY <1>5, <2>1, <2>2, <2>3, RecordSettles DEF PastInv
    <2>5. (SelectPhase' => SelectPhase) /\ (ChildPhase' => ChildPhase)
      BY <2>1 DEF ChildPhase, SelectPhase
    <2> QED
      BY <2>1, <2>2, <2>4, <2>5, EventEnds
  <1>6. CASE LeaveUnselected \/ LeaveChild \/ LeaveGate
    <2>1. pc = "leave" /\ UNCHANGED archive
      BY <1>6 DEF LeaveUnselected, LeaveChild, LeaveGate
    <2>2. StatusOK' /\ \A g \in Children : Settled(g)' <=> Settled(g)
      BY <2>1, QuietSettled DEF PastInv, archive
    <2>3. slot \in Slots /\ Settled(Current) /\ gen \in Generations
      BY <2>1, PhaseFacts DEF PastInv
    <2>4. CASE LeaveUnselected
      BY <2>1, <2>2, <2>3, <2>4, GoToNextFailure DEF LeaveUnselected, SelectPhase
    <2>5. CASE LeaveChild \/ LeaveGate
      <3>1. ChildPhase /\ NextChild
        BY <2>1, <2>3, <2>5 DEF LeaveChild, LeaveGate, ChildPhase
      <3> QED
        BY <2>1, <2>2, <2>3, <3>1, GoToSibling
    <2> QED
      BY <1>6, <2>4, <2>5
  <1> QED
    BY <1>1, <1>2, <1>3, <1>4, <1>5, <1>6
       DEF RecordStep, RecordSucceeds, RecordFails

(* A fault ends the run; nobody works on a generation between two runs.      *)
LEMMA OtherStepsKeepPast ==
    ASSUME IInv, PastInv, FaultStep \/ PeopleStep
    PROVE  PastInv'
  <1> USE DEF OutsideLabels
  <1>1. CASE Abort \/ \E edited \in BOOLEAN : Crash(edited)
    BY <1>1, QuietOutside DEF Abort, Crash, Exit
  <1>2. CASE InterruptEvaluation
    <2>1. "cancelled" \in FailedOutcomes \cup {Complete} /\ None \in Scores \cup {None}
      BY DEF FailedOutcomes
    <2> QED
      BY <1>2, <2>1, EvaluationEndKeepsPast DEF InterruptEvaluation, others
  <1>3. CASE PeopleStep
    BY <1>3, QuietOutside
       DEF PeopleStep, StartRun, Repair, TemporaryFilesDeleted, EditsPreserved
  <1> QED
    BY <1>1, <1>2, <1>3 DEF FaultStep

(* No step, fault or repair makes the loop pass over an unsettled child. *)
LEMMA EveryStepKeepsPast ==
    ASSUME LineageInv, PastInv, [Next]_vars
    PROVE  PastInv'
  <1>1. CASE Next
    BY <1>1, GenesisAndEndKeepPast, SelectKeepsPast, ChildKeepsPast, EvaluationKeepsPast,
       GateAndRecordKeepPast, OtherStepsKeepPast DEF Next, DriverStep, LineageInv
  <1>2. CASE UNCHANGED vars
    BY <1>2 DEF vars, archive, local, PastInv, StatusOK, EarlierSettled, SelectPhase,
       ChildPhase, SiblingsSettled, GivenUpSettled, Settled, GenerationIsPending,
       Undecided, Current, Row
  <1> QED
    BY <1>1, <1>2

(* A new workspace has no lines about children.                              *)
LEMMA InitPast == Init => PastInv
  <1> SUFFICES ASSUME Init PROVE PastInv
    OBVIOUS
  <1>1. \A g \in Children : DOMAIN Row(g) = {}
    BY GenidFacts DEF Init, Row, EmptyEntry, EmptyDict
  <1>2. StatusOK
    BY <1>1 DEF StatusOK
  <1> QED
    BY <1>2
       DEF Init, PastInv, SelectPhase, ChildPhase, OutsideLabels, EndLabels,
           UncommittedLabels, UnevaluatedLabels, EvaluatedLabels, GateLabels, StageNames

(* Whatever fails, is skipped, crashes and is resumed: the loop has passed a *)
(* generation only when every child of it is settled, or only its gate has   *)
(* failed (_run_locked's loop over generations and children).                *)
THEOREM NothingIsSkipped == Spec => []PastIsSettled
  <1>1. Init => LineageInv /\ PastInv
    BY InitIsLineage, InitPast
  <1>2. LineageInv /\ PastInv /\ [Next]_vars => LineageInv' /\ PastInv'
    BY EveryStepKeeps, EveryStepKeepsPast
  <1>3. PastInv => PastIsSettled
    BY DEF PastInv, EarlierSettled, Settled, OutsideLabels, PastIsSettled
  <1> QED
    BY <1>1, <1>2, <1>3, PTL DEF Spec

------------------------------------------------------------------------------
(* Order and tags.                                                           *)

Rejections == {"no_proposal", "invalid_proposal", "rejected_validation",
               "rejected_duplicate"}

Present(g)   == DOMAIN Row(g) # {}
Listed(g)    == Present(g) /\ Get(Row(g), "status") # "operator_failed"
AllBefore(h) == \A g \in Children : Before(g, h) => Present(g)

(* The second look refuses what has its tag. *)
Rechecked(g, status) ==
    RecheckRejects /\ g = Current /\ status = "invalid_proposal"

(* What a step owes to the order, to the tags, and to what is out of use. *)
StepInOrder ==
    /\ \A h \in Children : Present(h) => Present(h)'
    /\ \A h \in Children : Listed(h)' => Listed(h) \/ AllBefore(h)
    /\ \A h \in Children : Tagged(h)' /\ Get(Row(h), "status")' \in Rejections =>
          \/ Tagged(h) /\ Get(Row(h), "status")' = Get(Row(h), "status")
          \/ Rechecked(h, Get(Row(h), "status")')
    /\ \A h \in Children : Undecided(h) /\ ~Undecided(h)' => Unsettled(h)

------------------------------------------------------------------------------
(* Where the loop is *)

(* An empty row is pending, so it is not settled.                            *)
LEMMA SettledIsPresent ==
    ASSUME NEW g, Settled(g)
    PROVE  Present(g)
  <1> SUFFICES ASSUME DOMAIN Row(g) = {} PROVE FALSE
    BY DEF Present
  <1>1. Get(Row(g), "status") = None /\ EvaluationStatus(Row(g)) = None
    BY StatusReads DEF Get
  <1> QED
    BY <1>1, StatusAssumption DEF Settled, GenerationIsPending, TerminalStatuses

(* When the loop works on a child, all children before it have a row.        *)
LEMMA EarlierArePresent ==
    ASSUME IInv, PastInv, ChildPhase
    PROVE  AllBefore(Current)
  <1>1. pc \notin OutsideLabels /\ EarlierSettled /\ SiblingsSettled
    BY DEF PastInv, ChildPhase, OutsideLabels, EndLabels, UncommittedLabels,
       UnevaluatedLabels, EvaluatedLabels, GateLabels, StageNames
  <1>2. ASSUME NEW g \in Children, Before(g, Current)
        PROVE  Settled(g)
    <2>1. CASE g[1] < gen
      BY <1>1, <2>1 DEF EarlierSettled
    <2>2. CASE g[1] = gen /\ g[2] < slot
      <3>1. g[2] \in Slots /\ g = <<gen, g[2]>>
        BY <2>2 DEF Children
      <3> QED
        BY <1>1, <2>2, <3>1 DEF SiblingsSettled
    <2> QED
      BY <1>2, <2>1, <2>2 DEF Before, Current
  <1> QED
    BY <1>2, SettledIsPresent DEF AllBefore

(* At the end of the run every child has a row.                              *)
LEMMA AllArePresentAtTheEnd ==
    ASSUME IInv, PastInv, pc = "finalrun"
    PROVE  \A g \in Children : Present(g)
  <1>1. EarlierSettled /\ gen > MaxGeneration /\ gen \in Nat /\ MaxGeneration \in Nat
    BY SizeAssumption
       DEF PastInv, OutsideLabels, IInv, PositionOK, TypeOK, ProcessTypeOK
  <1>2. \A g \in Children : g[1] < gen
    BY <1>1 DEF Children, Generations
  <1> QED
    BY <1>1, <1>2, SettledIsPresent DEF EarlierSettled

------------------------------------------------------------------------------
(* Lines of the archive *)

(* A step that changes neither rows nor tags. *)
LEMMA QuietInOrder ==
    ASSUME UNCHANGED <<rows, tags>>
    PROVE  StepInOrder
  BY DEF StepInOrder, Present, Listed, Tagged, Undecided, Row

(* A step that changes one row only.                                         *)
LEMMA OneRowInOrder ==
    ASSUME NEW c \in Genids, UNCHANGED tags,
           \A h \in Genids : h # c => Row(h)' = Row(h),
           c \in Children =>
              /\ Present(c) => Present(c)'
              /\ Listed(c)' => Listed(c) \/ AllBefore(c)
              /\ Tagged(c) /\ Get(Row(c), "status")' \in Rejections =>
                    \/ Get(Row(c), "status")' = Get(Row(c), "status")
                    \/ Rechecked(c, Get(Row(c), "status")')
              /\ Undecided(c) /\ ~Undecided(c)' => Unsettled(c)
    PROVE  StepInOrder
  BY GenidFacts DEF StepInOrder, Present, Listed, Tagged, Undecided

(* A plain line: about the current child, or one that gives a child up, or   *)
(* one without a status about a child that has a row.                        *)
LEMMA PlainInOrder ==
    ASSUME IInv, UNCHANGED tags, NEW event, PlainEvent(event),
           NEW c \in Children, c = event.genid, AppendEvent(event),
           Tagged(c) => \/ "status" \notin DOMAIN event
                        \/ event["status"] \notin Rejections
                        \/ Rechecked(c, event["status"]),
           \/ AllBefore(c)
           \/ "status" \notin DOMAIN event /\ Present(c)
           \/ "status" \in DOMAIN event /\ event["status"] = "operator_failed"
    PROVE  StepInOrder
  <1>1. /\ c \in Genids /\ event.genid \in Genids
        /\ rows'[c] = MergeEvent(rows[c], event)
        /\ \A h \in Genids : h # c => Row(h)' = Row(h)
        /\ \A key : key \notin DOMAIN event => Get(Row(c), key)' = Get(Row(c), key)
        /\ Undecided(c)' <=> Undecided(c)
    BY PlainTouches, GenidFacts
  <1>2. IsEntry(rows[c]) /\ ~IsKeyedEvaluation(event)
    BY <1>1 DEF IInv, EntriesOK, EntryOK, PlainEvent
  <1>3. /\ DOMAIN rows[c].row \subseteq DOMAIN rows'[c].row
        /\ \A key \in DOMAIN rows'[c].row :
             \/ key \in DOMAIN rows[c].row /\ rows'[c].row[key] = rows[c].row[key]
             \/ key \in DOMAIN event /\ rows'[c].row[key] = event[key]
    BY <1>1, <1>2, MergedValues
  <1>4. Present(c) => Present(c)'
    BY <1>3 DEF Present, Row
  <1>5. \/ Get(Row(c), "status")' = Get(Row(c), "status")
        \/ "status" \in DOMAIN event /\ Get(Row(c), "status")' = event["status"]
    BY <1>3 DEF Get, Row
  <1>6. Listed(c)' => Listed(c) \/ AllBefore(c)
    <2>1. CASE "status" \notin DOMAIN event /\ Present(c)
      BY <1>1, <2>1 DEF Listed
    <2>2. CASE "status" \in DOMAIN event /\ event["status"] = "operator_failed"
      <3>1. CASE "status" \notin DOMAIN Row(c)
        <4>1. Get(Row(c), "status")' = "operator_failed"
          BY <1>1, <1>2, <2>2, <3>1, StatusWritten DEF Row
        <4> QED
          BY <4>1 DEF Listed
      <3>2. CASE "status" \in DOMAIN Row(c)
        BY <1>5, <2>2, <3>2 DEF Listed, Present
      <3> QED
        BY <3>1, <3>2
    <2> QED
      BY <2>1, <2>2
  <1>7. Tagged(c) /\ Get(Row(c), "status")' \in Rejections =>
            \/ Get(Row(c), "status")' = Get(Row(c), "status")
            \/ Rechecked(c, Get(Row(c), "status")')
    BY <1>5
  <1> QED
    BY <1>1, <1>4, <1>6, <1>7, OneRowInOrder

(* A discard, of the current child or for want of a parent.                  *)
LEMMA DiscardInOrder ==
    ASSUME IInv, UNCHANGED tags, Current \in Children,
           NEW p \in OptionalGenid, NEW status \in TerminalStatuses,
           AppendEvent(DiscardEvent(Current, p, status)),
           Tagged(Current) => status = "operator_failed" \/ Rechecked(Current, status),
           AllBefore(Current) \/ status = "operator_failed"
    PROVE  StepInOrder
  <1>1. PICK c \in Children : c = Current
    OBVIOUS
  <1> DEFINE event == DiscardEvent(c, p, status)
  <1>2. /\ PlainEvent(event) /\ c = event.genid
        /\ "status" \in DOMAIN event /\ event["status"] = status
    BY DiscardIsPlain, GenidFacts DEF DiscardEvent
  <1>3. /\ AppendEvent(event)
        /\ Tagged(c) => status \notin Rejections \/ Rechecked(c, status)
    BY <1>1 DEF Rejections
  <1>4. AllBefore(c) \/ status = "operator_failed"
    BY <1>1
  <1> HIDE DEF event
  <1> QED
    BY <1>2, <1>3, <1>4, PlainInOrder

(* The lines without a status: lineage, verdict and record.                  *)
LEMMA StatuslessInOrder ==
    ASSUME IInv, UNCHANGED tags, NEW c \in Children, NEW event, PlainEvent(event),
           c = event.genid, AppendEvent(event), "status" \notin DOMAIN event,
           AllBefore(c) \/ Present(c)
    PROVE  StepInOrder
  BY PlainInOrder

(* The first evaluation of a generation carries its outcome as status.       *)
LEMMA EvaluationInOrder ==
    ASSUME LineageInv, PastInv, pc = "evaluate", UNCHANGED tags,
           NEW outcome \in FailedOutcomes \cup {Complete},
           NEW score \in Scores \cup {None},
           AppendEvent(EvaluationEvent(Current, EvaluationParent(Current), outcome, score))
    PROVE  StepInOrder
  <1>0. IInv /\ Unsettled(Current)
    BY DEF LineageInv, ControlInv, UnevaluatedLabels
  <1>1. PICK c \in Genids, p \in OptionalGenid :
            c = Current /\ p = EvaluationParent(Current)
    BY <1>0, EvaluationParentType DEF IInv, PositionOK, UnevaluatedLabels
  <1> DEFINE event == EvaluationEvent(c, p, outcome, score)
  <1>2. /\ event.genid = c /\ IsKeyedEvaluation(event) /\ ~IsAuxiliary(event)
    BY EvaluationEventFacts
  <1>3. c # Genesis => "status" \in DOMAIN event /\ event["status"] \notin Rejections
    BY DEF EvaluationEvent, FailedOutcomes, Complete, Rejections
  <1>4. AppendEvent(event)
    BY <1>1
  <1> HIDE DEF event
  <1>5. /\ rows'[c] = MergeEvent(rows[c], event)
        /\ \A h \in Genids : h # c => Row(h)' = Row(h)
    BY <1>0, <1>2, <1>4, AppendTouchesOne DEF IInv, Row
  <1>6. IsEntry(rows[c]) /\ rows[c].top = None
    BY <1>0, <1>1 DEF IInv, EntriesOK, EntryOK, CurrentOK, UnevaluatedLabels, Undecided, Row
  <1>7. /\ DOMAIN rows[c].row \subseteq DOMAIN rows'[c].row
        /\ \A key \in DOMAIN rows'[c].row :
             \/ key \in DOMAIN rows[c].row /\ rows'[c].row[key] = rows[c].row[key]
             \/ key \in DOMAIN event /\ rows'[c].row[key] = event[key]
    BY <1>2, <1>5, <1>6, MergedValues
  <1>8. Present(c) => Present(c)'
    BY <1>7 DEF Present, Row
  <1>9. c \in Children /\ Get(Row(c), "status")' \in Rejections =>
            Get(Row(c), "status")' = Get(Row(c), "status")
    BY <1>3, <1>7, GenidFacts, StatusAssumption
       DEF Get, Row, Rejections, TerminalStatuses
  <1>10. c \in Children => AllBefore(c)
    <2>1. SUFFICES ASSUME c \in Children PROVE AllBefore(Current)
      BY <1>1
    <2>2. ChildPhase
      BY <1>1, <2>1 DEF ChildPhase, Current, Children, UnevaluatedLabels
    <2> QED
      BY <1>0, <2>2, EarlierArePresent
  <1> QED
    BY <1>0, <1>1, <1>5, <1>8, <1>9, <1>10, OneRowInOrder

(* A receipt is for an evaluation, so its row is there.                      *)
LEMMA ReceiptInOrder ==
    ASSUME LineageInv, AppendReceipt
    PROVE  StepInOrder
  <1> DEFINE receipt == [certified |-> TRUE]
  <1>0. PICK c \in Genids : c = Current
    BY DEF AppendReceipt, LineageInv, IInv, PositionOK, EvaluatedLabels
  <1>1. Present(c) /\ IInv
    BY <1>0 DEF AppendReceipt, LineageInv, ControlInv, EvaluatedLabels, Undecided, Present
  <1>2. /\ rows' = [rows EXCEPT ![c].row = Overlay(@, receipt, {"certified"})]
        /\ UNCHANGED tags
    BY <1>0 DEF AppendReceipt, others
  <1>3. IsEntry(rows[c]) /\ DOMAIN rows = Genids
    BY <1>1 DEF IInv, TypeOK, ArchiveTypeOK, EntriesOK, EntryOK
  <1> HIDE DEF receipt
  <1>4. /\ \A g \in Genids : g # c => Row(g)' = Row(g)
        /\ rows'[c].row = Overlay(rows[c].row, receipt, {"certified"})
    BY <1>1, <1>2, <1>3 DEF IsEntry, Row
  <1>5. /\ Get(Row(c), "status")' = Get(Row(c), "status")
        /\ Undecided(c)' <=> Undecided(c)
    BY <1>4, OverlayGet, OverlayDomain DEF Row, Undecided
  <1>6. Present(c)'
    BY <1>1, <1>4, OverlayDomain DEF Present, Row
  <1> QED
    BY <1>1, <1>2, <1>4, <1>5, <1>6, OneRowInOrder DEF Listed

(* A sealed evaluation is of the seed, or comes when all children are there. *)
LEMMA AnchorInOrder ==
    ASSUME IInv, UNCHANGED tags, NEW g \in Genids, NEW outcome,
           g \in Children => \A h \in Children : Present(h),
           AppendEvent(AnchorEvent(g, outcome))
    PROVE  StepInOrder
  <1> DEFINE event == AnchorEvent(g, outcome)
  <1>1. /\ event.genid = g
        /\ IsKeyedEvaluation(event) /\ IsAuxiliary(event)
    BY NoneFacts DEF AnchorEvent, IsKeyedEvaluation, IsAuxiliary, Get
  <1> HIDE DEF event
  <1>2. /\ rows'[g] = MergeEvent(rows[g], event)
        /\ \A h \in Genids : h # g => Row(h)' = Row(h)
    BY <1>1, AppendTouchesOne DEF event, IInv, Row
  <1>3. IsEntry(rows[g])
    BY DEF IInv, EntriesOK, EntryOK
  <1>4. rows'[g].row = Overlay(rows[g].row, event, {"genid"} \ DOMAIN rows[g].row)
    BY <1>1, <1>2, <1>3, AuxiliaryMergeRow
  <1>5. /\ Get(Row(g), "status")' = Get(Row(g), "status")
        /\ Undecided(g)' <=> Undecided(g)
    BY <1>1, <1>2, <1>3, AuxiliaryMerge DEF Row, Undecided
  <1>6. Present(g) => Present(g)'
    BY <1>4, OverlayDomain DEF Present, Row
  <1> QED
    BY <1>2, <1>5, <1>6, OneRowInOrder DEF AllBefore

------------------------------------------------------------------------------
(* Every step *)

(* Every action of Next, by the line it appends. *)
LEMMA EveryStepInOrder ==
    ASSUME LineageInv, PastInv, Next
    PROVE  StepInOrder
  <1>0. IInv
    BY DEF LineageInv
  <1>1. CASE GenesisStep
    <2>1. CASE \E outcome \in Outcomes : GenesisAnchorEvaluated(outcome)
      BY <1>0, <2>1, AnchorInOrder, GenidFacts DEF GenesisAnchorEvaluated
    <2> QED
      BY <1>1, <2>1, QuietInOrder
         DEF GenesisStep, GenesisReady, GenesisRefused, GenesisEvaluation,
             GenesisAnchorSkipped, GenesisAnchorStarts, archive, others
  <1>2. CASE SelectStep
    <2>1. CASE FailUnselected
      <3>1. /\ Current \in Children /\ None \in OptionalGenid
            /\ "operator_failed" \in TerminalStatuses
        BY <2>1, UnselectedFacts
      <3> QED
        BY <1>0, <2>1, <3>1, DiscardInOrder DEF FailUnselected, others
    <2> QED
      BY <1>2, <2>1, QuietInOrder
         DEF SelectStep, SkipGeneration, EnterSelect, SelectFails, SelectSucceeds,
             LeaveSelect, PassSelected, EnterChildren, archive, others
  <1>3. CASE ChildStep
    <2>1. CASE ForkFails
      <3>1. /\ Current \in Children /\ ChildParent \in OptionalGenid
            /\ "operator_failed" \in TerminalStatuses
        BY <1>0, <2>1, AtChildFacts DEF ForkFails, TerminalStatuses
      <3> QED
        BY <1>0, <2>1, <3>1, DiscardInOrder DEF ForkFails, others
    <2>2. ASSUME NEW status \in TerminalStatuses,
                 StageDiscards(status) \/ CommitRejects(status)
          PROVE  StepInOrder
      <3>1. /\ pc \in StageNames \cup {"commit"} /\ UNCHANGED tags
            /\ AppendEvent(DiscardEvent(Current, parent, status))
        BY <2>2 DEF StageDiscards, CommitRejects, others
      <3>2. /\ Current \in Children /\ parent \in OptionalGenid /\ ~Tagged(Current)
        BY <1>0, <3>1
           DEF IInv, PositionOK, CurrentOK, UncommittedLabels, OptionalGenid
      <3>3. ChildPhase
        BY <3>1, <3>2, <1>0, PhaseFacts DEF ChildPhase, UncommittedLabels
      <3> QED
        BY <1>0, <3>1, <3>2, <3>3, EarlierArePresent, DiscardInOrder
    <2>3. CASE CreateTag
      <3>1. PICK c \in Children : c = Current
        BY <1>0, <2>3 DEF CreateTag, IInv, PositionOK, UncommittedLabels
      <3>2. /\ UNCHANGED rows /\ Get(Row(c), "status") = None
            /\ \A h \in Children : h # c => tags'[h] = tags[h]
        BY <1>0, <2>3, <3>1, GenidFacts
           DEF CreateTag, archive, IInv, CurrentOK, TypeOK, FilesTypeOK, Get
      <3>3. None \notin Rejections
        BY StatusAssumption DEF Rejections, TerminalStatuses
      <3> QED
        BY <3>2, <3>3 DEF StepInOrder, Present, Listed, Tagged, Undecided, Row
    <2>4. CASE AppendLineage
      <3>1. PICK c \in Genids, p \in OptionalGenid : c = Current /\ p = parent
        BY <1>0, <2>4
           DEF AppendLineage, IInv, PositionOK, UnevaluatedLabels, TypeOK, ProcessTypeOK
      <3>2. /\ PlainEvent(CommitEvent(c, p)) /\ CommitEvent(c, p).genid = c
            /\ "status" \notin DOMAIN CommitEvent(c, p)
        BY CommitIsPlain
      <3>3. CASE c \in Children
        <4>1. ChildPhase
          BY <2>4, <3>1, <3>3
             DEF AppendLineage, ChildPhase, Current, Children, UnevaluatedLabels
        <4>2. AllBefore(c)
          BY <1>0, <3>1, <4>1, EarlierArePresent
        <4> QED
          BY <1>0, <2>4, <3>1, <3>2, <3>3, <4>2, StatuslessInOrder
             DEF AppendLineage, others
      <3>4. CASE c \notin Children
        <4>1. /\ UNCHANGED tags
              /\ \A h \in Genids : h # c => Row(h)' = Row(h)
          BY <1>0, <2>4, <3>1, <3>2, PlainTouches DEF AppendLineage, others
        <4> QED
          BY <3>4, <4>1, OneRowInOrder
      <3> QED
        BY <3>3, <3>4
    <2> QED
      BY <1>3, <2>1, <2>2, <2>3, <2>4, QuietInOrder
         DEF ChildStep, EnterNextGeneration, SkipChild, ResumeTaggedChild, ForkChild,
             StageSucceeds, CommitSnapshot, LeaveWorktree, archive, others
  <1>4. CASE EvaluationStep
    <2>1. ASSUME NEW outcome \in Outcomes, NEW score \in Scores,
                 FinishEvaluation(outcome, score)
          PROVE  StepInOrder
      BY <2>1, EvaluationInOrder, OutcomeAssumption DEF FinishEvaluation, others
    <2>2. CASE AppendReceipt
      BY <2>2, ReceiptInOrder
    <2>3. CASE RecheckRejects
      <3>1. /\ Current \in Children /\ EvaluationParent(Current) \in OptionalGenid
            /\ "invalid_proposal" \in TerminalStatuses
        BY <1>0, <2>3, RecheckFacts DEF TerminalStatuses
      <3>2. ChildPhase
        BY <2>3, <3>1 DEF RecheckRejects, ChildPhase, Current, Children,
             UnevaluatedLabels
      <3> QED
        BY <1>0, <2>3, <3>1, <3>2, EarlierArePresent, DiscardInOrder
           DEF RecheckRejects, Rechecked, others
    <2> QED
      BY <1>4, <2>1, <2>2, <2>3, QuietInOrder
         DEF EvaluationStep, StartEvaluation, MaterializeBestEver, archive
  <1>5. CASE GateStep
    <2>1. CASE GateFails \/ \E accept \in BOOLEAN : GateDecides(accept)
      <3>1. /\ pc = "gate" /\ UNCHANGED tags
        BY <2>1 DEF GateFails, GateDecides, others
      <3>2. /\ Current \in Children /\ parent \in OptionalGenid /\ ChildPhase
            /\ "operator_failed" \in TerminalStatuses
        BY <1>0, <3>1, PhaseFacts
           DEF IInv, PositionOK, GateLabels, TypeOK, ProcessTypeOK, ChildPhase,
               TerminalStatuses
      <3>3. PICK c \in Children : c = Current
        BY <3>2
      <3>4. AllBefore(c)
        BY <1>0, <3>2, <3>3, EarlierArePresent
      <3>5. CASE GateFails
        BY <1>0, <3>1, <3>2, <3>5, DiscardInOrder DEF GateFails
      <3>6. ASSUME NEW accept \in BOOLEAN, GateDecides(accept)
            PROVE  StepInOrder
        <4>1. /\ PlainEvent(VerdictEvent(c, accept)) /\ VerdictEvent(c, accept).genid = c
              /\ "status" \notin DOMAIN VerdictEvent(c, accept)
          BY VerdictIsPlain, GenidFacts DEF VerdictEvent
        <4>2. AppendEvent(VerdictEvent(c, accept))
          BY <3>3, <3>6 DEF GateDecides
        <4> QED
          BY <1>0, <3>1, <3>4, <4>1, <4>2, StatuslessInOrder
      <3> QED
        BY <2>1, <3>5, <3>6
    <2> QED
      BY <1>5, <2>1, QuietInOrder DEF GateStep, EnterGate, archive
  <1>6. CASE RecordStep
    <2>1. ASSUME NEW event, FinishRecord(event),
                 event = RecordedEvent(Current) \/ event = RecordErrorEvent(Current)
          PROVE  StepInOrder
      <3>1. PICK c \in Children : c = Current
        BY <1>0, <2>1 DEF FinishRecord, IInv, PositionOK, EndLabels
      <3>2. Present(c)
        BY <2>1, <3>1, SettledIsPresent DEF FinishRecord, PastInv, EndLabels
      <3>3. /\ PlainEvent(event) /\ event.genid = c
            /\ DOMAIN event \subseteq {"genid", "record_attempted", "record_error"}
        BY <2>1, <3>1, RecordIsPlain, GenidFacts
      <3> QED
        BY <1>0, <2>1, <3>2, <3>3, StatuslessInOrder DEF FinishRecord, others
    <2> QED
      BY <1>6, <2>1, QuietInOrder
         DEF RecordStep, SkipRecord, StartRecord, RecordRefMissing, RecordSucceeds,
             RecordFails, LeaveUnselected, LeaveChild, LeaveGate, archive, others
  <1>7. CASE EndStep
    <2>1. ASSUME NEW outcome \in Outcomes, FinalAnchorEvaluated(outcome)
          PROVE  StepInOrder
      <3>1. parent \in Genids /\ \A h \in Children : Present(h)
        BY <1>0, <2>1, AllArePresentAtTheEnd DEF FinalAnchorEvaluated, IInv, PositionOK
      <3> QED
        BY <1>0, <2>1, <3>1, AnchorInOrder DEF FinalAnchorEvaluated
    <2> QED
      BY <1>7, <2>1, QuietInOrder
         DEF EndStep, FinalAnchorStarts, FinishRun, archive, others
  <1>8. CASE FaultStep
    <2>1. CASE InterruptEvaluation
      <3>1. "cancelled" \in FailedOutcomes \cup {Complete} /\ None \in Scores \cup {None}
        BY DEF FailedOutcomes
      <3> QED
        BY <2>1, <3>1, EvaluationInOrder DEF InterruptEvaluation, others
    <2> QED
      BY <1>8, <2>1, QuietInOrder DEF FaultStep, Abort, Crash, archive, others
  <1>9. CASE PeopleStep
    BY <1>9, QuietInOrder
       DEF PeopleStep, StartRun, Repair, TemporaryFilesDeleted, EditsPreserved, archive,
           others
  <1> QED
    BY <1>1, <1>2, <1>3, <1>4, <1>5, <1>6, <1>7, <1>8, <1>9 DEF Next, DriverStep

------------------------------------------------------------------------------
(* Lost lineage events.                                                      *)

(* A child with a tag that nobody has evaluated or rejected.                 *)
Lost(g) == Tagged(g) /\ Undecided(g) /\ Unsettled(g)

(* Without faults there is one such child at most, the driver is working on  *)
(* it, and the name of its parent is on the way to its row.                  *)
NothingLost ==
    faults = 0 =>
        /\ \A g \in Children : Lost(g) => g = Current /\ pc \in UnevaluatedLabels
        /\ pc = "lineage" => parent # None
        /\ pc \in {"unfork", "evalstart"} /\ Current \in Children =>
              Get(Row(Current), "parent") # None

(* The second look is for what a fault has cut off.                          *)
LEMMA RecheckNeedsFault ==
    ASSUME IInv, NothingLost, RecheckRejects
    PROVE  faults > 0
  <1>1. Current \in Children
    BY RecheckFacts
  <1>2. faults # 0
    BY <1>1 DEF NothingLost, RecheckRejects, LineageLost
  <1> QED
    BY <1>2, FaultAssumption DEF IInv, TypeOK, ProcessTypeOK

(* No step but the tag makes a child wait for its evaluation.                *)
LEMMA NobodyGetsLost ==
    ASSUME LineageInv, LineageInv', LineageStep, UNCHANGED tags,
           NEW h \in Children, Lost(h)'
    PROVE  Lost(h)
  <1>1. h \in Genids /\ StageTable(h) /\ StageTable(h)'
    BY GenidFacts, StageMeans DEF LineageInv, IInv
  <1>2. StageOf(h)' = "committed"
    BY <1>1 DEF StageTable, Lost
  <1>3. StageOf(h) = "committed"
    <2>1. CASE UNCHANGED stage
      BY <1>1, <1>2, <2>1 DEF stage
    <2>2. CASE Abstract!Next
      <3>1. PICK g \in Genids :
               \/ Abstract!Reject(g) \/ Abstract!Evaluate(g) \/ Abstract!Fail(g)
               \/ Abstract!Accept(g) \/ Abstract!Decline(g)
               \/ \E p \in Genids : Abstract!Commit(g, p)
        BY <2>2 DEF Abstract!Next
      <3>2. CASE \E p \in Genids : Abstract!Commit(g, p)
        <4>1. PICK p \in Genids :
                 /\ stage[g] = "open" /\ stage[p] = "accepted"
                 /\ tags' = [tags EXCEPT ![g] = p]
          BY <3>2 DEF Abstract!Commit, Abstract!Move
        <4>2. tags[g] = p
          BY <4>1 DEF LineageInv, IInv, TypeOK, FilesTypeOK
        <4>3. Tagged(g) /\ StageOf(g) = "open"
          BY <4>1, <4>2, NoneFacts DEF stage, Tagged
        <4> QED
          BY <4>3 DEF StageOf
      <3>3. CASE ~\E p \in Genids : Abstract!Commit(g, p)
        <4>1. PICK to \in {"rejected", "evaluated", "closed", "accepted"} :
                 stage' = [stage EXCEPT ![g] = to]
          BY <3>1, <3>3
             DEF Abstract!Reject, Abstract!Evaluate, Abstract!Fail, Abstract!Accept,
                 Abstract!Decline, Abstract!Move
        <4> QED
          BY <1>1, <1>2, <4>1 DEF stage
      <3> QED
        BY <3>2, <3>3
    <2> QED
      BY <2>1, <2>2 DEF LineageStep
  <1> QED
    BY <1>1, <1>3 DEF StageTable, Lost, StageOf

(* A step that keeps the tags, outside the work between tag and evaluation. *)
LEMMA LostElsewhere ==
    ASSUME LineageInv, LineageInv', LineageStep, NothingLost, UNCHANGED <<tags, faults>>,
           pc \notin UnevaluatedLabels, pc' \notin {"lineage", "unfork"},
           pc' = "evalstart" => Current' \notin Children
    PROVE  NothingLost'
  BY NobodyGetsLost DEF NothingLost

(* One that keeps the child, too, within that work.                          *)
LEMMA LostWithin ==
    ASSUME LineageInv, LineageInv', LineageStep, NothingLost,
           UNCHANGED <<tags, faults, gen, slot>>,
           pc \in UnevaluatedLabels, pc' \in UnevaluatedLabels \cup EvaluatedLabels,
           pc' # "lineage",
           pc' \in {"unfork", "evalstart"} /\ Current \in Children /\ faults = 0 =>
              Get(Row(Current), "parent")' # None
    PROVE  NothingLost'
  <1>1. Current' = Current /\ EvaluatedLabels \cap {"unfork", "evalstart"} = {}
    BY DEF Current, EvaluatedLabels
  <1>2. ASSUME NEW h \in Children, Lost(h)', faults = 0
        PROVE  h = Current' /\ pc' \in UnevaluatedLabels
    <2>1. h = Current
      BY <1>2, NobodyGetsLost DEF NothingLost
    <2>2. pc' \notin EvaluatedLabels
      <3>1. SUFFICES ASSUME pc' \in EvaluatedLabels PROVE Undecided(h)' => FALSE
        BY <1>2 DEF Lost
      <3> QED
        BY <1>1, <2>1, <3>1 DEF LineageInv, ControlInv, Undecided, Row
    <2> QED
      BY <1>1, <2>1, <2>2
  <1> QED
    BY <1>1, <1>2 DEF NothingLost, Row

(* The work of the driver on its child; the rest is a fault, or elsewhere.   *)
LEMMA ChildKeepsNothingLost ==
    ASSUME LineageInv, LineageInv', LineageStep, NothingLost, ChildStep
    PROVE  NothingLost'
  <1> USE DEF UnevaluatedLabels
  <1>1. CASE CreateTag
    <2>1. /\ pc = "tag" /\ pc' = "lineage" /\ UNCHANGED <<rows, parent, gen, slot, faults>>
          /\ parent # None
      BY <1>1, NoneFacts
         DEF CreateTag, Goto, local, archive, LineageInv, IInv, CurrentOK,
             UncommittedLabels
    <2>2. ASSUME NEW h \in Children, h # Current, Lost(h)'
          PROVE  Lost(h)
      <3>1. tags'[h] = tags[h]
        BY <1>1, <2>2, GenidFacts
           DEF CreateTag, LineageInv, IInv, TypeOK, FilesTypeOK
      <3> QED
        BY <2>1, <2>2, <3>1 DEF Lost, Tagged, Undecided, Unsettled, Row
    <2>3. Current' = Current
      BY <2>1 DEF Current
    <2> QED
      BY <2>1, <2>2, <2>3 DEF NothingLost
  <1>2. CASE AppendLineage
    <2>1. /\ pc = "lineage" /\ pc' = "unfork" /\ UNCHANGED <<tags, faults, gen, slot>>
      BY <1>2 DEF AppendLineage, Goto, local, others
    <2>2. ASSUME faults = 0, Current \in Children
          PROVE  Get(Row(Current), "parent")' # None
      <3>1. PICK c \in Genids, p \in OptionalGenid : c = Current /\ p = parent
        BY <2>1, <2>2, GenidFacts DEF LineageInv, IInv, TypeOK, ProcessTypeOK
      <3> DEFINE event == CommitEvent(c, p)
      <3>2. /\ PlainEvent(event) /\ event.genid = c
            /\ DOMAIN event = {"genid", "parent"} /\ event["parent"] = p
        BY CommitIsPlain DEF CommitEvent
      <3>3. AppendEvent(event) /\ p # None
        BY <1>2, <2>1, <2>2, <3>1 DEF AppendLineage, NothingLost
      <3> HIDE DEF event
      <3>4. /\ rows'[c] = MergeEvent(rows[c], event) /\ IsEntry(rows[c])
            /\ ~IsKeyedEvaluation(event)
        BY <3>2, <3>3, PlainTouches DEF LineageInv, IInv, EntriesOK, EntryOK, PlainEvent
      <3>5. Get(rows'[c].row, "parent") = p
        BY <3>2, <3>4, UnkeyedKeyWritten DEF ReservedAuxiliaryFields, StampedFields
      <3>6. c = Current'
        BY <2>1, <3>1 DEF Current
      <3> QED
        BY <3>3, <3>5, <3>6 DEF Row
    <2> QED
      BY <2>1, <2>2, LostWithin
  <1>3. CASE LeaveWorktree
    <2>1. /\ pc = "unfork" /\ pc' = "evalstart"
          /\ UNCHANGED <<rows, tags, faults, gen, slot>>
      BY <1>3 DEF LeaveWorktree, Goto, local, archive, others
    <2>2. Get(Row(Current), "parent")' = Get(Row(Current), "parent")
      BY <2>1 DEF Row, Current
    <2> QED
      BY <2>1, <2>2, LostWithin DEF NothingLost
  <1>4. CASE ResumeTaggedChild
    <2>1. /\ pc = "child" /\ Current \in Children /\ Current \in Genids
          /\ Tagged(Current) /\ GenerationIsPending(Current)
          /\ UNCHANGED <<archive, tags, faults>>
      BY <1>4, AtChildFacts, GenidFacts
         DEF ResumeTaggedChild, AtChild, LineageInv, others
    <2>2. CASE faults = 0 /\ ~Evaluated(Current)
      <3>1. Undecided(Current)
        BY <2>1, <2>2, EvaluatedOrUndecided DEF LineageInv
      <3>2. Current \notin gatePending
        BY <3>1, NoneFacts
           DEF LineageInv, IInv, PendingIsConsistent, Undecided, Get
      <3>3. Lost(Current)
        BY <2>1, <3>1, <3>2 DEF Lost, GenerationIsPending, Unsettled
      <3> QED
        BY <2>1, <2>2, <3>3 DEF NothingLost
    <2>3. CASE Evaluated(Current)
      <3>1. pc' = "gateenter"
        BY <1>4, <2>3 DEF ResumeTaggedChild
      <3> QED
        BY <2>1, <3>1, LostElsewhere
    <2>4. CASE faults # 0
      BY <2>1, <2>4 DEF NothingLost
    <2> QED
      BY <2>2, <2>3, <2>4
  <1>5. CASE StageSucceeds
    <2>1. /\ pc \in StageNames /\ pc' \in StageNames \cup {"commit"}
          /\ UNCHANGED <<tags, faults>>
      BY <1>5, StageFacts
         DEF StageSucceeds, Goto, others, LineageInv, IInv, PositionOK
    <2> QED
      BY <2>1, LostElsewhere DEF StageNames
  <1>6. CASE ForkChild
    <2>1. pc = "child" /\ pc' \in StageNames /\ UNCHANGED <<tags, faults>>
      BY <1>6, FirstStage DEF ForkChild, AtChild, others
    <2> QED
      BY <2>1, LostElsewhere DEF StageNames
  <1>7. ASSUME NEW status \in TerminalStatuses,
               StageDiscards(status) \/ CommitRejects(status)
        PROVE  NothingLost'
    BY <1>7, LostElsewhere
       DEF StageDiscards, CommitRejects, ToRecord, others, StageNames
  <1>8. CASE EnterNextGeneration \/ SkipChild
    BY <1>8, LostElsewhere
       DEF EnterNextGeneration, SkipChild, AtChild, ToGeneration, NextChild, ToSlot, others
  <1>9. CASE ForkFails \/ CommitSnapshot
    BY <1>9, LostElsewhere DEF ForkFails, CommitSnapshot, AtChild, Goto, others
  <1> QED
    BY <1>1, <1>2, <1>3, <1>4, <1>5, <1>6, <1>7, <1>8, <1>9 DEF ChildStep

(* Evaluation, gate and record, and what comes before and after the loop.    *)
LEMMA LaterKeepsNothingLost ==
    ASSUME LineageInv, LineageInv', LineageStep, NothingLost,
           EvaluationStep \/ GateStep \/ RecordStep
    PROVE  NothingLost'
  <1> USE DEF UnevaluatedLabels, EvaluatedLabels
  <1>1. CASE StartEvaluation
    BY <1>1, LostWithin DEF StartEvaluation, Goto, local
  <1>2. CASE RecheckRejects
    <2>1. faults # 0 /\ faults' = faults
      BY <1>2, RecheckNeedsFault DEF RecheckRejects, LineageInv, others
    <2> QED
      BY <2>1 DEF NothingLost
  <1>3. ASSUME NEW outcome \in Outcomes, NEW score \in Scores,
               FinishEvaluation(outcome, score)
        PROVE  NothingLost'
    BY <1>3, LostWithin DEF FinishEvaluation, Goto, local, others
  <1>4. CASE AppendReceipt
    BY <1>4, LostElsewhere DEF AppendReceipt, Goto, others
  <1>5. CASE MaterializeBestEver
    BY <1>5, LostElsewhere
       DEF MaterializeBestEver, Goto, Exit, NextChild, ToSlot
  <1>6. CASE GateStep
    BY <1>6, LostElsewhere
       DEF GateStep, EnterGate, GateFails, GateDecides, Goto, ToRecord, others
  <1>7. CASE RecordStep
    BY <1>7, LostElsewhere
       DEF RecordStep, SkipRecord, StartRecord, RecordRefMissing, RecordSucceeds,
           RecordFails, FinishRecord, LeaveUnselected, LeaveChild, LeaveGate, Goto,
           Exit, ToSlot, NextChild, others
  <1> QED
    BY <1>1, <1>2, <1>3, <1>4, <1>5, <1>6, <1>7 DEF EvaluationStep

(* The seed, select and the end of a run.                                    *)
LEMMA OutsideKeepsNothingLost ==
    ASSUME LineageInv, LineageInv', LineageStep, NothingLost,
           GenesisStep \/ SelectStep \/ EndStep
    PROVE  NothingLost'
  <1> USE DEF UnevaluatedLabels
  <1>1. CASE GenesisEvaluation
    <2>1. /\ pc = "genesis" /\ pc' = "evalstart"
          /\ UNCHANGED <<tags, faults, gen, slot>>
      BY <1>1 DEF GenesisEvaluation, Goto, local, others
    <2>2. Current' = Genesis
      BY <2>1, GenesisAssumption DEF LineageInv, IInv, PositionOK, OutsideLabels, Current
    <2> QED
      BY <2>1, <2>2, LostElsewhere, GenidFacts
  <1>2. CASE GenesisStep /\ ~GenesisEvaluation
    BY <1>2, LostElsewhere
       DEF GenesisStep, GenesisReady, GenesisRefused, GenesisAnchorSkipped,
           GenesisAnchorStarts, GenesisAnchorEvaluated, Goto, Exit, ToGeneration, others
  <1>3. CASE SelectStep
    BY <1>3, LostElsewhere
       DEF SelectStep, SkipGeneration, EnterSelect, SelectFails, SelectSucceeds,
           LeaveSelect, FailUnselected, PassSelected, EnterChildren, Goto, ToGeneration,
           ToRecord, ToSlot, others
  <1>4. CASE EndStep
    BY <1>4, LostElsewhere
       DEF EndStep, FinalAnchorStarts, FinalAnchorEvaluated, FinishRun, Exit, others
  <1> QED
    BY <1>1, <1>2, <1>3, <1>4

(* Faults are never forgotten.                                               *)
LEMMA FaultsOnlyGrow ==
    ASSUME TypeOK, [Next]_vars
    PROVE  faults > 0 => faults' > 0
  <1>1. faults' = faults \/ faults' = faults + 1
    <2>1. CASE GenesisStep \/ SelectStep \/ EndStep
      BY <2>1
         DEF GenesisStep, GenesisReady, GenesisRefused, GenesisEvaluation,
             GenesisAnchorSkipped, GenesisAnchorStarts, GenesisAnchorEvaluated,
             SelectStep, SkipGeneration, EnterSelect, SelectFails, SelectSucceeds,
             LeaveSelect, FailUnselected, PassSelected, EnterChildren, EndStep,
             FinalAnchorStarts, FinalAnchorEvaluated, FinishRun, Goto
    <2>2. CASE ChildStep
      BY <2>2
         DEF ChildStep, EnterNextGeneration, SkipChild, ResumeTaggedChild, ForkChild,
             ForkFails, StageSucceeds, StageDiscards, CommitRejects, CommitSnapshot,
             CreateTag, AppendLineage, LeaveWorktree, Goto
    <2>3. CASE EvaluationStep \/ GateStep \/ RecordStep
      BY <2>3
         DEF EvaluationStep, StartEvaluation, RecheckRejects, FinishEvaluation,
             AppendReceipt, MaterializeBestEver, GateStep, EnterGate, GateFails,
             GateDecides, RecordStep, SkipRecord, StartRecord, RecordRefMissing,
             RecordSucceeds, RecordFails, FinishRecord, LeaveUnselected, LeaveChild,
             LeaveGate, Goto
    <2>4. CASE FaultStep \/ PeopleStep \/ UNCHANGED vars
      BY <2>4
         DEF FaultStep, Abort, InterruptEvaluation, Crash, PeopleStep, StartRun, Repair,
             TemporaryFilesDeleted, EditsPreserved, vars
    <2> QED
      BY <2>1, <2>2, <2>3, <2>4 DEF Next, DriverStep
  <1> QED
    BY <1>1, FaultAssumption DEF TypeOK, ProcessTypeOK

(* Every step. *)
LEMMA StepKeepsNothingLost ==
    ASSUME LineageInv, NothingLost, [Next]_vars
    PROVE  NothingLost'
  <1>0. LineageInv' /\ LineageStep
    BY EveryStepKeeps
  <1>1. CASE DriverStep
    BY <1>0, <1>1, ChildKeepsNothingLost, LaterKeepsNothingLost,
       OutsideKeepsNothingLost DEF DriverStep
  <1>2. CASE FaultStep
    <2>1. faults' = faults + 1 /\ faults \in Nat
      BY <1>2, FaultAssumption
         DEF FaultStep, Abort, InterruptEvaluation, Crash, LineageInv, IInv, TypeOK,
             ProcessTypeOK
    <2> QED
      BY <2>1 DEF NothingLost
  <1>3. CASE PeopleStep
    BY <1>0, <1>3, LostElsewhere
       DEF PeopleStep, StartRun, Repair, TemporaryFilesDeleted, EditsPreserved, others,
           UnevaluatedLabels
  <1>4. CASE UNCHANGED vars
    BY <1>4
       DEF vars, archive, local, NothingLost, Lost, Tagged, Undecided, Unsettled, Row,
           Current
  <1> QED
    BY <1>1, <1>2, <1>3, <1>4 DEF Next

------------------------------------------------------------------------------
(* The theorems *)

(* What is rejected and has a tag was refused by the second look.            *)
OutOfUse ==
    \A h \in Children : Tagged(h) /\ Get(Row(h), "status") \in Rejections =>
        Get(Row(h), "status") = "invalid_proposal" /\ faults > 0 /\ Undecided(h)

UseInv == ArchiveInOrder /\ NothingLost /\ OutOfUse

(* Order in the words of this module. *)
LEMMA OrderMeans ==
    ArchiveInOrder <=> \A h \in Children : Listed(h) => AllBefore(h)
  BY DEF ArchiveInOrder, Listed, Present, AllBefore

(* A generation without an outcome is nobody's base.                         *)
LEMMA LostMeans ==
    LineageInv /\ UseInv => RejectedIsUnused
  <1> SUFFICES ASSUME LineageInv, OutOfUse, NEW g \in Children, Tagged(g),
                      Get(Row(g), "status") \in Rejections
               PROVE  /\ Row(g).status = "invalid_proposal" /\ faults > 0
                      /\ ~Evaluated(g)
                      /\ \A h \in Children : tags[h] # g
    BY DEF UseInv, RejectedIsUnused, Rejections
  <1>1. /\ Get(Row(g), "status") = "invalid_proposal" /\ faults > 0 /\ Undecided(g)
    BY DEF OutOfUse
  <1>2. Row(g).status = "invalid_proposal"
    BY <1>1, StatusAssumption DEF Get, TerminalStatuses
  <1>3. ~Evaluated(g)
    BY <1>1, NoneFacts DEF Undecided, Evaluated, Get
  <1>4. ~Accepted(g)
    BY <1>1, UndecidedIsOpen, GenidFacts DEF Accepted, LineageInv, IInv
  <1>5. ASSUME NEW h \in Children, tags[h] = g
        PROVE  FALSE
    <2>1. Tagged(h)
      BY <1>5, GenidFacts, NoneFacts DEF Tagged
    <2> QED
      BY <1>4, <1>5, <2>1 DEF LineageInv, IInv, CommittedOnAccepted
  <1> QED
    BY <1>1, <1>2, <1>3, <1>5

(* What a step owes is enough to keep order and tags.                        *)
LEMMA StepKeepsUse ==
    ASSUME UseInv, LineageInv, PastInv, [Next]_vars
    PROVE  UseInv'
  <1>1. StepInOrder
    BY EveryStepInOrder, QuietInOrder DEF vars, archive
  <1>2. \A h \in Children : Listed(h)' => AllBefore(h)'
    BY <1>1, OrderMeans DEF UseInv, StepInOrder, AllBefore
  <1>3. ArchiveInOrder'
    BY <1>2 DEF ArchiveInOrder, Listed, Present, AllBefore
  <1>4. NothingLost'
    BY StepKeepsNothingLost DEF UseInv
  <1>5. faults > 0 => faults' > 0
    BY FaultsOnlyGrow DEF LineageInv, IInv
  <1>6. ASSUME NEW h \in Children, Tagged(h)', Get(Row(h), "status")' \in Rejections
        PROVE  /\ Get(Row(h), "status")' = "invalid_proposal"
               /\ faults' > 0 /\ Undecided(h)'
    <2>1. CASE Tagged(h) /\ Get(Row(h), "status")' = Get(Row(h), "status")
      <3>1. /\ Get(Row(h), "status") = "invalid_proposal"
            /\ faults > 0 /\ Undecided(h)
        BY <1>6, <2>1 DEF UseInv, OutOfUse
      <3>2. ~Unsettled(h)
        BY <3>1, StatusReads DEF Unsettled, Undecided, TerminalStatuses
      <3> QED
        BY <1>1, <1>5, <2>1, <3>1, <3>2 DEF StepInOrder
    <2>2. CASE Rechecked(h, Get(Row(h), "status")')
      <3>1. RecheckRejects /\ faults' = faults /\ faults > 0 /\ h = Current
        BY <2>2, RecheckNeedsFault DEF Rechecked, RecheckRejects, LineageInv, UseInv
      <3>2. PICK p \in OptionalGenid : p = EvaluationParent(Current)
        BY <3>1, RecheckFacts DEF LineageInv
      <3>3. /\ AppendEvent(DiscardEvent(h, p, "invalid_proposal"))
            /\ Undecided(h) /\ h \in Genids
        BY <3>1, <3>2, RecheckFacts DEF RecheckRejects, LineageInv
      <3>4. /\ PlainEvent(DiscardEvent(h, p, "invalid_proposal"))
            /\ DiscardEvent(h, p, "invalid_proposal").genid = h
        BY <3>3, DiscardIsPlain
      <3>5. Undecided(h)'
        BY <3>3, <3>4, PlainTouches DEF LineageInv
      <3> QED
        BY <2>2, <3>1, <3>5 DEF Rechecked
    <2> QED
      BY <1>1, <1>6, <2>1, <2>2 DEF StepInOrder
  <1>7. OutOfUse'
    BY <1>6 DEF OutOfUse
  <1> QED
    BY <1>3, <1>4, <1>7 DEF UseInv

(* A new workspace has no rows of children and no tags of theirs. *)
LEMMA InitUse == Init => UseInv
  <1> SUFFICES ASSUME Init PROVE UseInv
    OBVIOUS
  <1>1. \A g \in Children : DOMAIN Row(g) = {} /\ ~Tagged(g)
    BY GenidFacts DEF Init, Row, EmptyEntry, EmptyDict, Tagged
  <1> QED
    BY <1>1 DEF Init, UseInv, ArchiveInOrder, OutOfUse, NothingLost, Lost

(* Order, tags and what is out of use hold together. *)
LEMMA UseInvariant == Spec => [](LineageInv /\ UseInv)
  <1>1. Init => LineageInv /\ PastInv /\ UseInv
    BY InitIsLineage, InitPast, InitUse
  <1>2. LineageInv /\ PastInv /\ UseInv /\ [Next]_vars =>
            LineageInv' /\ PastInv' /\ UseInv'
    BY EveryStepKeeps, EveryStepKeepsPast, StepKeepsUse
  <1> QED
    BY <1>1, <1>2, PTL DEF Spec

(* The tie break of best_row is by the order of the ids: no candidate has a  *)
(* row before all the children with smaller ids have theirs, whatever is     *)
(* interrupted and resumed.                                                  *)
THEOREM OrderIsKept == Spec => []ArchiveInOrder
  <1>1. LineageInv /\ UseInv => ArchiveInOrder
    BY DEF UseInv
  <1> QED
    BY <1>1, UseInvariant, PTL

(* A proposal that commit_child, validate or novelty turned down has no      *)
(* gen/<id> tag.  What the second look at a child without a lineage event    *)
(* refuses has one: then the run was interrupted, the child has no outcome,  *)
(* then or later, and no other generation is forked from it.                 *)
THEOREM RejectedStaysUnused == Spec => []RejectedIsUnused
  <1>1. LineageInv /\ UseInv => RejectedIsUnused
    BY LostMeans
  <1> QED
    BY <1>1, UseInvariant, PTL

------------------------------------------------------------------------------
(* What is published.                                                        *)

(* A generation that could be a parent was evaluated, and its verdict is in.  *)
ClaimStands(g) ==
    ClaimsParent(g) =>
        Get(Row(g), "outcome") = Complete /\ Get(Row(g), "pending_gate_record") = FALSE

(* The row of a complete evaluation. *)
CompleteStands(g) ==
    Get(Row(g), "outcome") = Complete =>
        /\ Tagged(g) /\ DecisionOK(g)
        /\ Get(Row(g), "task_set_hash") = "selection"
        /\ Get(Row(g), "pending_gate_record") \in BOOLEAN
        /\ "score" \in DOMAIN Row(g)

(* What the status of a row says. *)
StatusStands(g) ==
    /\ Get(Row(g), "status") = "complete" =>
          /\ Get(Row(g), "outcome") = Complete /\ Get(Row(g), "score") # None
          /\ Get(Row(g), "pending_gate_record") = TRUE => g \in gatePending
    /\ Get(Row(g), "status") = "rejected_validation" =>
          "validate" \in {Stages[i] : i \in DOMAIN Stages}

(* Stamped keys come with a status; a row without a tag has nothing else.     *)
RowBegins(g) ==
    /\ "status" \notin DOMAIN Row(g) =>
          DOMAIN Row(g) \cap StampedFields = {} /\ ~ClaimsParent(g)
    /\ "status" \notin DOMAIN Row(g) /\ ~Tagged(g) => DOMAIN Row(g) = {}

(* The seed is as the scaffold left it until it is evaluated. *)
SeedAwaits ==
    Undecided(Genesis) =>
        /\ Get(Row(Genesis), "status") = "pending"
        /\ Get(Row(Genesis), "score") = None
        /\ Get(Row(Genesis), "valid_parent") = FALSE

AnchorStands(g) == HasCompleteAnchor(g) => g = Genesis \/ Accepted(g)

Story(g) ==
    /\ ClaimStands(g) /\ CompleteStands(g) /\ StatusStands(g) /\ AnchorStands(g)
    /\ IF g = Genesis THEN SeedAwaits ELSE RowBegins(g)

(* Where a child has no row yet, and who is the champion at the end. *)
PlaceOK ==
    /\ pc \in UncommittedLabels => DOMAIN Row(Current) = {}
    /\ pc = "finalrun" => Accepted(parent)

StoryInv == PlaceOK /\ \A g \in Genids : Story(g)

(* The keys of a row that its story is about. *)
StoryKeys == StampedFields \cup {"valid_parent", "verdict", "pending_gate_record"}

------------------------------------------------------------------------------
(* What is written into a row *)

(* A key that is not protected is written by every line that carries it, a   *)
(* claim to be a valid parent unless it is refused.                          *)
LEMMA FieldsWritten ==
    ASSUME NEW row, NEW event, NEW key \in DOMAIN event \ ReservedAuxiliaryFields,
           key \notin StampedFields \/ key \notin DOMAIN row,
           key = "valid_parent" => ~RefusesValidParent(row, event)
    PROVE  /\ key \in DOMAIN MergeEventFields(row, event)
           /\ MergeEventFields(row, event)[key] = event[key]
  <1> DEFINE taken == Writable(row, event) \
                 (IF RefusesValidParent(row, event) THEN {"valid_parent"} ELSE {})
  <1>1. key \in taken
    BY DEF Writable
  <1>2. MergeEventFields(row, event) = Overlay(row, event, taken)
    BY DEF MergeEventFields
  <1> HIDE DEF taken
  <1> QED
    BY <1>1, <1>2, OverlayDomain, OverlayTaken

(* Only the mechanism replaces a stamped key, but for the three that a gate   *)
(* failure overrides.                                                        *)
LEMMA StampedKept ==
    ASSUME NEW row, NEW event, NEW key \in StampedFields \cap DOMAIN row,
           Get(event, "mechanism") # TRUE,
           key \in {"status", "score", "cost"} => ~TerminalOverride(row, event)
    PROVE  Get(MergeEventFields(row, event), key) = Get(row, key)
  <1> DEFINE taken == Writable(row, event) \
                 (IF RefusesValidParent(row, event) THEN {"valid_parent"} ELSE {})
  <1>1. ~CanReplaceStamped(row, event)
    BY DEF CanReplaceStamped, ReplacesPendingRecord, ReplacesInfrastructureFailure
  <1>2. key \notin taken
    BY <1>1 DEF Writable
  <1>3. MergeEventFields(row, event) = Overlay(row, event, taken)
    BY DEF MergeEventFields
  <1> HIDE DEF taken
  <1> QED
    BY <1>2, <1>3, OverlayGet

(* A claim is refused only of a row that is not eligible. *)
LEMMA ClaimWritten ==
    ASSUME NEW row, NEW event,
           \/ Get(event, "valid_parent") # TRUE
           \/ "selection_eligible" \notin DOMAIN event /\ Get(row, "selection_eligible") = TRUE
    PROVE  ~RefusesValidParent(row, event)
  <1> DEFINE taken == Writable(row, event) \ {"valid_parent"}
             merged == Overlay(row, event, taken)
  <1>1. CASE Get(event, "valid_parent") # TRUE
    BY <1>1 DEF RefusesValidParent
  <1>2. CASE /\ "selection_eligible" \notin DOMAIN event
             /\ Get(row, "selection_eligible") = TRUE
    <2>1. "selection_eligible" \notin taken
      BY <1>2 DEF Writable
    <2>2. "selection_eligible" \in DOMAIN row /\ row["selection_eligible"] = TRUE
      BY <1>2, NoneFacts DEF Get
    <2> HIDE DEF taken
    <2>3. merged["selection_eligible"] = TRUE
      BY <2>1, <2>2, OverlayKept
    <2> QED
      BY <2>3 DEF RefusesValidParent, taken
  <1> QED
    BY <1>1, <1>2

(* Only a second evaluation changes what a generation has beside its row.    *)
LEMMA EvalsKept ==
    ASSUME NEW entry, IsEntry(entry), NEW event,
           NEW merged, merged = MergeEvent(entry, event),
           ~IsKeyedEvaluation(event) \/ (~IsAuxiliary(event) /\ entry.top = None)
    PROVE  merged.evals = entry.evals
  <1>1. CASE ~IsKeyedEvaluation(event)
    BY <1>1 DEF MergeEvent, IsEntry
  <1>2. CASE IsKeyedEvaluation(event) /\ ~IsAuxiliary(event) /\ entry.top = None
    <2>1. merged = MergeKeyedEvaluation(entry, event)
      BY <1>2 DEF MergeEvent
    <2> QED
      BY <1>2, <2>1 DEF MergeKeyedEvaluation, IsEntry
  <1> QED
    BY <1>1, <1>2

(* A decision, as the keys of the row say it. *)
LEMMA DecisionReads ==
    ASSUME NEW g
    PROVE  DecisionOK(g) <=>
               /\ Get(Row(g), "valid_parent") \in BOOLEAN
               /\ Get(Row(g), "verdict") \in {"keep", "discard"}
               /\ ClaimsParent(g) <=> Get(Row(g), "verdict") = "keep"
  <1>1. None # "keep" /\ None # "discard"
    BY NoneAssumption
  <1> QED
    BY <1>1 DEF DecisionOK, Get

(* ... and as they will say it. *)
LEMMA DecisionWillRead ==
    ASSUME NEW g
    PROVE  DecisionOK(g)' <=>
               /\ Get(Row(g), "valid_parent")' \in BOOLEAN
               /\ Get(Row(g), "verdict")' \in {"keep", "discard"}
               /\ ClaimsParent(g)' <=> Get(Row(g), "verdict")' = "keep"
  <1>1. None # "keep" /\ None # "discard"
    BY NoneAssumption
  <1> QED
    BY <1>1 DEF DecisionOK, Get

(* A step that leaves what the story of a generation reads.                  *)
LEMMA SameKeysSameStory ==
    ASSUME NEW g \in Genids, Story(g), tags'[g] = tags[g],
           \A key \in StoryKeys : /\ key \in DOMAIN Row(g)' <=> key \in DOMAIN Row(g)
                                  /\ Get(Row(g), key)' = Get(Row(g), key),
           Get(Row(g), "status") = "complete" =>
               (g \in gatePending' <=> g \in gatePending),
           HasCompleteAnchor(g)' => HasCompleteAnchor(g) \/ g = Genesis \/ Accepted(g),
           Accepted(g) => Accepted(g)',
           g # Genesis /\ "status" \notin DOMAIN Row(g) /\ ~Tagged(g) =>
               DOMAIN Row(g)' = {}
    PROVE  Story(g)'
  <1>1. /\ \A key \in {"outcome", "status", "score", "task_set_hash", "valid_parent",
                       "verdict", "pending_gate_record"} :
              /\ key \in StoryKeys
              /\ Get(Row(g), key)' = Get(Row(g), key)
              /\ key \in DOMAIN Row(g)' <=> key \in DOMAIN Row(g)
        /\ Tagged(g)' <=> Tagged(g)
        /\ ClaimsParent(g)' <=> ClaimsParent(g)
    BY DEF StoryKeys, StampedFields, Tagged, ClaimsParent
  <1>2. DecisionOK(g)' <=> DecisionOK(g)
    BY <1>1, DecisionReads, DecisionWillRead
  <1>3. ClaimStands(g)' /\ CompleteStands(g)' /\ StatusStands(g)'
    BY <1>1, <1>2 DEF Story, ClaimStands, CompleteStands, StatusStands
  <1>4. AnchorStands(g)'
    BY DEF Story, AnchorStands
  <1>5. CASE g = Genesis
    <2>1. Undecided(Genesis)' <=> Undecided(Genesis)
      BY <1>1, <1>5 DEF Undecided
    <2>2. SeedAwaits'
      BY <1>1, <1>5, <2>1 DEF Story, SeedAwaits
    <2> QED
      BY <1>3, <1>4, <1>5, <2>2 DEF Story
  <1>6. CASE g # Genesis
    <2>1. RowBegins(g)'
      BY <1>1, <1>6 DEF Story, RowBegins, StoryKeys
    <2> QED
      BY <1>3, <1>4, <1>6, <2>1 DEF Story
  <1> QED
    BY <1>5, <1>6

(* A step about one generation leaves the story of the others.               *)
LEMMA OneStory ==
    ASSUME NEW c \in Genids, \A h \in Genids : Story(h), Story(c)',
           \A h \in Genids : h # c =>
              /\ rows'[h] = rows[h] /\ tags'[h] = tags[h]
              /\ h \in gatePending' <=> h \in gatePending
    PROVE  \A h \in Genids : Story(h)'
  <1> SUFFICES ASSUME NEW h \in Genids, h # c PROVE Story(h)'
    OBVIOUS
  <1>1. /\ Row(h)' = Row(h) /\ HasCompleteAnchor(h)' = HasCompleteAnchor(h)
        /\ Accepted(h)' = Accepted(h) /\ Story(h)
    BY DEF Row, HasCompleteAnchor, Accepted, Tagged
  <1>2. CASE "status" \notin DOMAIN Row(h) /\ ~Tagged(h) /\ h # Genesis
    <2>1. DOMAIN Row(h)' = {}
      BY <1>1, <1>2 DEF Story, RowBegins
    <2> QED
      BY <1>1, <2>1, SameKeysSameStory
  <1> QED
    BY <1>1, <1>2, SameKeysSameStory

------------------------------------------------------------------------------
(* Lines of the archive *)

(* A status is only ever missing from a row before anything is decided.      *)
LEMMA DecidedHasStatus ==
    ASSUME NEW g \in Genids, Story(g), ~Undecided(g)
    PROVE  g # Genesis => "status" \in DOMAIN Row(g)
  BY DEF Story, RowBegins, Undecided, StampedFields

(* An open child has no status, and so none of the stamped keys.             *)
LEMMA OpenChildIsUnstamped ==
    ASSUME IInv, StatusOK, NEW g \in Children, Story(g),
           Unsettled(g)
    PROVE  /\ Undecided(g) /\ "status" \notin DOMAIN Row(g)
           /\ DOMAIN Row(g) \cap StampedFields = {}
           /\ ~Tagged(g) => DOMAIN Row(g) = {}
  <1>1. Undecided(g)
    <2> SUFFICES ASSUME ~Undecided(g) PROVE FALSE
      OBVIOUS
    <2>1. Get(Row(g), "outcome") \in FailedOutcomes \cup {Complete}
      BY GenidFacts DEF IInv, EntriesOK, EntryOK, Undecided, Get, Row
    <2> QED
      BY <2>1, StatusReads DEF Unsettled, TerminalStatuses
  <1>2. EvaluationStatus(Row(g)) = Get(Row(g), "status")
    BY <1>1, StatusReads DEF Undecided
  <1>3. "status" \notin DOMAIN Row(g)
    BY <1>1, <1>2 DEF StatusOK, Unsettled, Get
  <1> QED
    BY <1>1, <1>3, GenidFacts DEF Story, RowBegins

(* A child given up, or one whose gate has failed.                           *)
LEMMA DiscardTells ==
    ASSUME IInv, StatusOK, \A h \in Genids : Story(h), UNCHANGED tags,
           NEW g \in Children, GenerationIsPending(g),
           NEW p \in OptionalGenid, NEW status \in TerminalStatuses \ {"complete"},
           g \in gatePending => status = "operator_failed",
           status = "rejected_validation" =>
               "validate" \in {Stages[i] : i \in DOMAIN Stages},
           AppendEvent(DiscardEvent(g, p, status))
    PROVE  \A h \in Genids : Story(h)'
  <1> DEFINE event == DiscardEvent(g, p, status)
  <1>1. /\ PlainEvent(event) /\ event.genid = g /\ g \in Genids
        /\ \A S : ScanPending(S, event) = S
    BY DiscardIsPlain, GenidFacts
  <1>2. /\ {"status", "score", "valid_parent", "verdict"} \subseteq DOMAIN event
        /\ event["status"] = status /\ event["score"] = None
        /\ event["valid_parent"] = FALSE /\ event["verdict"] = "discard"
        /\ "outcome" \notin DOMAIN event /\ "pending_gate_record" \notin DOMAIN event
        /\ "mechanism" \notin DOMAIN event
    BY DEF DiscardEvent
  <1> HIDE DEF event
  <1>3. /\ AppendEvent(event) /\ IsEntry(rows[g]) /\ ~IsKeyedEvaluation(event)
    BY <1>1 DEF event, IInv, EntriesOK, EntryOK, PlainEvent
  <1>4. /\ rows'[g] = MergeEvent(rows[g], event)
        /\ \A h \in Genids : h # g => rows'[h] = rows[h]
        /\ gatePending' = gatePending
    BY <1>1, <1>3, AppendTouchesOne DEF IInv
  <1>5. /\ Get(Row(g), "outcome")' = Get(Row(g), "outcome")
        /\ Get(Row(g), "pending_gate_record")' = Get(Row(g), "pending_gate_record")
    BY <1>1, <1>2, <1>3, PlainTouches
  <1>6. Row(g)' = MergeEventFields(Row(g), event)
    BY <1>3, <1>4, UnkeyedMergeRow DEF Row
  <1>7. rows'[g].evals = rows[g].evals
    BY <1>3, <1>4, EvalsKept
  <1>8. /\ Get(Row(g), "valid_parent")' = FALSE
        /\ Get(Row(g), "verdict")' = "discard"
    <2>1. ~RefusesValidParent(Row(g), event)
      BY <1>2, ClaimWritten DEF Get
    <2> QED
      BY <1>2, <1>6, <2>1, FieldsWritten DEF Get, ReservedAuxiliaryFields, StampedFields
  <1>9. Get(Row(g), "status")' = status /\ "status" \in DOMAIN Row(g)'
    <2>1. "status" \notin DOMAIN rows[g].row \/ TerminalOverride(rows[g].row, event)
      <3>1. CASE g \in gatePending
        BY <1>2, <3>1 DEF IInv, PendingIsConsistent, TerminalOverride, Row, Get
      <3>2. CASE g \notin gatePending
        BY <1>1, <3>2, OpenChildIsUnstamped DEF GenerationIsPending, Unsettled, Row
      <3> QED
        BY <3>1, <3>2
    <2>2. Get(Row(g), "status")' = status
      BY <1>2, <1>3, <1>4, <2>1, StatusWritten DEF Row
    <2> QED
      BY <2>2, StatusAssumption DEF Get
  <1>10. ~HasCompleteAnchor(g)' /\ ~Accepted(g)
    <2>1. ~Accepted(g)
      <3>1. CASE g \in gatePending
        BY <3>1, PendingIsNotAccepted DEF IInv
      <3>2. CASE g \notin gatePending
        BY <1>1, <3>2, OpenChildIsUnstamped, UndecidedIsOpen
           DEF GenerationIsPending, Unsettled
      <3> QED
        BY <3>1, <3>2
    <2>2. ~HasCompleteAnchor(g)
      BY <1>1, <2>1, GenidFacts DEF Story, AnchorStands
    <2> QED
      BY <1>7, <2>1, <2>2 DEF HasCompleteAnchor
  <1>11. CompleteStands(g)'
    <2> SUFFICES ASSUME Get(Row(g), "outcome") = Complete PROVE CompleteStands(g)'
      BY <1>5 DEF CompleteStands
    <2>1. /\ CompleteStands(g) /\ Tagged(g)'
          /\ Get(Row(g), "task_set_hash") = "selection"
          /\ Get(Row(g), "pending_gate_record")' \in BOOLEAN
      BY <1>1, <1>5 DEF Story, CompleteStands, Tagged
    <2>2. Get(Row(g), "task_set_hash")' = "selection"
      <3>1. "task_set_hash" \in StampedFields \cap DOMAIN Row(g)
        BY <2>1, NoneFacts DEF Get, StampedFields
      <3>2. Get(event, "mechanism") # TRUE
        BY <1>2, NoneFacts DEF Get
      <3>3. "task_set_hash" \notin {"status", "score", "cost"}
        OBVIOUS
      <3>4. Get(MergeEventFields(Row(g), event), "task_set_hash")
                = Get(Row(g), "task_set_hash")
        BY <3>1, <3>2, <3>3, StampedKept
      <3> QED
        BY <1>6, <2>1, <3>4
    <2>3. "score" \in DOMAIN Row(g)'
      BY <1>3, <1>4, <2>1, MergedValues DEF CompleteStands, Row
    <2>4. DecisionOK(g)'
      BY <1>8, DecisionWillRead DEF ClaimsParent
    <2> QED
      BY <2>1, <2>2, <2>3, <2>4 DEF CompleteStands
  <1>12. Story(g)'
    BY <1>1, <1>8, <1>9, <1>10, <1>11, GenidFacts
       DEF Story, ClaimStands, ClaimsParent, StatusStands, AnchorStands, RowBegins
  <1> QED
    BY <1>1, <1>4, <1>12, OneStory

(* A verdict: the claim and the decision agree, and the wait is over.        *)
LEMMA VerdictTells ==
    ASSUME IInv, \A h \in Genids : Story(h), UNCHANGED tags,
           NEW g \in Children, g \in gatePending, NEW accept \in BOOLEAN,
           AppendEvent(VerdictEvent(g, accept))
    PROVE  \A h \in Genids : Story(h)'
  <1> DEFINE event == VerdictEvent(g, accept)
  <1>1. /\ PlainEvent(event) /\ event.genid = g /\ g \in Genids
        /\ \A S : ScanPending(S, event) = S \ {g}
    BY VerdictIsPlain, GenidFacts
  <1>2. /\ DOMAIN event = {"genid", "pending_gate_record", "valid_parent", "verdict"}
        /\ event["pending_gate_record"] = FALSE /\ event["valid_parent"] = accept
        /\ event["verdict"] = IF accept THEN "keep" ELSE "discard"
    BY DEF VerdictEvent
  <1> HIDE DEF event
  <1>3. /\ AppendEvent(event) /\ IsEntry(rows[g]) /\ ~IsKeyedEvaluation(event)
        /\ Get(Row(g), "outcome") = Complete /\ Tagged(g)' /\ ~Accepted(g)
        /\ Get(Row(g), "selection_eligible") = TRUE
    BY <1>1 DEF event, IInv, EntriesOK, EntryOK, PlainEvent, PendingIsConsistent, Row,
                Tagged
  <1>4. /\ rows'[g] = MergeEvent(rows[g], event)
        /\ \A h \in Genids : h # g => rows'[h] = rows[h]
        /\ gatePending' = gatePending \ {g}
    BY <1>1, <1>3, AppendTouchesOne DEF IInv
  <1>5. \A key \in {"outcome", "status", "score", "task_set_hash"} :
            /\ Get(Row(g), key)' = Get(Row(g), key)
            /\ key \in DOMAIN Row(g)' <=> key \in DOMAIN Row(g)
    BY <1>2, <1>3, <1>4, UnkeyedMerge DEF Row
  <1>6. Row(g)' = MergeEventFields(Row(g), event)
    BY <1>3, <1>4, UnkeyedMergeRow DEF Row
  <1>7. ~RefusesValidParent(Row(g), event)
    BY <1>2, <1>3, ClaimWritten
  <1>8. /\ Get(Row(g), "valid_parent")' = accept
        /\ Get(Row(g), "verdict")' = IF accept THEN "keep" ELSE "discard"
        /\ Get(Row(g), "pending_gate_record")' = FALSE
    BY <1>2, <1>6, <1>7, FieldsWritten DEF Get, ReservedAuxiliaryFields, StampedFields
  <1>9. rows'[g].evals = rows[g].evals
    BY <1>3, <1>4, EvalsKept
  <1>10. CompleteStands(g)'
    <2>1. DecisionOK(g)'
      BY <1>8, DecisionWillRead DEF ClaimsParent
    <2> QED
      BY <1>1, <1>3, <1>5, <1>8, <2>1 DEF Story, CompleteStands
  <1>11. ClaimStands(g)' /\ StatusStands(g)'
    BY <1>1, <1>3, <1>5, <1>8 DEF Story, ClaimStands, StatusStands
  <1>12. AnchorStands(g)'
    BY <1>1, <1>3, <1>9, GenidFacts DEF Story, AnchorStands, HasCompleteAnchor
  <1>13. "status" \in DOMAIN Row(g)'
    BY <1>1, <1>3, <1>5, NoneFacts, GenidFacts, DecidedHasStatus DEF Undecided, Get
  <1>14. Story(g)'
    BY <1>10, <1>11, <1>12, <1>13, GenidFacts DEF Story, RowBegins
  <1> QED
    BY <1>1, <1>4, <1>14, OneStory

(* A line or a certificate that says nothing the story reads.                *)
LEMMA NothingTold ==
    ASSUME IInv, \A h \in Genids : Story(h), UNCHANGED tags,
           NEW c \in Genids, \A h \in Genids : h # c => rows'[h] = rows[h],
           \A key \in StoryKeys : /\ key \in DOMAIN Row(c)' <=> key \in DOMAIN Row(c)
                                  /\ Get(Row(c), key)' = Get(Row(c), key),
           \A h \in Genids : h # c => (h \in gatePending' <=> h \in gatePending),
           Get(Row(c), "status") = "complete" =>
               (c \in gatePending' <=> c \in gatePending),
           HasCompleteAnchor(c)' => HasCompleteAnchor(c) \/ c = Genesis \/ Accepted(c),
           Accepted(c) => Accepted(c)',
           c = Genesis \/ Tagged(c) \/ "status" \in DOMAIN Row(c)
    PROVE  \A h \in Genids : Story(h)'
  <1>1. Story(c)'
    BY SameKeysSameStory
  <1> QED
    BY <1>1, OneStory

(* commit_child's line names the parent of a generation that has its tag.    *)
LEMMA CommitTells ==
    ASSUME IInv, \A h \in Genids : Story(h), UNCHANGED tags,
           NEW c \in Genids, Tagged(c), NEW p \in OptionalGenid,
           AppendEvent(CommitEvent(c, p))
    PROVE  \A h \in Genids : Story(h)'
  <1> DEFINE event == CommitEvent(c, p)
  <1>1. /\ PlainEvent(event) /\ event.genid = c
        /\ DOMAIN event = {"genid", "parent"}
        /\ \A S : ScanPending(S, event) = S
    BY CommitIsPlain
  <1> HIDE DEF event
  <1>2. /\ AppendEvent(event) /\ IsEntry(rows[c]) /\ ~IsKeyedEvaluation(event)
    BY <1>1 DEF event, IInv, EntriesOK, EntryOK, PlainEvent
  <1>3. /\ rows'[c] = MergeEvent(rows[c], event)
        /\ \A h \in Genids : h # c => rows'[h] = rows[h]
        /\ gatePending' = gatePending
    BY <1>1, <1>2, AppendTouchesOne DEF IInv
  <1>4. \A key \in StoryKeys \cup AcceptanceKeys :
            /\ key \in DOMAIN Row(c)' <=> key \in DOMAIN Row(c)
            /\ Get(Row(c), key)' = Get(Row(c), key)
    BY <1>1, <1>2, <1>3, UnkeyedMerge DEF Row, StoryKeys, StampedFields, AcceptanceKeys
  <1>5. HasCompleteAnchor(c)' <=> HasCompleteAnchor(c)
    BY <1>2, <1>3, EvalsKept DEF HasCompleteAnchor
  <1>6. Accepted(c) => Accepted(c)'
    BY <1>4, SameKeysSameAcceptance DEF Accepted, Tagged
  <1> QED
    BY <1>3, <1>4, <1>5, <1>6, NothingTold

(* The record operator's line is about a settled child.                      *)
LEMMA RecordTells ==
    ASSUME IInv, \A h \in Genids : Story(h), UNCHANGED tags,
           NEW c \in Children, Settled(c),
           NEW event, event = RecordedEvent(c) \/ event = RecordErrorEvent(c),
           AppendEvent(event)
    PROVE  \A h \in Genids : Story(h)'
  <1>1. /\ PlainEvent(event) /\ event.genid = c /\ c \in Genids
        /\ DOMAIN event \subseteq {"genid", "record_attempted", "record_error"}
        /\ \A S : ScanPending(S, event) \subseteq S
    BY RecordIsPlain, GenidFacts
  <1>2. /\ IsEntry(rows[c]) /\ ~IsKeyedEvaluation(event)
    BY <1>1 DEF IInv, EntriesOK, EntryOK, PlainEvent
  <1>3. /\ rows'[c] = MergeEvent(rows[c], event)
        /\ \A h \in Genids : h # c => rows'[h] = rows[h]
        /\ gatePending' = ScanPending(gatePending, event)
    BY <1>1, AppendTouchesOne DEF IInv
  <1>4. \A key \in StoryKeys \cup AcceptanceKeys :
            /\ key \in DOMAIN Row(c)' <=> key \in DOMAIN Row(c)
            /\ Get(Row(c), key)' = Get(Row(c), key)
    BY <1>1, <1>2, <1>3, UnkeyedMerge DEF Row, StoryKeys, StampedFields, AcceptanceKeys
  <1>5. HasCompleteAnchor(c)' <=> HasCompleteAnchor(c)
    BY <1>2, <1>3, EvalsKept DEF HasCompleteAnchor
  <1>6. Accepted(c) => Accepted(c)'
    BY <1>4, SameKeysSameAcceptance DEF Accepted, Tagged
  <1>7. \A h \in Genids : h # c => (h \in gatePending' <=> h \in gatePending)
    BY <1>1, <1>3 DEF ScanPending
  <1>8. Get(Row(c), "status") = "complete" => (c \in gatePending' <=> c \in gatePending)
    BY <1>1, <1>3 DEF Settled, GenerationIsPending
  <1>9. Tagged(c) \/ "status" \in DOMAIN Row(c)
    BY <1>1, SettledIsPresent, GenidFacts DEF Present, Story, RowBegins
  <1> QED
    BY <1>1, <1>3, <1>4, <1>5, <1>6, <1>7, <1>8, <1>9, NothingTold

(* A receipt is for a row that has its outcome.                              *)
LEMMA ReceiptTells ==
    ASSUME LineageInv, \A h \in Genids : Story(h), AppendReceipt
    PROVE  \A h \in Genids : Story(h)'
  <1> DEFINE receipt == [certified |-> TRUE]
  <1>0. PICK c \in Genids : c = Current
    BY DEF AppendReceipt, LineageInv, IInv, PositionOK, EvaluatedLabels
  <1>1. ~Undecided(c) /\ IInv
    BY <1>0 DEF AppendReceipt, LineageInv, ControlInv, EvaluatedLabels
  <1>2. /\ rows' = [rows EXCEPT ![c].row = Overlay(@, receipt, {"certified"})]
        /\ UNCHANGED <<tags, gatePending>>
    BY <1>0 DEF AppendReceipt, others
  <1>3. IsEntry(rows[c]) /\ DOMAIN rows = Genids
    BY <1>1 DEF IInv, TypeOK, ArchiveTypeOK, EntriesOK, EntryOK
  <1> HIDE DEF receipt
  <1>4. /\ \A h \in Genids : h # c => rows'[h] = rows[h]
        /\ rows'[c].row = Overlay(rows[c].row, receipt, {"certified"})
        /\ rows'[c].evals = rows[c].evals
    BY <1>1, <1>2, <1>3 DEF IsEntry
  <1>5. \A key \in StoryKeys :
            /\ key \in DOMAIN Row(c)' <=> key \in DOMAIN Row(c)
            /\ Get(Row(c), key)' = Get(Row(c), key)
    BY <1>4, OverlayDomain, OverlayGet DEF Row, StoryKeys, StampedFields
  <1>6. HasCompleteAnchor(c)' <=> HasCompleteAnchor(c)
    BY <1>4 DEF HasCompleteAnchor
  <1>7. Accepted(c) => Accepted(c)'
    BY <1>1, ReceiptArchiveKept DEF ArchiveKept, AcceptanceKept
  <1>8. c = Genesis \/ "status" \in DOMAIN Row(c)
    BY <1>1, DecidedHasStatus
  <1> QED
    BY <1>1, <1>2, <1>4, <1>5, <1>6, <1>7, <1>8, NothingTold

(* A sealed evaluation is of the seed, or of an accepted generation.         *)
LEMMA AnchorTells ==
    ASSUME IInv, \A h \in Genids : Story(h), UNCHANGED tags,
           NEW c \in Genids, c = Genesis \/ Accepted(c), NEW outcome \in Outcomes,
           AppendEvent(AnchorEvent(c, outcome))
    PROVE  \A h \in Genids : Story(h)'
  <1> DEFINE event == AnchorEvent(c, outcome)
  <1>1. /\ event.genid = c
        /\ IsKeyedEvaluation(event) /\ IsAuxiliary(event)
        /\ \A S : ScanPending(S, event) = S
    BY NoneFacts DEF AnchorEvent, IsKeyedEvaluation, IsAuxiliary, Get, ScanPending,
       IsEvaluationStamp, MarksPendingGateRecord, IsGateRecordEvent, StampedFields
  <1> HIDE DEF event
  <1>2. /\ rows'[c] = MergeEvent(rows[c], event)
        /\ \A h \in Genids : h # c => rows'[h] = rows[h]
        /\ gatePending' = gatePending
    BY <1>1, AppendTouchesOne DEF event, IInv
  <1>3. IsEntry(rows[c])
    BY DEF IInv, EntriesOK, EntryOK
  <1>4. \A key \in StoryKeys :
            /\ key \in DOMAIN Row(c)' <=> key \in DOMAIN Row(c)
            /\ Get(Row(c), key)' = Get(Row(c), key)
    BY <1>1, <1>2, <1>3, AuxiliaryMerge DEF Row, StoryKeys, StampedFields
  <1>5. Accepted(c) => Accepted(c)'
    BY AnchorArchiveKept, OutcomeAssumption DEF ArchiveKept, AcceptanceKept
  <1> QED
    BY <1>2, <1>4, <1>5, NothingTold DEF Accepted

(* A tag, before the child has a row.                                        *)
LEMMA TagTells ==
    ASSUME IInv, \A h \in Genids : Story(h), CreateTag
    PROVE  \A h \in Genids : Story(h)'
  <1>1. PICK c \in Children : c = Current /\ c \in Genids
    BY GenidFacts DEF CreateTag, IInv, PositionOK, UncommittedLabels
  <1>2. /\ UNCHANGED <<rows, gatePending>> /\ DOMAIN Row(c) = {}
        /\ \A h \in Genids : h # c => tags'[h] = tags[h]
    BY <1>1 DEF CreateTag, archive, IInv, CurrentOK, TypeOK, FilesTypeOK
  <1>3. /\ \A key : Get(Row(c), key)' = None
        /\ DOMAIN Row(c)' = {} /\ Undecided(c)
        /\ HasCompleteAnchor(c)' <=> HasCompleteAnchor(c)
    BY <1>2 DEF Row, Get, Undecided, HasCompleteAnchor
  <1>4. ~HasCompleteAnchor(c)
    BY <1>1, <1>3, UndecidedIsOpen, GenidFacts DEF Story, AnchorStands
  <1>5. Story(c)'
    BY <1>1, <1>3, <1>4, NoneFacts, GenidFacts, StatusAssumption
       DEF Story, ClaimStands, CompleteStands, StatusStands, AnchorStands, RowBegins,
           ClaimsParent, TerminalStatuses
  <1> QED
    BY <1>1, <1>2, <1>5, OneStory

(* Everything else leaves the archive and the tags alone.                    *)
LEMMA QuietTells ==
    ASSUME \A h \in Genids : Story(h), UNCHANGED <<rows, gatePending, tags>>
    PROVE  \A h \in Genids : Story(h)'
  BY DEF Story, ClaimStands, CompleteStands, StatusStands, AnchorStands, RowBegins,
     SeedAwaits, ClaimsParent, DecisionOK, HasCompleteAnchor, Accepted, Undecided, Tagged,
     Row

(* The line of an evaluation, key by key. *)
EvaluationSays(event, g, outcome, score) ==
    /\ {"outcome", "status", "score", "task_set_hash", "valid_parent", "verdict",
        "pending_gate_record"} \subseteq DOMAIN event
    /\ event["outcome"] = outcome
    /\ event["status"] = (IF outcome = Complete THEN "complete" ELSE outcome)
    /\ event["score"] = (IF outcome = Complete THEN score ELSE None)
    /\ event["task_set_hash"] = "selection"
    /\ event["valid_parent"] = (outcome = Complete /\ g = Genesis)
    /\ event["verdict"] = (IF outcome = Complete /\ g = Genesis
                           THEN "keep" ELSE "discard")
    /\ event["pending_gate_record"] = (outcome = Complete /\ g # Genesis)
    /\ g = Genesis => /\ "kind" \in DOMAIN event /\ event["kind"] = "genesis_eval"
                      /\ "mechanism" \in DOMAIN event /\ event["mechanism"] = TRUE

(* append_evaluation_record, with the lifecycle metadata. *)
LEMMA EvaluationReads ==
    ASSUME NEW g \in Genids, NEW p \in OptionalGenid,
           NEW outcome \in FailedOutcomes \cup {Complete},
           NEW score \in Scores \cup {None},
           NEW event, event = EvaluationEvent(g, p, outcome, score)
    PROVE  EvaluationSays(event, g, outcome, score)
  <1> DEFINE complete == outcome = Complete
             pending == complete /\ g # Genesis
             valid == complete /\ ~pending
             common ==
                 [genid |-> g, parent |-> p, outcome |-> outcome,
                  status |-> IF complete THEN "complete" ELSE outcome,
                  score |-> IF complete THEN score ELSE None,
                  task_set_hash |-> "selection", attempt |-> attempts[g],
                  selection_eligible |-> complete, pending_gate_record |-> pending,
                  valid_parent |-> valid,
                  verdict |-> IF valid THEN "keep" ELSE "discard",
                  note |-> IF pending THEN PendingNote ELSE "evaluated",
                  mechanism |-> TRUE]
             kinded == Overlay(common, [kind |-> "genesis_eval"], {"kind"})
             keys == {"outcome", "status", "score", "task_set_hash", "valid_parent",
                      "verdict", "pending_gate_record", "mechanism"}
  <1>1. event = IF g = Genesis THEN kinded ELSE common
    BY DEF EvaluationEvent
  <1>2. /\ keys \subseteq DOMAIN event
        /\ \A key \in keys : event[key] = common[key]
        /\ g = Genesis => "kind" \in DOMAIN event /\ event["kind"] = "genesis_eval"
    <2>1. CASE g # Genesis
      BY <1>1, <2>1
    <2>2. CASE g = Genesis
      <3>1. event = Overlay(common, [kind |-> "genesis_eval"], {"kind"})
        BY <1>1, <2>2
      <3>2. \A key : key \in DOMAIN event <=> key \in DOMAIN common \/ key = "kind"
        BY <3>1 DEF Overlay
      <3>3. /\ event["kind"] = "genesis_eval"
            /\ \A key \in keys : event[key] = common[key]
        BY <3>1 DEF Overlay
      <3> QED
        BY <2>2, <3>2, <3>3
    <2> QED
      BY <2>1, <2>2
  <1>3. /\ common["outcome"] = outcome
        /\ common["status"] = (IF complete THEN "complete" ELSE outcome)
        /\ common["score"] = (IF complete THEN score ELSE None)
        /\ common["task_set_hash"] = "selection"
        /\ common["valid_parent"] = valid
        /\ common["verdict"] = (IF valid THEN "keep" ELSE "discard")
        /\ common["pending_gate_record"] = pending
        /\ common["mechanism"] = TRUE
    OBVIOUS
  <1>4. valid <=> complete /\ g = Genesis
    OBVIOUS
  <1> HIDE DEF kinded, common
  <1> QED
    BY <1>2, <1>3, <1>4 DEF EvaluationSays

(* The first evaluation of a generation writes all it says into its row.     *)
LEMMA EvaluationWrites ==
    ASSUME IInv, StatusOK, NEW c \in Genids, Story(c), Undecided(c),
           c # Genesis => Unsettled(c),
           NEW p \in OptionalGenid, NEW outcome \in FailedOutcomes \cup {Complete},
           NEW score \in Scores \cup {None},
           NEW event, event = EvaluationEvent(c, p, outcome, score),
           NEW merged, merged = MergeEvent(rows[c], event)
    PROVE  \A key \in {"outcome", "status", "score", "task_set_hash", "valid_parent",
                       "verdict", "pending_gate_record"} :
              key \in DOMAIN merged.row /\ merged.row[key] = event[key]
  <1> DEFINE keys == {"outcome", "status", "score", "task_set_hash", "valid_parent",
                      "verdict", "pending_gate_record"}
  <1>0. EvaluationSays(event, c, outcome, score)
    BY EvaluationReads
  <1>1. /\ event.genid = c /\ IsKeyedEvaluation(event) /\ ~IsAuxiliary(event)
    BY EvaluationEventFacts
  <1>2. IsEntry(rows[c]) /\ rows[c].top = None
    BY DEF IInv, EntriesOK, EntryOK, Undecided, Row
  <1>3. /\ keys \subseteq DOMAIN event \ ReservedAuxiliaryFields
    BY <1>0 DEF EvaluationSays, ReservedAuxiliaryFields
  <1>4. CASE merged.row = ReplaceTopEvaluation(rows[c].row, event)
    BY <1>3, <1>4, OverlayDomain, OverlayTaken DEF ReplaceTopEvaluation
  <1>5. CASE c # Genesis /\ merged.row = MergeEventFields(rows[c].row, event)
    <2>1. DOMAIN Row(c) \cap StampedFields = {}
      BY <1>5, OpenChildIsUnstamped, GenidFacts
    <2>2. event["valid_parent"] = FALSE
      BY <1>0, <1>5 DEF EvaluationSays
    <2>3. ~RefusesValidParent(Row(c), event)
      BY <1>3, <2>2, ClaimWritten DEF Get
    <2>4. \A key \in keys : key \notin StampedFields \/ key \notin DOMAIN Row(c)
      BY <2>1
    <2> HIDE DEF keys
    <2>5. \A key \in keys : /\ key \in DOMAIN MergeEventFields(Row(c), event)
                            /\ MergeEventFields(Row(c), event)[key] = event[key]
      BY <1>3, <2>3, <2>4, FieldsWritten
    <2> QED
      BY <1>5, <2>5 DEF keys, Row
  <1>6. CASE c = Genesis
    <2>1. IsGenesisReplacement(rows[c].row, event)
      <3>1. EvaluationStatus(Row(c)) = "pending"
        BY <1>6, StatusReads DEF Story, SeedAwaits, Undecided
      <3>2. Get(event, "kind") = "genesis_eval" /\ Get(event, "mechanism") = TRUE
        BY <1>0, <1>6 DEF EvaluationSays, Get
      <3> QED
        BY <1>1, <1>6, <3>1, <3>2 DEF IsGenesisReplacement, Story, SeedAwaits, Row
    <2>2. merged = MergeKeyedEvaluation(rows[c], event)
      BY <1>1, <1>2 DEF MergeEvent
    <2>3. MergeKeyedEvaluation(rows[c], event) =
              [rows[c] EXCEPT !.row = ReplaceTopEvaluation(rows[c].row, event),
                              !.top = event.task_set_hash]
      BY <2>1 DEF MergeKeyedEvaluation
    <2>4. merged.row = ReplaceTopEvaluation(rows[c].row, event)
      BY <1>2, <2>2, <2>3 DEF IsEntry
    <2> QED
      BY <1>4, <2>4
  <1> QED
    BY <1>1, <1>2, <1>4, <1>5, <1>6, FirstMergeRow

(* The first evaluation of a generation. *)
LEMMA EvaluationTells ==
    ASSUME IInv, StatusOK, \A h \in Genids : Story(h), UNCHANGED tags,
           NEW c \in Genids, Undecided(c), Tagged(c), Unsettled(c),
           NEW p \in OptionalGenid, NEW outcome \in FailedOutcomes \cup {Complete},
           NEW score \in Scores \cup {None}, outcome = Complete => score # None,
           AppendEvent(EvaluationEvent(c, p, outcome, score))
    PROVE  \A h \in Genids : Story(h)'
  <1> DEFINE event == EvaluationEvent(c, p, outcome, score)
  <1>0. EvaluationSays(event, c, outcome, score)
    BY EvaluationReads
  <1>1. /\ event.genid = c /\ IsKeyedEvaluation(event) /\ ~IsAuxiliary(event)
        /\ \A S : ScanPending(S, event) =
               IF outcome = Complete /\ c # Genesis THEN S \cup {c} ELSE S
    BY EvaluationEventFacts
  <1>2. /\ event["outcome"] = outcome
        /\ event["status"] = (IF outcome = Complete THEN "complete" ELSE outcome)
        /\ event["score"] = (IF outcome = Complete THEN score ELSE None)
        /\ event["task_set_hash"] = "selection"
        /\ event["valid_parent"] = (outcome = Complete /\ c = Genesis)
        /\ event["verdict"] = (IF outcome = Complete /\ c = Genesis
                               THEN "keep" ELSE "discard")
        /\ event["pending_gate_record"] = (outcome = Complete /\ c # Genesis)
    BY <1>0 DEF EvaluationSays
  <1>3. AppendEvent(event)
    OBVIOUS
  <1>4. /\ rows'[c] = MergeEvent(rows[c], event)
        /\ \A h \in Genids : h # c => rows'[h] = rows[h]
        /\ gatePending' = IF outcome = Complete /\ c # Genesis
                          THEN gatePending \cup {c} ELSE gatePending
    BY <1>1, <1>3, AppendTouchesOne DEF IInv
  <1>5. \A key \in {"outcome", "status", "score", "task_set_hash", "valid_parent",
                    "verdict", "pending_gate_record"} :
            key \in DOMAIN Row(c)' /\ Get(Row(c), key)' = event[key]
    <2>1. \A key \in {"outcome", "status", "score", "task_set_hash", "valid_parent",
                      "verdict", "pending_gate_record"} :
              key \in DOMAIN rows'[c].row /\ rows'[c].row[key] = event[key]
      BY <1>4, EvaluationWrites
    <2> QED
      BY <2>1 DEF Row, Get
  <1>6. IsEntry(rows[c]) /\ rows[c].top = None
    BY DEF IInv, EntriesOK, EntryOK, Undecided, Row
  <1>7. rows'[c].evals = rows[c].evals
    BY <1>1, <1>4, <1>6, EvalsKept
  <1> HIDE DEF event
  <1>8. AnchorStands(c)'
    BY <1>7, UndecidedIsOpen DEF Story, AnchorStands, HasCompleteAnchor
  <1>9. /\ Get(Row(c), "outcome")' = outcome
        /\ Get(Row(c), "status")' = (IF outcome = Complete THEN "complete" ELSE outcome)
        /\ Get(Row(c), "score")' = (IF outcome = Complete THEN score ELSE None)
        /\ Get(Row(c), "task_set_hash")' = "selection"
        /\ Get(Row(c), "valid_parent")' = (outcome = Complete /\ c = Genesis)
        /\ Get(Row(c), "verdict")' = (IF outcome = Complete /\ c = Genesis
                                      THEN "keep" ELSE "discard")
        /\ Get(Row(c), "pending_gate_record")' = (outcome = Complete /\ c # Genesis)
        /\ {"outcome", "status", "score"} \subseteq DOMAIN Row(c)'
    BY <1>2, <1>5
  <1>10. ClaimStands(c)'
    BY <1>9 DEF ClaimStands, ClaimsParent
  <1>11. CompleteStands(c)'
    <2>1. DecisionOK(c)'
      BY <1>9, DecisionWillRead DEF ClaimsParent
    <2> QED
      BY <1>9, <2>1 DEF CompleteStands, Tagged
  <1>12. StatusStands(c)'
    <2>1. CASE outcome = Complete
      BY <1>4, <1>9, <2>1 DEF StatusStands
    <2>2. CASE outcome # Complete
      BY <1>9, <2>2 DEF StatusStands, FailedOutcomes
    <2> QED
      BY <2>1, <2>2
  <1>13. Story(c)'
    BY <1>8, <1>9, <1>10, <1>11, <1>12 DEF Story, SeedAwaits, Undecided, RowBegins
  <1> QED
    BY <1>4, <1>13, OneStory

------------------------------------------------------------------------------
(* Every step *)

(* Without a row a generation is pending.                                    *)
LEMMA EmptyIsPending ==
    ASSUME NEW g, DOMAIN Row(g) = {}
    PROVE  GenerationIsPending(g)
  BY SettledIsPresent DEF Present, Settled

(* Before its tag a child does not await the gate.                           *)
LEMMA UntaggedAwaitsNothing ==
    ASSUME PendingIsConsistent, NEW g, ~Tagged(g)
    PROVE  g \notin gatePending
  BY DEF PendingIsConsistent

(* What a stage or the commit may reject a child with.                       *)
LEMMA RejectionFacts ==
    ASSUME IInv, PlaceOK, NEW status \in TerminalStatuses,
           StageDiscards(status) \/ CommitRejects(status)
    PROVE  /\ Current \in Children /\ parent \in OptionalGenid
           /\ GenerationIsPending(Current) /\ Current \notin gatePending
           /\ status # "complete"
           /\ status = "rejected_validation" =>
                 "validate" \in {Stages[i] : i \in DOMAIN Stages}
           /\ AppendEvent(DiscardEvent(Current, parent, status))
           /\ UNCHANGED tags
  <1>1. /\ pc \in UncommittedLabels
        /\ AppendEvent(DiscardEvent(Current, parent, status)) /\ UNCHANGED tags
    BY DEF StageDiscards, CommitRejects, others, UncommittedLabels
  <1>2. /\ Current \in Children /\ parent \in OptionalGenid
        /\ DOMAIN Row(Current) = {} /\ Current \notin gatePending
    BY <1>1, UntaggedAwaitsNothing
       DEF IInv, PositionOK, CurrentOK, PlaceOK, OptionalGenid
  <1>3. /\ status # "complete"
        /\ status = "rejected_validation" => pc = "validate"
    BY DEF StageDiscards, CommitRejects, StageVerdicts, StageNames
  <1>4. status = "rejected_validation" =>
            "validate" \in {Stages[i] : i \in DOMAIN Stages}
    BY <1>3 DEF IInv, PositionOK, StageNames
  <1> QED
    BY <1>1, <1>2, <1>3, <1>4, EmptyIsPending

(* Every action of Next, by the line it appends.                             *)
LEMMA EveryStepTells ==
    ASSUME LineageInv, PastInv, StoryInv, Next
    PROVE  \A h \in Genids : Story(h)'
  <1>0. IInv /\ StatusOK /\ PlaceOK /\ \A h \in Genids : Story(h)
    BY DEF LineageInv, PastInv, StoryInv
  <1>1. CASE GenesisStep
    <2>1. CASE \E outcome \in Outcomes : GenesisAnchorEvaluated(outcome)
      BY <1>0, <2>1, AnchorTells, GenidFacts DEF GenesisAnchorEvaluated
    <2> QED
      BY <1>0, <1>1, <2>1, QuietTells
         DEF GenesisStep, GenesisReady, GenesisRefused, GenesisEvaluation,
             GenesisAnchorSkipped, GenesisAnchorStarts, archive, others
  <1>2. CASE SelectStep
    <2>1. CASE FailUnselected
      <3>1. PICK c \in Children : c = Current
        BY <2>1, UnselectedFacts
      <3>2. None \in OptionalGenid /\ "operator_failed" \in TerminalStatuses \ {"complete"}
        BY DEF OptionalGenid, TerminalStatuses
      <3>3. /\ GenerationIsPending(c) /\ UNCHANGED tags
            /\ AppendEvent(DiscardEvent(c, None, "operator_failed"))
        BY <2>1, <3>1 DEF FailUnselected, others
      <3> QED
        BY <1>0, <3>2, <3>3, DiscardTells
    <2> QED
      BY <1>0, <1>2, <2>1, QuietTells
         DEF SelectStep, SkipGeneration, EnterSelect, SelectFails, SelectSucceeds,
             LeaveSelect, PassSelected, EnterChildren, archive, others
  <1>3. CASE ChildStep
    <2>1. CASE ForkFails
      <3>1. PICK c \in Children, p \in OptionalGenid : c = Current /\ p = ChildParent
        BY <1>0, <2>1, AtChildFacts DEF ForkFails
      <3>2. "operator_failed" \in TerminalStatuses \ {"complete"}
        BY DEF TerminalStatuses
      <3>3. /\ GenerationIsPending(c) /\ UNCHANGED tags
            /\ AppendEvent(DiscardEvent(c, p, "operator_failed"))
        BY <2>1, <3>1 DEF ForkFails, others
      <3> QED
        BY <1>0, <3>2, <3>3, DiscardTells
    <2>2. ASSUME NEW status \in TerminalStatuses,
                 StageDiscards(status) \/ CommitRejects(status)
          PROVE  \A h \in Genids : Story(h)'
      <3>1. PICK c \in Children, p \in OptionalGenid : c = Current /\ p = parent
        BY <1>0, <2>2, RejectionFacts
      <3>2. /\ GenerationIsPending(c) /\ c \notin gatePending /\ UNCHANGED tags
            /\ status \in TerminalStatuses \ {"complete"}
            /\ status = "rejected_validation" =>
                  "validate" \in {Stages[i] : i \in DOMAIN Stages}
            /\ AppendEvent(DiscardEvent(c, p, status))
        BY <1>0, <2>2, <3>1, RejectionFacts
      <3> QED
        BY <1>0, <3>2, DiscardTells
    <2>3. CASE CreateTag
      BY <1>0, <2>3, TagTells
    <2>4. CASE AppendLineage
      <3>1. PICK c \in Genids, p \in OptionalGenid : c = Current /\ p = parent
        BY <1>0, <2>4
           DEF AppendLineage, IInv, PositionOK, UnevaluatedLabels, TypeOK, ProcessTypeOK
      <3>2. Tagged(c) /\ UNCHANGED tags /\ AppendEvent(CommitEvent(c, p))
        BY <1>0, <2>4, <3>1 DEF AppendLineage, IInv, CurrentOK, UnevaluatedLabels, others
      <3> QED
        BY <1>0, <3>2, CommitTells
    <2> QED
      BY <1>0, <1>3, <2>1, <2>2, <2>3, <2>4, QuietTells
         DEF ChildStep, EnterNextGeneration, SkipChild, ResumeTaggedChild, ForkChild,
             StageSucceeds, CommitSnapshot, LeaveWorktree, archive, others
  <1>4. ASSUME pc = "evaluate", UNCHANGED tags,
               NEW outcome \in FailedOutcomes \cup {Complete},
               NEW score \in Scores \cup {None}, outcome = Complete => score # None,
               AppendEvent(EvaluationEvent(Current, EvaluationParent(Current),
                                           outcome, score))
        PROVE  \A h \in Genids : Story(h)'
    <2>1. PICK c \in Genids, p \in OptionalGenid :
              c = Current /\ p = EvaluationParent(Current)
      BY <1>0, <1>4, EvaluationParentType DEF IInv, PositionOK, UnevaluatedLabels
    <2>2. Undecided(c) /\ Tagged(c) /\ Unsettled(c)
      BY <1>0, <1>4, <2>1 DEF IInv, CurrentOK, UnevaluatedLabels, LineageInv, ControlInv
    <2>3. AppendEvent(EvaluationEvent(c, p, outcome, score))
      BY <1>4, <2>1
    <2> QED
      BY <1>0, <1>4, <2>2, <2>3, EvaluationTells
  <1>5. CASE EvaluationStep
    <2>1. ASSUME NEW outcome \in Outcomes, NEW score \in Scores,
                 FinishEvaluation(outcome, score)
          PROVE  \A h \in Genids : Story(h)'
      BY <1>4, <2>1, OutcomeAssumption, NoneFacts DEF FinishEvaluation, others
    <2>2. CASE AppendReceipt
      BY <1>0, <2>2, ReceiptTells
    <2>3. CASE RecheckRejects
      <3>1. PICK c \in Children, p \in OptionalGenid :
                c = Current /\ p = EvaluationParent(Current)
        BY <1>0, <2>3, RecheckFacts
      <3>2. /\ pc = "evalstart" /\ UNCHANGED tags
            /\ AppendEvent(DiscardEvent(c, p, "invalid_proposal"))
        BY <2>3, <3>1 DEF RecheckRejects, others
      <3>3. c \notin gatePending /\ GenerationIsPending(c)
        BY <1>0, <2>3, <3>1, <3>2, RecheckFacts, NoneFacts
           DEF LineageInv, ControlInv, UnevaluatedLabels, Unsettled, IInv,
               PendingIsConsistent, Undecided, Get, GenerationIsPending
      <3>4. "invalid_proposal" \in TerminalStatuses \ {"complete"}
        BY DEF TerminalStatuses
      <3> QED
        BY <1>0, <3>2, <3>3, <3>4, DiscardTells
    <2> QED
      BY <1>0, <1>5, <2>1, <2>2, <2>3, QuietTells
         DEF EvaluationStep, StartEvaluation, MaterializeBestEver, archive
  <1>6. CASE GateStep
    <2>1. CASE GateFails \/ \E accept \in BOOLEAN : GateDecides(accept)
      <3>1. /\ pc = "gate" /\ UNCHANGED tags
        BY <2>1 DEF GateFails, GateDecides, others
      <3>2. PICK c \in Children, p \in OptionalGenid : c = Current /\ p = parent
        BY <1>0, <3>1
           DEF IInv, PositionOK, GateLabels, TypeOK, ProcessTypeOK
      <3>3. c \in gatePending /\ GenerationIsPending(c)
        BY <1>0, <3>1, <3>2 DEF IInv, CurrentOK, GateLabels, GenerationIsPending
      <3>4. CASE GateFails
        <4>1. "operator_failed" \in TerminalStatuses \ {"complete"}
          BY DEF TerminalStatuses
        <4>2. AppendEvent(DiscardEvent(c, p, "operator_failed"))
          BY <3>2, <3>4 DEF GateFails
        <4> QED
          BY <1>0, <3>1, <3>3, <4>1, <4>2, DiscardTells
      <3>5. ASSUME NEW accept \in BOOLEAN, GateDecides(accept)
            PROVE  \A h \in Genids : Story(h)'
        <4>1. AppendEvent(VerdictEvent(c, accept))
          BY <3>2, <3>5 DEF GateDecides
        <4> QED
          BY <1>0, <3>1, <3>3, <4>1, VerdictTells
      <3> QED
        BY <2>1, <3>4, <3>5
    <2> QED
      BY <1>0, <1>6, <2>1, QuietTells DEF GateStep, EnterGate, archive
  <1>7. CASE RecordStep
    <2>1. ASSUME NEW event, FinishRecord(event),
                 event = RecordedEvent(Current) \/ event = RecordErrorEvent(Current)
          PROVE  \A h \in Genids : Story(h)'
      <3>1. PICK c \in Children : c = Current
        BY <1>0, <2>1 DEF FinishRecord, IInv, PositionOK, EndLabels
      <3>2. /\ Settled(c) /\ UNCHANGED tags /\ AppendEvent(event)
            /\ event = RecordedEvent(c) \/ event = RecordErrorEvent(c)
        BY <2>1, <3>1 DEF FinishRecord, PastInv, EndLabels, others
      <3> QED
        BY <1>0, <3>2, RecordTells
    <2> QED
      BY <1>0, <1>7, <2>1, QuietTells
         DEF RecordStep, SkipRecord, StartRecord, RecordRefMissing, RecordSucceeds,
             RecordFails, LeaveUnselected, LeaveChild, LeaveGate, archive, others
  <1>8. CASE EndStep
    <2>1. ASSUME NEW outcome \in Outcomes, FinalAnchorEvaluated(outcome)
          PROVE  \A h \in Genids : Story(h)'
      <3>1. parent \in Genids /\ Accepted(parent) /\ UNCHANGED tags
        BY <1>0, <2>1 DEF FinalAnchorEvaluated, IInv, PositionOK, PlaceOK
      <3>2. PICK c \in Genids : c = parent
        BY <3>1
      <3>3. Accepted(c) /\ AppendEvent(AnchorEvent(c, outcome))
        BY <2>1, <3>1, <3>2 DEF FinalAnchorEvaluated
      <3> QED
        BY <1>0, <3>1, <3>3, AnchorTells
    <2> QED
      BY <1>0, <1>8, <2>1, QuietTells
         DEF EndStep, FinalAnchorStarts, FinishRun, archive, others
  <1>9. CASE FaultStep
    <2>1. CASE InterruptEvaluation
      <3>1. /\ "cancelled" \in FailedOutcomes \cup {Complete}
            /\ "cancelled" # Complete /\ None \in Scores \cup {None}
        BY DEF FailedOutcomes, Complete
      <3> QED
        BY <1>4, <2>1, <3>1 DEF InterruptEvaluation, others
    <2> QED
      BY <1>0, <1>9, <2>1, QuietTells DEF FaultStep, Abort, Crash, archive, others
  <1>10. CASE PeopleStep
    BY <1>0, <1>10, QuietTells
       DEF PeopleStep, StartRun, Repair, TemporaryFilesDeleted, EditsPreserved, archive,
           others
  <1> QED
    BY <1>1, <1>2, <1>3, <1>5, <1>6, <1>7, <1>8, <1>9, <1>10 DEF Next, DriverStep

(* Most steps go where PlaceOK asks for nothing.                             *)
LEMMA PlaceElsewhere ==
    ASSUME pc' \notin UncommittedLabels \cup {"finalrun"}
    PROVE  PlaceOK'
  BY DEF PlaceOK

(* Only a fork starts on a child, and only the champion is sealed off at the *)
(* end.                                                                      *)
LEMMA EveryStepKeepsPlace ==
    ASSUME LineageInv, PastInv, StoryInv, Next
    PROVE  PlaceOK'
  <1>0. IInv /\ StatusOK /\ PlaceOK /\ \A h \in Genids : Story(h)
    BY DEF LineageInv, PastInv, StoryInv
  <1> USE DEF UncommittedLabels, StageNames
  <1>1. CASE GenesisStep
    BY <1>1, PlaceElsewhere
       DEF GenesisStep, GenesisReady, GenesisRefused, GenesisEvaluation,
           GenesisAnchorSkipped, GenesisAnchorStarts, GenesisAnchorEvaluated, Goto, Exit,
           ToGeneration
  <1>2. CASE SelectStep
    BY <1>2, PlaceElsewhere
       DEF SelectStep, SkipGeneration, EnterSelect, SelectFails, SelectSucceeds,
           LeaveSelect, FailUnselected, PassSelected, EnterChildren, ToGeneration, Goto,
           ToRecord, ToSlot
  <1>3. CASE ForkChild
    <2>1. PICK c \in Children : c = Current /\ c \in Genids
      BY <1>0, <1>3, AtChildFacts DEF ForkChild
    <2>2. c \notin gatePending /\ GenerationIsPending(c) /\ ~Tagged(c)
      BY <1>0, <1>3, <2>1, UntaggedAwaitsNothing DEF ForkChild, IInv
    <2>3. DOMAIN Row(c) = {}
      BY <1>0, <2>1, <2>2, OpenChildIsUnstamped DEF GenerationIsPending, Unsettled
    <2>4. /\ UNCHANGED <<rows, gen, slot>> /\ pc' = Stages[1]
      BY <1>3 DEF ForkChild, archive
    <2>5. pc' # "finalrun"
      BY <2>4, FirstStage
    <2> QED
      BY <2>1, <2>3, <2>4, <2>5 DEF PlaceOK, Current, Row
  <1>4. CASE StageSucceeds
    <2>1. StageAfter(pc) \in StageNames \cup {"commit"}
      BY <1>0, <1>4, StageFacts DEF StageSucceeds, IInv, PositionOK
    <2>2. /\ UNCHANGED <<rows, gen, slot>> /\ pc \in StageNames /\ pc' = StageAfter(pc)
      BY <1>4 DEF StageSucceeds, Goto, local, archive
    <2> QED
      BY <1>0, <2>1, <2>2 DEF PlaceOK, Current, Row
  <1>5. CASE CommitSnapshot
    BY <1>0, <1>5 DEF CommitSnapshot, Goto, local, archive, PlaceOK, Current, Row
  <1>6. ASSUME NEW status \in TerminalStatuses,
               StageDiscards(status) \/ CommitRejects(status)
        PROVE  PlaceOK'
    BY <1>6, PlaceElsewhere DEF StageDiscards, CommitRejects, ToRecord
  <1>7. CASE EvaluationStep \/ GateStep
    BY <1>7, PlaceElsewhere
       DEF EvaluationStep, StartEvaluation, RecheckRejects, FinishEvaluation,
           AppendReceipt, MaterializeBestEver, GateStep, EnterGate, GateFails, GateDecides, Goto, Exit,
           ToRecord, NextChild, ToSlot
  <1>8. CASE RecordStep
    BY <1>8, PlaceElsewhere
       DEF RecordStep, SkipRecord, StartRecord, RecordRefMissing, RecordSucceeds,
           RecordFails, FinishRecord, LeaveUnselected, LeaveChild, LeaveGate, Goto, Exit,
           NextChild, ToSlot
  <1>9. CASE FinalAnchorStarts
    <2>1. Champion # None => Accepted(Champion)
      BY DEF Champion, IsChampion
    <2>2. /\ Accepted(Champion) /\ UNCHANGED <<rows, tags>>
          /\ pc' = "finalrun" /\ parent' = Champion
      BY <1>9, <2>1 DEF FinalAnchorStarts, AnchorWanted, archive, others
    <2>3. PICK g : g = Champion
      OBVIOUS
    <2>4. Accepted(g)'
      BY <2>2, <2>3 DEF Accepted, Tagged, Row
    <2> QED
      BY <2>2, <2>3, <2>4 DEF PlaceOK
  <1>10. CASE PeopleStep
    BY <1>0, <1>10
       DEF PeopleStep, StartRun, Repair, TemporaryFilesDeleted, EditsPreserved, PlaceOK,
           local
  <1> QED
    BY <1>1, <1>2, <1>3, <1>4, <1>5, <1>6, <1>7, <1>8, <1>9, <1>10, PlaceElsewhere
       DEF Next, DriverStep, ChildStep, EnterNextGeneration, SkipChild, ResumeTaggedChild,
           ForkFails, CreateTag, AppendLineage, LeaveWorktree, EndStep, FinishRun,
           FinalAnchorEvaluated, FaultStep, InterruptEvaluation, Abort, Crash, Exit, Goto,
           ToGeneration, NextChild, ToSlot

(* ... and what it does is told.                                             *)
LEMMA StepKeepsStory ==
    ASSUME LineageInv, PastInv, StoryInv, [Next]_vars
    PROVE  StoryInv'
  <1>1. CASE Next
    BY <1>1, EveryStepTells, EveryStepKeepsPlace DEF StoryInv
  <1>2. CASE UNCHANGED vars
    <2>1. \A h \in Genids : Story(h)'
      BY <1>2, QuietTells DEF vars, archive, StoryInv
    <2>2. PlaceOK'
      BY <1>2 DEF vars, archive, local, StoryInv, PlaceOK, Current, Row, Accepted, Tagged
    <2> QED
      BY <2>1, <2>2 DEF StoryInv
  <1> QED
    BY <1>1, <1>2

(* A new workspace: the scaffold's row, and nothing else.                    *)
LEMMA InitTells == Init => StoryInv
  <1> DEFINE scaffolded == MergeEvent(EmptyEntry, ScaffoldEvent)
  <1> SUFFICES ASSUME Init PROVE StoryInv
    OBVIOUS
  <1>1. /\ \A g \in Children : rows[g] = EmptyEntry
        /\ rows[Genesis] = scaffolded /\ pc = "idle"
    BY GenidFacts DEF Init
  <1>2. /\ IsEntry(EmptyEntry) /\ DOMAIN EmptyEntry.row = {}
        /\ DOMAIN EmptyEntry.evals = {}
    BY DEF IsEntry, EmptyEntry, EmptyDict
  <1>3. ~IsKeyedEvaluation(ScaffoldEvent)
    BY DEF ScaffoldEvent, IsKeyedEvaluation, Get
  <1>4. /\ scaffolded.row = MergeEventFields(EmptyEntry.row, ScaffoldEvent)
        /\ scaffolded.evals = EmptyEntry.evals
    BY <1>2, <1>3, UnkeyedMergeRow, EvalsKept
  <1>5. \A key \in {"status", "score", "valid_parent"} :
            /\ key \in DOMAIN scaffolded.row
            /\ scaffolded.row[key] = ScaffoldEvent[key]
    <2>1. {"status", "score", "valid_parent"}
              \subseteq DOMAIN ScaffoldEvent \ ReservedAuxiliaryFields
      BY DEF ScaffoldEvent, ReservedAuxiliaryFields
    <2>2. ~RefusesValidParent(EmptyEntry.row, ScaffoldEvent)
      <3>1. Get(ScaffoldEvent, "valid_parent") # TRUE
        BY DEF ScaffoldEvent, Get
      <3> QED
        BY <3>1, ClaimWritten
    <2>3. \A key \in {"status", "score", "valid_parent"} :
              key \in DOMAIN ScaffoldEvent \ ReservedAuxiliaryFields
      BY <2>1
    <2> QED
      BY <1>2, <1>4, <2>2, <2>3, FieldsWritten
  <1>6. "outcome" \notin DOMAIN scaffolded.row
    <2>1. "outcome" \notin DOMAIN ScaffoldEvent
      BY DEF ScaffoldEvent
    <2> QED
      BY <1>2, <1>3, <2>1, UnkeyedMerge
  <1>7. /\ ScaffoldEvent["status"] = "pending" /\ ScaffoldEvent["score"] = None
        /\ ScaffoldEvent["valid_parent"] = FALSE
    BY DEF ScaffoldEvent
  <1> HIDE DEF scaffolded
  <1>8. Story(Genesis)
    <2>1. /\ Get(Row(Genesis), "outcome") = None
          /\ Get(Row(Genesis), "status") = "pending"
          /\ Get(Row(Genesis), "score") = None
          /\ Get(Row(Genesis), "valid_parent") = FALSE
          /\ ~HasCompleteAnchor(Genesis)
      BY <1>1, <1>2, <1>4, <1>5, <1>6, <1>7 DEF Get, Row, HasCompleteAnchor
    <2> QED
      BY <2>1, NoneFacts
         DEF Story, ClaimStands, ClaimsParent, CompleteStands, StatusStands, SeedAwaits,
             AnchorStands
  <1>9. ASSUME NEW g \in Children PROVE Story(g)
    <2>1. /\ DOMAIN Row(g) = {} /\ ~HasCompleteAnchor(g)
          /\ \A key : Get(Row(g), key) = None
      BY <1>1, <1>2 DEF Row, HasCompleteAnchor, Get
    <2> QED
      BY <2>1, NoneFacts, StatusAssumption, GenidFacts
         DEF Story, ClaimStands, ClaimsParent, CompleteStands, StatusStands, AnchorStands,
             RowBegins, TerminalStatuses
  <1>10. PlaceOK
    BY <1>1 DEF PlaceOK, UncommittedLabels, StageNames
  <1> QED
    BY <1>8, <1>9, <1>10, GenidFacts DEF StoryInv

(* The story of every generation holds at all times.                         *)
LEMMA StoryInvariant == Spec => [](LineageInv /\ PastInv /\ UseInv /\ StoryInv)
  <1>1. Init => LineageInv /\ PastInv /\ UseInv /\ StoryInv
    BY InitIsLineage, InitPast, InitUse, InitTells
  <1>2. LineageInv /\ PastInv /\ UseInv /\ StoryInv /\ [Next]_vars =>
            LineageInv' /\ PastInv' /\ UseInv' /\ StoryInv'
    BY EveryStepKeeps, EveryStepKeepsPast, StepKeepsUse, StepKeepsStory
  <1> QED
    BY <1>1, <1>2, PTL DEF Spec

------------------------------------------------------------------------------
(* What is read from the story *)

(* A status is read as it is written. *)
LEMMA StatusIsRead ==
    ASSUME NEW g, NEW status \in {"complete", "rejected_validation"}
    PROVE  RowStatus(g) = status => Get(Row(g), "status") = status
  BY DEF RowStatus, Get

(* A complete evaluation that has left the gate is a parent exactly if its   *)
(* row claims so, but for its receipt.                                       *)
LEMMA ClaimIsAcceptance ==
    ASSUME IInv, NEW g \in Genids, Story(g), Get(Row(g), "outcome") = Complete,
           IsCertified(Row(g)), Get(Row(g), "score") # None
    PROVE  ClaimsParent(g) <=> Accepted(g)
  <1>1. Get(Row(g), "selection_eligible") = TRUE
    BY DEF IInv, EntriesOK, EntryOK, Row
  <1>2. /\ Tagged(g)
        /\ ClaimsParent(g) <=> Get(Row(g), "verdict") = "keep"
        /\ ClaimsParent(g) => Get(Row(g), "pending_gate_record") = FALSE
    BY DecisionReads DEF Story, CompleteStands, ClaimStands
  <1> QED
    BY <1>1, <1>2 DEF Accepted, IsParentRecord, ClaimsParent

(* What the summary counts as done is done for resume, and its claims are    *)
(* acceptances.                                                              *)
LEMMA TerminalIsSettled ==
    ASSUME IInv, NEW g \in Genids, Story(g), TerminalRow(g)
    PROVE  SettledIn(g) /\ (ClaimsParent(g) => Accepted(g))
  <1>1. CASE RowStatus(g) = "complete" /\ EvaluatedGeneration(g)
    <2>1. Get(Row(g), "status") = "complete"
      BY <1>1, StatusIsRead
    <2>2. /\ Get(Row(g), "outcome") = Complete /\ Get(Row(g), "score") # None
          /\ IsCertified(Row(g)) /\ Get(Row(g), "pending_gate_record") = FALSE
      BY <1>1, <2>1 DEF EvaluatedGeneration, Story, StatusStands
    <2>3. ~GenerationIsPending(g)
      <3>1. g \notin gatePending
        BY <2>2 DEF IInv, PendingIsConsistent
      <3>2. EvaluationStatus(Row(g)) \in TerminalStatuses
        BY <2>2, StatusReads DEF TerminalStatuses
      <3> QED
        BY <3>1, <3>2 DEF GenerationIsPending
    <2> QED
      BY <2>2, <2>3, ClaimIsAcceptance DEF SettledIn
  <1>2. CASE RowStatus(g) = "rejected_validation" /\ ValidationRejection(g)
    <2>1. ~Tagged(g) /\ Get(Row(g), "status") = "rejected_validation"
      BY <1>2, StatusIsRead DEF ValidationRejection
    <2>2. ~GenerationIsPending(g)
      <3>1. g \notin gatePending
        BY <2>1 DEF IInv, PendingIsConsistent
      <3>2. EvaluationStatus(Row(g)) \in TerminalStatuses
        <4>1. "outcome" \in DOMAIN Row(g) =>
                  Get(Row(g), "outcome") \in FailedOutcomes \cup {Complete}
          BY DEF IInv, EntriesOK, EntryOK, Get, Row
        <4> QED
          BY <2>1, <4>1, StatusReads DEF TerminalStatuses
      <3> QED
        BY <3>1, <3>2 DEF GenerationIsPending
    <2>3. ~ClaimsParent(g)
      BY <2>1 DEF Story, ClaimStands, CompleteStands
    <2> QED
      BY <1>2, <2>2, <2>3 DEF SettledIn
  <1> QED
    BY <1>1, <1>2 DEF TerminalRow

(* There is a first among any generations.                                   *)
LEMMA FirstOfSome ==
    ASSUME NEW S \in SUBSET Nat, S # {}
    PROVE  \E n \in S : \A m \in S : n <= m
  <1>1. \E n \in S : \A m \in S : ~(<<m, n>> \in OpToRel(<, Nat))
    BY NatLessThanWellFounded, WFMin
  <1>2. \A n, m \in Nat : <<m, n>> \in OpToRel(<, Nat) <=> m < n
    BY DEF OpToRel
  <1>3. PICK n \in S : \A m \in S : ~(m < n)
    BY <1>1, <1>2
  <1> QED
    BY <1>3

(* A target that is said to be reached was reached by a claimed parent.      *)
LEMMA ReachedBySome ==
    ASSUME NEW target, ReachedAt(target) # None
    PROVE  \E h \in Genids : /\ h[1] = ReachedAt(target) /\ ClaimsParent(h)
                             /\ Get(Row(h), "score") # None /\ Row(h).score >= target
  <1> DEFINE reached == {g[1] : g \in {h \in Genids :
                            /\ target # None
                            /\ ClaimsParent(h)
                            /\ Get(Row(h), "score") # None
                            /\ Row(h).score >= target}}
  <1>1. reached \in SUBSET Nat
    BY GenesisAssumption, SizeAssumption DEF Genids, Children, Generations
  <1>2. /\ reached # {}
        /\ ReachedAt(target) = CHOOSE n \in reached : \A m \in reached : n <= m
    BY DEF ReachedAt
  <1>3. \E n \in reached : \A m \in reached : n <= m
    <2> HIDE DEF reached
    <2> QED
      BY <1>1, <1>2, FirstOfSome
  <1>4. ReachedAt(target) \in reached
    <2> HIDE DEF reached
    <2> QED
      BY <1>2, <1>3
  <1> QED
    BY <1>4

(* In a summary that passes every generation it wants is there, and settled. *)
LEMMA PassedIsSettled ==
    ASSUME IInv, \A h \in Genids : Story(h), NEW n \in 0..MaxGeneration, NEW target,
           Passed(n, target), NEW g \in Genids, g[1] <= n
    PROVE  /\ HasRow(g) => SettledIn(g) /\ (ClaimsParent(g) => Accepted(g))
           /\ ReachedAt(target) = None \/ g[1] <= ReachedAt(target) => HasRow(g)
  <1>1. g[1] \in 0..n
    BY GenesisAssumption, SizeAssumption DEF Genids, Children, Generations
  <1>2. /\ ReachedAt(target) = None \/ g[1] <= ReachedAt(target) =>
               GenerationRows(g[1]) = {h \in Genids : h[1] = g[1]}
        /\ \A h \in GenerationRows(g[1]) : TerminalRow(h)
    BY <1>1 DEF Passed
  <1>3. HasRow(g) => TerminalRow(g)
    BY <1>2 DEF GenerationRows
  <1>4. ReachedAt(target) = None \/ g[1] <= ReachedAt(target) => HasRow(g)
    BY <1>2 DEF GenerationRows
  <1> QED
    BY <1>3, <1>4, TerminalIsSettled

(* A summary that passes can be relied on.                                   *)
LEMMA StoryTellsSummary ==
    ASSUME IInv, RejectedIsUnused, \A h \in Genids : Story(h)
    PROVE  SummaryAgrees
  <1>1. ASSUME NEW target, NEW n \in 0..MaxGeneration, Passed(n, target)
        PROVE  IF ReachedAt(target) = None
               THEN \A g \in Genids : g[1] <= n => SettledIn(g)
               ELSE ReachedAt(target) <= n => TargetEarned(target, ReachedAt(target))
    <2>1. CASE ReachedAt(target) = None
      BY <1>1, <2>1, PassedIsSettled
    <2>2. ASSUME ReachedAt(target) # None, ReachedAt(target) <= n
          PROVE  TargetEarned(target, ReachedAt(target))
      <3>1. PICK h \in Genids :
                /\ h[1] = ReachedAt(target) /\ ClaimsParent(h)
                /\ Get(Row(h), "score") # None /\ Row(h).score >= target
        BY <2>2, ReachedBySome
      <3>2. HasRow(h)
        BY <3>1 DEF HasRow, Get
      <3>3. Accepted(h)
        BY <1>1, <2>2, <3>1, <3>2, PassedIsSettled
      <3>4. h[1] \in Nat /\ n \in Nat /\ \A g \in Genids : g[1] \in Nat
        BY GenesisAssumption, SizeAssumption DEF Genids, Children, Generations
      <3>5. ASSUME NEW g \in Children, g[1] <= ReachedAt(target)
            PROVE  ~GenerationIsPending(g)
        <4>1. g \in Genids /\ g # Genesis /\ g[1] <= n
          BY <2>2, <3>1, <3>4, <3>5, GenidFacts
        <4>2. SettledIn(g)
          BY <1>1, <3>5, <4>1, PassedIsSettled
        <4> QED
          BY <4>1, <4>2 DEF SettledIn
      <3> QED
        BY <3>1, <3>3, <3>5 DEF TargetEarned
    <2> QED
      BY <2>1, <2>2
  <1>2. ASSUME NEW g \in Children, ~GenerationIsPending(g)
        PROVE  /\ RowStatus(g) = "complete" =>
                     EvaluatedGeneration(g) \/ g \in UnreceiptedRows
               /\ RowStatus(g) = "rejected_validation" => TerminalRow(g)
    <2>1. g \in Genids /\ g # Genesis /\ Story(g) /\ g \notin gatePending
      BY <1>2, GenidFacts DEF GenerationIsPending
    <2>2. CASE RowStatus(g) = "complete"
      <3>1. /\ Get(Row(g), "outcome") = Complete
            /\ Get(Row(g), "pending_gate_record") = FALSE
            /\ Tagged(g) /\ DecisionOK(g)
        BY <2>1, <2>2, StatusIsRead DEF Story, StatusStands, CompleteStands
      <3>2. Evaluated(g)
        BY <3>1 DEF Evaluated, CanonicalOutcomes
      <3> QED
        BY <2>1, <2>2, <3>1, <3>2 DEF EvaluatedGeneration, UnreceiptedRows
    <2>3. CASE RowStatus(g) = "rejected_validation"
      <3>1. Get(Row(g), "status") = "rejected_validation"
        BY <2>3, StatusIsRead
      <3>2. ~Tagged(g)
        BY <3>1, StatusAssumption DEF RejectedIsUnused, Get, TerminalStatuses
      <3>3. "validate" \in {Stages[i] : i \in DOMAIN Stages}
        BY <2>1, <3>1 DEF Story, StatusStands
      <3> QED
        BY <2>1, <2>3, <3>2, <3>3 DEF TerminalRow, ValidationRejection
    <2> QED
      BY <2>2, <2>3
  <1> QED
    BY <1>1, <1>2 DEF SummaryAgrees

(* What is published can be relied on.                                       *)
LEMMA StoryTellsReport ==
    ASSUME IInv, ArchiveInOrder, StoryInv
    PROVE  ReportIsHonest
  <1>0. PlaceOK /\ \A h \in Genids : Story(h)
    BY DEF StoryInv
  <1>1. \A g \in ParentClaims : Row(g).task_set_hash = "selection" /\ Row(g).score \in Int
    <2> SUFFICES ASSUME NEW g \in Genids, Accepted(g)
                 PROVE  Row(g).task_set_hash = "selection" /\ Row(g).score \in Int
      BY DEF ParentClaims
    <2>1. Get(Row(g), "task_set_hash") = "selection"
      BY <1>0 DEF Story, CompleteStands, Accepted, IsParentRecord
    <2>2. Get(Row(g), "score") \in Scores
      BY DEF IInv, TypeOK, ArchiveTypeOK, RowOK, Accepted, IsParentRecord
    <2> QED
      BY <2>1, <2>2, NoneFacts, ScoreAssumption DEF Get
  <1>2. ReportedBest = Champion
    <2>1. TaskSetsClaimed = {} \/ TaskSetsClaimed = {"selection"}
      BY <1>1 DEF TaskSetsClaimed
    <2>2. Cardinality(TaskSetsClaimed) <= 1
      <3>1. Cardinality({}) = 0 /\ Cardinality({"selection"}) = 1
        BY FS_EmptySet, FS_Singleton
      <3> QED
        BY <2>1, <3>1
    <2> QED
      BY <2>2 DEF ReportedBest
  <1>3. Champion # None => Champion \in CohortBest("selection")
    <2> SUFFICES ASSUME Champion # None PROVE Champion \in CohortBest("selection")
      OBVIOUS
    <2>1. PICK c \in Genids : c = Champion /\ IsChampion(c)
      BY DEF Champion
    <2>2. c \in ParentClaims /\ Row(c).task_set_hash = "selection"
      BY <1>1, <2>1 DEF IsChampion, ParentClaims
    <2>3. \A h \in ParentClaims : Row(h).score <= Row(c).score
      BY <1>1, <2>1, <2>2 DEF IsChampion, ParentClaims
    <2> QED
      BY <2>1, <2>2, <2>3 DEF CohortBest
  <1>4. AnchorClaims \subseteq {Genesis} \cup ParentClaims
    BY <1>0 DEF AnchorClaims, ReportableAnchor, ParentClaims, Story, AnchorStands,
                HasCompleteAnchor
  <1>5. ASSUME NEW pair \in LatestAccepted
        PROVE  \/ Accepted(pair[2])
               \/ pair[2] \in UnreceiptedRows \/ Row(pair[2]).score = None
    <2>1. PICK g \in Genids : Diffable(g) /\ pair = <<Row(g).parent, g>>
      BY <1>5 DEF LatestAccepted
    <2>2. pair[2] = g /\ ClaimsParent(g) /\ Evaluated(g)
      BY <2>1 DEF Diffable
    <2>3. Get(Row(g), "outcome") = Complete /\ "score" \in DOMAIN Row(g)
      BY <1>0, <2>2 DEF Story, ClaimStands, CompleteStands
    <2>4. CASE IsCertified(Row(g)) /\ Row(g).score # None
      BY <1>0, <2>2, <2>3, <2>4, ClaimIsAcceptance DEF Get
    <2> QED
      BY <2>2, <2>4 DEF UnreceiptedRows
  <1>6. pc = "mutate" => Current \notin DOMAIN LineageOfBundle
    BY <1>0 DEF PlaceOK, UncommittedLabels, StageNames, LineageOfBundle, HasRow
  <1> QED
    BY <1>2, <1>3, <1>4, <1>5, <1>6 DEF ReportIsHonest

(* Whatever was interrupted and resumed, a summary that passes means what    *)
(* the driver means: what it covers is settled, what it calls a parent is    *)
(* one, and a target it reports was reached with nothing left to do.         *)
THEOREM SummaryIsSound == Spec => []SummaryAgrees
  <1>1. LineageInv /\ PastInv /\ UseInv /\ StoryInv => SummaryAgrees
    BY StoryTellsSummary, LostMeans DEF LineageInv, StoryInv
  <1> QED
    BY <1>1, StoryInvariant, PTL

(* The best of the report, its baseline and anchor claims, and the accepted  *)
(* diff and the lineage in the bundle of mutate, are what the archive bears  *)
(* out.                                                                      *)
THEOREM ReportIsSound == Spec => []ReportIsHonest
  <1>1. LineageInv /\ PastInv /\ UseInv /\ StoryInv => ReportIsHonest
    BY StoryTellsReport DEF LineageInv, UseInv
  <1> QED
    BY <1>1, StoryInvariant, PTL

==============================================================================
