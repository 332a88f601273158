-------------------------------- MODULE Driver --------------------------------
(***************************************************************************)
(* The generation sequencer, driver.py.  One process at a time owns the    *)
(* workspace (an exclusive flock dies with it), and runs, generation by    *)
(* generation and child by child,                                          *)
(*                                                                         *)
(*   select -> fork -> rollout .. novelty -> commit -> tag -> evaluate     *)
(*          -> gate -> record                                              *)
(*                                                                         *)
(* Durable state: the archive (as merged rows and the two scans of it),    *)
(* the receipts, git tags, git worktrees, the attempt directories of       *)
(* evaluations, the gate's input file and best_ever.json.  Everything else *)
(* is in the process and is lost when it dies.  A handler is cut into       *)
(* actions where a crash between two durable changes leaves a state that a  *)
(* resumed run can tell from the others: between the tag and its event,     *)
(* the evaluation event and its receipt, the verdict and best_ever.json.    *)
(***************************************************************************)
EXTENDS ArchiveRows, Integers, Sequences

CONSTANTS
    MaxGeneration,      \* --max-generations
    ChildrenPerGen,     \* --children-per-gen
    Scores,             \* scores an evaluation may report
    Outcomes,           \* outcomes an evaluation may end with
    Stages,             \* the configured operators before commit, in order
    RecordConfigured,   \* is there a record operator?
    SealedSplit,        \* does the split manifest have sealed tasks?
    FinalAnchor,        \* evaluator.anchor.final
    MaxFaults           \* bound: crashes and exceptions in one behaviour

Generations == 1..MaxGeneration
Slots       == 0..(ChildrenPerGen - 1)
Children    == Generations \X Slots
Genids      == Children \cup {Genesis}

StageNames == {"rollout", "analyze", "mutate", "validate", "novelty"}

ASSUME SizeAssumption ==
    MaxGeneration \in Nat \ {0} /\ ChildrenPerGen \in Nat \ {0}
ASSUME GenesisAssumption == Genesis = <<0, 0>>
ASSUME NoneAssumption ==
    None \notin Genids \cup Scores \cup Nat \cup BOOLEAN \cup CanonicalOutcomes
                \cup {"keep", "discard", "pending", "selection", "sealed",
                      "anchor", "genesis_eval", PendingNote, ScaffoldNote}
ASSUME OutcomeAssumption == Outcomes \subseteq FailedOutcomes \cup {Complete}
ASSUME ScoreAssumption == Scores \subseteq Int /\ Scores # {}
ASSUME StageAssumption ==
    Stages \in Seq(StageNames) /\ Len(Stages) > 0 /\ Stages[1] = "rollout"
ASSUME FaultAssumption == MaxFaults \in Nat
ASSUME SwitchAssumption ==
    {RecordConfigured, SealedSplit, FinalAnchor} \subseteq BOOLEAN

VARIABLES
    rows,             \* archive: merged accumulator of every generation
    gatePending,      \* archive: evaluated, awaiting gate/record
    recordAttempted,  \* archive: record has been tried
    tags,             \* git: the generation each gen/<id> was forked from, or None
    worktrees,        \* git: registered linked worktrees
    attempts,         \* runs/evaluations: highest attempt, anchors aside
    gateInput,        \* runs/gen-<id>/gate/input.json: the parent compared with
    bestEver,         \* best_ever.json
    pc,               \* the driver's control state, "idle" when none runs
    gen, slot,        \* the generation and the child it works on
    selected,         \* the select operator's parent for every slot, or None
    parent,           \* the parent argument of _run_child / _resume_tagged_child
    back,             \* what _run_terminal_record returns to
    faults            \* number of faults so far

archive == <<rows, gatePending, recordAttempted>>
local   == <<gen, slot, selected, parent, back>>
vars == <<archive, tags, worktrees, attempts, gateInput, bestEver, pc, local,
          faults>>

------------------------------------------------------------------------------
(* Reading the workspace *)

Row(g)     == rows[g].row
Current    == <<gen, slot>>
Tagged(g)  == tags[g] # None
Evaluated(g) == Get(Row(g), "outcome") \in CanonicalOutcomes
Accepted(g)  == IsParentRecord(Row(g)) /\ Tagged(g)

TerminalStatuses ==
    {"complete", "partial", "invalid_proposal", "no_proposal",
     "operator_failed", "rejected_admission", "rejected_duplicate",
     "rejected_validation"} \cup FailedOutcomes

ASSUME StatusAssumption == None \notin TerminalStatuses

(* Deviation: "complete" is missing from the terminal statuses. *)
CompleteIsPending(g) ==
    \/ EvaluationStatus(Row(g)) \notin TerminalStatuses \ {"complete"}
    \/ g \in gatePending

GenerationIsPending(g) ==
    \/ EvaluationStatus(Row(g)) \notin TerminalStatuses
    \/ g \in gatePending

(* best_row: the highest score, the first row in archive order on a tie.    *)
(* Candidates enter the archive in the order of their ids (ArchiveInOrder). *)
Before(g, h) == g[1] < h[1] \/ (g[1] = h[1] /\ g[2] < h[2])
IsChampion(g) ==
    /\ Accepted(g)
    /\ \A h \in Genids \ {g} : Accepted(h) =>
          \/ Row(h).score < Row(g).score
          \/ Row(h).score = Row(g).score /\ Before(g, h)
Champion == IF \E g \in Genids : IsChampion(g)
            THEN CHOOSE g \in Genids : IsChampion(g)
            ELSE None

Worktree(kind, g) == [kind |-> kind, genid |-> g, dirty |-> FALSE, dir |-> TRUE]
TempKinds == {"select", "eval", "gate", "record"}
ChildWorktrees == {w \in worktrees : w.kind = "child"}
Drop(kinds) == {w \in worktrees : w.kind \notin kinds}

------------------------------------------------------------------------------
(* Events the driver appends *)

AppendEvent(event) ==
    /\ rows' = [rows EXCEPT ![event.genid] = MergeEvent(@, event)]
    /\ gatePending' = ScanPending(gatePending, event)
    /\ recordAttempted' = ScanRecordAttempted(recordAttempted, event)

ScaffoldEvent ==
    [genid |-> Genesis, parent |-> None, score |-> None, status |-> "pending",
     valid_parent |-> FALSE, verdict |-> "pending", note |-> ScaffoldNote]

DiscardEvent(g, p, status) ==
    [genid |-> g, parent |-> p, score |-> None, status |-> status,
     task_set_hash |-> None, valid_parent |-> FALSE, verdict |-> "discard",
     note |-> status]

CommitEvent(g, p) == [genid |-> g, parent |-> p]

(* append_evaluation_record, with the metadata of _append_lifecycle_evaluation *)
EvaluationEvent(g, p, outcome, score) ==
    LET complete == outcome = Complete
        pending  == complete /\ g # Genesis
        valid    == complete /\ ~pending
        common   ==
            [genid |-> g, parent |-> p, outcome |-> outcome,
             status |-> IF complete THEN "complete" ELSE outcome,
             score |-> IF complete THEN score ELSE None,
             task_set_hash |-> "selection", attempt |-> attempts[g],
             selection_eligible |-> complete, pending_gate_record |-> pending,
             valid_parent |-> valid,
             verdict |-> IF valid THEN "keep" ELSE "discard",
             note |-> IF pending THEN PendingNote ELSE "evaluated",
             mechanism |-> TRUE]
    IN  IF g = Genesis THEN Overlay(common, [kind |-> "genesis_eval"], {"kind"})
        ELSE common

AnchorEvent(g, outcome) ==
    [genid |-> g, outcome |-> outcome, task_set_hash |-> "sealed",
     kind |-> "anchor", mechanism |-> TRUE, pending_gate_record |-> FALSE]

(* Deviation: the verdict carries a stamped key. *)
VerdictEventWithStatus(g, accept) ==
    [genid |-> g, pending_gate_record |-> FALSE, valid_parent |-> accept,
     verdict |-> IF accept THEN "keep" ELSE "discard", status |-> "complete"]

VerdictEvent(g, accept) ==
    [genid |-> g, pending_gate_record |-> FALSE, valid_parent |-> accept,
     verdict |-> IF accept THEN "keep" ELSE "discard"]

RecordedEvent(g) == [genid |-> g, record_attempted |-> TRUE]
RecordErrorEvent(g) == [genid |-> g, record_error |-> "failed"]

------------------------------------------------------------------------------
(* Control *)

NoParents == [s \in Slots |-> None]

Goto(label) ==
    /\ pc' = label
    /\ UNCHANGED <<local, faults>>

(* The exception leaves run(): finally blocks have removed the worktrees. *)
Exit ==
    /\ pc' = "idle"
    /\ gen' = 0 /\ slot' = 0
    /\ selected' = NoParents /\ parent' = None /\ back' = None

ToGeneration(g) ==
    /\ pc' = "generation"
    /\ gen' = g /\ slot' = 0
    /\ selected' = NoParents /\ parent' = None /\ back' = None

ToSlot(label, s) ==
    /\ pc' = label
    /\ slot' = s /\ parent' = None /\ back' = None
    /\ UNCHANGED <<gen, selected>>

NextChild == ToSlot("child", slot + 1)

ToRecord(origin) ==
    /\ pc' = "record"
    /\ back' = origin
    /\ UNCHANGED <<gen, slot, selected, parent>>

(* Everything durable but the archive and the worktrees. *)
others == <<tags, attempts, gateInput, bestEver>>

------------------------------------------------------------------------------
(* run, _run_locked: refuse to start while a linked worktree is registered *)

StartRun ==
    /\ pc = "idle"
    /\ worktrees = {}
    /\ pc' = "genesis"
    /\ UNCHANGED <<archive, worktrees, others, local, faults>>

(* _ensure_genesis_evaluated *)
GenesisComplete ==
    /\ Get(Row(Genesis), "outcome") = Complete
    /\ Get(Row(Genesis), "selection_eligible") = TRUE

GenesisFailed == EvaluationStatus(Row(Genesis)) \in FailedOutcomes

GenesisReady ==
    /\ pc = "genesis"
    /\ GenesisComplete
    /\ Goto("anchor")
    /\ UNCHANGED <<archive, worktrees, others>>

GenesisRefused ==
    /\ pc = "genesis"
    /\ GenesisFailed /\ ~GenesisComplete
    /\ Exit
    /\ UNCHANGED <<archive, worktrees, others, faults>>

GenesisEvaluation ==
    /\ pc = "genesis"
    /\ ~GenesisComplete /\ ~GenesisFailed
    /\ Goto("evalstart")
    /\ UNCHANGED <<archive, worktrees, others>>

(* _ensure_genesis_anchor_evaluated and _maybe_final_anchor: a sealed         *)
(* evaluation that must not enter selection.                                  *)
HasCompleteAnchor(g) ==
    \E key \in DOMAIN rows[g].evals :
        /\ Get(rows[g].evals[key], "kind") = "anchor"
        /\ Get(rows[g].evals[key], "outcome") = Complete

AnchorWanted(g) == g # None /\ ~HasCompleteAnchor(g)

GenesisAnchorSkipped ==
    /\ pc = "anchor"
    /\ ~SealedSplit \/ ~AnchorWanted(Genesis)
    /\ ToGeneration(1)
    /\ UNCHANGED <<archive, worktrees, others, faults>>

GenesisAnchorStarts ==
    /\ pc = "anchor"
    /\ SealedSplit /\ AnchorWanted(Genesis)
    /\ worktrees' = worktrees \cup {Worktree("eval", Genesis)}
    /\ Goto("anchorrun")
    /\ UNCHANGED <<archive, others>>

GenesisAnchorEvaluated(outcome) ==
    /\ pc = "anchorrun"
    /\ AppendEvent(AnchorEvent(Genesis, outcome))
    /\ worktrees' = Drop({"eval"})
    /\ UNCHANGED <<tags, attempts, gateInput, faults>>
    /\ bestEver' = Champion'
    /\ IF outcome = Complete THEN ToGeneration(1) ELSE Exit

FinalAnchorStarts ==
    /\ pc = "generation" /\ gen > MaxGeneration
    /\ FinalAnchor /\ AnchorWanted(Champion)
    /\ worktrees' = worktrees \cup {Worktree("eval", Champion)}
    /\ pc' = "finalrun"
    /\ parent' = Champion
    /\ UNCHANGED <<archive, others, gen, slot, selected, back, faults>>

FinalAnchorEvaluated(outcome) ==
    /\ pc = "finalrun"
    /\ AppendEvent(AnchorEvent(parent, outcome))
    /\ worktrees' = Drop({"eval"})
    /\ UNCHANGED <<tags, attempts, gateInput, faults>>
    /\ bestEver' = Champion'
    /\ Exit

FinishRun ==
    /\ pc = "generation" /\ gen > MaxGeneration
    /\ ~FinalAnchor \/ ~AnchorWanted(Champion)
    /\ Exit
    /\ UNCHANGED <<archive, worktrees, others, faults>>

------------------------------------------------------------------------------
(* One generation: select a parent for every pending child *)

SkipGeneration ==
    /\ pc = "generation" /\ gen <= MaxGeneration
    /\ \A s \in Slots : ~GenerationIsPending(<<gen, s>>)
    /\ ToGeneration(gen + 1)
    /\ UNCHANGED <<archive, worktrees, others, faults>>

EnterSelect ==
    /\ pc = "generation" /\ gen <= MaxGeneration
    /\ \E s \in Slots : GenerationIsPending(<<gen, s>>)
    /\ worktrees' = worktrees \cup {Worktree("select", Current)}
    /\ Goto("select")
    /\ UNCHANGED <<archive, others>>

(* One parent serves every child; otherwise the i-th parent is for slot i. *)
ParentFor(parents, s) ==
    IF ~GenerationIsPending(<<gen, s>>) THEN None
    ELSE IF Len(parents) = 1 THEN parents[1]
    ELSE IF s < Len(parents) THEN parents[s + 1]
    ELSE None

LeaveSelect(chosen) ==
    /\ pc = "select"
    /\ worktrees' = Drop({"select"})
    /\ selected' = chosen
    /\ pc' = "unselected"
    /\ UNCHANGED <<archive, others, gen, slot, parent, back, faults>>

SelectFails == LeaveSelect(NoParents)
SelectSucceeds(parents) == LeaveSelect([s \in Slots |-> ParentFor(parents, s)])

(* Every pending child left without a parent becomes operator_failed, also  *)
(* one that has already been committed or evaluated.                        *)
FailUnselected ==
    /\ pc = "unselected" /\ slot \in Slots
    /\ GenerationIsPending(Current) /\ selected[slot] = None
    /\ AppendEvent(DiscardEvent(Current, None, "operator_failed"))
    /\ ToRecord("unselected")
    /\ UNCHANGED <<worktrees, others, faults>>

PassSelected ==
    /\ pc = "unselected" /\ slot \in Slots
    /\ ~GenerationIsPending(Current) \/ selected[slot] # None
    /\ ToSlot("unselected", slot + 1)
    /\ UNCHANGED <<archive, worktrees, others, faults>>

EnterChildren ==
    /\ pc = "unselected" /\ slot \notin Slots
    /\ ToSlot("child", 0)
    /\ UNCHANGED <<archive, worktrees, others, faults>>

------------------------------------------------------------------------------
(* One child *)

EnterNextGeneration ==
    /\ pc = "child" /\ slot \notin Slots
    /\ ToGeneration(gen + 1)
    /\ UNCHANGED <<archive, worktrees, others, faults>>

(* The parent selected now, or for a tagged child left without one the      *)
(* parent of its row.                                                       *)
ChildParent ==
    IF selected[slot] # None THEN selected[slot]
    ELSE IF Tagged(Current) THEN Get(Row(Current), "parent")
    ELSE None

AtChild == pc = "child" /\ slot \in Slots

(* Deviation: a child that has its tag counts as done. *)
SkipTaggedChild ==
    /\ AtChild
    /\ ~GenerationIsPending(Current) \/ ChildParent = None \/ Tagged(Current)
    /\ NextChild
    /\ UNCHANGED <<archive, worktrees, others, faults>>

SkipChild ==
    /\ AtChild
    /\ ~GenerationIsPending(Current) \/ ChildParent = None
    /\ NextChild
    /\ UNCHANGED <<archive, worktrees, others, faults>>

(* Deviation: resume evaluates without looking at the outcome. *)
ResumeByEvaluating ==
    /\ AtChild
    /\ GenerationIsPending(Current) /\ ChildParent # None /\ Tagged(Current)
    /\ pc' = "evalstart"
    /\ parent' = ChildParent
    /\ UNCHANGED <<archive, worktrees, others, gen, slot, selected, back, faults>>

(* _resume_tagged_child *)
ResumeTaggedChild ==
    /\ AtChild
    /\ GenerationIsPending(Current) /\ ChildParent # None /\ Tagged(Current)
    /\ IF ~Evaluated(Current) THEN pc' = "evalstart"
       ELSE Current \in gatePending /\ pc' = "gateenter"
    /\ parent' = ChildParent
    /\ UNCHANGED <<archive, worktrees, others, gen, slot, selected, back, faults>>

(* _run_child, fork_child *)
ForkChild ==
    /\ AtChild
    /\ GenerationIsPending(Current) /\ ChildParent # None /\ ~Tagged(Current)
    /\ Accepted(ChildParent)
    /\ worktrees' = worktrees \cup {Worktree("child", Current)}
    /\ pc' = Stages[1]
    /\ parent' = ChildParent
    /\ UNCHANGED <<archive, others, gen, slot, selected, back, faults>>

ForkFails ==
    /\ AtChild
    /\ GenerationIsPending(Current) /\ ChildParent # None /\ ~Tagged(Current)
    /\ ~Accepted(ChildParent)
    /\ AppendEvent(DiscardEvent(Current, ChildParent, "operator_failed"))
    /\ pc' = "record"
    /\ parent' = ChildParent
    /\ back' = "child"
    /\ UNCHANGED <<worktrees, others, gen, slot, selected, faults>>

StageAfter(name) ==
    LET i == CHOOSE j \in DOMAIN Stages : Stages[j] = name
    IN  IF i = Len(Stages) THEN "commit" ELSE Stages[i + 1]

WithDirtyChild ==
    {IF w.kind = "child" THEN [w EXCEPT !.dirty = TRUE] ELSE w : w \in worktrees}

(* An operator succeeds; mutate leaves an edit inside the surface. *)
StageSucceeds ==
    /\ pc \in StageNames
    /\ Goto(StageAfter(pc))
    /\ worktrees' = IF pc = "mutate" THEN WithDirtyChild ELSE worktrees
    /\ UNCHANGED <<archive, others>>

StageVerdicts ==
    [rollout  |-> {"operator_failed"},
     analyze  |-> {"operator_failed"},
     mutate   |-> {"operator_failed", "no_proposal", "invalid_proposal"},
     validate |-> {"operator_failed", "rejected_validation"},
     novelty  |-> {"operator_failed", "rejected_duplicate"}]

(* Deviation: a child discarded by a stage leaves no event. *)
StageDiscardsSilently(status) ==
    /\ pc \in StageNames
    /\ status \in StageVerdicts[pc]
    /\ worktrees' = Drop({"child"})
    /\ NextChild
    /\ UNCHANGED <<archive, others, faults>>

StageDiscards(status) ==
    /\ pc \in StageNames
    /\ status \in StageVerdicts[pc]
    /\ AppendEvent(DiscardEvent(Current, parent, status))
    /\ ToRecord("child")
    /\ UNCHANGED <<worktrees, others, faults>>

(* commit_child: a commit on the detached worktree, then the tag, then the  *)
(* lineage event.                                                           *)
CommitSnapshot ==
    /\ pc = "commit"
    /\ Accepted(parent) /\ ~Tagged(Current) /\ DOMAIN Row(Current) = {}
    /\ worktrees' = (worktrees \ ChildWorktrees) \cup {Worktree("child", Current)}
    /\ Goto("tag")
    /\ UNCHANGED <<archive, others>>

(* validate or novelty may have changed the checkout after the first look:   *)
(* commit_child looks again, and a rejection here is not recorded.           *)
CommitRejects(status) ==
    /\ pc = "commit"
    /\ status \in {"no_proposal", "invalid_proposal"}
    /\ Accepted(parent) /\ ~Tagged(Current) /\ DOMAIN Row(Current) = {}
    /\ AppendEvent(DiscardEvent(Current, parent, status))
    /\ pc' = "leave"
    /\ back' = "child"
    /\ UNCHANGED <<worktrees, others, gen, slot, selected, parent, faults>>

CreateTag ==
    /\ pc = "tag"
    /\ tags' = [tags EXCEPT ![Current] = parent]
    /\ Goto("lineage")
    /\ UNCHANGED <<archive, worktrees, attempts, gateInput, bestEver>>

AppendLineage ==
    /\ pc = "lineage"
    /\ AppendEvent(CommitEvent(Current, parent))
    /\ Goto("unfork")
    /\ UNCHANGED <<worktrees, others>>

LeaveWorktree ==
    /\ pc = "unfork"
    /\ worktrees' = Drop({"child"})
    /\ Goto("evalstart")
    /\ UNCHANGED <<archive, others>>

------------------------------------------------------------------------------
(* eval_child and evaluate: a fresh attempt directory in a checkout of the  *)
(* tag, the evaluation event, its receipt, and the champion cache.          *)

StartEvaluation ==
    /\ pc = "evalstart"
    /\ worktrees' = worktrees \cup {Worktree("eval", Current)}
    /\ attempts' = [attempts EXCEPT ![Current] = @ + 1]
    /\ Goto("evaluate")
    /\ UNCHANGED <<archive, tags, gateInput, bestEver>>

(* A generation whose row names no parent is evaluated under the champion.  *)
EvaluationParent(g) ==
    IF g = Genesis \/ Get(Row(g), "parent") # None THEN Get(Row(g), "parent")
    ELSE Champion

(* _finalize_child: a tag whose lineage event a fault cut off is held       *)
(* against the surface again, before the attempt.  commit_child looked at     *)
(* the paths that git status lists, against the true parent; this looks at    *)
(* single files, against the champion and the surface of now, and may refuse  *)
(* what was committed.                                                        *)
LineageLost == Current # Genesis /\ Get(Row(Current), "parent") = None

RecheckRejects ==
    /\ pc = "evalstart"
    /\ LineageLost
    /\ AppendEvent(DiscardEvent(Current, EvaluationParent(Current),
                                "invalid_proposal"))
    /\ NextChild
    /\ UNCHANGED <<worktrees, others, faults>>

FinishEvaluation(outcome, score) ==
    /\ pc = "evaluate"
    /\ AppendEvent(EvaluationEvent(Current, EvaluationParent(Current), outcome, score))
    /\ worktrees' = Drop({"eval"})
    /\ Goto("receipt")
    /\ UNCHANGED others

(* EvaluationInterrupted: Ctrl-C or a signal during the evaluation; the      *)
(* cancelled record is appended before the exception goes on.                *)
InterruptEvaluation ==
    /\ pc = "evaluate" /\ faults < MaxFaults
    /\ AppendEvent(EvaluationEvent(Current, EvaluationParent(Current),
                                   "cancelled", None))
    /\ worktrees' = Drop({"eval"})
    /\ pc' = "receipt"
    /\ back' = "interrupted"
    /\ faults' = faults + 1
    /\ UNCHANGED <<others, gen, slot, selected, parent>>

(* The event was the first keyed one of its generation, so certifying it    *)
(* adds exactly the certificate to the merged row.                          *)
AppendReceipt ==
    /\ pc = "receipt"
    /\ rows' = [rows EXCEPT ![Current].row =
                    Overlay(@, [certified |-> TRUE], {"certified"})]
    /\ Goto("materialize")
    /\ UNCHANGED <<gatePending, recordAttempted, worktrees, others>>

MaterializeBestEver ==
    /\ pc = "materialize"
    /\ bestEver' = Champion
    /\ IF back = "interrupted" THEN Exit /\ UNCHANGED faults
       ELSE IF Current = Genesis
       THEN IF GenesisComplete THEN Goto("anchor") ELSE Exit /\ UNCHANGED faults
       ELSE IF Get(Row(Current), "outcome") = Complete THEN Goto("gateenter")
       ELSE NextChild /\ UNCHANGED faults
    /\ UNCHANGED <<archive, worktrees, tags, attempts, gateInput>>

------------------------------------------------------------------------------
(* _run_gate_and_record, _run_terminal_record *)

(* _matched_gate_parent *)
MatchedParent ==
    IF /\ parent \in Genids
       /\ Get(Row(Current), "task_set_hash") # None
       /\ Get(Row(parent), "task_set_hash") = Get(Row(Current), "task_set_hash")
       /\ Get(Row(parent), "score") # None
    THEN parent ELSE None

EnterGate ==
    /\ pc = "gateenter"
    /\ worktrees' = worktrees \cup {Worktree("gate", Current)}
    /\ gateInput' = [gateInput EXCEPT ![Current] = MatchedParent]
    /\ Goto("gate")
    /\ UNCHANGED <<archive, tags, attempts, bestEver>>

GateFails ==
    /\ pc = "gate"
    /\ AppendEvent(DiscardEvent(Current, parent, "operator_failed"))
    /\ ToRecord("gate")
    /\ UNCHANGED <<worktrees, others, faults>>

GateDecides(accept) ==
    /\ pc = "gate"
    /\ AppendEvent(VerdictEvent(Current, accept))
    /\ ToRecord("gate")
    /\ UNCHANGED <<worktrees, others, faults>>

SkipRecord ==
    /\ pc = "record"
    /\ ~RecordConfigured \/ Current \in recordAttempted
    /\ Goto("leave")
    /\ UNCHANGED <<archive, worktrees, others>>

(* The record operator runs from a checkout of the parent's tag, or of the  *)
(* generation's own after the gate, or of the champion's after select.      *)
RecordRefExists == back = "child" => parent \in Genids /\ Tagged(parent)

StartRecord ==
    /\ pc = "record"
    /\ RecordConfigured /\ Current \notin recordAttempted
    /\ RecordRefExists
    /\ worktrees' = worktrees \cup {Worktree("record", Current)}
    /\ Goto("recording")
    /\ UNCHANGED <<archive, others>>

RecordRefMissing ==
    /\ pc = "record"
    /\ RecordConfigured /\ Current \notin recordAttempted
    /\ ~RecordRefExists
    /\ worktrees' = {}
    /\ Exit
    /\ UNCHANGED <<archive, others, faults>>

FinishRecord(event) ==
    /\ pc = "recording"
    /\ AppendEvent(event)
    /\ worktrees' = Drop({"record"})
    /\ Goto("leave")
    /\ UNCHANGED others

RecordSucceeds == FinishRecord(RecordedEvent(Current))
RecordFails    == FinishRecord(RecordErrorEvent(Current))

LeaveUnselected ==
    /\ pc = "leave" /\ back = "unselected"
    /\ ToSlot("unselected", slot + 1)
    /\ UNCHANGED <<archive, worktrees, others, faults>>

LeaveChild ==
    /\ pc = "leave" /\ back = "child"
    /\ worktrees' = Drop({"child"})
    /\ NextChild
    /\ UNCHANGED <<archive, others, faults>>

(* Deviations: the gate checkout is not removed; the champion cache is not   *)
(* refreshed; a failed gate is tried again at once.                          *)
LeaveGateCheckout ==
    /\ pc = "leave" /\ back = "gate"
    /\ bestEver' = Champion
    /\ NextChild
    /\ UNCHANGED <<archive, worktrees, tags, attempts, gateInput, faults>>

LeaveGateStale ==
    /\ pc = "leave" /\ back = "gate"
    /\ worktrees' = Drop({"gate"})
    /\ NextChild
    /\ UNCHANGED <<archive, others, faults>>

LeaveGateRetrying ==
    /\ pc = "leave" /\ back = "gate"
    /\ worktrees' = Drop({"gate"})
    /\ bestEver' = Champion
    /\ ToSlot("child", slot)
    /\ UNCHANGED <<archive, tags, attempts, gateInput, faults>>

LeaveGate ==
    /\ pc = "leave" /\ back = "gate"
    /\ worktrees' = Drop({"gate"})
    /\ bestEver' = Champion
    /\ NextChild
    /\ UNCHANGED <<archive, tags, attempts, gateInput, faults>>

------------------------------------------------------------------------------
(* Faults, and what people do about them *)

(* SIGKILL or power loss.  A mutate operator may have edited its checkout.  *)
Crash(edited) ==
    /\ pc # "idle" /\ faults < MaxFaults
    /\ edited => pc = "mutate"
    /\ worktrees' = IF edited THEN WithDirtyChild ELSE worktrees
    /\ Exit
    /\ faults' = faults + 1
    /\ UNCHANGED <<archive, others>>

(* An exception (a failing git command, a full disk, KeyboardInterrupt)     *)
(* unwinds through the finally blocks.                                      *)
Abort ==
    /\ pc # "idle" /\ faults < MaxFaults
    /\ worktrees' = {}
    /\ bestEver' = IF \E w \in worktrees : w.kind = "gate" THEN Champion ELSE bestEver
    /\ Exit
    /\ faults' = faults + 1
    /\ UNCHANGED <<archive, tags, attempts, gateInput>>

(* _repair_locked: remove clean checkouts under runs/worktrees, then        *)
(* git worktree prune, which forgets checkouts whose directory is gone.     *)
Repair ==
    /\ pc = "idle"
    /\ worktrees' = {w \in worktrees : IF w.kind = "child" THEN w.dirty ELSE w.dir}
    /\ UNCHANGED <<archive, others, pc, local, faults>>

(* The host clears its temporary directory. *)
TemporaryFilesDeleted ==
    /\ pc = "idle"
    /\ \E w \in worktrees : w.kind \in TempKinds /\ w.dir
    /\ worktrees' = {IF w.kind \in TempKinds THEN [w EXCEPT !.dir = FALSE] ELSE w :
                        w \in worktrees}
    /\ UNCHANGED <<archive, others, pc, local, faults>>

(* Someone saves the edits of an interrupted child and resets its checkout. *)
EditsPreserved ==
    /\ pc = "idle"
    /\ \E w \in ChildWorktrees : w.dirty
    /\ worktrees' = {[w EXCEPT !.dirty = FALSE] : w \in worktrees}
    /\ UNCHANGED <<archive, others, pc, local, faults>>

------------------------------------------------------------------------------
Init ==
    /\ rows = [g \in Genids |-> IF g = Genesis THEN MergeEvent(EmptyEntry, ScaffoldEvent)
                                ELSE EmptyEntry]
    /\ gatePending = {} /\ recordAttempted = {}
    /\ tags = [g \in Genids |-> IF g = Genesis THEN Genesis ELSE None]
    /\ worktrees = {}
    /\ attempts = [g \in Genids |-> 0]
    /\ gateInput = [g \in Genids |-> None]
    /\ bestEver = None
    /\ pc = "idle"
    /\ gen = 0 /\ slot = 0
    /\ selected = NoParents /\ parent = None /\ back = None
    /\ faults = 0

ParentLists == UNION {[1..n -> Genids] : n \in 1..ChildrenPerGen}

GenesisStep ==
    \/ GenesisReady \/ GenesisRefused \/ GenesisEvaluation
    \/ GenesisAnchorSkipped \/ GenesisAnchorStarts
    \/ \E outcome \in Outcomes : GenesisAnchorEvaluated(outcome)

SelectStep ==
    \/ SkipGeneration \/ EnterSelect \/ SelectFails
    \/ \E parents \in ParentLists : SelectSucceeds(parents)
    \/ FailUnselected \/ PassSelected \/ EnterChildren

ChildStep ==
    \/ EnterNextGeneration \/ SkipChild \/ ResumeTaggedChild
    \/ ForkChild \/ ForkFails \/ StageSucceeds
    \/ \E status \in TerminalStatuses :
          StageDiscards(status) \/ CommitRejects(status)
    \/ CommitSnapshot \/ CreateTag \/ AppendLineage \/ LeaveWorktree

EvaluationStep ==
    \/ StartEvaluation \/ RecheckRejects
    \/ \E outcome \in Outcomes, score \in Scores : FinishEvaluation(outcome, score)
    \/ AppendReceipt \/ MaterializeBestEver

GateStep ==
    \/ EnterGate \/ GateFails
    \/ \E accept \in BOOLEAN : GateDecides(accept)

RecordStep ==
    \/ SkipRecord \/ StartRecord \/ RecordRefMissing
    \/ RecordSucceeds \/ RecordFails
    \/ LeaveUnselected \/ LeaveChild \/ LeaveGate

EndStep ==
    \/ FinalAnchorStarts
    \/ \E outcome \in Outcomes : FinalAnchorEvaluated(outcome)
    \/ FinishRun

DriverStep ==
    \/ GenesisStep \/ SelectStep \/ ChildStep \/ EvaluationStep
    \/ GateStep \/ RecordStep \/ EndStep

FaultStep == Abort \/ InterruptEvaluation \/ \E edited \in BOOLEAN : Crash(edited)

PeopleStep == StartRun \/ Repair \/ TemporaryFilesDeleted \/ EditsPreserved

Next == DriverStep \/ FaultStep \/ PeopleStep

Spec == Init /\ [][Next]_vars

(* Where a live process reads and writes files and starts no command, so it  *)
(* goes on.  Everywhere else it waits for git (append_event asks git for the  *)
(* place of the mirror), an evaluation script or an operator.  Nothing bounds *)
(* git and the script, and what an operator leaves behind may hold its pipe   *)
(* open after the timeout: no fairness is assumed of those steps.             *)
OwnLabels == {"genesis", "receipt"}

FairSpec == Spec /\ WF_vars(pc \in OwnLabels /\ DriverStep)

------------------------------------------------------------------------------
(* Properties *)

Labels == {"idle", "genesis", "anchor", "anchorrun", "finalrun",
           "generation", "select", "unselected",
           "child", "commit", "tag", "lineage", "unfork", "evalstart",
           "evaluate", "receipt", "materialize", "gateenter", "gate", "record",
           "recording", "leave"} \cup StageNames

OptionalGenid == Genids \cup {None}

(* A row holds, under each key the driver reads back, a value of the kind    *)
(* the code writes there.                                                    *)
RowOK(row) ==
    /\ Get(row, "parent") \in OptionalGenid
    /\ Get(row, "score") \in Scores \cup {None}
    /\ Get(row, "outcome") \in CanonicalOutcomes \cup {None}

Worktrees == [kind : TempKinds \cup {"child"}, genid : Genids,
              dirty : BOOLEAN, dir : BOOLEAN]

ArchiveTypeOK ==
    /\ DOMAIN rows = Genids
    /\ \A g \in Genids : RowOK(Row(g))
    /\ gatePending \subseteq Genids /\ recordAttempted \subseteq Genids

FilesTypeOK ==
    /\ tags \in [Genids -> OptionalGenid]
    /\ worktrees \subseteq Worktrees
    /\ attempts \in [Genids -> Nat]
    /\ gateInput \in [Genids -> OptionalGenid]
    /\ bestEver \in OptionalGenid

ProcessTypeOK ==
    /\ pc \in Labels
    /\ gen \in 0..(MaxGeneration + 1) /\ slot \in 0..ChildrenPerGen
    /\ selected \in [Slots -> OptionalGenid]
    /\ parent \in OptionalGenid
    /\ back \in {None, "unselected", "child", "gate", "interrupted"}
    /\ faults \in 0..MaxFaults

(* The types of all variables, rows included: what the archive, the other    *)
(* files and the driver's process can hold.                                  *)
TypeOK == ArchiveTypeOK /\ FilesTypeOK /\ ProcessTypeOK

(* Every committed candidate was forked from a generation that is accepted,  *)
(* and still is: no later select failure, gate verdict, crash or resume      *)
(* takes the acceptance of an ancestor back.  (fork_child and commit_child   *)
(* check the parent only at that moment.)                                    *)
CommittedOnAccepted ==
    \A g \in Children : Tagged(g) => tags[g] \in Genids /\ Accepted(tags[g])

(* Once a generation is a valid parent it remains one, with the same score:  *)
(* runs resume over it, they never gate, fail or evaluate it again.          *)
AcceptanceIsFinal ==
    [][\A g \in Genids : Accepted(g) =>
          Accepted(g)' /\ Row(g).score' = Row(g).score]_vars

(* The two readings of "awaiting gate/record" agree as far as resume needs:  *)
(* a generation in the scan of the events has a tag and a complete           *)
(* evaluation, its row still says pending, and it is nobody's parent.        *)
PendingIsConsistent ==
    \A g \in gatePending :
        /\ Tagged(g)
        /\ Get(Row(g), "outcome") = Complete
        /\ Get(Row(g), "pending_gate_record") = TRUE
        /\ ~Accepted(g)

(* A generation with a stamped outcome is never evaluated again by run: the  *)
(* outcome stays, and no new attempt directory is made, however often the    *)
(* run is interrupted and resumed.                                           *)
EvaluatedOnce ==
    [][\A g \in Genids : Evaluated(g) =>
          /\ Row(g).outcome' = Row(g).outcome
          /\ attempts'[g] = attempts[g]]_vars

(* A rejected candidate is out of use for good.  One rejected before commit  *)
(* has no tag, also when the run is interrupted around the commit; only a     *)
(* proposal that the second look at a lost lineage event refuses has one, and *)
(* then it has no outcome and nothing is forked from it.                      *)
RejectedIsUnused ==
    \A g \in Children :
        /\ Get(Row(g), "status") \in {"no_proposal", "invalid_proposal",
                                      "rejected_validation", "rejected_duplicate"}
        /\ Tagged(g)
        => /\ Row(g).status = "invalid_proposal" /\ faults > 0
           /\ ~Evaluated(g)
           /\ \A h \in Children : tags[h] # g

(* Generations enter the archive in the order of their ids, which is what    *)
(* best_row's tie break amounts to; only a child given up for want of a       *)
(* parent may come early, and it never becomes a candidate.                  *)
ArchiveInOrder ==
    \A g, h \in Children :
        /\ Before(g, h)
        /\ DOMAIN Row(h) # {} /\ Get(Row(h), "status") # "operator_failed"
        => DOMAIN Row(g) # {}

(* When the loop is past a generation, every child of it is settled, or only *)
(* its gate has failed and it will be gated again.                           *)
PastIsSettled ==
    pc \notin {"idle", "genesis", "anchor", "anchorrun"} =>
        \A g \in Children : g[1] < gen /\ GenerationIsPending(g) =>
            /\ g \in gatePending
            /\ Get(Row(g), "status") = "operator_failed"

(* A run that ends without a fault leaves no linked worktree, so the next    *)
(* run is not refused.                                                       *)
NoWorktreeLeft == pc = "idle" /\ faults = 0 => worktrees = {}

(* Without faults, best_ever.json is the champion of the archive whenever an *)
(* operator is run: what select, rollout or mutate read there is current.    *)
OperatorsSeeChampion ==
    faults = 0 /\ pc \in {"select", "idle"} \cup StageNames => bestEver = Champion

(* A run ends, or stands still for ever at one point where it waits for a    *)
(* command: it never cycles between resume, gate and record, whatever the     *)
(* commands answer and wherever it is interrupted.                            *)
CommandLabels == Labels \ (OwnLabels \cup {"idle"})

RunTerminates ==
    \/ []<>(pc = "idle")
    \/ \E label \in CommandLabels : <>[](pc = label)

------------------------------------------------------------------------------
(* What the documentation says, and the code does not do *)

(* "gate failed; fix the operator or runtime, then retry finalize": a later  *)
(* accepting verdict on a certified complete evaluation makes the generation *)
(* a valid parent.                                                           *)
VerdictCounts ==
    \A g \in Children :
        /\ Get(Row(g), "verdict") = "keep"
        /\ Get(Row(g), "outcome") = Complete
        /\ IsCertified(Row(g))
        => IsParentRecord(Row(g))

(* "Hill-climb gate compares a child score with the matched parent score":   *)
(* an accepted generation whose row is handed to the gate is the one the     *)
(* child was forked from (_write_gate_input, gate/hillclimb.py).             *)
GateComparesParent ==
    \A g \in Children :
        gateInput[g] # None /\ Accepted(gateInput[g]) => gateInput[g] = tags[g]
==============================================================================
