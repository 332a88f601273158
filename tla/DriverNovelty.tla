---------------------------- MODULE DriverNovelty ----------------------------
(***************************************************************************)
(* What the novelty operator library/novelty/diff_similarity.py finds in    *)
(* the archive that the driver writes.  It reads the lines themselves, not  *)
(* the merged rows, so the lines matter that carry valid_parent.            *)
(***************************************************************************)
EXTENDS Driver

VARIABLE recent   \* the generations _recent_accepted returns

noveltyVars == <<vars, recent>>

(* _recent_accepted: one line says valid_parent and names tag and parent.    *)
(* The driver writes the tag on every line on which it writes a parent.      *)
IsHistory(event) ==
    /\ Get(event, "valid_parent") = TRUE
    /\ Get(event, "parent") # None

Reads(event) ==
    recent' = IF IsHistory(event) THEN recent \cup {event.genid} ELSE recent

NoveltyInit == Init /\ recent = {}

(* The lines with valid_parent: an evaluation's and a verdict's.             *)
NoveltyNext ==
    \/ \E outcome \in Outcomes, score \in Scores :
          /\ FinishEvaluation(outcome, score)
          /\ Reads(EvaluationEvent(Current, EvaluationParent(Current), outcome, score))
    \/ \E accept \in BOOLEAN :
          GateDecides(accept) /\ Reads(VerdictEvent(Current, accept))
    \/ (GateFails \/ FaultStep) /\ UNCHANGED recent
    \/ pc \notin {"evaluate", "gate"} /\ (DriverStep \/ PeopleStep) /\ UNCHANGED recent

NoveltySpec == NoveltyInit /\ [][NoveltyNext]_noveltyVars

(* "compare the candidate diff with recent accepted diffs": the novelty      *)
(* operator is given every accepted child to compare with.                  *)
NoveltySeesAccepted ==
    pc = "novelty" => \A g \in Children : Accepted(g) => g \in recent
==============================================================================
