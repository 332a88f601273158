------------------------------- MODULE MCHost -------------------------------
(* Four parts that share no state: the files behind the archive, the tree of  *)
(* one owned process, the evidence that a prompt is made of, and the claims   *)
(* about edits.  `part' says which of them runs.                              *)
EXTENDS ArchiveStore, ProcessTree, BehaviorEvidence, ChangeAttribution

VARIABLE part

TreeIdle ==
  /\ running = {} /\ born = Procs /\ holds = {} /\ stubborn = {}
  /\ parent = [p \in Procs |-> Nobody] /\ group = [p \in Procs |-> p]
  /\ agent = TRUE /\ enumerable = FALSE /\ orderly = FALSE
  /\ pc = "done" /\ sig = "TERM" /\ unread = {} /\ links = {} /\ targets = {}
  /\ groups = {} /\ regrouped = {}
BehaviorIdle == analyzer = "none" /\ cycle = LastCycle + 1 /\ cycleStep = "select" /\ reruns = MaxReruns
    /\ origin = 0 /\ ancestor = <<>> /\ rowOrder = <<>> /\ traces = <<>> /\ window = <<>>
    /\ asking = <<>> /\ verdicts = <<>> /\ evidence = Unmade /\ bundle = Unmade
    /\ prompt = Unmade
ChangeIdle == reuseRollout = FALSE /\ generation = 0 /\ phase = "done" /\ tries = 0
    /\ base = 0 /\ rollouts = {} /\ manifests = {} /\ commits = {}
    /\ claims = [g \in Gens |-> Nothing]

HostInit ==
  /\ Init
  /\ \/ part = "archive" /\ TreeIdle /\ BehaviorIdle /\ ChangeIdle
     \/ part = "processes" /\ TreeInit /\ BehaviorIdle /\ ChangeIdle
     \/ part = "evidence" /\ TreeIdle /\ BehaviorInit /\ ChangeIdle
     \/ part = "claims" /\ TreeIdle /\ BehaviorIdle /\ ChangeInit

HostNext ==
  /\ UNCHANGED part
  /\ \/ part = "archive" /\ Next /\ UNCHANGED <<treeVars, behaviorVars, changeVars>>
     \/ part = "processes" /\ TreeNext /\ UNCHANGED <<vars, behaviorVars, changeVars>>
     \/ part = "evidence" /\ BehaviorNext /\ UNCHANGED <<vars, treeVars, changeVars>>
     \/ part = "claims" /\ ChangeNext /\ UNCHANGED <<vars, treeVars, behaviorVars>>

(* The fairness of ProcessTree; none is assumed of the others.               *)
HostSpec ==
  /\ HostInit /\ [][HostNext]_<<part, vars, treeVars, behaviorVars, changeVars>>
  /\ WF_treeVars(Termination)

MCWorkload == <<"evaluation", "verdict", "evaluation of a sibling">>
MCSeen == {{"passed"}, {"failed"}, {"infra", "passed"}, {"passed", "failed"}}
Change(id, fixes, risks) == [id |-> id, fixes |-> fixes, risks |-> risks]
MCManifests == {{Change(1, {1}, {}), Change(2, {}, {1})}}
MCBatches == {<<>>, <<"passed", "infra_error">>}
=============================================================================
