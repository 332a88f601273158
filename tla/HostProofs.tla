------------------------------ MODULE HostProofs ------------------------------
(***************************************************************************)
(* Four parts that share no state: the files behind the archive, the tree of *)
(* one owned process, the evidence of the A-Evolve mutation, and the memory  *)
(* of the AHE method.                                                        *)
(***************************************************************************)
EXTENDS ArchiveStore, ProcessTree, BehaviorEvidence, ChangeAttribution, SequenceTheorems,
        WellFoundedInduction, TLAPS

------------------------------------------------------------------------------
(* ProcessTree.  ReadDies and GroupDies: a process is a target only if it was *)
(* born before its entry was read, so that what is started later is none; the *)
(* root leads its group until it is dead, and nobody else can found a group   *)
(* of that number.  OrderlyTreeDies: as long as no process of an orderly tree *)
(* dies of a signal every running one has a running parent of a smaller       *)
(* number, so that all of them are read to be in the tree.                    *)

Pcs == {"wait", "list", "read", "look", "signal", "grace", "drain", "done", "abandoned"}

TreeTypeOK ==
    /\ running \subseteq born /\ born \subseteq Procs
    /\ Root \in born /\ targets \subseteq born
    /\ group \in [Procs -> Procs] /\ group[Root] = Root
    /\ parent \in [Procs -> Procs \cup {Nobody}]
    /\ pc \in Pcs /\ sig \in {"TERM", "KILL", "SWEEP"}

(* What the supervisor has signalled, or is about to. *)
SignalInv ==
    /\ pc = "wait" => targets = {} /\ sig = "TERM"
    /\ pc = "grace" => sig = "TERM"
    /\ sig = "SWEEP" => Root \notin running
    /\ pc = "signal" => \A p \in (targets \cap running) \ regrouped : group[p] \in groups
    /\ pc = "signal" /\ sig # "SWEEP" => Root \in groups
    /\ pc = "drain" => targets \cap running \subseteq regrouped
    /\ GroupDies
    /\ ReadDies

(* No signal has been sent yet and the tree has not been read to its end.    *)
Unsignalled == pc = "wait" \/ (sig = "TERM" /\ pc \in {"list", "read"})

ParentsRun ==
    \A p \in running \ {Root} :
        /\ parent[p] \in running
        /\ parent[p] = Root \/ parent[p] < p

OrderlyInv ==
    orderly =>
        /\ regrouped = {}
        /\ Unsignalled =>
              /\ ParentsRun
              /\ \A p \in born \ {Root}, q \in Procs \ born : p < q
        /\ enumerable /\ sig = "TERM" /\ pc = "read" =>
              \A p \in running : p \in unread \/ <<parent[p], p>> \in links
        /\ enumerable /\ ~Unsignalled /\ pc # "abandoned" => running \subseteq targets

TreeInv == TreeTypeOK /\ SignalInv /\ OrderlyInv

(* Every non-empty set of natural numbers has a smallest member. *)
LEMMA LeastOf ==
    ASSUME NEW S \in SUBSET Nat, S # {}
    PROVE  \E t \in S : \A u \in S : t <= u
<1>1. \E t \in S : \A u \in S : ~(<<u, t>> \in OpToRel(<, Nat))
  BY NatLessThanWellFounded, WFMin
<1>2. \A t, u \in Nat : <<u, t>> \in OpToRel(<, Nat) <=> u < t
  BY DEF OpToRel
<1>3. PICK t \in S : \A u \in S : ~(u < t)
  BY <1>1, <1>2
<1> QED
  BY <1>3

(* What holds for the root, and for a process once it holds for its parent,    *)
(* holds for every running process of an orderly tree.                        *)
LEMMA DownTheTree ==
    ASSUME TreeTypeOK, ParentsRun, NEW S,
           Root \in running => Root \in S,
           \A p \in running \ {Root} : parent[p] \in S => p \in S
    PROVE  running \subseteq S
<1> SUFFICES ASSUME running \ S # {} PROVE FALSE
  OBVIOUS
<1>1. running \ S \in SUBSET Nat
  BY TreeAssumption DEF TreeTypeOK
<1>2. PICK p \in running \ S : \A q \in running \ S : p <= q
  BY <1>1, LeastOf
<1>3. p # Root /\ p \in Nat
  BY <1>1, <1>2
<1>4. parent[p] \in running /\ parent[p] \notin S
  BY <1>2, <1>3 DEF ParentsRun
<1>5. parent[p] # Root /\ parent[p] < p /\ p <= parent[p] /\ parent[p] \in Nat
  BY <1>1, <1>2, <1>3, <1>4 DEF ParentsRun
<1> QED
  BY <1>3, <1>5

(* Where the root is dead, nothing is left of an orderly tree. *)
LEMMA RootLast ==
    ASSUME TreeInv, orderly, Unsignalled, Root \notin running
    PROVE  running = {}
<1>1. TreeTypeOK /\ ParentsRun
  BY DEF TreeInv, OrderlyInv
<1> DEFINE dead == Procs \ running
<1>2. \A p \in running \ {Root} : parent[p] \in dead => p \in dead
  BY <1>1 DEF ParentsRun
<1>3. running \subseteq dead
  <2> HIDE DEF dead
  <2> QED
    BY <1>1, <1>2, DownTheTree
<1> QED
  BY <1>3

(* Everything that still runs of an orderly tree was read to be in it. *)
LEMMA AllAreRead ==
    ASSUME TreeInv, orderly, enumerable, pc = "read", sig = "TERM", unread = {}
    PROVE  running \subseteq ProcessTreeRead
<1>1. /\ TreeTypeOK /\ ParentsRun
      /\ \A p \in running : <<parent[p], p>> \in links
  BY DEF TreeInv, OrderlyInv, Unsignalled
<1>2. ASSUME NEW pids \in SUBSET born, ClosedBelow(pids) PROVE running \subseteq pids
  <2>1. \A p \in running \ {Root} : parent[p] \in pids => p \in pids
    BY <1>1, <1>2 DEF ClosedBelow, TreeTypeOK, ParentsRun
  <2>2. Root \in pids
    BY <1>2 DEF ClosedBelow
  <2> QED
    BY <1>1, <2>1, <2>2, DownTheTree
<1> QED
  BY <1>1, <1>2 DEF ProcessTreeRead, TreeTypeOK

(* A new process is no target, and not of the root's group unless its parent is. *)
LEMMA ForkKeepsTree ==
    ASSUME TreeInv, NEW p \in Procs, NEW c \in Procs,
           NEW s \in BOOLEAN, NEW k \in BOOLEAN, NEW i \in BOOLEAN, Fork(p, c, s, k, i)
    PROVE  TreeInv'
<1>1. /\ p \in running /\ c \notin born /\ running' = running \cup {c} /\ born' = born \cup {c}
      /\ group' = [group EXCEPT ![c] = IF s THEN c ELSE group[p]]
      /\ parent' = [parent EXCEPT ![c] = p]
      /\ orderly => pc = "wait"
      /\ \A q \in Procs \ born : c <= q
      /\ UNCHANGED <<setting, pc, sig, unread, links, targets, groups, regrouped>>
  BY DEF Fork, view
<1>2. c # Root /\ c \notin targets /\ group'[c] \in {c, group[p]}
      /\ \A q \in Procs : q # c => group'[q] = group[q] /\ parent'[q] = parent[q]
      /\ parent'[c] = p
  BY <1>1 DEF TreeInv, TreeTypeOK
<1>3. TreeTypeOK'
  BY <1>1, <1>2 DEF TreeInv, TreeTypeOK
<1>4. SignalInv'
  BY <1>1, <1>2 DEF TreeInv, TreeTypeOK, SignalInv, GroupDies, ReadDies
<1>5. ASSUME orderly' PROVE OrderlyInv'
  <2>0. orderly /\ pc = "wait" /\ pc' = "wait"
    BY <1>1, <1>5 DEF setting
  <2>1. ParentsRun /\ regrouped' = {}
        /\ \A b \in born \ {Root}, q \in Procs \ born : b < q
    BY <1>1, <2>0 DEF TreeInv, OrderlyInv, Unsignalled
  <2>2. \A b \in born' \ {Root}, q \in Procs \ born' : b < q
    <3>1. \A q \in Procs \ born' : c < q
      BY <1>1, TreeAssumption
    <3> QED
      BY <1>1, <2>1, <3>1
  <2>3. (p = Root) \/ p < c
    BY <1>1, <2>1 DEF TreeInv, TreeTypeOK
  <2>4. ParentsRun'
    BY <1>1, <1>2, <2>1, <2>3 DEF ParentsRun, TreeInv, TreeTypeOK
  <2> QED
    BY <2>0, <2>1, <2>2, <2>4 DEF OrderlyInv, Unsignalled
<1> QED
  BY <1>3, <1>4, <1>5 DEF TreeInv, OrderlyInv

(* One that founds a group is not the root, and noted where it is looked up. *)
LEMMA RegroupKeepsTree ==
    ASSUME TreeInv, NEW p \in Procs, Regroup(p)
    PROVE  TreeInv'
<1>1. /\ p \in running /\ group[p] # p
      /\ group' = [group EXCEPT ![p] = p]
      /\ orderly => pc = "wait"
      /\ regrouped' = IF pc = "signal" THEN regrouped \cup {p} ELSE regrouped
      /\ UNCHANGED <<running, born, parent, setting, pc, sig, unread, links, targets, groups>>
  BY DEF Regroup, view
<1>2. p # Root /\ group'[p] = p /\ \A q \in Procs : q # p => group'[q] = group[q]
  BY <1>1 DEF TreeInv, TreeTypeOK
<1>3. TreeTypeOK'
  BY <1>1, <1>2 DEF TreeInv, TreeTypeOK
<1>4. SignalInv'
  BY <1>1, <1>2 DEF TreeInv, TreeTypeOK, SignalInv, GroupDies, ReadDies
<1>5. OrderlyInv'
  BY <1>1 DEF TreeInv, OrderlyInv, Unsignalled, ParentsRun, setting
<1> QED
  BY <1>3, <1>4, <1>5 DEF TreeInv

(* What dies is gone; nothing else changes.                                  *)
LEMMA DeathsKeepType ==
    ASSUME TreeTypeOK, NEW dead, Dies(dead), UNCHANGED <<targets, sig>>, pc' \in Pcs
    PROVE  /\ TreeTypeOK'
           /\ running' = running \ dead /\ born' = born /\ group' = group
           /\ \A q \in Procs : parent[q] \notin dead => parent'[q] = parent[q]
  BY DEF TreeTypeOK, Dies

(* Nobody loses its parent where a process of an orderly tree ends.           *)
LEMMA ExitKeepsTree ==
    ASSUME TreeInv, NEW p \in Procs, Exit(p)
    PROVE  TreeInv'
<1>1. /\ p \in running /\ Dies({p})
      /\ orderly => Children(p) = {}
      /\ UNCHANGED <<setting, pc, sig, unread, links, targets, groups, regrouped>>
  BY DEF Exit, view
<1>2. /\ TreeTypeOK'
      /\ running' = running \ {p} /\ born' = born /\ group' = group
      /\ \A q \in Procs : parent[q] # p => parent'[q] = parent[q]
  BY <1>1, DeathsKeepType DEF TreeInv, TreeTypeOK
<1>3. SignalInv'
  BY <1>1, <1>2 DEF TreeInv, SignalInv, GroupDies, ReadDies
<1>4. ASSUME orderly PROVE OrderlyInv'
  <2>1. \A q \in running : parent[q] # p /\ parent'[q] = parent[q]
    BY <1>1, <1>2, <1>4 DEF Children, TreeInv, TreeTypeOK
  <2>2. ParentsRun => ParentsRun'
    BY <1>2, <2>1 DEF ParentsRun
  <2> QED
    BY <1>1, <1>2, <2>1, <2>2 DEF TreeInv, OrderlyInv, Unsignalled, setting
<1> QED
  BY <1>1, <1>2, <1>3, <1>4 DEF TreeInv, OrderlyInv, setting

(* A round of signals reaches every target whose group it looked up.          *)
LEMMA SignalKeepsTree ==
    ASSUME TreeInv, Signal
    PROVE  TreeInv'
<1> DEFINE dead == IF sig = "TERM" THEN Reached \ stubborn ELSE Reached
<1>1. /\ pc = "signal" /\ Dies(dead) /\ pc' = AfterSignal[sig]
      /\ UNCHANGED <<setting, sig, unread, links, targets, groups, regrouped>>
  BY DEF Signal, view
<1>2. /\ sig = "TERM" => pc' = "grace"
      /\ sig = "KILL" => pc' = "drain" /\ dead = Reached
      /\ sig = "SWEEP" => pc' = "done" /\ dead = Reached
      /\ sig \in {"TERM", "KILL", "SWEEP"}
  BY <1>1 DEF AfterSignal, TreeInv, TreeTypeOK
<1>3. (targets \cap running) \ regrouped \subseteq Reached
      /\ (sig # "SWEEP" => \A p \in running : group[p] = Root => p \in Reached)
  BY <1>1 DEF TreeInv, SignalInv, Reached
<1> HIDE DEF dead
<1>4. /\ TreeTypeOK'
      /\ running' = running \ dead /\ born' = born /\ group' = group
  BY <1>1, <1>2, DeathsKeepType DEF TreeInv, Pcs
<1>5. SignalInv'
  BY <1>1, <1>2, <1>3, <1>4 DEF TreeInv, SignalInv, GroupDies, ReadDies
<1>6. OrderlyInv'
  BY <1>1, <1>2, <1>4 DEF TreeInv, OrderlyInv, Unsignalled, setting
<1> QED
  BY <1>4, <1>5, <1>6 DEF TreeInv

(* Every step of the supervisor that kills nothing keeps the invariant.       *)
LEMMA SupervisorKeepsTree ==
    ASSUME TreeInv,
           Returns \/ GivesUp \/ Abandon \/ ListProcesses \/ (\E p \in unread : ReadEntry(p))
           \/ TreeRead \/ LookUpGroups \/ GraceSuffices \/ GraceEnds \/ Drained
    PROVE  TreeInv'
<1>1. CASE Returns
  <2>1. pc = "wait" /\ Root \notin running /\ pc' = "done"
        /\ UNCHANGED <<tree, setting, view, regrouped>>
    BY <1>1 DEF Returns, OutputEnded
  <2>2. orderly => running = {}
    BY <2>1, RootLast DEF Unsignalled
  <2>3. TreeTypeOK' /\ SignalInv'
    BY <2>1 DEF TreeInv, TreeTypeOK, Pcs, SignalInv, GroupDies, ReadDies, tree, view
  <2>4. OrderlyInv'
    BY <2>1, <2>2 DEF TreeInv, OrderlyInv, Unsignalled, tree, setting, view
  <2> QED
    BY <2>3, <2>4 DEF TreeInv
<1>2. CASE GivesUp \/ Abandon \/ Drained
  <2>1. /\ UNCHANGED <<tree, setting, view, regrouped>>
        /\ \/ pc = "wait" /\ pc' = "list"
           \/ pc' = "abandoned"
           \/ pc = "drain" /\ pc' = "done"
    BY <1>2 DEF GivesUp, Abandon, Drained
  <2>2. TreeTypeOK' /\ SignalInv'
    BY <2>1 DEF TreeInv, TreeTypeOK, Pcs, SignalInv, GroupDies, ReadDies, tree, view
  <2>3. OrderlyInv'
    BY <2>1 DEF TreeInv, SignalInv, OrderlyInv, Unsignalled, ParentsRun, tree, setting, view
  <2> QED
    BY <2>2, <2>3 DEF TreeInv
<1>7. CASE GraceSuffices \/ GraceEnds
  <2>1. /\ UNCHANGED <<tree, setting, unread, links, targets, groups, regrouped>>
        /\ pc = "grace"
        /\ \/ pc' = "look" /\ sig' = "SWEEP" /\ Root \notin running
           \/ pc' = "list" /\ sig' = "KILL"
    BY <1>7 DEF GraceSuffices, GraceEnds, OutputEnded
  <2>2. TreeTypeOK' /\ SignalInv'
    BY <2>1 DEF TreeInv, TreeTypeOK, Pcs, SignalInv, GroupDies, ReadDies, tree
  <2>3. OrderlyInv'
    BY <2>1 DEF TreeInv, OrderlyInv, Unsignalled, tree, setting
  <2> QED
    BY <2>2, <2>3 DEF TreeInv
<1>3. CASE ListProcesses
  BY <1>3 DEF ListProcesses, TreeInv, TreeTypeOK,
     Pcs, SignalInv, GroupDies, ReadDies, OrderlyInv, Unsignalled, ParentsRun, tree, setting
<1>4. ASSUME NEW p \in unread, ReadEntry(p) PROVE TreeInv'
  BY <1>4 DEF ReadEntry, TreeInv, TreeTypeOK,
     Pcs, SignalInv, GroupDies, ReadDies, OrderlyInv, Unsignalled, ParentsRun, tree, setting
<1>5. CASE TreeRead
  <2>1. /\ pc = "read" /\ unread = {} /\ targets' = targets \cup ProcessTreeRead /\ pc' = "look"
        /\ UNCHANGED <<tree, setting, sig, unread, links, groups, regrouped>>
    BY <1>5 DEF TreeRead
  <2>2. ProcessTreeRead \subseteq born
    BY DEF ProcessTreeRead
  <2>3. orderly /\ enumerable => running \subseteq targets'
    <3>1. CASE sig = "TERM"
      BY <2>1, <3>1, AllAreRead
    <3>2. CASE sig # "TERM"
      BY <2>1, <3>2 DEF TreeInv, OrderlyInv, Unsignalled
    <3> QED
      BY <3>1, <3>2
  <2> QED
    BY <2>1, <2>2, <2>3 DEF TreeInv, TreeTypeOK,
       Pcs, SignalInv, GroupDies, ReadDies, OrderlyInv, Unsignalled, tree, setting
<1>6. CASE LookUpGroups
  <2>1. \A p \in targets \cap running : group[p] \in groups'
    BY <1>6 DEF LookUpGroups, GroupsOf, Alive, TreeInv, TreeTypeOK, SignalInv
  <2> QED
    BY <1>6, <2>1 DEF LookUpGroups, TreeInv, TreeTypeOK,
       Pcs, SignalInv, GroupDies, ReadDies, OrderlyInv, Unsignalled, tree, setting
<1> QED
  BY <1>1, <1>2, <1>3, <1>4, <1>5, <1>6, <1>7

(* Every step of supervisor or processes keeps the tree's invariant.        *)
LEMMA TreeNextInv ==
    ASSUME TreeInv, [TreeNext]_treeVars
    PROVE  TreeInv'
<1>1. CASE UNCHANGED treeVars
  BY <1>1 DEF treeVars, tree, setting, view, TreeInv, TreeTypeOK, SignalInv, GroupDies, ReadDies,
     OrderlyInv, Unsignalled, ParentsRun
<1> QED
  BY <1>1, ForkKeepsTree, RegroupKeepsTree, ExitKeepsTree, SignalKeepsTree, SupervisorKeepsTree
     DEF TreeNext, Termination

(* However many processes fork, exit and found groups, wherever between the   *)
(* reading of their entries, the look at their groups and the two signals     *)
(* they do: what was read to be in the tree is gone when the call returns,    *)
(* save for one that founded a group between look and signal; the root's      *)
(* group is gone while the output is drained; and of an orderly tree whose    *)
(* table can be read nothing is left.                                        *)
THEOREM TreeTargetsDie == TreeSpec => []TargetsDie
<1>1. ASSUME TreeInit PROVE TreeInv
  <2>1. TreeTypeOK
    BY <1>1, TreeAssumption DEF TreeInit, TreeTypeOK, Pcs
  <2>2. SignalInv
    BY <1>1 DEF TreeInit, SignalInv, GroupDies, ReadDies
  <2>3. running = {Root} /\ born = {Root} /\ pc = "wait" /\ regrouped = {}
    BY <1>1 DEF TreeInit
  <2>4. OrderlyInv
    BY <2>3 DEF OrderlyInv, Unsignalled, ParentsRun
  <2> QED
    BY <2>1, <2>2, <2>4 DEF TreeInv
<1>2. TreeInv /\ [TreeNext]_treeVars => TreeInv'
  BY TreeNextInv
<1>3. TreeInv => TargetsDie
  BY DEF TreeInv, SignalInv, OrderlyInv, Unsignalled, TargetsDie, ReadDies, OrderlyTreeDies
<1> QED
  BY <1>1, <1>2, <1>3, PTL DEF TreeSpec

------------------------------------------------------------------------------
(* ChangeAttribution: the files of a generation change only while it is under *)
(* way, so that those of a committed one are what they were at its commit.   *)

Judging == {"mutate", "commit"}

RolloutSet  == [of : 0..Generations, seen : [ChangeTasks -> SUBSET Outcomes]]
ManifestSet == [edit : Nat \X Nat, changes : Manifests]

ChangeTypeOK ==
    /\ generation \in Nat \ {0} /\ tries \in Nat /\ base \in 0..Generations
    /\ rollouts \in [Gens -> {Nothing} \cup RolloutSet]
    /\ manifests \in [Gens -> {Nothing} \cup ManifestSet]
    /\ DOMAIN claims = Gens /\ DOMAIN commits = Gens
    /\ phase # "done" => generation \in Gens

(* The parent of a generation is an earlier one. *)
ParentsAreSettled ==
    /\ \A g \in Gens : commits[g] # Nothing => g < generation
    /\ base # 0 => commits[base] # Nothing
    /\ \A g \in Gens : claims[g] # Nothing =>
          claims[g].parent \in Gens /\ commits[claims[g].parent] # Nothing

(* The edit of a committed generation is the one its manifest is of, and its  *)
(* rollout was that of the parent it was committed with.                     *)
CommitsMatchFiles ==
    /\ phase = "commit" => manifests[generation].edit = <<generation, tries>>
    /\ phase \in {"analyze"} \cup Judging =>
          rollouts[generation] \in RolloutSet /\ (~reuseRollout => rollouts[generation].of = base)
    /\ \A g \in Gens : commits[g] # Nothing =>
          /\ manifests[g] # Nothing => manifests[g].edit = commits[g].edit
          /\ rollouts[g] \in RolloutSet /\ (~reuseRollout => rollouts[g].of = commits[g].parent)

(* What makes a change effective. *)
Proven(judged, g, given) ==
    \A c \in ManifestChanges(manifests[judged]) :
        <<c, "EFFECTIVE">> \in given =>
            \A t \in c.fixes :
                /\ "failed" \in rollouts[judged].seen[t]
                /\ rollouts[g].seen[t] \cap {"passed", "failed"} = {"passed"}

ClaimsAreEarned ==
    \A g \in Gens : claims[g] # Nothing =>
        /\ claims[g].edit \in {Nothing, commits[claims[g].parent].edit}
        /\ ~reuseRollout =>
              /\ claims[g].before = commits[claims[g].parent].parent
              /\ claims[g].after = claims[g].parent
        /\ commits[g] # Nothing \/ (g = generation /\ phase \in Judging) =>
              Proven(claims[g].parent, g, claims[g].verdicts)

ChangeInv == ChangeTypeOK /\ ParentsAreSettled /\ CommitsMatchFiles /\ ClaimsAreEarned

(* A change is called effective only if its tasks failed before and pass now. *)
LEMMA EffectiveIsProven ==
    ASSUME NEW change, change.fixes \subseteq ChangeTasks,
           NEW before \in [ChangeTasks -> SUBSET Outcomes],
           NEW after \in [ChangeTasks -> SUBSET Outcomes],
           ChangeVerdict(change, Fixed(before, after), Broken(before, after)) = "EFFECTIVE"
    PROVE  \A t \in change.fixes :
               "failed" \in before[t] /\ after[t] \cap {"passed", "failed"} = {"passed"}
<1>1. change.fixes \subseteq Fixed(before, after)
  <2> HIDE DEF Fixed, Broken
  <2> QED
    BY DEF ChangeVerdict
<1>2. \A t \in Fixed(before, after) :
         TaskOutcome(before[t]) = "fail" /\ TaskOutcome(after[t]) = "pass"
  BY DEF Fixed, TransitionsTo
<1>3. \A shown \in SUBSET Outcomes :
         /\ TaskOutcome(shown) = "fail" => "failed" \in shown
         /\ TaskOutcome(shown) = "pass" => shown \cap {"passed", "failed"} = {"passed"}
  BY DEF TaskOutcome
<1> QED
  BY <1>1, <1>2, <1>3

(* Every step leaves rollouts, manifests and claims of their types.         *)
LEMMA ChangeNextType ==
    ASSUME ChangeInv, [ChangeNext]_changeVars
    PROVE  ChangeTypeOK'
<1> USE DEF ChangeInv
<1>1. CASE SelectParent
  BY <1>1, AttributionAssumption DEF SelectParent, ChangeTypeOK, Committed, Gens
<1>2. CASE RollOut
  <2>1. ASSUME NEW seen \in [ChangeTasks -> Seen]
        PROVE  [of |-> base, seen |-> seen] \in RolloutSet
    BY AttributionAssumption DEF ChangeTypeOK, RolloutSet
  <2>2. rollouts' \in [Gens -> {Nothing} \cup RolloutSet]
    BY <1>2, <2>1 DEF RollOut, ChangeTypeOK
  <2> QED
    BY <1>2, <2>2 DEF RollOut, ChangeTypeOK
<1>3. CASE Analyze
  <2> HIDE DEF Evaluate
  <2> QED
    BY <1>3 DEF Analyze, ChangeTypeOK
<1>4. CASE Mutate
  <2>1. ASSUME NEW changes \in Manifests PROVE Extracted(changes) \in ManifestSet
    BY DEF Extracted, ManifestSet, ChangeTypeOK
  <2>2. manifests' \in [Gens -> {Nothing} \cup ManifestSet]
    BY <1>4, <2>1 DEF Mutate, ChangeTypeOK
  <2> QED
    BY <1>4, <2>2 DEF Mutate, ChangeTypeOK
<1>5. CASE Commit \/ GiveUp
  BY <1>5, AttributionAssumption DEF Commit, GiveUp, NextGeneration, ChangeTypeOK, Gens
<1>6. CASE StartOver
  BY <1>6 DEF StartOver, ChangeTypeOK
<1>7. CASE UNCHANGED changeVars
  BY <1>7 DEF changeVars, ChangeTypeOK
<1> QED
  BY <1>1, <1>2, <1>3, <1>4, <1>5, <1>6, <1>7 DEF ChangeNext

(* A verdict is drawn from the files of the parent that is committed.        *)
LEMMA AnalysisIsEarned ==
    ASSUME ChangeInv, Analyze
    PROVE  ChangeInv'
<1> USE DEF ChangeInv
<1>1. ChangeTypeOK'
  BY ChangeNextType DEF ChangeNext
<1>2. /\ phase = "analyze" /\ phase' = "mutate" /\ generation \in Gens
      /\ UNCHANGED <<reuseRollout, generation, tries, base, rollouts, manifests, commits>>
  BY DEF Analyze, ChangeTypeOK
<1>3. /\ rollouts[generation] \in RolloutSet
      /\ ~reuseRollout => rollouts[generation].of = base
  BY <1>2 DEF CommitsMatchFiles
<1>4. CommitsMatchFiles'
  BY <1>2, <1>3 DEF CommitsMatchFiles, Judging
<1>5. \A g \in Gens : g # generation => claims'[g] = claims[g]
  BY DEF Analyze, ChangeTypeOK
<1>6. CASE base = 0
  <2>1. claims'[generation] = Nothing
    BY <1>2, <1>6 DEF Analyze, ChangeTypeOK
  <2> QED
    BY <1>1, <1>2, <1>4, <1>5, <2>1 DEF ParentsAreSettled, ClaimsAreEarned, Judging, Proven
<1>7. CASE base # 0
  <2>1. /\ claims'[generation] = Evaluate(base) /\ base \in Gens /\ commits[base] # Nothing
        /\ rollouts[base] \in RolloutSet
    BY <1>2, <1>7 DEF Analyze, EvaluatedGeneration, ChangeTypeOK, ParentsAreSettled
  <2>2. /\ Evaluate(base).parent = base
        /\ Evaluate(base).before = rollouts[base].of
        /\ Evaluate(base).after = rollouts[generation].of
        /\ Evaluate(base).edit = IF manifests[base] = Nothing THEN Nothing ELSE manifests[base].edit
        /\ Evaluate(base).verdicts =
              {<<c, ChangeVerdict(c, Fixed(Cases(base), Cases(generation)),
                                  Broken(Cases(base), Cases(generation)))>> :
                 c \in ManifestChanges(manifests[base])}
    <3> HIDE DEF Cases, Fixed, Broken, ChangeVerdict
    <3> QED
      BY DEF Evaluate
  <2>3. Evaluate(base).edit \in {Nothing, commits[base].edit}
    BY <2>1, <2>2 DEF CommitsMatchFiles
  <2>4. ~reuseRollout => /\ Evaluate(base).before = commits[base].parent
                         /\ Evaluate(base).after = base
    BY <1>3, <2>1, <2>2 DEF CommitsMatchFiles
  <2>5. ASSUME NEW c \in ManifestChanges(manifests[base]),
               <<c, "EFFECTIVE">> \in Evaluate(base).verdicts
        PROVE  \A t \in c.fixes :
                  /\ "failed" \in rollouts[base].seen[t]
                  /\ rollouts[generation].seen[t] \cap {"passed", "failed"} = {"passed"}
    <3>1. ChangeVerdict(c, Fixed(Cases(base), Cases(generation)),
                           Broken(Cases(base), Cases(generation))) = "EFFECTIVE"
      <4> HIDE DEF Cases, Fixed, Broken, ChangeVerdict
      <4> QED
        BY <2>2, <2>5
    <3>2. Cases(base) \in [ChangeTasks -> SUBSET Outcomes]
          /\ Cases(generation) \in [ChangeTasks -> SUBSET Outcomes]
      BY <1>3, <2>1 DEF Cases, RolloutSet
    <3>3. manifests[base] \in ManifestSet /\ c \in manifests[base].changes
      BY <2>1, <2>5 DEF ManifestChanges, ChangeTypeOK
    <3>4. c.fixes \subseteq ChangeTasks
      BY <3>3, AttributionAssumption DEF ManifestSet
    <3>5. \A t \in c.fixes : /\ "failed" \in Cases(base)[t]
                             /\ Cases(generation)[t] \cap {"passed", "failed"} = {"passed"}
      <4> HIDE DEF Cases
      <4> QED
        BY <3>1, <3>2, <3>4, EffectiveIsProven
    <3> QED
      BY <3>5 DEF Cases
  <2>6. Proven(base, generation, Evaluate(base).verdicts)
    BY <2>5 DEF Proven
  <2>7. ParentsAreSettled'
    BY <1>2, <1>5, <2>1, <2>2 DEF ParentsAreSettled
  <2>8. ClaimsAreEarned'
    <3> SUFFICES ASSUME NEW g \in Gens, claims'[g] # Nothing
                 PROVE  /\ claims'[g].edit \in {Nothing, commits[claims'[g].parent].edit}
                        /\ ~reuseRollout =>
                              /\ claims'[g].before = commits[claims'[g].parent].parent
                              /\ claims'[g].after = claims'[g].parent
                        /\ commits[g] # Nothing \/ g = generation =>
                              Proven(claims'[g].parent, g, claims'[g].verdicts)
      BY <1>2 DEF ClaimsAreEarned, Proven
    <3>1. CASE g = generation
      BY <2>1, <2>2, <2>3, <2>4, <2>6, <3>1
    <3>2. CASE g # generation
      BY <1>5, <3>2 DEF ClaimsAreEarned
    <3> QED
      BY <3>1, <3>2
  <2> QED
    BY <1>1, <1>4, <2>7, <2>8
<1> QED
  BY <1>6, <1>7

(* The generation under way is not committed, and nobody's parent. *)
LEMMA UnderWayIsOpen ==
    ASSUME ChangeInv, generation \in Gens
    PROVE  /\ commits[generation] = Nothing /\ base # generation
           /\ \A g \in Gens : claims[g] # Nothing => claims[g].parent # generation
<1>1. commits[generation] = Nothing
  <2>1. ~(generation < generation)
    BY DEF ChangeInv, ChangeTypeOK
  <2> QED
    BY <2>1 DEF ChangeInv, ParentsAreSettled
<1>2. base # generation
  BY <1>1 DEF ChangeInv, ParentsAreSettled, ChangeTypeOK
<1> QED
  BY <1>1, <1>2 DEF ChangeInv, ParentsAreSettled

(* Every step leaves claims that the evidence of their generation supports.*)
LEMMA ChangeNextInv ==
    ASSUME ChangeInv, [ChangeNext]_changeVars
    PROVE  ChangeInv'
<1> USE DEF ChangeInv
<1>0. ChangeTypeOK'
  BY ChangeNextType
<1>1. CASE SelectParent
  BY <1>0, <1>1
  DEF SelectParent, Committed, ParentsAreSettled, CommitsMatchFiles, ClaimsAreEarned, Proven, Judging
<1>2. CASE RollOut
  <2>1. /\ phase = "rollout" /\ phase' = "analyze" /\ generation \in Gens
        /\ UNCHANGED <<reuseRollout, generation, tries, base, manifests, claims, commits>>
    BY <1>2 DEF RollOut, ChangeTypeOK
  <2>2. /\ \A g \in Gens : g # generation => rollouts'[g] = rollouts[g]
        /\ rollouts'[generation] \in RolloutSet
        /\ ~reuseRollout => rollouts'[generation].of = base
    <3>1. CASE reuseRollout /\ rollouts[generation] # Nothing /\ rollouts' = rollouts
      BY <2>1, <3>1 DEF ChangeTypeOK
    <3>2. CASE \E seen \in [ChangeTasks -> Seen] :
                  rollouts' = [rollouts EXCEPT ![generation] = [of |-> base, seen |-> seen]]
      <4>1. PICK seen \in [ChangeTasks -> Seen] :
               rollouts' = [rollouts EXCEPT ![generation] = [of |-> base, seen |-> seen]]
        BY <3>2
      <4>2. [of |-> base, seen |-> seen] \in RolloutSet
        BY AttributionAssumption DEF ChangeTypeOK, RolloutSet
      <4> QED
        BY <2>1, <4>1, <4>2 DEF ChangeTypeOK
    <3> QED
      BY <1>2, <3>1, <3>2 DEF RollOut
  <2>3. /\ commits[generation] = Nothing
        /\ \A g \in Gens : claims[g] # Nothing => claims[g].parent # generation
    BY <2>1, UnderWayIsOpen
  <2>4. ParentsAreSettled'
    BY <2>1 DEF ParentsAreSettled
  <2>5. CommitsMatchFiles'
    BY <2>1, <2>2, <2>3 DEF CommitsMatchFiles, Judging
  <2>6. ClaimsAreEarned'
    BY <2>1, <2>2, <2>3 DEF ClaimsAreEarned, ParentsAreSettled, Proven, Judging
  <2> QED
    BY <1>0, <2>4, <2>5, <2>6
<1>3. CASE Analyze
  BY <1>3, AnalysisIsEarned
<1>4. CASE Mutate
  <2>1. /\ phase = "mutate" /\ phase' \in {"commit", "failed"} /\ generation \in Gens
        /\ UNCHANGED <<reuseRollout, generation, tries, base, rollouts, claims, commits>>
    BY <1>4 DEF Mutate, ChangeTypeOK
  <2>2. /\ \A g \in Gens : g # generation => manifests'[g] = manifests[g]
        /\ phase' = "commit" => manifests'[generation].edit = <<generation, tries>>
    BY <1>4, <2>1 DEF Mutate, Extracted, ChangeTypeOK
  <2>3. /\ commits[generation] = Nothing
        /\ \A g \in Gens : claims[g] # Nothing => claims[g].parent # generation
    BY <2>1, UnderWayIsOpen
  <2>4. ParentsAreSettled'
    BY <2>1 DEF ParentsAreSettled
  <2>5. CommitsMatchFiles'
    BY <2>1, <2>2, <2>3 DEF CommitsMatchFiles, Judging
  <2>6. ClaimsAreEarned'
    BY <2>1, <2>2, <2>3 DEF ClaimsAreEarned, ParentsAreSettled, Proven, Judging
  <2> QED
    BY <1>0, <2>4, <2>5, <2>6
<1>5. CASE Commit
  <2>1. /\ phase = "commit" /\ phase' \in {"select", "done"} /\ generation' = generation + 1
        /\ generation \in Gens /\ generation \in Nat
        /\ UNCHANGED <<reuseRollout, base, rollouts, manifests, claims>>
    BY <1>5 DEF Commit, NextGeneration, ChangeTypeOK
  <2>2. /\ \A g \in Gens : g # generation => commits'[g] = commits[g]
        /\ commits'[generation] = [parent |-> base, edit |-> <<generation, tries>>]
    BY <1>5, <2>1 DEF Commit, ChangeTypeOK
  <2>3. /\ commits[generation] = Nothing /\ base # generation
        /\ \A g \in Gens : claims[g] # Nothing => claims[g].parent # generation
    BY <2>1, UnderWayIsOpen
  <2>4. ParentsAreSettled'
    BY <2>1, <2>2, <2>3 DEF ParentsAreSettled, ChangeTypeOK, Gens
  <2>5. CommitsMatchFiles'
    BY <2>1, <2>2, <2>3 DEF CommitsMatchFiles, Judging
  <2>6. ClaimsAreEarned'
    BY <2>1, <2>2, <2>3 DEF ClaimsAreEarned, ParentsAreSettled, Proven, Judging
  <2> QED
    BY <1>0, <2>4, <2>5, <2>6
<1>6. CASE StartOver \/ GiveUp
  <2>1. /\ phase' \in {"select", "done"} /\ generation \in Nat /\ generation' \in {generation, generation + 1}
        /\ UNCHANGED <<reuseRollout, base, rollouts, manifests, claims, commits>>
    BY <1>6 DEF StartOver, GiveUp, NextGeneration, ChangeTypeOK
  <2> QED
    BY <1>0, <2>1 DEF ParentsAreSettled, CommitsMatchFiles, ClaimsAreEarned, Proven, Judging, Gens
<1>7. CASE UNCHANGED changeVars
  BY <1>0, <1>7
  DEF changeVars, ParentsAreSettled, CommitsMatchFiles, ClaimsAreEarned, Proven, Judging
<1> QED
  BY <1>1, <1>2, <1>3, <1>4, <1>5, <1>6, <1>7 DEF ChangeNext

(* For any tasks, any manifests and any number of generations and tries, a    *)
(* verdict on an edit is about the edit the parent was committed with, and a  *)
(* change is called effective only on the tasks that failed before and pass.  *)
THEOREM ClaimsHold == ChangeSpec => []AttributionIsEarned
<1>1. ChangeInit => ChangeInv
  BY AttributionAssumption
  DEF ChangeInit, ChangeInv, ChangeTypeOK, ParentsAreSettled, CommitsMatchFiles, ClaimsAreEarned,
      Gens, Judging
<1>2. ChangeInv /\ [ChangeNext]_changeVars => ChangeInv'
  BY ChangeNextInv
<1>3. ChangeInv => AttributionIsEarned
  BY DEF ChangeInv, ParentsAreSettled, ClaimsAreEarned, Proven, AttributionIsEarned, Committed, Gens
<1> QED
  BY <1>1, <1>2, <1>3, PTL DEF ChangeSpec

------------------------------------------------------------------------------
(* ArchiveStore without other readers: what the owner holds while it rewrites *)
(* the files, and how many of them may lack a certificate meanwhile.          *)

LinesOf(f)    == <<"lines", f>>
ReceiptsOf(f) == <<"receipts", f>>

Rewrites ==
    {<<LinesOf("local"), LinesOf("mirror"), ReceiptsOf("local"), ReceiptsOf("mirror")>>,
     <<LinesOf("mirror"), ReceiptsOf("local"), ReceiptsOf("mirror")>>,
     <<ReceiptsOf("local"), ReceiptsOf("mirror")>>, <<ReceiptsOf("mirror")>>, <<>>}

Reading == {"idle", "locked", "read", "readmirror", "replace", "replacemirror", "readreceipts"}
Synced  == {"ready", "appendmirror", "certify", "certifymirror", "operator"}

StoreTypeOK ==
    /\ DOMAIN at = Processes /\ DOMAIN held = Processes /\ DOMAIN todo = Processes
    /\ DOMAIN lines = Files /\ DOMAIN receipts = Files
    /\ DOMAIN held[Owner] = {"lines", "receipts"}
    /\ DOMAIN held[Owner].lines = Files /\ DOMAIN held[Owner].receipts = Files
    /\ at[Owner] \in Reading \cup Synced \cup {"write", "fill"}
    /\ exists # {} /\ exists \subseteq Files
    /\ at[Owner] \in {"write", "fill"} => todo[Owner] \in Rewrites
    /\ at[Owner] = "fill" => todo[Owner] # <<>>

(* What is not on the list of rewrites is as the owner holds it. *)
RewritesOK ==
    /\ at[Owner] = "replacemirror" => lines["local"] = held[Owner].lines["local"]
    /\ at[Owner] = "readreceipts" => \A f \in Files : lines[f] = held[Owner].lines[f]
    /\ at[Owner] \in {"write", "fill"} =>
          \A f \in Files :
             /\ <<"lines", f>> \notin ToSet(todo[Owner]) => lines[f] = held[Owner].lines[f]
             /\ <<"receipts", f>> \notin ToSet(todo[Owner]) => receipts[f] = held[Owner].receipts[f]

SyncedOK ==
    /\ synced \/ at[Owner] \in {"readreceipts", "write", "fill"} => exists = Files
    /\ at[Owner] = "replacemirror" => "local" \in exists
    /\ at[Owner] \in Synced => synced
    /\ at[Owner] = "certifymirror" => Line \in receipts["local"]

(* Before the next synchronisation at most one file lacks a certificate, and  *)
(* the rewrites put all of them back.                                       *)
CertificatesOK ==
    single =>
        /\ at[Owner] \in Reading => certified \subseteq receipts["local"] \cup receipts["mirror"]
        /\ at[Owner] \in {"write", "fill", "operator"} =>
              \A f \in Files : certified \subseteq held[Owner].receipts[f]
        /\ synced =>
              \A f \in Files :
                 \/ certified \subseteq receipts[f]
                 \/ at[Owner] = "fill" /\ Head(todo[Owner]) = <<"receipts", f>>

StoreInv == StoreTypeOK /\ RewritesOK /\ SyncedOK /\ CertificatesOK

(* A list of rewrites names a file once, and its rest is such a list. *)
LEMMA RewriteFacts ==
    ASSUME NEW t \in Rewrites
    PROVE  /\ t = <<>> => ToSet(t) = {}
           /\ t # <<>> =>
                 /\ Head(t) \in {"lines", "receipts"} \X Files
                 /\ Tail(t) \in Rewrites
                 /\ ToSet(t) = {Head(t)} \cup ToSet(Tail(t))
<1>1. \A a : ToSet(<<a>>) = {a} /\ Head(<<a>>) = a /\ Tail(<<a>>) = <<>>
  BY DEF ToSet
<1>2. \A a, b : ToSet(<<a, b>>) = {a, b} /\ Head(<<a, b>>) = a /\ Tail(<<a, b>>) = <<b>>
  BY DEF ToSet
<1>3. \A a, b, c : ToSet(<<a, b, c>>) = {a, b, c} /\ Head(<<a, b, c>>) = a
                   /\ Tail(<<a, b, c>>) = <<b, c>>
  BY DEF ToSet
<1>4. \A a, b, c, d : ToSet(<<a, b, c, d>>) = {a, b, c, d} /\ Head(<<a, b, c, d>>) = a
                      /\ Tail(<<a, b, c, d>>) = <<b, c, d>>
  BY DEF ToSet
<1>5. ToSet(<<>>) = {}
  BY DEF ToSet
<1>6. \A f \in {"local", "mirror"} :
         {LinesOf(f), ReceiptsOf(f)} \subseteq {"lines", "receipts"} \X Files
  BY DEF LinesOf, ReceiptsOf, Files
<1>7. CASE t = <<LinesOf("local"), LinesOf("mirror"), ReceiptsOf("local"), ReceiptsOf("mirror")>>
  BY <1>3, <1>4, <1>6, <1>7 DEF Rewrites
<1>8. CASE t = <<LinesOf("mirror"), ReceiptsOf("local"), ReceiptsOf("mirror")>>
  BY <1>2, <1>3, <1>6, <1>8 DEF Rewrites
<1>9. CASE t = <<ReceiptsOf("local"), ReceiptsOf("mirror")>>
  BY <1>1, <1>2, <1>6, <1>9 DEF Rewrites
<1>10. CASE t = <<ReceiptsOf("mirror")>>
  BY <1>1, <1>5, <1>6, <1>10 DEF Rewrites
<1>11. CASE t = <<>>
  BY <1>5, <1>11
<1> QED
  BY <1>7, <1>8, <1>9, <1>10, <1>11 DEF Rewrites

(* A plain rewrite empties a file of the list, then puts into it what is held. *)
LEMMA RewriteKeepsStore ==
    ASSUME StoreInv, Truncate(Owner) \/ Fill(Owner)
    PROVE  StoreInv'
<1> USE DEF StoreInv
<1>1. PICK kind \in {"lines", "receipts"}, f \in Files :
         Head(todo[Owner]) = <<kind, f>> /\ todo[Owner] # <<>>
  <2>1. todo[Owner] \in Rewrites /\ todo[Owner] # <<>>
    BY DEF Truncate, Fill, StoreTypeOK
  <2> QED
    BY <2>1, RewriteFacts
<1>2. /\ Tail(todo[Owner]) \in Rewrites
      /\ ToSet(todo[Owner]) = {<<kind, f>>} \cup ToSet(Tail(todo[Owner]))
  BY <1>1, RewriteFacts DEF Truncate, Fill, StoreTypeOK
<1> DEFINE head == Head(todo[Owner])
<1>6. head[1] = kind /\ head[2] = f /\ Owner \in Processes
  BY <1>1 DEF Processes
<1>3. CASE Truncate(Owner)
  <2>0. /\ at[Owner] = "write" /\ at' = [at EXCEPT ![Owner] = "fill"]
        /\ UNCHANGED <<held, todo, synced, single, certified, appended>>
        /\ lines' = IF head[1] = "lines" THEN [lines EXCEPT ![head[2]] = <<>>] ELSE lines
        /\ receipts' = IF head[1] = "receipts" THEN [receipts EXCEPT ![head[2]] = {}] ELSE receipts
        /\ exists' = IF head[1] = "lines" THEN exists \cup {head[2]} ELSE exists
    BY <1>3 DEF Truncate, Goto, history
  <2>1. /\ at[Owner] = "write" /\ at'[Owner] = "fill" /\ DOMAIN at' = Processes
        /\ UNCHANGED <<held, todo, synced, single, certified, appended>>
        /\ lines' = IF kind = "lines" THEN [lines EXCEPT ![f] = <<>>] ELSE lines
        /\ receipts' = IF kind = "receipts" THEN [receipts EXCEPT ![f] = {}] ELSE receipts
        /\ exists' \in {exists, exists \cup {f}}
    BY <1>6, <2>0 DEF StoreTypeOK
  <2>2. StoreTypeOK'
    BY <1>1, <2>1 DEF StoreTypeOK
  <2>3. RewritesOK'
    BY <1>2, <2>1 DEF RewritesOK, StoreTypeOK
  <2>4. SyncedOK'
    BY <2>1 DEF SyncedOK, Synced, StoreTypeOK
  <2>5. CertificatesOK'
    BY <1>1, <2>1 DEF CertificatesOK, Reading, StoreTypeOK
  <2> QED
    BY <2>2, <2>3, <2>4, <2>5
<1>4. CASE Fill(Owner)
  <2>0. /\ at[Owner] = "fill" /\ at' = [at EXCEPT ![Owner] = "write"]
        /\ todo' = [todo EXCEPT ![Owner] = Tail(@)]
        /\ UNCHANGED <<held, exists, synced, single, certified, appended>>
        /\ lines' = IF head[1] = "lines" THEN [lines EXCEPT ![head[2]] = held[Owner].lines[head[2]]]
                    ELSE lines
        /\ receipts' = IF head[1] = "receipts"
                       THEN [receipts EXCEPT ![head[2]] = held[Owner].receipts[head[2]]] ELSE receipts
    BY <1>4 DEF Fill, Goto, history
  <2>1. /\ at[Owner] = "fill" /\ at'[Owner] = "write" /\ DOMAIN at' = Processes
        /\ UNCHANGED <<held, exists, synced, single, certified, appended>>
        /\ todo'[Owner] = Tail(todo[Owner]) /\ DOMAIN todo' = Processes
        /\ lines' = IF kind = "lines" THEN [lines EXCEPT ![f] = held[Owner].lines[f]] ELSE lines
        /\ receipts' = IF kind = "receipts" THEN [receipts EXCEPT ![f] = held[Owner].receipts[f]]
                       ELSE receipts
    BY <1>6, <2>0 DEF StoreTypeOK
  <2>2. StoreTypeOK'
    BY <1>2, <2>1 DEF StoreTypeOK
  <2>3. RewritesOK'
    BY <1>2, <2>1 DEF RewritesOK, StoreTypeOK
  <2>4. SyncedOK'
    BY <2>1 DEF SyncedOK, Synced, StoreTypeOK
  <2>5. CertificatesOK'
    BY <1>1, <2>1 DEF CertificatesOK, Reading, StoreTypeOK
  <2> QED
    BY <2>2, <2>3, <2>4, <2>5
<1> QED
  BY <1>3, <1>4
(* The steps of a synchronisation by the owner. *)
LEMMA SynchroniseKeepsStore ==
    ASSUME StoreInv, SynchroniseStep(Owner)
    PROVE  StoreInv'
<1> USE DEF StoreInv
<1> Owner \in Processes
  BY DEF Processes
<1>1. ASSUME Synchronise(Owner) PROVE StoreInv'
  <2>1. exists \subseteq Files /\ exists # {} /\ at[Owner] = "locked"
    BY <1>1 DEF StoreTypeOK, Synchronise
  <2>2. at' = [at EXCEPT ![Owner] = "idle"] \/ at' = [at EXCEPT ![Owner] = "read"]
    BY <1>1, <2>1 DEF Synchronise, Goto, OrphanedMirror, Files
  <2>3. UNCHANGED <<lines, receipts, exists, held, todo, history, synced>>
    BY <1>1 DEF Synchronise
  <2>4. StoreTypeOK'
    BY <2>2, <2>3 DEF StoreTypeOK, Reading
  <2>5. RewritesOK' /\ SyncedOK' /\ CertificatesOK'
    BY <2>1, <2>2, <2>3 DEF StoreTypeOK, RewritesOK, SyncedOK, CertificatesOK, Reading, Synced, history
  <2> QED
    BY <2>4, <2>5
<1>2. ASSUME ReadLocal(Owner) PROVE StoreInv'
  BY <1>2 DEF ReadLocal, Goto, files, history, StoreTypeOK, RewritesOK, SyncedOK, CertificatesOK,
     Reading, Synced, Line
<1>3. ASSUME ReadMirror(Owner) PROVE StoreInv'
  <2> DEFINE merged == Merge(held[Owner].lines["local"], lines["mirror"])
  <2>1. /\ at[Owner] = "readmirror" /\ at' = [at EXCEPT ![Owner] = "replace"]
        /\ held' = [held EXCEPT ![Owner].lines = [f \in Files |-> merged]]
        /\ UNCHANGED <<files, todo, history, synced>>
    BY <1>3 DEF ReadMirror, Goto
  <2> HIDE DEF merged
  <2> QED
    BY <2>1 DEF files, history, StoreTypeOK, RewritesOK, SyncedOK, CertificatesOK, Reading, Synced, Line
<1>4. ASSUME NEW f \in Files, Replace(Owner, f) PROVE StoreInv'
  <2>1. CASE f = "local"
    BY <1>4, <2>1 DEF Replace, Goto, history, StoreTypeOK, RewritesOK, SyncedOK, CertificatesOK,
       Reading, Synced, Line, Files
  <2>2. CASE f = "mirror"
    BY <1>4, <2>2 DEF Replace, Goto, history, StoreTypeOK, RewritesOK, SyncedOK, CertificatesOK,
       Reading, Synced, Line, Files
  <2> QED
    BY <2>1, <2>2 DEF Files
<1>5. ASSUME ReadReceipts(Owner) PROVE StoreInv'
  <2>1. /\ at[Owner] = "readreceipts" /\ at' = [at EXCEPT ![Owner] = "write"]
        /\ held' = [held EXCEPT ![Owner].receipts = [f \in Files |-> AllReceipts]]
        /\ UNCHANGED <<files, history, synced>>
    BY <1>5 DEF ReadReceipts, Goto
  <2>2. /\ todo' = [todo EXCEPT ![Owner] = todo'[Owner]]
        /\ AllReceipts = {} => todo'[Owner] = <<>>
        /\ AllReceipts # {} => todo'[Owner] = <<ReceiptsOf("local"), ReceiptsOf("mirror")>>
    BY <1>5 DEF ReadReceipts, ReceiptsOf, StoreTypeOK
  <2>3. /\ todo'[Owner] \in Rewrites
        /\ \A f \in Files : <<"receipts", f>> \notin ToSet(todo'[Owner]) => AllReceipts = {}
    <3>1. CASE AllReceipts = {}
      BY <2>2, <3>1 DEF Rewrites
    <3>2. CASE AllReceipts # {}
      <4>1. todo'[Owner] = <<ReceiptsOf("local"), ReceiptsOf("mirror")>>
        BY <2>2, <3>2
      <4>2. \A a, b : ToSet(<<a, b>>) = {a, b}
        BY DEF ToSet
      <4>3. \A f \in Files : ReceiptsOf(f) \in ToSet(todo'[Owner])
        BY <4>1, <4>2 DEF Files
      <4> QED
        BY <4>1, <4>3 DEF Rewrites, ReceiptsOf
    <3> QED
      BY <3>1, <3>2
  <2>4. StoreTypeOK'
    BY <2>1, <2>2, <2>3 DEF StoreTypeOK, files
  <2>5. RewritesOK' /\ SyncedOK'
    BY <2>1, <2>3 DEF StoreTypeOK, RewritesOK, SyncedOK, Synced, Reading, files, history, AllReceipts, Files
  <2>6. CertificatesOK'
    BY <2>1 DEF StoreTypeOK, CertificatesOK, Reading, files, history, AllReceipts
  <2> QED
    BY <2>4, <2>5, <2>6
<1>6. ASSUME Truncate(Owner) \/ Fill(Owner) PROVE StoreInv'
  BY <1>6, RewriteKeepsStore
<1>7. ASSUME Finish(Owner) PROVE StoreInv'
  <2>1. /\ at[Owner] = "write" /\ at' = [at EXCEPT ![Owner] = "ready"] /\ todo[Owner] = <<>>
        /\ held' = [held EXCEPT ![Owner] = NothingHeld] /\ synced'
        /\ UNCHANGED <<files, todo, history>>
    BY <1>7 DEF Finish, Goto, Returned
  <2>2. \A f \in Files : receipts[f] = held[Owner].receipts[f]
    <3>1. ToSet(<<>>) = {}
      BY DEF ToSet
    <3> QED
      BY <2>1, <3>1 DEF RewritesOK
  <2>3. StoreTypeOK'
    BY <2>1 DEF StoreTypeOK, files, NothingHeld, Synced, Reading
  <2>4. RewritesOK' /\ SyncedOK' /\ CertificatesOK'
    BY <2>1, <2>2 DEF StoreTypeOK, RewritesOK, SyncedOK, CertificatesOK, files, history, Synced, Reading
  <2> QED
    BY <2>3, <2>4
<1> QED
  BY <1>1, <1>2, <1>3, <1>4, <1>5, <1>6, <1>7 DEF SynchroniseStep

(* The steps of the owner under the lock. *)
LEMMA OwnerKeepsStore ==
    ASSUME StoreInv, OwnerStep
    PROVE  StoreInv'
<1> USE DEF StoreInv
<1> Owner \in Processes
  BY DEF Processes
<1>1. ASSUME Lock \/ Unlock PROVE StoreInv'
  <2>1. /\ at[Owner] \in {"idle", "ready"}
        /\ at' = [at EXCEPT ![Owner] = "locked"] \/ at' = [at EXCEPT ![Owner] = "idle"]
        /\ UNCHANGED <<files, held, todo, history, synced>>
    BY <1>1 DEF Lock, Unlock, Goto
  <2> QED
    BY <2>1 DEF files, history, StoreTypeOK, RewritesOK, SyncedOK, CertificatesOK, Reading, Synced, Files
<1>2. ASSUME AppendLocal PROVE StoreInv'
  <2>1. /\ at[Owner] = "ready" /\ at' = [at EXCEPT ![Owner] = "appendmirror"]
        /\ DOMAIN lines' = DOMAIN lines /\ exists' = exists \cup {"local"}
        /\ UNCHANGED <<receipts, held, todo, certified, single, synced>>
    BY <1>2 DEF AppendLocal, Goto, AddLine
  <2> QED
    BY <2>1 DEF StoreTypeOK, RewritesOK, SyncedOK, CertificatesOK, Reading, Synced, Files
<1>3. ASSUME AppendMirror PROVE StoreInv'
  <2>1. /\ at[Owner] = "appendmirror"
        /\ at' = [at EXCEPT ![Owner] = "certify"] \/ at' = [at EXCEPT ![Owner] = "ready"]
        /\ DOMAIN lines' = DOMAIN lines /\ exists' = exists \cup {"mirror"}
        /\ UNCHANGED <<receipts, held, todo, certified, single, synced>>
    BY <1>3 DEF AppendMirror, Goto, AddLine, AfterAppend
  <2> QED
    BY <2>1 DEF StoreTypeOK, RewritesOK, SyncedOK, CertificatesOK, Reading, Synced, Files
<1>4. ASSUME CertifyLocal PROVE StoreInv'
  <2> Line' = Line
    BY <1>4 DEF CertifyLocal, Line, history
  <2> QED
    BY <1>4 DEF CertifyLocal, Goto, history, StoreTypeOK, RewritesOK, SyncedOK, CertificatesOK,
       Reading, Synced, Files
<1>5. ASSUME CertifyMirror PROVE StoreInv'
  BY <1>5 DEF CertifyMirror, Goto, StoreTypeOK, RewritesOK, SyncedOK, CertificatesOK,
     Reading, Synced, Files
<1>6. ASSUME StartOperator PROVE StoreInv'
  BY <1>6 DEF StartOperator, Goto, history, StoreTypeOK, RewritesOK, SyncedOK, CertificatesOK,
     Reading, Synced, Files
<1>7. ASSUME FinishOperator PROVE StoreInv'
  <2> DEFINE order == <<LinesOf("local"), LinesOf("mirror"), ReceiptsOf("local"), ReceiptsOf("mirror")>>
  <2>1. /\ at[Owner] = "operator" /\ at' = [at EXCEPT ![Owner] = "write"]
        /\ todo' = [todo EXCEPT ![Owner] = order]
        /\ UNCHANGED <<files, held, history, synced>>
    BY <1>7 DEF FinishOperator, Goto, RestoreOrder, LinesOf, ReceiptsOf
  <2>2. order \in Rewrites
    BY DEF Rewrites
  <2>3. \A f \in Files : <<"lines", f>> \in ToSet(order) /\ <<"receipts", f>> \in ToSet(order)
    <3>1. \A a, b, c, d : ToSet(<<a, b, c, d>>) = {a, b, c, d}
      BY DEF ToSet
    <3>2. \A f \in Files : LinesOf(f) \in ToSet(order) /\ ReceiptsOf(f) \in ToSet(order)
      BY <3>1 DEF Files
    <3> QED
      BY <3>2 DEF LinesOf, ReceiptsOf
  <2> HIDE DEF order
  <2>4. StoreTypeOK'
    BY <2>1, <2>2 DEF StoreTypeOK, files
  <2>5. RewritesOK'
    BY <2>1, <2>3 DEF StoreTypeOK, RewritesOK, files
  <2>6. SyncedOK' /\ CertificatesOK'
    BY <2>1 DEF StoreTypeOK, SyncedOK, CertificatesOK, Synced, Reading, files, history
  <2> QED
    BY <2>4, <2>5, <2>6
<1>8. ASSUME NEW text, OperatorWrites(text) PROVE StoreInv'
  BY <1>8 DEF OperatorWrites, process, history, StoreTypeOK, RewritesOK, SyncedOK, CertificatesOK,
     Reading, Synced, Files
<1> QED
  BY <1>1, <1>2, <1>3, <1>4, <1>5, <1>6, <1>7, <1>8 DEF OwnerStep

(* A crash of the owner, a lost copy and a new workspace. *)
LEMMA FaultKeepsStore ==
    ASSUME StoreInv, Readers = {}, FaultStep
    PROVE  StoreInv'
<1> USE DEF StoreInv
<1> Owner \in Processes
  BY DEF Processes
<1>1. ASSUME Crash(Owner) PROVE StoreInv'
  <2>1. /\ at' = [at EXCEPT ![Owner] = "idle"] /\ ~synced'
        /\ held' = [held EXCEPT ![Owner] = NothingHeld] /\ todo' = [todo EXCEPT ![Owner] = <<>>]
        /\ single' = (single /\ synced) /\ UNCHANGED <<files, certified>>
    BY <1>1 DEF Crash, Goto
  <2>2. single' => certified \subseteq receipts["local"] \cup receipts["mirror"]
    <3>1. single' => single /\ synced
      BY <2>1
    <3>2. <<"receipts", "local">> # <<"receipts", "mirror">>
      OBVIOUS
    <3>3. single /\ synced => \E f \in Files : certified \subseteq receipts[f]
      BY <3>2 DEF CertificatesOK, Files
    <3> QED
      BY <3>1, <3>3 DEF Files
  <2> QED
    BY <2>1, <2>2 DEF files, NothingHeld, StoreTypeOK, RewritesOK, SyncedOK, CertificatesOK,
       Reading, Synced
<1>2. ASSUME NEW f \in Files, LoseCopy(f) PROVE StoreInv'
  BY <1>2 DEF LoseCopy, process, history, StoreTypeOK, RewritesOK, SyncedOK, CertificatesOK,
     Reading, Synced, Files
<1>3. ASSUME Reinitialise PROVE StoreInv'
  BY <1>3 DEF Reinitialise, process, history, StoreTypeOK, RewritesOK, SyncedOK, CertificatesOK,
     Reading, Synced, Files
<1> QED
  BY <1>1, <1>2, <1>3 DEF FaultStep, Processes

(* Every file operation keeps the archive's invariant, if the owner is     *)
(* alone.                                                                  *)
LEMMA StoreNextInv ==
    ASSUME StoreInv, Readers = {}, [Next]_vars
    PROVE  StoreInv'
<1>1. CASE UNCHANGED vars
  BY <1>1 DEF vars, files, process, history, StoreInv, StoreTypeOK, RewritesOK, SyncedOK,
     CertificatesOK, Line
<1> QED
  BY <1>1, SynchroniseKeepsStore, OwnerKeepsStore, FaultKeepsStore DEF Next, Processes

(* The archive starts empty, with nothing to keep. *)
LEMMA StoreInitInv == Init => StoreInv
<1> SUFFICES ASSUME Init PROVE StoreInv
  OBVIOUS
<1> Owner \in Processes
  BY DEF Processes
<1> QED
  BY DEF Init, NothingHeld, StoreInv, StoreTypeOK, RewritesOK, SyncedOK, CertificatesOK, Files,
     Reading, Synced

(* When nobody but the owner of the lock looks at the archive, one fault takes  *)
(* no certificate back, wherever in the rewrites of archive.py it falls.       *)
THEOREM OneFaultKeepsCertificates ==
    ASSUME Readers = {}
    PROVE  Spec => []CertificatesKept
<1>1. Init => StoreInv
  BY StoreInitInv
<1>2. StoreInv /\ [Next]_vars => StoreInv'
  BY StoreNextInv
<1>3. StoreInv => CertificatesKept
  <2> SUFFICES ASSUME StoreInv PROVE CertificatesKept
    OBVIOUS
  <2>1. UNION {receipts[f] : f \in Files} = receipts["local"] \cup receipts["mirror"]
    BY DEF Files
  <2> QED
    BY <2>1 DEF StoreInv, SyncedOK, CertificatesOK, CertificatesKept, Working, Reading, Synced, Files
<1> QED
  BY <1>1, <1>2, <1>3, PTL DEF Spec

(* What the guard around an operator leaves in the archive files is what was   *)
(* there before, whatever the operator wrote (driver.py _run_operator_guarded). *)
THEOREM OperatorsLeaveTheArchive ==
    ASSUME Readers = {}
    PROVE  Spec => GuardRestores
<1>1. Init => StoreInv
  BY StoreInitInv
<1>2. StoreInv /\ [Next]_vars => StoreInv'
  BY StoreNextInv
<1>3. StoreInv => (at[Owner] = "write" /\ Finish(Owner) =>
                      \A f \in Files : held[Owner].lines[f] = lines[f])
  <2>1. ToSet(<<>>) = {}
    BY DEF ToSet
  <2> QED
    BY <2>1 DEF StoreInv, RewritesOK, Finish
<1> QED
  BY <1>1, <1>2, <1>3, PTL DEF Spec, GuardRestores

------------------------------------------------------------------------------
(* BehaviorEvidence: what is shown of a generation is found along its         *)
(* ancestors, which come before it; and each stage hands on what the one     *)
(* before it was allowed to use.                                             *)
(* The ancestors of a generation come before it. *)
AncestryOK ==
  \A g \in DOMAIN ancestor : g \in 1..LastCycle /\ ancestor[g] \in 0..(g - 1)

(* What Earlier says of g, given what it says of the parent of g. *)
Telling(f, g) ==
  [n \in 0..HistoryCycles |->
     LET left == IF CasesOf(g) = <<>> THEN n ELSE n - 1
     IN IF n = 0 THEN <<>>
        ELSE IF g \in DOMAIN ancestor THEN f[ancestor[g]][left] \o CasesOf(g)
        ELSE CasesOf(g)]

TellsUpTo(f, top) == DOMAIN f = 0..top /\ \A g \in 0..top : f[g] = Telling(f, g)

(* There is such a function: a generation's entry only needs those before it. *)
LEMMA EarlierExists ==
  ASSUME AncestryOK
  PROVE  \E f : f = [g \in 0..LastCycle |-> Telling(f, g)]
<1> DEFINE without == {n \in 0..LastCycle : ~ \E f : TellsUpTo(f, n)}
<1>0. LastCycle \in Nat
  BY BehaviorAssumption
<1>1. ASSUME NEW n \in 0..LastCycle, n \in without, \A m \in without : n <= m PROVE FALSE
  <2>1. PICK f : \A g \in 0..(n - 1) : f[g] = Telling(f, g)
    <3>1. CASE n = 0
      BY <1>0, <3>1
    <3>2. CASE n # 0
      <4>1. n - 1 \in 0..LastCycle /\ ~(n <= n - 1)
        BY <1>0, <3>2
      <4>2. n - 1 \notin without
        <5> HIDE DEF without
        <5> QED
          BY <1>1, <4>1
      <4>3. PICK f : TellsUpTo(f, n - 1)
        BY <4>1, <4>2
      <4> QED
        BY <4>3 DEF TellsUpTo
    <3> QED
      BY <3>1, <3>2
  <2> DEFINE h == [g \in 0..n |-> IF g = n THEN Telling(f, n) ELSE f[g]]
  <2>2. \A g \in 0..(n - 1) : h[g] = f[g]
    BY <1>0
  <2>3. h[n] = Telling(f, n) /\ DOMAIN h = 0..n
    BY <1>0
  <2> HIDE DEF h
  <2>4. ASSUME NEW g \in 0..n PROVE Telling(h, g) = Telling(f, g)
    <3>1. g \in DOMAIN ancestor => h[ancestor[g]] = f[ancestor[g]]
      <4>1. g \in DOMAIN ancestor => ancestor[g] \in 0..(n - 1)
        BY <1>0 DEF AncestryOK
      <4> QED
        BY <2>2, <4>1
    <3> QED
      BY <3>1 DEF Telling
  <2>5. \A g \in 0..n : h[g] = Telling(h, g)
    <3> TAKE g \in 0..n
    <3>1. g = n \/ g \in 0..(n - 1)
      BY <1>0
    <3> QED
      BY <2>1, <2>2, <2>3, <2>4, <3>1
  <2>6. TellsUpTo(h, n)
    BY <2>3, <2>5 DEF TellsUpTo
  <2> QED
    BY <1>1, <2>6
<1>2. without = {}
  <2>1. without \in SUBSET Nat
    OBVIOUS
  <2> HIDE DEF without
  <2>2. SUFFICES ASSUME without # {} PROVE FALSE
    OBVIOUS
  <2>3. PICK n \in without : \A m \in without : n <= m
    BY <2>1, <2>2, LeastOf
  <2>4. n \in 0..LastCycle
    BY DEF without
  <2> QED
    BY <1>1, <2>3, <2>4
<1>3. PICK f : TellsUpTo(f, LastCycle)
  BY <1>0, <1>2
<1> SUFFICES \E e : e = [g \in 0..LastCycle |-> Telling(e, g)]
  OBVIOUS
<1> DEFINE e == [g \in 0..LastCycle |-> f[g]]
<1>5. \A g \in 0..LastCycle : Telling(e, g) = Telling(f, g)
  <2> TAKE g \in 0..LastCycle
  <2>1. g \in DOMAIN ancestor => e[ancestor[g]] = f[ancestor[g]]
    BY <1>0 DEF AncestryOK
  <2> HIDE DEF e
  <2> QED
    BY <2>1 DEF Telling
<1>6. e = [g \in 0..LastCycle |-> Telling(e, g)]
  <2>1. \A g \in 0..LastCycle : e[g] = Telling(e, g)
    BY <1>3, <1>5 DEF TellsUpTo
  <2>2. DOMAIN e = 0..LastCycle /\ e = [g \in 0..LastCycle |-> e[g]]
    OBVIOUS
  <2> HIDE DEF e
  <2> QED
    BY <2>1, <2>2
<1> QED
  BY <1>6

(* Earlier is that function. *)
LEMMA EarlierTells ==
  ASSUME AncestryOK, NEW g \in 0..LastCycle
  PROVE  Earlier[g] = Telling(Earlier, g)
<1> DEFINE Is(f) == f = [x \in 0..LastCycle |-> Telling(f, x)]
<1>1. \E f : Is(f)
  BY EarlierExists
<1>2. Is(CHOOSE f : Is(f))
  <2> HIDE DEF Is
  <2> QED
    BY <1>1
<1>3. Earlier = CHOOSE f : Is(f)
  BY DEF Earlier, Telling
<1>4. Is(Earlier)
  <2> HIDE DEF Is
  <2> QED
    BY <1>2, <1>3
<1> QED
  BY <1>4

------------------------------------------------------------------------------
(* The trajectories that trajectory_only may show of generation g: those of    *)
(* the last tries of g and its ancestors.                                   *)
Showable(g) ==
  {c \in UNION {ToSet(traces[h]) : h \in DOMAIN traces} :
     OfItsLastTry(c) /\ c.run \in LineageOf(g)}

TracesOK ==
  /\ DOMAIN traces = 1..LastCycle
  /\ \A g \in 1..LastCycle : /\ traces[g] \in Seq(ToSet(traces[g]))
                             /\ \A c \in ToSet(traces[g]) : c.run = g

(* A generation is of its own lineage, and so is that of its parent. *)
LEMMA LineageGrows ==
  ASSUME AncestryOK, NEW g \in 0..LastCycle
  PROVE  /\ g \in LineageOf(g)
         /\ g \in DOMAIN ancestor => LineageOf(ancestor[g]) \subseteq LineageOf(g)
  BY DEF LineageOf

(* The cases of a generation may be shown of it. *)
LEMMA OwnCasesShow ==
  ASSUME TracesOK, AncestryOK, NEW g \in 0..LastCycle
  PROVE  CasesOf(g) \in Seq(Showable(g))
<1>1. CASE g \in DOMAIN traces
  <2>1. CasesOf(g) = traces[g] /\ g \in 1..LastCycle
    BY <1>1 DEF CasesOf, TracesOK
  <2>2. \A c \in ToSet(traces[g]) : c.run = g /\ OfItsLastTry(c)
    BY <1>1, <2>1 DEF TracesOK, OfItsLastTry, ToSet, Lines
  <2>3. ToSet(traces[g]) \subseteq Showable(g)
    BY <1>1, <2>2, LineageGrows DEF Showable
  <2>4. traces[g] \in Seq(ToSet(traces[g]))
    BY <2>1 DEF TracesOK
  <2> QED
    BY <2>1, <2>3, <2>4, SeqMonotonic
<1>2. CASE g \notin DOMAIN traces
  BY <1>2 DEF CasesOf
<1> QED
  BY <1>1, <1>2

(* What an earlier generation told is of the lineage. *)
LEMMA EarlierIsOfTheLineage ==
  ASSUME TracesOK, AncestryOK
  PROVE  \A g \in 0..LastCycle : \A n \in 0..HistoryCycles : Earlier[g][n] \in Seq(Showable(g))
<1> DEFINE wrong == {g \in 0..LastCycle : ~ \A n \in 0..HistoryCycles : Earlier[g][n] \in Seq(Showable(g))}
<1>0. LastCycle \in Nat /\ HistoryCycles \in Nat
  BY BehaviorAssumption
<1>1. ASSUME NEW g \in 0..LastCycle,
             g \in DOMAIN ancestor => ancestor[g] \notin wrong,
             NEW n \in 0..HistoryCycles
      PROVE  Earlier[g][n] \in Seq(Showable(g))
  <2> DEFINE left == IF CasesOf(g) = <<>> THEN n ELSE n - 1
  <2>1. Earlier[g][n] = IF n = 0 THEN <<>>
                        ELSE IF g \in DOMAIN ancestor THEN Earlier[ancestor[g]][left] \o CasesOf(g)
                        ELSE CasesOf(g)
    BY EarlierTells DEF Telling
  <2>2. CasesOf(g) \in Seq(Showable(g))
    BY OwnCasesShow
  <2>3. CASE n # 0 /\ g \in DOMAIN ancestor
    <3>1. left \in 0..HistoryCycles /\ ancestor[g] \in 0..LastCycle
      BY <1>0, <2>3 DEF AncestryOK
    <3> HIDE DEF left
    <3>2. Earlier[ancestor[g]][left] \in Seq(Showable(ancestor[g]))
      BY <1>1, <2>3, <3>1
    <3>3. Showable(ancestor[g]) \subseteq Showable(g)
      BY <2>3, LineageGrows DEF Showable
    <3>4. Earlier[ancestor[g]][left] \in Seq(Showable(g))
      BY <3>2, <3>3, SeqMonotonic
    <3> QED
      BY <2>1, <2>2, <2>3, <3>4, ConcatProperties
  <2>4. CASE n = 0
    BY <2>1, <2>4
  <2>5. CASE n # 0 /\ g \notin DOMAIN ancestor
    BY <2>1, <2>2, <2>5
  <2> QED
    BY <2>3, <2>4, <2>5
<1>2. wrong = {}
  <2>1. wrong \in SUBSET Nat
    OBVIOUS
  <2>2. SUFFICES ASSUME wrong # {} PROVE FALSE
    OBVIOUS
  <2>3. PICK g \in wrong : \A h \in wrong : g <= h
    <3> HIDE DEF wrong
    <3> QED
      BY <2>1, <2>2, LeastOf
  <2>4. g \in 0..LastCycle
    OBVIOUS
  <2>5. g \in DOMAIN ancestor => ancestor[g] \notin wrong
    <3>1. g \in DOMAIN ancestor => ancestor[g] \in 0..(g - 1) /\ ~(g <= ancestor[g])
      BY <1>0, <2>4 DEF AncestryOK
    <3> HIDE DEF wrong
    <3> QED
      BY <2>3, <3>1
  <2>6. \A n \in 0..HistoryCycles : Earlier[g][n] \in Seq(Showable(g))
    <3> HIDE DEF wrong
    <3> QED
      BY <1>1, <2>4, <2>5
  <2> QED
    BY <2>3, <2>6
<1> QED
  BY <1>2

(* What the judge may be asked about: cases of this try or of the lineage. *)
Shown(c) ==
  OfItsLastTry(c) /\ c.run \in {cycle} \cup LineageOf(origin)

(* The window of the judge holds nothing else (_trajectory_only_cases). *)
LEMMA WindowIsShown ==
  ASSUME TracesOK, AncestryOK, cycle \in 1..LastCycle, origin \in 0..LastCycle
  PROVE  \A i \in DOMAIN Window : Shown(Window[i])
<1> DEFINE all == Showable(origin) \cup ToSet(CasesOf(cycle))
           told == Earlier[origin][HistoryCycles - 1] \o CasesOf(cycle)
           from == IF Len(told) > MaxObservations THEN Len(told) - MaxObservations + 1 ELSE 1
<1>0. HistoryCycles - 1 \in 0..HistoryCycles /\ MaxObservations \in Nat
  BY BehaviorAssumption
<1>1. Earlier[origin][HistoryCycles - 1] \in Seq(Showable(origin))
  BY <1>0, EarlierIsOfTheLineage
<1>2. CasesOf(cycle) \in Seq(ToSet(CasesOf(cycle)))
  BY DEF CasesOf, TracesOK
<1>3. told \in Seq(all)
  <2>1. Earlier[origin][HistoryCycles - 1] \in Seq(all) /\ CasesOf(cycle) \in Seq(all)
    BY <1>1, <1>2, SeqMonotonic
  <2> QED
    BY <2>1, ConcatProperties
<1> HIDE DEF told
<1>4. Window \in Seq(all)
  <2>1. from \in 1..(Len(told) + 1) /\ Len(told) \in (from - 1)..Len(told)
    BY <1>0, <1>3
  <2>2. Window = SubSeq(told, from, Len(told))
    BY DEF Window, NewestOf, told
  <2> HIDE DEF from
  <2> QED
    BY <1>3, <2>1, <2>2, SubSeqProperties
<1>5. \A c \in all : Shown(c)
  <2>1. \A c \in ToSet(CasesOf(cycle)) : c.run = cycle
    BY DEF CasesOf, TracesOK
  <2>2. \A c \in ToSet(CasesOf(cycle)) : OfItsLastTry(c)
    BY <2>1 DEF OfItsLastTry, ToSet
  <2> QED
    BY <2>1, <2>2 DEF Shown, Showable
<1> HIDE DEF all
<1> QED
  BY <1>4, <1>5

(* Lines that trajectory_only may put into a prompt. *)
Behaves(told) ==
  \A line \in ToSet(told) :
    /\ line.fields \subseteq Behavior
    /\ line.verdict \in {Unmade, line.case}
    /\ Shown(line.case)

CycleOK ==
  /\ cycle \in 1..(LastCycle + 1)
  /\ cycleStep # "select" => cycle \in 1..LastCycle /\ origin \in Committed_
  /\ \A g \in DOMAIN ancestor : g \in 1..(cycle - 1) /\ ancestor[g] \in 0..(g - 1)
  /\ TracesOK

(* The trajectories that the judge is asked about, its verdicts, the evidence   *)
(* and the bundle, each while it is what the next stage reads.              *)
StagesOK ==
  /\ cycleStep = "judge" =>
       /\ DOMAIN verdicts = DOMAIN window
       /\ \A i \in DOMAIN window : /\ verdicts[i] \in {Unmade, window[i]}
                                   /\ analyzer = "trajectory_only" => Shown(window[i])
  /\ cycleStep \in {"bundle", "prompt"} =>
       /\ evidence.operator = analyzer
       /\ analyzer = "trajectory_only" => Behaves(evidence.selected)
  /\ cycleStep = "prompt" => bundle.selected = evidence.selected
  /\ prompt # Unmade => cycleStep = "mutate"

BehaviorInv == CycleOK /\ StagesOK /\ JudgedByBehavior

(* Within a try nothing changes that decides what may be shown. *)
LEMMA ShownStays ==
  ASSUME UNCHANGED <<cycle, origin, ancestor, traces>>
  PROVE  /\ \A c : Shown(c)' = Shown(c)
         /\ \A told : Behaves(told)' = Behaves(told)
<1>1. \A c : OfItsLastTry(c)' = OfItsLastTry(c)
  BY DEF OfItsLastTry, CasesOf
<1>2. LineageOf(origin)' = LineageOf(origin)
  BY DEF LineageOf
<1>3. \A c : Shown(c)' = Shown(c)
  BY <1>1, <1>2 DEF Shown
<1> QED
  BY <1>3 DEF Behaves

(* The stages of a try leave the archive and the cases alone. *)
LEMMA CycleStays ==
  ASSUME CycleOK, UNCHANGED <<cycle, origin, ancestor, traces>>, cycleStep # "select"
  PROVE  CycleOK'
  BY DEF CycleOK, TracesOK, Committed_

(* Without a prompt nothing is told. *)
LEMMA NoPrompt ==
  ASSUME prompt' = Unmade
  PROVE  JudgedByBehavior'
  BY DEF JudgedByBehavior

(* The lines that are written beside the verdicts of their own records. *)
LEMMA LinesBehave ==
  ASSUME NEW records, NEW given, DOMAIN given = DOMAIN records,
         \A i \in DOMAIN records : given[i] \in {Unmade, records[i]} /\ Shown(records[i])
  PROVE  Behaves(Attach(Told(records, TrajectoryRecord), given))
<1> DEFINE told == Attach(Told(records, TrajectoryRecord), given)
<1>1. told = [i \in DOMAIN records |->
                 [case |-> records[i], fields |-> TrajectoryRecord(records[i]), verdict |-> given[i]]]
  BY DEF Attach, Told, Tells
<1>2. \A c : TrajectoryRecord(c) \subseteq Behavior
  BY DEF TrajectoryRecord, Signals, BehaviorEvents, FinalResponse, Compressed, Behavior
<1> HIDE DEF told
<1>3. ASSUME NEW i \in DOMAIN records
      PROVE  /\ told[i].fields \subseteq Behavior /\ told[i].verdict \in {Unmade, told[i].case}
             /\ Shown(told[i].case)
  BY <1>1, <1>2
<1>4. ToSet(told) = {told[i] : i \in DOMAIN records}
  BY <1>1 DEF ToSet
<1> QED
  BY <1>3, <1>4 DEF Behaves, told

(* A rollout replaces the cases of its own generation only. *)
LEMMA RollOutKeepsBehavior ==
  ASSUME BehaviorInv, RollOutBatch
  PROVE  BehaviorInv'
<1>1. PICK o \in BatchOutcomes :
        traces' = [traces EXCEPT ![cycle] =
                     [i \in DOMAIN o |-> [run |-> cycle, try |-> reruns, task |-> i, outcome |-> o[i]]]]
  BY DEF RollOutBatch
<1> DEFINE batch == [i \in DOMAIN o |-> [run |-> cycle, try |-> reruns, task |-> i, outcome |-> o[i]]]
<1>2. /\ cycleStep = "rollout" /\ cycleStep' = "analyze" /\ prompt' = prompt
      /\ UNCHANGED <<cycle, origin, ancestor, analyzer>>
      /\ prompt = Unmade /\ cycle \in 1..LastCycle
  BY DEF RollOutBatch, inTry, BehaviorInv, StagesOK, CycleOK
<1>3. batch \in Seq(ToSet(batch)) /\ \A c \in ToSet(batch) : c.run = cycle
  <2>1. PICK n \in Nat : DOMAIN o = 1..n
    BY BehaviorAssumption
  <2>2. batch \in [1..n -> ToSet(batch)]
    BY <2>1 DEF ToSet
  <2>3. batch \in Seq(ToSet(batch))
    <3> HIDE DEF batch
    <3> QED
      BY <2>2, SeqDef
  <2>4. \A c \in ToSet(batch) : c.run = cycle
    BY DEF ToSet
  <2> QED
    BY <2>3, <2>4
<1> HIDE DEF batch
<1>4. traces' = [traces EXCEPT ![cycle] = batch]
  BY <1>1 DEF batch
<1>5. TracesOK'
  <2>1. TracesOK
    BY DEF BehaviorInv, CycleOK
  <2>2. DOMAIN traces' = 1..LastCycle /\ traces'[cycle] = batch
        /\ \A g \in 1..LastCycle : g # cycle => traces'[g] = traces[g]
    BY <1>2, <1>4, <2>1 DEF TracesOK
  <2> QED
    BY <1>3, <2>1, <2>2 DEF TracesOK
<1>6. CycleOK'
  BY <1>2, <1>5 DEF BehaviorInv, CycleOK, Committed_
<1>7. StagesOK'
  BY <1>2 DEF StagesOK
<1> QED
  BY <1>2, <1>6, <1>7, NoPrompt DEF BehaviorInv

(* The judge is asked about cases that may be shown. *)
LEMMA AnalysisKeepsBehavior ==
  ASSUME BehaviorInv, StartAnalysis
  PROVE  BehaviorInv'
<1>1. /\ cycleStep = "analyze" /\ cycleStep' = "judge" /\ prompt' = prompt /\ prompt = Unmade
      /\ UNCHANGED <<cycle, origin, ancestor, analyzer, traces>>
      /\ DOMAIN verdicts' = DOMAIN window' /\ \A i \in DOMAIN window' : verdicts'[i] = Unmade
      /\ analyzer = "trajectory_only" => window' = Window
  BY DEF StartAnalysis, inTry, BehaviorInv, StagesOK
<1>2. TracesOK /\ AncestryOK /\ cycle \in 1..LastCycle /\ origin \in 0..LastCycle
  BY <1>1, BehaviorAssumption DEF BehaviorInv, CycleOK, AncestryOK, Committed_
<1>3. \A i \in DOMAIN Window : Shown(Window[i])
  BY <1>2, WindowIsShown
<1>4. StagesOK'
  <2>1. \A c : Shown(c)' = Shown(c)
    BY <1>1, ShownStays
  <2>2. analyzer' = "trajectory_only" => \A i \in DOMAIN window' : Shown(window'[i])
    BY <1>1, <1>3
  <2>3. analyzer' = "trajectory_only" => \A i \in DOMAIN window' : Shown(window[i])'
    BY <1>1, <2>2, ShownStays DEF Shown, OfItsLastTry, CasesOf, LineageOf
  <2> QED
    BY <1>1, <2>3 DEF StagesOK
<1> QED
  BY <1>1, <1>4, CycleStays, NoPrompt DEF BehaviorInv

(* An answer, in whatever order, is kept beside its own trajectory. *)
LEMMA JudgeKeepsBehavior ==
  ASSUME BehaviorInv, NEW i \in DOMAIN asking, AskJudge(i) \/ JudgeAnswers(i) \/ JudgeErrs(i)
  PROVE  BehaviorInv'
<1>1. /\ cycleStep = "judge" /\ cycleStep' = cycleStep /\ prompt' = prompt /\ prompt = Unmade
      /\ UNCHANGED <<cycle, origin, ancestor, analyzer, traces, window>>
      /\ verdicts' = verdicts \/ verdicts' = [verdicts EXCEPT ![i] = window[i]]
  BY DEF AskJudge, JudgeAnswers, JudgeErrs, inTry, BehaviorInv, StagesOK
<1>2. /\ DOMAIN verdicts = DOMAIN window
      /\ \A j \in DOMAIN window : /\ verdicts[j] \in {Unmade, window[j]}
                                  /\ analyzer = "trajectory_only" => Shown(window[j])
  BY <1>1 DEF BehaviorInv, StagesOK
<1>3. DOMAIN verdicts' = DOMAIN window /\ \A j \in DOMAIN window : verdicts'[j] \in {Unmade, window[j]}
  <2>1. CASE verdicts' = verdicts
    BY <1>2, <2>1
  <2>2. CASE verdicts' = [verdicts EXCEPT ![i] = window[i]]
    BY <1>2, <2>2
  <2> QED
    BY <1>1, <2>1, <2>2
<1>4. \A j \in DOMAIN window' : analyzer' = "trajectory_only" => Shown(window[j])'
  BY <1>1, <1>2 DEF Shown, OfItsLastTry, CasesOf, LineageOf
<1>5. StagesOK'
  BY <1>1, <1>3, <1>4 DEF StagesOK
<1> QED
  BY <1>1, <1>5, CycleStays, NoPrompt DEF BehaviorInv

(* The evidence of trajectory_only is of lines that behave. *)
LEMMA EvidenceKeepsBehavior ==
  ASSUME BehaviorInv, WriteEvidence
  PROVE  BehaviorInv'
<1>1. /\ cycleStep = "judge" /\ cycleStep' = "bundle" /\ prompt' = prompt /\ prompt = Unmade
      /\ UNCHANGED <<cycle, origin, ancestor, analyzer, traces>>
      /\ evidence' = Evidence(window, verdicts)
  BY DEF WriteEvidence, inTry, BehaviorInv, StagesOK
<1>2. /\ DOMAIN verdicts = DOMAIN window
      /\ \A i \in DOMAIN window : /\ verdicts[i] \in {Unmade, window[i]}
                                  /\ analyzer = "trajectory_only" => Shown(window[i])
  BY <1>1 DEF BehaviorInv, StagesOK
<1>3. evidence'.operator = analyzer
  BY <1>1 DEF Evidence
<1>4. ASSUME analyzer = "trajectory_only" PROVE Behaves(evidence'.selected)
  <2>1. evidence'.selected = Attach(Told(window, TrajectoryRecord), verdicts)
    BY <1>1, <1>4 DEF Evidence, Selected, Made
  <2>2. Behaves(Attach(Told(window, TrajectoryRecord), verdicts))
    <3>1. \A i \in DOMAIN window : verdicts[i] \in {Unmade, window[i]} /\ Shown(window[i])
      BY <1>2, <1>4
    <3> QED
      BY <1>2, <3>1, LinesBehave
  <2> QED
    BY <2>1, <2>2
<1>5. StagesOK'
  <2>1. analyzer' = "trajectory_only" => Behaves(evidence.selected)'
    BY <1>1, <1>4, ShownStays DEF Behaves, Shown, OfItsLastTry, CasesOf, LineageOf
  <2> QED
    BY <1>1, <1>3, <2>1 DEF StagesOK
<1> QED
  BY <1>1, <1>5, CycleStays, NoPrompt DEF BehaviorInv

(* The bundle and the prompt take the evidence as it is. *)
LEMMA PromptKeepsBehavior ==
  ASSUME BehaviorInv, WriteBundle \/ BuildPrompt
  PROVE  BehaviorInv'
<1>1. CASE WriteBundle
  <2>1. /\ cycleStep = "bundle" /\ cycleStep' = "prompt" /\ prompt' = prompt /\ prompt = Unmade
        /\ UNCHANGED <<cycle, origin, ancestor, analyzer, traces, evidence>>
        /\ bundle'.selected = evidence.selected
    BY <1>1 DEF WriteBundle, inTry, BehaviorInv, StagesOK
  <2>2. StagesOK'
    BY <2>1, ShownStays DEF BehaviorInv, StagesOK
  <2> QED
    BY <2>1, <2>2, CycleStays, NoPrompt DEF BehaviorInv
<1>2. CASE BuildPrompt
  <2>1. /\ cycleStep = "prompt" /\ cycleStep' = "mutate"
        /\ UNCHANGED <<cycle, origin, ancestor, analyzer, traces, evidence>>
        /\ evidence.operator = analyzer /\ bundle.selected = evidence.selected
    BY <1>2 DEF BuildPrompt, inTry, BehaviorInv, StagesOK
  <2>2. StagesOK'
    BY <2>1 DEF StagesOK
  <2>3. JudgedByBehavior'
    <3>1. SUFFICES ASSUME analyzer = "trajectory_only"
                   PROVE  JudgedByBehavior'
      BY <2>1 DEF JudgedByBehavior
    <3>2. prompt' = [rows |-> {}, lines |-> evidence.selected]
      BY <1>2, <2>1, <3>1 DEF BuildPrompt
    <3>3. prompt'.rows = {} /\ prompt'.lines = evidence.selected
      BY <3>2
    <3>4. Behaves(evidence.selected)'
      BY <2>1, <3>1, ShownStays DEF BehaviorInv, StagesOK
    <3> QED
      BY <2>1, <3>3, <3>4 DEF JudgedByBehavior, Behaves, Shown
  <2> QED
    BY <2>1, <2>2, <2>3, CycleStays DEF BehaviorInv
<1> QED
  BY <1>1, <1>2

(* A generation that begins, ends or is cut off has no prompt. *)
LEMMA CyclesKeepBehavior ==
  ASSUME BehaviorInv, SelectOrigin \/ EndCycle(TRUE) \/ EndCycle(FALSE) \/ CutShort
  PROVE  BehaviorInv'
<1>0. LastCycle \in Nat
  BY BehaviorAssumption
<1>1. prompt' = Unmade
  BY DEF SelectOrigin, EndCycle, CutShort, StageEnds, BehaviorInv, StagesOK
<1>2. cycleStep' \in {"select", "rollout"} /\ traces' = traces
  BY DEF SelectOrigin, EndCycle, CutShort
<1>3. StagesOK'
  BY <1>1, <1>2 DEF StagesOK
<1>4. CASE SelectOrigin
  <2>1. CycleOK'
    BY <1>0, <1>4 DEF SelectOrigin, BehaviorInv, CycleOK, TracesOK, Committed_
  <2> QED
    BY <1>1, <1>3, <2>1, NoPrompt DEF BehaviorInv
<1>5. CASE CutShort
  <2>1. CycleOK'
    BY <1>0, <1>5 DEF CutShort, BehaviorInv, CycleOK, TracesOK, Committed_
  <2> QED
    BY <1>1, <1>3, <2>1, NoPrompt DEF BehaviorInv
<1>6. CASE \E kept \in BOOLEAN : EndCycle(kept)
  <2>1. PICK kept \in BOOLEAN : EndCycle(kept)
    BY <1>6
  <2>2. /\ cycleStep # "select" /\ cycle' = cycle + 1 /\ cycleStep' = "select"
        /\ cycle \in 1..LastCycle /\ origin \in 0..(cycle - 1)
    BY <1>0, <2>1 DEF EndCycle, BehaviorInv, CycleOK, Committed_
  <2>3. \/ ancestor' = ancestor
        \/ /\ DOMAIN ancestor' = DOMAIN ancestor \cup {cycle} /\ ancestor'[cycle] = origin
           /\ \A g \in DOMAIN ancestor : g # cycle => ancestor'[g] = ancestor[g]
    BY <2>1 DEF EndCycle
  <2>4. \A g \in DOMAIN ancestor' : g \in 1..(cycle' - 1) /\ ancestor'[g] \in 0..(g - 1)
    BY <1>0, <2>2, <2>3 DEF BehaviorInv, CycleOK
  <2>5. CycleOK'
    BY <1>0, <1>2, <2>2, <2>4 DEF BehaviorInv, CycleOK, TracesOK
  <2> QED
    BY <1>1, <1>3, <2>5, NoPrompt DEF BehaviorInv
<1> QED
  BY <1>4, <1>5, <1>6

(* Before generation 1 there is no case and no prompt. *)
LEMMA BehaviorStarts == BehaviorInit => BehaviorInv
<1> SUFFICES ASSUME BehaviorInit PROVE BehaviorInv
  OBVIOUS
<1>1. TracesOK
  BY DEF BehaviorInit, TracesOK, ToSet
<1>2. CycleOK
  BY <1>1, BehaviorAssumption DEF BehaviorInit, CycleOK
<1> QED
  BY <1>2 DEF BehaviorInit, BehaviorInv, StagesOK, JudgedByBehavior

(* Every step of a cycle keeps the invariant. *)
LEMMA BehaviorKept ==
  ASSUME BehaviorInv, [BehaviorNext]_behaviorVars
  PROVE  BehaviorInv'
<1>1. CASE UNCHANGED behaviorVars
  BY <1>1 DEF behaviorVars, BehaviorInv, CycleOK, TracesOK, Committed_, StagesOK, JudgedByBehavior,
     Behaves, Shown, OfItsLastTry, CasesOf, LineageOf
<1> QED
  BY <1>1, RollOutKeepsBehavior, AnalysisKeepsBehavior, JudgeKeepsBehavior, EvidenceKeepsBehavior,
     PromptKeepsBehavior, CyclesKeepBehavior DEF BehaviorNext

(* For every number of tasks, generations, reruns, judges and attempts and every *)
(* length of history, the prompt that trajectory_only leads to tells behaviour  *)
(* of this try and of the lineage of its parent, with guesses about it beside   *)
(* it, and nothing else (trace_analysis.py, feedback.py, aevolve.py).           *)
THEOREM PromptsShowBehavior == BehaviorSpec => []JudgedByBehavior
<1>1. BehaviorInv => JudgedByBehavior
  BY DEF BehaviorInv
<1> QED
  BY <1>1, BehaviorStarts, BehaviorKept, PTL DEF BehaviorSpec

------------------------------------------------------------------------------
(* ArchiveStore, the history: what is picked from a text, and in which order.  *)

(* kept is the lines of text at places, the a-th at pos[a].                  *)
IsPick(kept, text, places, pos) ==
    /\ pos \in [1..Len(kept) -> places]
    /\ \A a, b \in 1..Len(kept) : a < b => pos[a] < pos[b]
    /\ \A i \in places : \E a \in 1..Len(kept) : pos[a] = i
    /\ \A a \in 1..Len(kept) : kept[a] = text[pos[a]]

(* What LinesAt has picked up to n, given what it had before.                *)
Picked(f, text, places, n) ==
    IF n = 0 THEN <<>>
    ELSE IF n \in places THEN Append(f[n - 1], text[n])
    ELSE f[n - 1]

PicksUpTo(f, text, places, top) ==
    /\ DOMAIN f = 0..top
    /\ \A n \in 0..top : f[n] = Picked(f, text, places, n)

(* There is a function that picks along the text. *)
LEMMA PickExists ==
    ASSUME NEW text, NEW places, Len(text) \in Nat
    PROVE  \E f : f = [n \in 0..Len(text) |-> Picked(f, text, places, n)]
<1> DEFINE without == {n \in 0..Len(text) : ~ \E f : PicksUpTo(f, text, places, n)}
<1>1. ASSUME NEW n \in 0..Len(text), n \in without, \A m \in without : n <= m PROVE FALSE
  <2>1. PICK f : \A m \in 0..(n - 1) : f[m] = Picked(f, text, places, m)
    <3>1. CASE n = 0
      BY <3>1
    <3>2. CASE n # 0
      <4>1. n - 1 \in 0..Len(text) /\ ~(n <= n - 1)
        BY <3>2
      <4>2. n - 1 \notin without
        <5> HIDE DEF without
        <5> QED
          BY <1>1, <4>1
      <4>3. PICK f : PicksUpTo(f, text, places, n - 1)
        BY <4>1, <4>2
      <4> QED
        BY <4>3 DEF PicksUpTo
    <3> QED
      BY <3>1, <3>2
  <2> DEFINE h == [m \in 0..n |-> IF m = n THEN Picked(f, text, places, n) ELSE f[m]]
  <2>2. \A m \in 0..(n - 1) : h[m] = f[m]
    OBVIOUS
  <2>3. h[n] = Picked(f, text, places, n) /\ DOMAIN h = 0..n
    OBVIOUS
  <2> HIDE DEF h
  <2>4. ASSUME NEW m \in 0..n PROVE Picked(h, text, places, m) = Picked(f, text, places, m)
    <3>1. m # 0 => h[m - 1] = f[m - 1]
      BY <2>2
    <3> QED
      BY <3>1 DEF Picked
  <2>5. \A m \in 0..n : h[m] = Picked(h, text, places, m)
    <3> TAKE m \in 0..n
    <3>1. m = n \/ m \in 0..(n - 1)
      OBVIOUS
    <3> QED
      BY <2>1, <2>2, <2>3, <2>4, <3>1
  <2>6. PicksUpTo(h, text, places, n)
    BY <2>3, <2>5 DEF PicksUpTo
  <2> QED
    BY <1>1, <2>6
<1>2. without = {}
  <2>1. without \in SUBSET Nat
    OBVIOUS
  <2> HIDE DEF without
  <2>2. SUFFICES ASSUME without # {} PROVE FALSE
    OBVIOUS
  <2>3. PICK n \in without : \A m \in without : n <= m
    BY <2>1, <2>2, LeastOf
  <2>4. n \in 0..Len(text)
    BY DEF without
  <2> QED
    BY <1>1, <2>3, <2>4
<1>3. PICK f : PicksUpTo(f, text, places, Len(text))
  BY <1>2
<1> SUFFICES \E e : e = [n \in 0..Len(text) |-> Picked(e, text, places, n)]
  OBVIOUS
<1> DEFINE e == [n \in 0..Len(text) |-> f[n]]
<1>4. \A n \in 0..Len(text) : Picked(e, text, places, n) = Picked(f, text, places, n)
  <2> TAKE n \in 0..Len(text)
  <2>1. n # 0 => e[n - 1] = f[n - 1]
    OBVIOUS
  <2> HIDE DEF e
  <2> QED
    BY <2>1 DEF Picked
<1>5. e = [n \in 0..Len(text) |-> Picked(e, text, places, n)]
  <2>1. \A n \in 0..Len(text) : e[n] = Picked(e, text, places, n)
    BY <1>3, <1>4 DEF PicksUpTo
  <2>2. DOMAIN e = 0..Len(text) /\ e = [n \in 0..Len(text) |-> e[n]]
    OBVIOUS
  <2> HIDE DEF e
  <2> QED
    BY <2>1, <2>2
<1> QED
  BY <1>5

(* LinesAt is what that function has at the end. *)
LEMMA LinesAtPicks ==
    ASSUME NEW text, NEW places, Len(text) \in Nat
    PROVE  \E f : /\ \A n \in 0..Len(text) : f[n] = Picked(f, text, places, n)
                  /\ LinesAt(text, places) = f[Len(text)]
<1> DEFINE Is(f) == f = [n \in 0..Len(text) |-> Picked(f, text, places, n)]
           upTo == CHOOSE f : Is(f)
<1>1. \E f : Is(f)
  BY PickExists
<1>2. Is(upTo)
  <2> HIDE DEF Is
  <2> QED
    BY <1>1
<1>3. LinesAt(text, places) = upTo[Len(text)]
  BY DEF LinesAt, Picked
<1> HIDE DEF upTo
<1>4. \A n \in 0..Len(text) : upTo[n] = Picked(upTo, text, places, n)
  BY <1>2
<1> QED
  BY <1>3, <1>4

(* One more place: its line comes last. *)
LEMMA PickGrows ==
    ASSUME NEW X, NEW kept \in Seq(X), NEW text, NEW places \in SUBSET Nat, NEW pos,
           IsPick(kept, text, places, pos),
           NEW n \in Nat, \A i \in places : i < n, text[n] \in X
    PROVE  /\ Append(kept, text[n]) \in Seq(X)
           /\ \E q : IsPick(Append(kept, text[n]), text, places \cup {n}, q)
<1> DEFINE more == Append(kept, text[n])
           q == [a \in 1..(Len(kept) + 1) |-> IF a \in 1..Len(kept) THEN pos[a] ELSE n]
<1>1. /\ more \in Seq(X) /\ Len(kept) \in Nat /\ Len(more) = Len(kept) + 1
      /\ more[Len(kept) + 1] = text[n] /\ \A a \in 1..Len(kept) : more[a] = kept[a]
  OBVIOUS
<1> HIDE DEF more
<1>2. \A a \in 1..Len(kept) : pos[a] \in places
  BY DEF IsPick
<1>3. /\ q \in [1..Len(more) -> places \cup {n}] /\ q[Len(kept) + 1] = n
      /\ \A a \in 1..Len(kept) : q[a] = pos[a]
  BY <1>1, <1>2
<1> HIDE DEF q
<1>4. \A a \in 1..Len(more) : a \in 1..Len(kept) \/ a = Len(kept) + 1
  BY <1>1
<1>5. \A a, b \in 1..Len(more) : a < b => q[a] < q[b]
  <2> TAKE a, b \in 1..Len(more)
  <2> HAVE a < b
  <2>1. a \in 1..Len(kept)
    BY <1>1
  <2>2. CASE b \in 1..Len(kept)
    BY <1>3, <2>1, <2>2 DEF IsPick
  <2>3. CASE b = Len(kept) + 1
    BY <1>2, <1>3, <2>1, <2>3
  <2> QED
    BY <1>4, <2>2, <2>3
<1>6. \A i \in places \cup {n} : \E a \in 1..Len(more) : q[a] = i
  <2> TAKE i \in places \cup {n}
  <2>1. CASE i = n
    BY <1>1, <1>3, <2>1
  <2>2. CASE i \in places
    <3>1. PICK a \in 1..Len(kept) : pos[a] = i
      BY <2>2 DEF IsPick
    <3> QED
      BY <1>1, <1>3, <3>1
  <2> QED
    BY <2>1, <2>2
<1>7. \A a \in 1..Len(more) : more[a] = text[q[a]]
  BY <1>1, <1>3, <1>4 DEF IsPick
<1>8. IsPick(more, text, places \cup {n}, q)
  BY <1>3, <1>5, <1>6, <1>7 DEF IsPick
<1> QED
  BY <1>1, <1>8 DEF more

(* LinesAt has the lines at the places, once each, in the order of the text. *)
LEMMA LinesAtAre ==
    ASSUME NEW X, NEW text \in Seq(X), NEW places \in SUBSET (DOMAIN text)
    PROVE  /\ LinesAt(text, places) \in Seq(X)
           /\ \E pos : IsPick(LinesAt(text, places), text, places, pos)
<1>0. Len(text) \in Nat /\ DOMAIN text = 1..Len(text)
  OBVIOUS
<1>1. PICK f : /\ \A n \in 0..Len(text) : f[n] = Picked(f, text, places, n)
               /\ LinesAt(text, places) = f[Len(text)]
  BY <1>0, LinesAtPicks
<1> DEFINE Good(n) == /\ f[n] \in Seq(X)
                      /\ \E pos : IsPick(f[n], text, places \cap 1..n, pos)
           wrong == {n \in 0..Len(text) : ~Good(n)}
<1>2. ASSUME NEW n \in 0..Len(text), n \in wrong, \A m \in wrong : n <= m PROVE FALSE
  <2>1. CASE n = 0
    <3>1. f[n] = <<>> /\ places \cap 1..n = {}
      BY <1>0, <1>1, <2>1 DEF Picked
    <3>2. IsPick(<<>>, text, {}, <<>>)
      BY DEF IsPick
    <3>3. f[n] \in Seq(X) /\ IsPick(f[n], text, places \cap 1..n, <<>>)
      <4>1. <<>> \in Seq(X)
        OBVIOUS
      <4> QED
        BY <3>1, <3>2, <4>1, Zenon
    <3>4. Good(n)
      BY <3>3
    <3> HIDE DEF Good
    <3> QED
      BY <1>2, <3>4
  <2>2. CASE n # 0
    <3>1. n - 1 \in 0..Len(text) /\ ~(n <= n - 1) /\ n \in 1..Len(text)
      BY <1>0, <2>2
    <3>2. n - 1 \notin wrong
      <4> HIDE DEF wrong
      <4> QED
        BY <1>2, <3>1
    <3>3. Good(n - 1)
      BY <3>1, <3>2
    <3>4. PICK pos : IsPick(f[n - 1], text, places \cap 1..(n - 1), pos)
      BY <3>3
    <3>5. CASE n \in places
      <4>1. f[n] = Append(f[n - 1], text[n])
        BY <1>1, <2>2, <3>5 DEF Picked
      <4>2. places \cap 1..n = (places \cap 1..(n - 1)) \cup {n}
        BY <3>1, <3>5
      <4>3. /\ places \cap 1..(n - 1) \in SUBSET Nat /\ text[n] \in X /\ n \in Nat
            /\ \A i \in places \cap 1..(n - 1) : i < n
        BY <3>1
      <4>4. f[n - 1] \in Seq(X)
        BY <3>3
      <4>5. /\ Append(f[n - 1], text[n]) \in Seq(X)
            /\ \E q : IsPick(Append(f[n - 1], text[n]), text, (places \cap 1..(n - 1)) \cup {n}, q)
        <5> HIDE DEF Good, wrong
        <5> QED
          BY <3>4, <4>3, <4>4, PickGrows
      <4> QED
        BY <1>2, <4>1, <4>2, <4>5
    <3>6. CASE n \notin places
      <4>1. f[n] = f[n - 1]
        BY <1>1, <2>2, <3>6 DEF Picked
      <4>2. places \cap 1..n = places \cap 1..(n - 1)
        BY <3>1, <3>6
      <4> QED
        BY <1>2, <3>3, <4>1, <4>2
    <3> QED
      BY <3>5, <3>6
  <2> QED
    BY <2>1, <2>2
<1>3. wrong = {}
  <2>1. wrong \in SUBSET Nat
    OBVIOUS
  <2>2. \A n \in wrong : n \in 0..Len(text)
    OBVIOUS
  <2> HIDE DEF wrong
  <2>3. SUFFICES ASSUME wrong # {} PROVE FALSE
    OBVIOUS
  <2>4. PICK n \in wrong : \A m \in wrong : n <= m
    BY <2>1, <2>3, LeastOf
  <2> QED
    BY <1>2, <2>2, <2>4
<1>4. Good(Len(text))
  <2>1. Len(text) \in 0..Len(text)
    BY <1>0
  <2> HIDE DEF Good
  <2> QED
    BY <1>3, <2>1
<1>5. places \cap 1..Len(text) = places
  BY <1>0
<1> QED
  BY <1>1, <1>4, <1>5

(* Two lists of the lines at the same places are the same.                   *)
LEMMA PicksAgree ==
    ASSUME NEW text, NEW places \in SUBSET Nat,
           NEW X, NEW one \in Seq(X), NEW other \in Seq(X), NEW p, NEW q,
           IsPick(one, text, places, p), IsPick(other, text, places, q)
    PROVE  \A a \in 1..Len(one) : a \in 1..Len(other) /\ p[a] = q[a]
<1> DEFINE wrong == {a \in 1..Len(one) : ~(a \in 1..Len(other) /\ p[a] = q[a])}
<1>0. Len(one) \in Nat /\ Len(other) \in Nat
  OBVIOUS
<1>1. ASSUME NEW a \in 1..Len(one), a \in wrong, \A b \in wrong : a <= b PROVE FALSE
  <2>1. \A b \in 1..Len(one) : b < a => b \in 1..Len(other) /\ p[b] = q[b]
    <3> TAKE b \in 1..Len(one)
    <3> HAVE b < a
    <3>1. ~(a <= b)
      BY <1>0
    <3>2. b \notin wrong
      <4> HIDE DEF wrong
      <4> QED
        BY <1>1, <3>1
    <3> QED
      BY <3>2
  <2>2. p[a] \in places /\ p[a] \in Nat
    BY DEF IsPick
  <2>3. PICK b \in 1..Len(other) : q[b] = p[a]
    BY <2>2 DEF IsPick
  <2>4. ~(b < a)
    <3>1. SUFFICES ASSUME b < a PROVE FALSE
      OBVIOUS
    <3>2. b \in 1..Len(one) /\ p[b] = q[b]
      BY <1>0, <2>1, <3>1
    <3>3. p[b] < p[a]
      BY <3>1, <3>2 DEF IsPick
    <3> QED
      BY <2>2, <2>3, <3>2, <3>3
  <2>5. a \in 1..Len(other)
    BY <1>0, <2>4
  <2>6. b # a
    BY <1>1, <2>3, <2>5
  <2>7. a < b /\ q[a] \in places /\ q[a] \in Nat
    <3>1. a < b
      BY <1>0, <2>4, <2>6
    <3>2. q[a] \in places
      BY <2>5 DEF IsPick
    <3> QED
      BY <3>1, <3>2
  <2>8. q[a] < p[a]
    BY <2>3, <2>5, <2>7 DEF IsPick
  <2>9. PICK c \in 1..Len(one) : p[c] = q[a]
    BY <2>7 DEF IsPick
  <2>10. c < a
    <3>1. SUFFICES ASSUME ~(c < a) PROVE FALSE
      OBVIOUS
    <3>2. CASE c = a
      BY <2>2, <2>7, <2>8, <2>9, <3>2
    <3>3. CASE a < c
      <4>1. p[a] < p[c]
        BY <3>3 DEF IsPick
      <4> QED
        BY <2>2, <2>7, <2>8, <2>9, <4>1
    <3> QED
      BY <1>0, <3>1, <3>2, <3>3
  <2>11. c \in 1..Len(other) /\ q[c] = q[a]
    BY <2>1, <2>9, <2>10
  <2>12. q[c] < q[a]
    BY <2>5, <2>10, <2>11 DEF IsPick
  <2> QED
    BY <2>7, <2>11, <2>12
<1>2. wrong = {}
  <2>1. wrong \in SUBSET Nat
    OBVIOUS
  <2>2. \A n \in wrong : n \in 1..Len(one)
    OBVIOUS
  <2> HIDE DEF wrong
  <2>3. SUFFICES ASSUME wrong # {} PROVE FALSE
    OBVIOUS
  <2>4. PICK n \in wrong : \A m \in wrong : n <= m
    BY <2>1, <2>3, LeastOf
  <2> QED
    BY <1>1, <2>2, <2>4
<1> QED
  BY <1>2

(* So there is one list of the lines at some places of a text.               *)
LEMMA PickIsUnique ==
    ASSUME NEW text, NEW places \in SUBSET Nat,
           NEW X, NEW one \in Seq(X), NEW other \in Seq(X), NEW p, NEW q,
           IsPick(one, text, places, p), IsPick(other, text, places, q)
    PROVE  one = other
<1>1. \A a \in 1..Len(one) : a \in 1..Len(other) /\ p[a] = q[a]
  BY PicksAgree
<1>2. \A a \in 1..Len(other) : a \in 1..Len(one) /\ q[a] = p[a]
  BY PicksAgree
<1>3. Len(one) = Len(other)
  <2>1. Len(one) \in Nat /\ Len(other) \in Nat
    OBVIOUS
  <2>2. Len(one) > Len(other) => Len(one) \in 1..Len(one) /\ Len(one) \notin 1..Len(other)
    BY <2>1
  <2>3. Len(other) > Len(one) => Len(other) \in 1..Len(other) /\ Len(other) \notin 1..Len(one)
    BY <2>1
  <2> QED
    BY <1>1, <1>2, <2>1, <2>2, <2>3
<1>4. \A a \in 1..Len(one) : one[a] = other[a]
  BY <1>1 DEF IsPick
<1> QED
  BY <1>3, <1>4, SeqEqual

------------------------------------------------------------------------------
(* A text and the history: it holds every line, it has those that it holds in *)
(* their order and once, and it lacks none before one that it holds.          *)

Holds(text, past) == ToSet(past) \subseteq ToSet(text)
InOrder(text, past) ==
    \A i, j \in DOMAIN text :
        i < j /\ text[i] \in ToSet(past) /\ text[j] \in ToSet(past) =>
            \E a, b \in DOMAIN past : a < b /\ past[a] = text[i] /\ past[b] = text[j]
FromStart(text, past) ==
    \A a, b \in DOMAIN past : a < b /\ past[b] \in ToSet(text) => past[a] \in ToSet(text)
Distinct(past) == \A a, b \in DOMAIN past : past[a] = past[b] => a = b

(* A text that holds all lines in order has just them among its lines.       *)
LEMMA HeldInOrder ==
    ASSUME NEW X, NEW text \in Seq(X), NEW past \in Seq(X), Distinct(past),
           Holds(text, past), InOrder(text, past)
    PROVE  LinesAt(text, {i \in DOMAIN text : text[i] \in ToSet(past)}) = past
<1> DEFINE places == {i \in DOMAIN text : text[i] \in ToSet(past)}
           pos == [a \in 1..Len(past) |-> CHOOSE i \in DOMAIN text : text[i] = past[a]]
<1>0. DOMAIN past = 1..Len(past) /\ Len(past) \in Nat /\ DOMAIN text \subseteq Nat
      /\ places \in SUBSET Nat /\ places \in SUBSET (DOMAIN text)
  OBVIOUS
<1>1. \A a \in 1..Len(past) : pos[a] \in DOMAIN text /\ text[pos[a]] = past[a]
  BY <1>0 DEF Holds, ToSet
<1>2. \A i \in places : i \in DOMAIN text /\ \E a \in 1..Len(past) : text[i] = past[a]
  BY <1>0 DEF ToSet
<1>3. \A a \in 1..Len(past) : pos[a] \in places
  BY <1>0, <1>1 DEF ToSet
<1>4. pos \in [1..Len(past) -> places]
  BY <1>3
<1>5. \A i \in places : text[i] \in ToSet(past)
  OBVIOUS
<1> HIDE DEF pos, places
<1>6. \A a, b \in 1..Len(past) : a < b => pos[a] < pos[b]
  <2> TAKE a, b \in 1..Len(past)
  <2> HAVE a < b
  <2>1. pos[a] \in Nat /\ pos[b] \in Nat
    BY <1>0, <1>1
  <2>2. pos[a] # pos[b]
    <3>1. past[a] # past[b]
      BY <1>0 DEF Distinct
    <3> QED
      BY <1>1, <3>1
  <2>3. ~(pos[b] < pos[a])
    <3>1. SUFFICES ASSUME pos[b] < pos[a] PROVE FALSE
      OBVIOUS
    <3>2. PICK c, d \in DOMAIN past : c < d /\ past[c] = past[b] /\ past[d] = past[a]
      BY <1>1, <1>3, <1>5, <3>1 DEF InOrder
    <3>3. c = b /\ d = a
      BY <1>0, <3>2 DEF Distinct
    <3> QED
      BY <1>0, <3>2, <3>3
  <2> QED
    BY <2>1, <2>2, <2>3
<1>7. \A i \in places : \E a \in 1..Len(past) : pos[a] = i
  <2> TAKE i \in places
  <2>1. PICK a \in 1..Len(past) : text[i] = past[a]
    BY <1>2
  <2>2. pos[a] \in DOMAIN text /\ text[pos[a]] = past[a] /\ i \in DOMAIN text
    BY <1>1, <1>2
  <2>3. \A m, n \in DOMAIN text : m < n /\ text[m] = past[a] /\ text[n] = past[a] => FALSE
    <3> TAKE m, n \in DOMAIN text
    <3> HAVE m < n /\ text[m] = past[a] /\ text[n] = past[a]
    <3>1. past[a] \in ToSet(past)
      BY <1>0 DEF ToSet
    <3>2. PICK c, d \in DOMAIN past : c < d /\ past[c] = past[a] /\ past[d] = past[a]
      BY <3>1 DEF InOrder
    <3>3. c = d
      BY <3>2 DEF Distinct
    <3> QED
      BY <1>0, <3>2, <3>3
  <2>4. ~(pos[a] < i) /\ ~(i < pos[a])
    BY <2>1, <2>2, <2>3
  <2>5. pos[a] = i
    BY <1>0, <2>2, <2>4
  <2> QED
    BY <2>5
<1>8. IsPick(past, text, places, pos)
  BY <1>1, <1>4, <1>6, <1>7 DEF IsPick
<1>9. /\ LinesAt(text, places) \in Seq(X)
      /\ \E q : IsPick(LinesAt(text, places), text, places, q)
  BY <1>0, LinesAtAre
<1>10. LinesAt(text, places) = past
  BY <1>0, <1>8, <1>9, PickIsUnique
<1> QED
  BY <1>10 DEF places

(* A place in the second of two texts. *)
LEMMA InOneOfTwo ==
    ASSUME NEW X, NEW first \in Seq(X), NEW second \in Seq(X)
    PROVE  /\ first \o second \in Seq(X)
           /\ ToSet(first \o second) = ToSet(first) \cup ToSet(second)
           /\ \A i \in DOMAIN (first \o second) :
                 \/ i \in DOMAIN first /\ (first \o second)[i] = first[i]
                 \/ /\ ~(i <= Len(first)) /\ i - Len(first) \in DOMAIN second
                    /\ (first \o second)[i] = second[i - Len(first)]
<1> DEFINE both == first \o second
<1>0. /\ both \in Seq(X) /\ Len(first) \in Nat /\ Len(second) \in Nat
      /\ DOMAIN first = 1..Len(first) /\ DOMAIN second = 1..Len(second)
      /\ DOMAIN both = 1..(Len(first) + Len(second))
  OBVIOUS
<1>1. \A i \in 1..(Len(first) + Len(second)) :
         both[i] = IF i <= Len(first) THEN first[i] ELSE second[i - Len(first)]
  OBVIOUS
<1> HIDE DEF both
<1>2. \A i \in DOMAIN both :
         \/ i \in DOMAIN first /\ both[i] = first[i]
         \/ /\ ~(i <= Len(first)) /\ i - Len(first) \in DOMAIN second
            /\ both[i] = second[i - Len(first)]
  BY <1>0, <1>1
<1>3. \A i \in DOMAIN first : i \in DOMAIN both /\ both[i] = first[i]
  BY <1>0, <1>1
<1>4. \A i \in DOMAIN second : i + Len(first) \in DOMAIN both /\ both[i + Len(first)] = second[i]
  <2> TAKE i \in DOMAIN second
  <2>1. i + Len(first) \in 1..(Len(first) + Len(second)) /\ ~(i + Len(first) <= Len(first))
        /\ (i + Len(first)) - Len(first) = i
    BY <1>0
  <2> QED
    BY <1>0, <1>1, <2>1
<1>5. ToSet(both) = ToSet(first) \cup ToSet(second)
  BY <1>2, <1>3, <1>4 DEF ToSet
<1> QED
  BY <1>0, <1>2, <1>5 DEF both

(* Merging the two files loses no line, and neither disturbs the history.    *)
LEMMA MergeKeeps ==
    ASSUME NEW X, NEW first \in Seq(X), NEW second \in Seq(X)
    PROVE  /\ Merge(first, second) \in Seq(X)
           /\ ToSet(Merge(first, second)) = ToSet(first) \cup ToSet(second)
           /\ \A past : (/\ InOrder(first, past) /\ InOrder(second, past)
                         /\ FromStart(first, past)
                         /\ (Holds(first, past) \/ Holds(second, past)))
                        => InOrder(Merge(first, second), past)
<1> DEFINE both == first \o second
           places == NotSeenBefore(both)
           kept == Merge(first, second)
<1>1. /\ both \in Seq(X) /\ ToSet(both) = ToSet(first) \cup ToSet(second)
      /\ \A i \in DOMAIN both :
            \/ i \in DOMAIN first /\ both[i] = first[i]
            \/ /\ ~(i <= Len(first)) /\ i - Len(first) \in DOMAIN second
               /\ both[i] = second[i - Len(first)]
  BY InOneOfTwo
<1>2. kept = LinesAt(both, places) /\ places \in SUBSET (DOMAIN both)
  BY DEF Merge, NotSeenBefore
<1> HIDE DEF both
<1>0. /\ Len(first) \in Nat /\ Len(second) \in Nat /\ DOMAIN both = 1..Len(both) /\ Len(both) \in Nat
      /\ DOMAIN first = 1..Len(first) /\ DOMAIN second = 1..Len(second)
  BY <1>1
<1>3. \A i \in places : \A j \in 1..(i - 1) : both[j] # both[i]
  BY DEF NotSeenBefore
<1>4. \A i \in DOMAIN both : \E p \in places : both[p] = both[i]
  <2> TAKE i \in DOMAIN both
  <2> DEFINE same == {j \in DOMAIN both : both[j] = both[i]}
  <2>1. same \in SUBSET Nat /\ i \in same
    BY <1>0
  <2>2. \A j \in same : j \in DOMAIN both /\ both[j] = both[i]
    OBVIOUS
  <2>3. \A j \in DOMAIN both : j \notin same => both[j] # both[i]
    OBVIOUS
  <2> HIDE DEF same
  <2>4. PICK p \in same : \A j \in same : p <= j
    BY <2>1, LeastOf
  <2>5. \A j \in 1..(p - 1) : both[j] # both[p]
    <3> TAKE j \in 1..(p - 1)
    <3>1. j \in DOMAIN both /\ ~(p <= j)
      BY <1>0, <2>2
    <3>2. j \notin same
      BY <2>4, <3>1
    <3> QED
      BY <2>2, <2>3, <3>1, <3>2
  <2>6. p \in places
    BY <2>2, <2>5 DEF NotSeenBefore
  <2> QED
    BY <2>2, <2>6
<1> HIDE DEF kept, places
<1>5. kept \in Seq(X)
  BY <1>1, <1>2, LinesAtAre
<1>6. PICK pos : IsPick(kept, both, places, pos)
  BY <1>1, <1>2, LinesAtAre
<1>7. DOMAIN kept = 1..Len(kept)
  BY <1>5
<1>8. ToSet(kept) = ToSet(both)
  <2>1. ASSUME NEW a \in 1..Len(kept) PROVE kept[a] \in ToSet(both)
    BY <1>2, <1>6 DEF IsPick, ToSet
  <2>2. ASSUME NEW i \in DOMAIN both PROVE \E a \in 1..Len(kept) : kept[a] = both[i]
    <3>1. PICK p \in places : both[p] = both[i]
      BY <1>4
    <3>2. PICK a \in 1..Len(kept) : pos[a] = p
      BY <1>6 DEF IsPick
    <3> QED
      BY <1>6, <3>1, <3>2 DEF IsPick
  <2> QED
    BY <1>7, <2>1, <2>2 DEF ToSet
<1>9. ASSUME NEW past, InOrder(first, past), InOrder(second, past), FromStart(first, past),
             Holds(first, past) \/ Holds(second, past)
      PROVE  InOrder(kept, past)
  <2>1. SUFFICES ASSUME NEW a \in 1..Len(kept), NEW b \in 1..Len(kept), a < b,
                        kept[a] \in ToSet(past), kept[b] \in ToSet(past)
                 PROVE  \E c, d \in DOMAIN past : c < d /\ past[c] = kept[a] /\ past[d] = kept[b]
    BY <1>7 DEF InOrder
  <2> DEFINE i == pos[a]
             j == pos[b]
  <2>2. i \in places /\ j \in places /\ i < j /\ kept[a] = both[i] /\ kept[b] = both[j]
    BY <1>6, <2>1 DEF IsPick
  <2> HIDE DEF i, j
  <2>3. i \in 1..Len(both) /\ j \in 1..Len(both)
    BY <1>0, <1>2, <2>2
  <2>4. both[i] # both[j]
    <3>1. i \in 1..(j - 1)
      BY <1>0, <2>2, <2>3
    <3> QED
      BY <1>3, <2>2, <3>1
  <2>5. CASE j \in DOMAIN first /\ both[j] = first[j]
    <3>1. i \in DOMAIN first /\ i <= Len(first)
      BY <1>0, <2>2, <2>3, <2>5
    <3>2. both[i] = first[i]
      BY <1>0, <1>1, <2>3, <3>1
    <3> QED
      BY <1>9, <2>1, <2>2, <2>5, <3>1, <3>2 DEF InOrder
  <2>6. CASE ~(j <= Len(first)) /\ j - Len(first) \in DOMAIN second /\ both[j] = second[j - Len(first)]
    <3>1. both[j] \notin ToSet(first)
      <4>1. SUFFICES ASSUME NEW k \in DOMAIN first, first[k] = both[j] PROVE FALSE
        BY DEF ToSet
      <4>2. k <= Len(first) /\ k \in 1..(j - 1) /\ k \in DOMAIN both
        BY <1>0, <2>3, <2>6
      <4>3. both[k] = first[k]
        BY <1>0, <1>1, <4>2
      <4> QED
        BY <1>3, <2>2, <4>1, <4>2, <4>3
    <3>2. Holds(second, past)
      BY <1>9, <2>1, <2>2, <3>1 DEF Holds
    <3>3. CASE i \in DOMAIN first /\ both[i] = first[i]
      <4>1. PICK c, d \in DOMAIN past : past[c] = both[i] /\ past[d] = both[j]
        BY <2>1, <2>2 DEF ToSet
      <4>2. both[i] \in ToSet(first)
        BY <3>3 DEF ToSet
      <4>3. ~(d < c)
        BY <1>9, <3>1, <4>1, <4>2 DEF FromStart
      <4> QED
        BY <2>2, <2>4, <4>1, <4>3
    <3>4. CASE ~(i <= Len(first)) /\ i - Len(first) \in DOMAIN second
               /\ both[i] = second[i - Len(first)]
      <4>1. i - Len(first) < j - Len(first)
        BY <1>0, <2>2, <2>3
      <4> QED
        BY <1>9, <2>1, <2>2, <2>6, <3>4, <4>1 DEF InOrder
    <3> QED
      BY <1>0, <1>1, <2>3, <3>3, <3>4
  <2> QED
    BY <1>0, <1>1, <2>3, <2>5, <2>6
<1>10. /\ kept \in Seq(X) /\ ToSet(kept) = ToSet(first) \cup ToSet(second)
       /\ \A past : (/\ InOrder(first, past) /\ InOrder(second, past)
                     /\ FromStart(first, past)
                     /\ (Holds(first, past) \/ Holds(second, past)))
                    => InOrder(kept, past)
  BY <1>1, <1>5, <1>8, <1>9
<1> QED
  BY <1>10 DEF kept

(* A new line at the end of a text, and of the history.                      *)
LEMMA AppendKeeps ==
    ASSUME NEW X, NEW text \in Seq(X), NEW past \in Seq(X), NEW line, line \notin ToSet(past)
    PROVE  /\ ToSet(Append(text, line)) = ToSet(text) \cup {line}
           /\ Holds(text, past) => Holds(Append(text, line), past)
           /\ InOrder(text, past) => InOrder(Append(text, line), past)
           /\ FromStart(text, past) => FromStart(Append(text, line), past)
           /\ (/\ line \notin ToSet(text)
               /\ Holds(text, past) /\ InOrder(text, past))
              => /\ Holds(Append(text, line), Append(past, line))
                 /\ InOrder(Append(text, line), Append(past, line))
<1> DEFINE more == Append(text, line)
           later == Append(past, line)
<1>1. /\ Len(text) \in Nat /\ DOMAIN text = 1..Len(text) /\ DOMAIN more = 1..(Len(text) + 1)
      /\ more[Len(text) + 1] = line /\ \A i \in 1..Len(text) : more[i] = text[i]
  BY AppendProperties
<1>2. /\ Len(past) \in Nat /\ DOMAIN past = 1..Len(past) /\ DOMAIN later = 1..(Len(past) + 1)
      /\ later[Len(past) + 1] = line /\ \A i \in 1..Len(past) : later[i] = past[i]
  BY AppendProperties
<1> HIDE DEF more, later
<1>3. \A i \in DOMAIN more : i \in DOMAIN text \/ i = Len(text) + 1
  BY <1>1
<1>4. ToSet(more) = ToSet(text) \cup {line}
  <2>1. \A i \in DOMAIN more : more[i] \in ToSet(text) \cup {line}
    BY <1>1, <1>3 DEF ToSet
  <2>2. \A i \in DOMAIN text : i \in DOMAIN more /\ more[i] = text[i]
    BY <1>1
  <2>3. Len(text) + 1 \in DOMAIN more
    BY <1>1
  <2> QED
    BY <1>1, <2>1, <2>2, <2>3 DEF ToSet
<1>5. ToSet(later) = ToSet(past) \cup {line}
  <2>1. \A i \in DOMAIN later : i \in DOMAIN past \/ i = Len(past) + 1
    BY <1>2
  <2>2. \A i \in DOMAIN later : later[i] \in ToSet(past) \cup {line}
    BY <1>2, <2>1 DEF ToSet
  <2>3. \A i \in DOMAIN past : i \in DOMAIN later /\ later[i] = past[i]
    BY <1>2
  <2>4. Len(past) + 1 \in DOMAIN later
    BY <1>2
  <2> QED
    BY <1>2, <2>2, <2>3, <2>4 DEF ToSet
<1>6. InOrder(text, past) => InOrder(more, past)
  <2>1. SUFFICES ASSUME InOrder(text, past), NEW i \in DOMAIN more, NEW j \in DOMAIN more,
                        i < j, more[i] \in ToSet(past), more[j] \in ToSet(past)
                 PROVE  \E a, b \in DOMAIN past : a < b /\ past[a] = more[i] /\ past[b] = more[j]
    BY DEF InOrder
  <2>2. i \in DOMAIN text /\ j \in DOMAIN text
    BY <1>1, <1>3, <2>1
  <2>3. more[i] = text[i] /\ more[j] = text[j]
    BY <1>1, <2>2
  <2> QED
    BY <2>1, <2>2, <2>3 DEF InOrder
<1>7. FromStart(text, past) => FromStart(more, past)
  <2>1. \A a \in DOMAIN past : past[a] # line
    BY DEF ToSet
  <2> QED
    BY <1>4, <2>1 DEF FromStart
<1>8. Holds(text, past) => Holds(more, past)
  BY <1>4 DEF Holds
<1>9. ASSUME line \notin ToSet(text), Holds(text, past), InOrder(text, past)
      PROVE  Holds(more, later) /\ InOrder(more, later)
  <2>1. Holds(more, later)
    BY <1>4, <1>5, <1>9 DEF Holds
  <2>2. SUFFICES ASSUME NEW i \in DOMAIN more, NEW j \in DOMAIN more,
                        i < j, more[i] \in ToSet(later), more[j] \in ToSet(later)
                 PROVE  \E a, b \in DOMAIN later : a < b /\ later[a] = more[i] /\ later[b] = more[j]
    BY <2>1 DEF InOrder
  <2>3. i \in DOMAIN text /\ more[i] = text[i] /\ text[i] # line /\ text[i] \in ToSet(past)
    <3>1. i \in DOMAIN text
      BY <1>1, <2>2
    <3>2. more[i] = text[i] /\ text[i] # line
      BY <1>1, <1>9, <3>1 DEF ToSet
    <3> QED
      BY <1>5, <2>2, <3>1, <3>2
  <2>4. CASE j \in DOMAIN text
    <3>1. more[j] = text[j] /\ text[j] # line
      BY <1>1, <1>9, <2>4 DEF ToSet
    <3>2. text[j] \in ToSet(past)
      BY <1>5, <2>2, <3>1
    <3>3. PICK a, b \in DOMAIN past : a < b /\ past[a] = text[i] /\ past[b] = text[j]
      BY <1>9, <2>2, <2>3, <2>4, <3>2 DEF InOrder
    <3>4. a \in DOMAIN later /\ b \in DOMAIN later /\ later[a] = past[a] /\ later[b] = past[b]
      BY <1>2
    <3> QED
      BY <2>3, <3>1, <3>3, <3>4
  <2>5. CASE j = Len(text) + 1
    <3>1. PICK a \in DOMAIN past : past[a] = text[i]
      BY <2>3 DEF ToSet
    <3>2. a \in DOMAIN later /\ Len(past) + 1 \in DOMAIN later /\ a < Len(past) + 1
          /\ later[a] = past[a]
      BY <1>2
    <3>3. more[j] = line
      BY <1>1, <2>5
    <3> QED
      BY <1>2, <2>3, <3>1, <3>2, <3>3
  <2> QED
    BY <1>3, <2>4, <2>5
<1> QED
  BY <1>4, <1>6, <1>7, <1>8, <1>9 DEF more, later

(* Without what was forged a text tells the history as before.               *)
LEMMA OthersKeep ==
    ASSUME NEW X, NEW text \in Seq(X), NEW past, Forged \notin ToSet(past)
    PROVE  /\ OthersThanForged(text) \in Seq(X)
           /\ InOrder(text, past) => InOrder(OthersThanForged(text), past)
           /\ FromStart(text, past) => FromStart(OthersThanForged(text), past)
<1> DEFINE places == {i \in DOMAIN text : text[i] # Forged}
           kept == LinesAt(text, places)
<1>0. DOMAIN text \subseteq Nat /\ places \in SUBSET (DOMAIN text)
  OBVIOUS
<1>1. \A i \in DOMAIN text : i \in places <=> text[i] # Forged
  OBVIOUS
<1> HIDE DEF places
<1>2. kept \in Seq(X) /\ \E pos : IsPick(kept, text, places, pos)
  BY <1>0, LinesAtAre
<1>3. DOMAIN kept = 1..Len(kept)
  BY <1>2
<1> HIDE DEF kept
<1>4. PICK pos : IsPick(kept, text, places, pos)
  BY <1>2
<1>5. \A a \in DOMAIN kept : pos[a] \in DOMAIN text /\ kept[a] = text[pos[a]]
  BY <1>0, <1>3, <1>4 DEF IsPick
<1>6. \A a, b \in DOMAIN kept : a < b => pos[a] < pos[b]
  BY <1>3, <1>4 DEF IsPick
<1>7. InOrder(text, past) => InOrder(kept, past)
  BY <1>5, <1>6 DEF InOrder
<1>8. ToSet(kept) = ToSet(text) \ {Forged}
  <2>1. \A a \in DOMAIN kept : kept[a] \in ToSet(text) \ {Forged}
    <3> TAKE a \in DOMAIN kept
    <3>1. pos[a] \in places
      BY <1>3, <1>4 DEF IsPick
    <3> QED
      BY <1>1, <1>5, <3>1 DEF ToSet
  <2>2. \A i \in places : \E a \in DOMAIN kept : kept[a] = text[i]
    BY <1>3, <1>4 DEF IsPick
  <2> QED
    BY <1>1, <2>1, <2>2 DEF ToSet
<1>9. FromStart(text, past) => FromStart(kept, past)
  <2>1. \A a \in DOMAIN past : past[a] # Forged
    BY DEF ToSet
  <2> QED
    BY <1>8, <2>1 DEF FromStart
<1> QED
  BY <1>2, <1>7, <1>9 DEF OthersThanForged, kept, places

(* Whatever an operator writes, what it leaves of the history is in order.    *)
LEMMA OperatorTextsAreSound ==
    ASSUME NEW X, lines["local"] \in Seq(X), Forged \in X, NEW past \in Seq(X),
           Forged \notin ToSet(past),
           InOrder(lines["local"], past), FromStart(lines["local"], past),
           NEW text \in OperatorTexts
    PROVE  text \in Seq(X) /\ InOrder(text, past) /\ FromStart(text, past)
<1>1. /\ OthersThanForged(lines["local"]) \in Seq(X)
      /\ InOrder(OthersThanForged(lines["local"]), past)
      /\ FromStart(OthersThanForged(lines["local"]), past)
  BY OthersKeep
<1>2. <<>> \in Seq(X) /\ InOrder(<<>>, past) /\ FromStart(<<>>, past)
  BY DEF InOrder, FromStart, ToSet
<1>3. <<Forged>> = Append(<<>>, Forged)
  OBVIOUS
<1>4. \A kept \in Seq(X) : InOrder(kept, past) /\ FromStart(kept, past) =>
         /\ Append(kept, Forged) \in Seq(X)
         /\ InOrder(Append(kept, Forged), past) /\ FromStart(Append(kept, Forged), past)
  BY AppendKeeps
<1> HIDE DEF OthersThanForged
<1> QED
  BY <1>1, <1>2, <1>3, <1>4 DEF OperatorTexts

------------------------------------------------------------------------------
(* The lines that there are once n lines of the workload have been started.   *)
Known(n) == {Scaffold, Forged} \cup {Workload[i] : i \in 1..n}

(* A line that is about to reach the mirror is new to all but the local copy. *)
TextsOK ==
    /\ appended \in 0..Len(Workload)
    /\ ledger \in Seq(Known(appended)) /\ Distinct(ledger) /\ Forged \notin ToSet(ledger)
    /\ \A f \in Files : /\ lines[f] \in Seq(Known(appended))
                        /\ held[Owner].lines[f] \in Seq(Known(appended))
    /\ at[Owner] = "appendmirror" =>
          /\ appended # 0
          /\ ledger \in Seq(Known(appended - 1)) /\ lines["mirror"] \in Seq(Known(appended - 1))
          /\ \E old \in Seq(Known(appended - 1)) :
                lines["local"] = Append(old, Line) /\ Holds(old, ledger) /\ InOrder(old, ledger)

(* One of the copies holds the history, both do once they are synchronised,   *)
(* and so does what is held while they are written; a copy that an operator  *)
(* or a crash left behind tells the beginning of it in order.                *)
PastOK ==
    /\ \A f \in Files : InOrder(lines[f], ledger)
    /\ FromStart(lines["local"], ledger)
    /\ Holds(lines["local"], ledger) \/ Holds(lines["mirror"], ledger)
    /\ synced /\ at[Owner] \notin {"operator", "write", "fill"} =>
          \A f \in Files : Holds(lines[f], ledger)
    /\ at[Owner] = "readmirror" => held[Owner].lines["local"] = lines["local"]
    /\ at[Owner] \in {"replace", "replacemirror", "readreceipts", "operator", "write", "fill"} =>
          \A f \in Files : /\ Holds(held[Owner].lines[f], ledger)
                           /\ InOrder(held[Owner].lines[f], ledger)
    /\ at[Owner] = "operator"
       \/ (at[Owner] \in {"write", "fill"} /\ LinesOf("local") \in ToSet(todo[Owner])) =>
          lines["mirror"] = held[Owner].lines["mirror"]

PastInv == StoreInv /\ TextsOK /\ PastOK

(* A workload of distinct lines brings a new one each time.                  *)
LEMMA NextLineIsNew ==
    ASSUME Distinct(Workload), NEW n \in 1..Len(Workload)
    PROVE  /\ Workload[n] \notin Known(n - 1) /\ Known(n) = Known(n - 1) \cup {Workload[n]}
           /\ Workload[n] # Forged
<1>1. DOMAIN Workload = 1..Len(Workload) /\ Len(Workload) \in Nat
  BY WorkloadAssumption
<1>2. Workload[n] \in ToSet(Workload)
  BY <1>1 DEF ToSet
<1>3. \A i \in 1..(n - 1) : i \in DOMAIN Workload /\ i # n
  BY <1>1
<1>4. n \in Nat /\ 1..n = (1..(n - 1)) \cup {n}
  BY <1>1
<1> QED
  BY <1>1, <1>2, <1>3, <1>4, WorkloadAssumption DEF Known, Distinct

(* What holds the history lacks nothing before a line of it.                 *)
LEMMA HoldsFromStart ==
    ASSUME NEW text, NEW past, Holds(text, past)
    PROVE  FromStart(text, past)
  BY DEF Holds, FromStart, ToSet

(* The history is kept wherever the invariant holds.                         *)
LEMMA PastIsKept ==
    ASSUME PastInv
    PROVE  HistoryKept
<1> DEFINE X == Known(appended)
<1>1. /\ lines["local"] \in Seq(X) /\ lines["mirror"] \in Seq(X) /\ ledger \in Seq(X)
      /\ Distinct(ledger)
  BY DEF PastInv, TextsOK, Files
<1>2. /\ InOrder(lines["local"], ledger) /\ InOrder(lines["mirror"], ledger)
      /\ FromStart(lines["local"], ledger)
      /\ Holds(lines["local"], ledger) \/ Holds(lines["mirror"], ledger)
      /\ Working => Holds(lines["local"], ledger)
  BY DEF PastInv, PastOK, Files, Working, StoreInv, SyncedOK, Synced
<1> HIDE DEF X
<1> DEFINE merged == Merge(lines["local"], lines["mirror"])
<1>3. merged \in Seq(X) /\ InOrder(merged, ledger)
  BY <1>1, <1>2, MergeKeeps
<1>4. Holds(merged, ledger)
  <2>1. ToSet(merged) = ToSet(lines["local"]) \cup ToSet(lines["mirror"])
    BY <1>1, MergeKeeps
  <2> HIDE DEF merged
  <2> QED
    BY <1>2, <2>1 DEF Holds
<1> HIDE DEF merged
<1>5. InLedger(merged) = ledger
  BY <1>1, <1>3, <1>4, HeldInOrder DEF InLedger
<1>6. Working => InLedger(lines["local"]) = ledger
  BY <1>1, <1>2, HeldInOrder DEF InLedger
<1> QED
  BY <1>5, <1>6 DEF HistoryKept, LinesKept, OwnerSeesAll, merged

(* Nothing has happened but that init has appended the first row.            *)
LEMMA PastStarts == Init => PastInv
<1> SUFFICES ASSUME Init PROVE PastInv
  OBVIOUS
<1>1. StoreInv
  BY StoreInitInv
<1>2. /\ at[Owner] = "idle" /\ appended = 0 /\ ledger = <<Scaffold>> /\ synced
      /\ \A f \in Files : lines[f] = <<Scaffold>> /\ held[Owner].lines[f] = <<>>
  BY DEF Init, Processes, NothingHeld
<1>3. Scaffold \in Known(0) /\ Len(Workload) \in Nat /\ Forged # Scaffold
  BY WorkloadAssumption DEF Known
<1>4. <<Scaffold>> \in Seq(Known(0)) /\ <<>> \in Seq(Known(0)) /\ ToSet(<<Scaffold>>) = {Scaffold}
  BY <1>3 DEF ToSet
<1>5. Distinct(<<Scaffold>>) /\ InOrder(<<Scaffold>>, <<Scaffold>>) /\ Holds(<<Scaffold>>, <<Scaffold>>)
  BY DEF Distinct, InOrder, Holds
<1>6. FromStart(<<Scaffold>>, <<Scaffold>>)
  BY <1>5, HoldsFromStart
<1>7. TextsOK
  <2>1. appended \in 0..Len(Workload)
    BY <1>2, <1>3
  <2>2. ledger \in Seq(Known(appended)) /\ Distinct(ledger) /\ Forged \notin ToSet(ledger)
    BY <1>2, <1>3, <1>4, <1>5
  <2>3. \A f \in Files : /\ lines[f] \in Seq(Known(appended))
                         /\ held[Owner].lines[f] \in Seq(Known(appended))
    BY <1>2, <1>4
  <2> QED
    BY <1>2, <2>1, <2>2, <2>3 DEF TextsOK
<1>8. PastOK
  <2>1. "local" \in Files /\ "mirror" \in Files
    BY DEF Files
  <2> QED
    BY <1>2, <1>5, <1>6, <2>1 DEF PastOK
<1> QED
  BY <1>1, <1>7, <1>8 DEF PastInv

(* A synchronisation up to the point where both copies are replaced.         *)
LEMMA MergingKeepsPast ==
    ASSUME PastInv, StoreInv',
           \/ Synchronise(Owner) \/ ReadLocal(Owner) \/ ReadMirror(Owner)
           \/ \E f \in Files : Replace(Owner, f)
    PROVE  PastInv'
<1> USE DEF PastInv, Files
<1>0. Owner \in Processes /\ DOMAIN at = Processes /\ DOMAIN held = Processes
      /\ DOMAIN lines = Files /\ DOMAIN held[Owner].lines = Files
      /\ "lines" \in DOMAIN held[Owner]
  BY DEF Processes, StoreInv, StoreTypeOK
<1>1. CASE Synchronise(Owner)
  <2>1. exists \subseteq Files /\ exists # {} /\ at[Owner] = "locked"
    BY <1>1 DEF StoreInv, StoreTypeOK, Synchronise
  <2>2. at' = [at EXCEPT ![Owner] = "idle"] \/ at' = [at EXCEPT ![Owner] = "read"]
    BY <1>1, <2>1 DEF Synchronise, Goto, OrphanedMirror
  <2>3. UNCHANGED <<lines, held, appended, ledger, synced>>
    BY <1>1 DEF Synchronise, history
  <2>4. at'[Owner] \in {"idle", "read"}
    BY <1>0, <2>2
  <2> QED
    BY <2>1, <2>3, <2>4 DEF TextsOK, PastOK
<1>2. CASE ReadLocal(Owner)
  <2>1. /\ at[Owner] = "read" /\ at'[Owner] = "readmirror"
        /\ UNCHANGED <<lines, appended, ledger, synced>>
    BY <1>0, <1>2 DEF ReadLocal, Goto, files, history
  <2>2. /\ held'[Owner].lines["local"] = lines["local"]
        /\ held'[Owner].lines["mirror"] = held[Owner].lines["mirror"]
    BY <1>0, <1>2 DEF ReadLocal
  <2> QED
    BY <2>1, <2>2 DEF TextsOK, PastOK
<1>3. CASE ReadMirror(Owner)
  <2> DEFINE merged == Merge(lines["local"], lines["mirror"])
             X == Known(appended)
  <2>1. /\ at[Owner] = "readmirror" /\ at'[Owner] = "replace"
        /\ UNCHANGED <<lines, appended, ledger, synced>>
    BY <1>0, <1>3 DEF ReadMirror, Goto, files, history
  <2>2. \A f \in Files : held'[Owner].lines[f] = merged
    BY <1>0, <1>3, <2>1 DEF ReadMirror, PastOK
  <2>3. lines["local"] \in Seq(X) /\ lines["mirror"] \in Seq(X)
    BY DEF TextsOK
  <2>4. /\ InOrder(lines["local"], ledger) /\ InOrder(lines["mirror"], ledger)
        /\ FromStart(lines["local"], ledger)
        /\ Holds(lines["local"], ledger) \/ Holds(lines["mirror"], ledger)
    BY DEF PastOK
  <2> HIDE DEF X
  <2>5. merged \in Seq(X) /\ InOrder(merged, ledger)
    BY <2>3, <2>4, MergeKeeps
  <2>6. ToSet(merged) = ToSet(lines["local"]) \cup ToSet(lines["mirror"])
    BY <2>3, MergeKeeps
  <2> HIDE DEF merged
  <2>7. Holds(merged, ledger)
    BY <2>4, <2>6 DEF Holds
  <2>8. TextsOK'
    BY <2>1, <2>2, <2>5 DEF TextsOK, X
  <2>9. PastOK'
    BY <2>1, <2>2, <2>5, <2>7 DEF PastOK
  <2> QED
    BY <2>8, <2>9
<1>4. ASSUME NEW f \in Files, Replace(Owner, f) PROVE PastInv'
  <2>1. /\ lines' = [lines EXCEPT ![f] = held[Owner].lines[f]]
        /\ UNCHANGED <<held, appended, ledger, synced>>
    BY <1>4 DEF Replace, history
  <2>2. /\ at[Owner] = IF f = "local" THEN "replace" ELSE "replacemirror"
        /\ at'[Owner] = IF f = "local" THEN "replacemirror" ELSE "readreceipts"
    BY <1>0, <1>4 DEF Replace, Goto
  <2>3. /\ lines'[f] = held[Owner].lines[f]
        /\ \A g \in Files : g # f => lines'[g] = lines[g]
    BY <1>0, <2>1
  <2>4. /\ Holds(lines'[f], ledger) /\ InOrder(lines'[f], ledger)
    BY <2>2, <2>3 DEF PastOK
  <2>5. \A g \in Files : lines'[g] = held[Owner].lines[g] \/ lines'[g] = lines[g]
    BY <2>3
  <2>6. TextsOK'
    BY <2>1, <2>2, <2>5 DEF TextsOK
  <2>7. FromStart(lines'["local"], ledger)
    <3>1. CASE f = "local"
      BY <2>4, <3>1, HoldsFromStart
    <3>2. CASE f # "local"
      BY <2>3, <3>2 DEF PastOK
    <3> QED
      BY <3>1, <3>2
  <2>8. PastOK'
    <3>1. \A g \in Files : InOrder(lines'[g], ledger)
      BY <2>3, <2>4 DEF PastOK
    <3>2. synced => \A g \in Files : Holds(lines'[g], ledger)
      BY <2>2, <2>3, <2>4 DEF PastOK
    <3> QED
      BY <2>1, <2>2, <2>4, <2>7, <3>1, <3>2 DEF PastOK
  <2> QED
    BY <2>6, <2>8
<1> QED
  BY <1>1, <1>2, <1>3, <1>4

(* The local archive comes first on a list of rewrites, and is on it once.    *)
LEMMA LocalComesFirst ==
    ASSUME NEW t \in Rewrites, t # <<>>
    PROVE  /\ LinesOf("local") \in ToSet(t) => Head(t) = LinesOf("local")
           /\ LinesOf("local") \notin ToSet(Tail(t))
<1>1. \A f, g \in {"local", "mirror"} : LinesOf(f) # ReceiptsOf(g)
  BY DEF LinesOf, ReceiptsOf
<1>2. LinesOf("local") # LinesOf("mirror")
  BY DEF LinesOf
<1>3. ToSet(<<>>) = {}
  BY DEF ToSet
<1>4. \A a : ToSet(<<a>>) = {a} /\ Head(<<a>>) = a /\ Tail(<<a>>) = <<>>
  BY DEF ToSet
<1>5. \A a, b : ToSet(<<a, b>>) = {a, b} /\ Head(<<a, b>>) = a /\ Tail(<<a, b>>) = <<b>>
  BY DEF ToSet
<1>6. \A a, b, c : ToSet(<<a, b, c>>) = {a, b, c} /\ Head(<<a, b, c>>) = a
                   /\ Tail(<<a, b, c>>) = <<b, c>>
  BY DEF ToSet
<1>7. \A a, b, c, d : Head(<<a, b, c, d>>) = a /\ Tail(<<a, b, c, d>>) = <<b, c, d>>
  OBVIOUS
<1>8. CASE t = <<LinesOf("local"), LinesOf("mirror"), ReceiptsOf("local"), ReceiptsOf("mirror")>>
  BY <1>1, <1>2, <1>6, <1>7, <1>8
<1>9. CASE t = <<LinesOf("mirror"), ReceiptsOf("local"), ReceiptsOf("mirror")>>
  BY <1>1, <1>2, <1>5, <1>6, <1>9
<1>10. CASE t = <<ReceiptsOf("local"), ReceiptsOf("mirror")>>
  BY <1>1, <1>4, <1>5, <1>10
<1>11. CASE t = <<ReceiptsOf("mirror")>>
  BY <1>1, <1>3, <1>4, <1>11
<1> QED
  BY <1>8, <1>9, <1>10, <1>11 DEF Rewrites

(* While the files are written one by one, one of the archives is whole.      *)
LEMMA RewritingKeepsPast ==
    ASSUME PastInv, StoreInv', Truncate(Owner) \/ Fill(Owner)
    PROVE  PastInv'
<1> USE DEF PastInv, Files
<1>0. /\ Owner \in Processes /\ DOMAIN at = Processes /\ DOMAIN todo = Processes
      /\ DOMAIN lines = Files /\ todo[Owner] \in Rewrites /\ todo[Owner] # <<>>
      /\ at[Owner] \in {"write", "fill"}
  BY DEF Processes, StoreInv, StoreTypeOK, Truncate, Fill
<1> DEFINE head == Head(todo[Owner])
           rest == Tail(todo[Owner])
<1>1. /\ ToSet(todo[Owner]) = {head} \cup ToSet(rest)
      /\ LinesOf("local") \in ToSet(todo[Owner]) => head = LinesOf("local")
      /\ LinesOf("local") \notin ToSet(rest)
  BY <1>0, RewriteFacts, LocalComesFirst
<1>2. PICK kind \in {"lines", "receipts"}, f \in Files : head = <<kind, f>>
  BY <1>0, RewriteFacts
<1>3. head[1] = kind /\ head[2] = f
  BY <1>2
<1>4. head = LinesOf("local") <=> kind = "lines" /\ f = "local"
  BY <1>2 DEF LinesOf
<1>5. /\ \A g \in Files : Holds(held[Owner].lines[g], ledger) /\ InOrder(held[Owner].lines[g], ledger)
      /\ LinesOf("local") \in ToSet(todo[Owner]) => lines["mirror"] = held[Owner].lines["mirror"]
      /\ LinesOf("local") \notin ToSet(todo[Owner]) => lines["local"] = held[Owner].lines["local"]
  BY <1>0 DEF PastOK, StoreInv, RewritesOK, LinesOf
<1>6. CASE Truncate(Owner)
  <2>1. /\ at'[Owner] = "fill" /\ UNCHANGED <<held, todo, synced, appended, ledger>>
        /\ lines' = IF head[1] = "lines" THEN [lines EXCEPT ![head[2]] = <<>>] ELSE lines
    BY <1>0, <1>6 DEF Truncate, Goto, history
  <2>2. lines' = IF kind = "lines" THEN [lines EXCEPT ![f] = <<>>] ELSE lines
    BY <1>3, <2>1
  <2> HIDE DEF head, rest
  <2>3. \A g \in Files : lines'[g] = lines[g] \/ lines'[g] = <<>>
    BY <1>0, <2>2
  <2>4. InOrder(<<>>, ledger) /\ FromStart(<<>>, ledger)
    BY DEF InOrder, FromStart, ToSet
  <2>5. Holds(lines'["local"], ledger) \/ Holds(lines'["mirror"], ledger)
    <3>1. CASE kind = "lines" /\ f = "local"
      <4>1. lines'["mirror"] = held[Owner].lines["mirror"]
        BY <1>0, <1>1, <1>4, <1>5, <2>2, <3>1
      <4> QED
        BY <1>5, <4>1
    <3>2. CASE kind = "lines" /\ f = "mirror"
      <4>1. lines'["local"] = held[Owner].lines["local"]
        BY <1>0, <1>1, <1>4, <1>5, <2>2, <3>2
      <4> QED
        BY <1>5, <4>1
    <3>3. CASE kind = "receipts"
      BY <2>2, <3>3 DEF PastOK
    <3> QED
      BY <3>1, <3>2, <3>3
  <2>6. LinesOf("local") \in ToSet(todo[Owner]) => lines'["mirror"] = held[Owner].lines["mirror"]
    BY <1>0, <1>1, <1>4, <1>5, <2>2
  <2>7. TextsOK'
    <3>1. <<>> \in Seq(Known(appended))
      OBVIOUS
    <3> QED
      BY <2>1, <2>3, <3>1 DEF TextsOK
  <2>8. PastOK'
    BY <1>5, <2>1, <2>3, <2>4, <2>5, <2>6 DEF PastOK
  <2> QED
    BY <2>7, <2>8
<1>7. CASE Fill(Owner)
  <2>1. /\ at'[Owner] = "write" /\ UNCHANGED <<held, synced, appended, ledger>>
        /\ lines' = IF head[1] = "lines"
                    THEN [lines EXCEPT ![head[2]] = held[Owner].lines[head[2]]] ELSE lines
        /\ todo'[Owner] = rest
    BY <1>0, <1>7 DEF Fill, Goto, history
  <2>2. lines' = IF kind = "lines" THEN [lines EXCEPT ![f] = held[Owner].lines[f]] ELSE lines
    BY <1>3, <2>1
  <2>3. LinesOf("local") \notin ToSet(todo'[Owner])
    BY <1>1, <2>1
  <2> HIDE DEF head, rest
  <2>4. \A g \in Files : lines'[g] = lines[g] \/ lines'[g] = held[Owner].lines[g]
    BY <1>0, <2>2
  <2>5. lines'["local"] = held[Owner].lines["local"]
    BY <1>0, <1>1, <1>4, <1>5, <2>2
  <2>6. FromStart(lines'["local"], ledger)
    BY <1>5, <2>5, HoldsFromStart
  <2>7. TextsOK'
    BY <2>1, <2>4 DEF TextsOK
  <2>8. PastOK'
    BY <1>5, <2>1, <2>3, <2>4, <2>5, <2>6 DEF PastOK
  <2> QED
    BY <2>7, <2>8
<1> QED
  BY <1>6, <1>7

(* The owner appends to its copy, then to the mirror.                        *)
LEMMA AppendingKeepsPast ==
    ASSUME PastInv, StoreInv', Distinct(Workload), AppendLocal \/ AppendMirror
    PROVE  PastInv'
<1> USE DEF PastInv, Files
<1>0. /\ Owner \in Processes /\ DOMAIN at = Processes /\ DOMAIN lines = Files
      /\ Len(Workload) \in Nat
  BY WorkloadAssumption DEF Processes, StoreInv, StoreTypeOK
<1>1. CASE AppendLocal
  <2> DEFINE line == Workload[appended + 1]
             old == lines["local"]
  <2>1. /\ at[Owner] = "ready" /\ appended < Len(Workload) /\ appended' = appended + 1
        /\ lines' = [lines EXCEPT !["local"] = Append(old, line)]
        /\ at'[Owner] = "appendmirror" /\ UNCHANGED <<held, ledger, synced>>
    BY <1>0, <1>1 DEF AppendLocal, AddLine, Goto
  <2>2. synced /\ appended \in Nat
    BY <2>1 DEF StoreInv, SyncedOK, Synced, TextsOK
  <2>3. /\ old \in Seq(Known(appended)) /\ ledger \in Seq(Known(appended))
        /\ lines["mirror"] \in Seq(Known(appended))
        /\ Holds(old, ledger) /\ InOrder(old, ledger) /\ FromStart(old, ledger)
        /\ Holds(lines["mirror"], ledger) /\ InOrder(lines["mirror"], ledger)
    BY <2>1, <2>2 DEF TextsOK, PastOK
  <2>4. /\ line \notin Known(appended) /\ Known(appended + 1) = Known(appended) \cup {line}
    <3>1. appended + 1 \in 1..Len(Workload) /\ (appended + 1) - 1 = appended
      BY <1>0, <2>1, <2>2
    <3> QED
      BY <3>1, NextLineIsNew
  <2>5. line \notin ToSet(ledger)
    BY <2>3, <2>4 DEF ToSet
  <2> HIDE DEF line, old
  <2>6. Holds(Append(old, line), ledger) /\ InOrder(Append(old, line), ledger)
        /\ FromStart(Append(old, line), ledger)
    BY <2>3, <2>5, AppendKeeps
  <2>7. /\ lines'["local"] = Append(old, line) /\ lines'["mirror"] = lines["mirror"]
        /\ Line' = line /\ (appended + 1) - 1 = appended /\ appended + 1 \in 1..Len(Workload)
    BY <1>0, <2>1, <2>2 DEF Line, line
  <2>8. \A X, Y : X \subseteq Y => Seq(X) \subseteq Seq(Y)
    BY SeqMonotonic
  <2>9. TextsOK'
    <3>1. Known(appended) \subseteq Known(appended + 1) /\ line \in Known(appended + 1)
      BY <2>4
    <3>2. Seq(Known(appended)) \subseteq Seq(Known(appended + 1))
      BY <2>8, <3>1
    <3>3. Append(old, line) \in Seq(Known(appended + 1))
      <4>1. old \in Seq(Known(appended + 1))
        BY <2>3, <3>2
      <4> QED
        BY <3>1, <4>1
    <3>4. \A f \in Files : /\ lines'[f] \in Seq(Known(appended + 1))
                           /\ held[Owner].lines[f] \in Seq(Known(appended + 1))
      BY <2>3, <2>7, <3>2, <3>3 DEF TextsOK
    <3>5. appended' \in 0..Len(Workload) /\ appended' # 0 /\ appended' - 1 = appended
      BY <2>1, <2>7
    <3>6. /\ ledger' \in Seq(Known(appended')) /\ Distinct(ledger') /\ Forged \notin ToSet(ledger')
      BY <2>1, <2>3, <3>2 DEF TextsOK
    <3>7. \E first \in Seq(Known(appended' - 1)) :
             lines'["local"] = Append(first, Line') /\ Holds(first, ledger') /\ InOrder(first, ledger')
      BY <2>1, <2>3, <2>7, <3>5
    <3>8. ledger' \in Seq(Known(appended' - 1)) /\ lines'["mirror"] \in Seq(Known(appended' - 1))
      BY <2>1, <2>3, <2>7, <3>5
    <3>9. \A f \in Files : /\ lines'[f] \in Seq(Known(appended'))
                           /\ held'[Owner].lines[f] \in Seq(Known(appended'))
      BY <2>1, <3>4
    <3> QED
      BY <3>5, <3>6, <3>7, <3>8, <3>9 DEF TextsOK
  <2>10. PastOK'
    BY <2>1, <2>3, <2>6, <2>7 DEF PastOK
  <2> QED
    BY <2>9, <2>10
<1>2. CASE AppendMirror
  <2> DEFINE later == Append(ledger, Line)
             before == Known(appended - 1)
             second == lines["mirror"]
  <2>1. /\ at[Owner] = "appendmirror" /\ ledger' = later
        /\ lines' = [lines EXCEPT !["mirror"] = Append(second, Line)]
        /\ at'[Owner] = AfterAppend /\ UNCHANGED <<held, appended, synced>>
    BY <1>0, <1>2 DEF AppendMirror, AddLine, Goto
  <2>2. at'[Owner] \in {"certify", "ready"}
    BY <2>1 DEF AfterAppend
  <2>3. PICK first \in Seq(before) :
           lines["local"] = Append(first, Line) /\ Holds(first, ledger) /\ InOrder(first, ledger)
    BY <2>1 DEF TextsOK
  <2>4. /\ appended \in 1..Len(Workload) /\ ledger \in Seq(before) /\ second \in Seq(before)
        /\ Forged \notin ToSet(ledger) /\ Distinct(ledger) /\ ledger \in Seq(Known(appended))
    BY <1>0, <2>1 DEF TextsOK
  <2>5. /\ Line \notin before /\ Known(appended) = before \cup {Line} /\ Line # Forged
    BY <2>4, NextLineIsNew DEF Line
  <2>6. /\ Holds(second, ledger) /\ InOrder(second, ledger)
    BY <2>1 DEF PastOK, StoreInv, SyncedOK, Synced
  <2> HIDE DEF before
  <2>7. Line \notin ToSet(ledger) /\ Line \notin ToSet(first) /\ Line \notin ToSet(second)
    BY <2>3, <2>4, <2>5 DEF ToSet
  <2> HIDE DEF later, second
  <2>8. /\ Holds(Append(first, Line), later) /\ InOrder(Append(first, Line), later)
        /\ Holds(Append(second, Line), later) /\ InOrder(Append(second, Line), later)
    BY <2>3, <2>4, <2>6, <2>7, AppendKeeps DEF later
  <2>9. lines'["local"] = Append(first, Line) /\ lines'["mirror"] = Append(second, Line)
    BY <1>0, <2>1, <2>3
  <2>10. FromStart(lines'["local"], later)
    BY <2>8, <2>9, HoldsFromStart
  <2>11. /\ later \in Seq(Known(appended)) /\ ToSet(later) = ToSet(ledger) \cup {Line}
         /\ Append(second, Line) \in Seq(Known(appended))
    <3>1. before \subseteq Known(appended) /\ Line \in Known(appended)
      BY <2>5
    <3>2. second \in Seq(Known(appended))
      BY <2>4, <3>1, SeqMonotonic
    <3>3. ToSet(later) = ToSet(ledger) \cup {Line}
      BY <2>4, <2>7, AppendKeeps DEF later
    <3> QED
      BY <2>4, <3>1, <3>2, <3>3 DEF later
  <2>12. Distinct(later)
    <3>1. /\ Len(ledger) \in Nat /\ DOMAIN ledger = 1..Len(ledger)
          /\ DOMAIN later = 1..(Len(ledger) + 1)
          /\ later[Len(ledger) + 1] = Line /\ \A i \in 1..Len(ledger) : later[i] = ledger[i]
      BY <2>4, AppendProperties DEF later
    <3>2. \A i \in DOMAIN later : i \in DOMAIN ledger \/ i = Len(ledger) + 1
      BY <3>1
    <3>3. \A i \in DOMAIN ledger : later[i] = ledger[i] /\ ledger[i] # Line
      BY <2>7, <3>1 DEF ToSet
    <3> QED
      BY <2>4, <3>1, <3>2, <3>3 DEF Distinct
  <2>13. TextsOK'
    <3>1. \A f \in Files : /\ lines'[f] \in Seq(Known(appended))
                           /\ held[Owner].lines[f] \in Seq(Known(appended))
      <4>1. lines["local"] \in Seq(Known(appended))
        BY DEF TextsOK
      <4> QED
        BY <2>3, <2>9, <2>11, <4>1 DEF TextsOK
    <3>2. Forged \notin ToSet(later)
      BY <2>4, <2>5, <2>11
    <3> QED
      BY <2>1, <2>2, <2>4, <2>11, <2>12, <3>1, <3>2 DEF TextsOK
  <2>14. PastOK'
    BY <2>1, <2>2, <2>8, <2>9, <2>10 DEF PastOK
  <2> QED
    BY <2>13, <2>14
<1> QED
  BY <1>1, <1>2

(* The other steps of the owner: the lock, receipts, operators.              *)
LEMMA WorkingKeepsPast ==
    ASSUME PastInv, StoreInv',
           \/ Lock \/ Unlock \/ CertifyLocal \/ CertifyMirror \/ StartOperator \/ FinishOperator
           \/ ReadReceipts(Owner) \/ Finish(Owner) \/ \E text \in OperatorTexts : OperatorWrites(text)
    PROVE  PastInv'
<1> USE DEF PastInv, Files
<1>0. /\ Owner \in Processes /\ DOMAIN at = Processes /\ DOMAIN held = Processes
      /\ DOMAIN todo = Processes /\ DOMAIN lines = Files
      /\ DOMAIN held[Owner] = {"lines", "receipts"}
  BY DEF Processes, StoreInv, StoreTypeOK
<1>1. CASE Lock \/ Unlock \/ CertifyLocal \/ CertifyMirror
  <2>1. /\ at[Owner] \in {"idle", "ready", "certify", "certifymirror"}
        /\ at'[Owner] \in {"locked", "idle", "ready", "certifymirror"}
        /\ UNCHANGED <<lines, held, appended, ledger, synced>>
    BY <1>0, <1>1 DEF Lock, Unlock, CertifyLocal, CertifyMirror, Goto, files, history
  <2> QED
    BY <2>1 DEF TextsOK, PastOK
<1>2. CASE StartOperator
  <2>1. /\ at[Owner] = "ready" /\ at'[Owner] = "operator" /\ held'[Owner].lines = lines
        /\ UNCHANGED <<lines, appended, ledger, synced>>
    BY <1>0, <1>2 DEF StartOperator, Goto, history
  <2>2. \A f \in Files : Holds(lines[f], ledger) /\ InOrder(lines[f], ledger)
    BY <2>1 DEF PastOK, StoreInv, SyncedOK, Synced
  <2> QED
    BY <2>1, <2>2 DEF TextsOK, PastOK
<1>3. CASE FinishOperator
  <2>1. /\ at[Owner] = "operator" /\ at'[Owner] = "write"
        /\ UNCHANGED <<lines, held, appended, ledger, synced>>
    BY <1>0, <1>3 DEF FinishOperator, Goto, files, history
  <2> QED
    BY <2>1 DEF TextsOK, PastOK
<1>4. CASE ReadReceipts(Owner)
  <2>1. /\ at[Owner] = "readreceipts" /\ at'[Owner] = "write"
        /\ UNCHANGED <<lines, appended, ledger, synced>>
        /\ held'[Owner].lines = held[Owner].lines
    BY <1>0, <1>4 DEF ReadReceipts, Goto, files, history
  <2>2. todo'[Owner] = <<>> \/ todo'[Owner] = <<ReceiptsOf("local"), ReceiptsOf("mirror")>>
    BY <1>0, <1>4 DEF ReadReceipts, ReceiptsOf
  <2>3. LinesOf("local") \notin ToSet(todo'[Owner])
    <3>1. ToSet(<<>>) = {} /\ \A a, b : ToSet(<<a, b>>) = {a, b}
      BY DEF ToSet
    <3>2. LinesOf("local") # ReceiptsOf("local") /\ LinesOf("local") # ReceiptsOf("mirror")
      BY DEF LinesOf, ReceiptsOf
    <3>3. ToSet(todo'[Owner]) \subseteq {ReceiptsOf("local"), ReceiptsOf("mirror")}
      <4>1. CASE todo'[Owner] = <<>>
        BY <3>1, <4>1
      <4>2. CASE todo'[Owner] = <<ReceiptsOf("local"), ReceiptsOf("mirror")>>
        BY <3>1, <4>2
      <4> QED
        BY <2>2, <4>1, <4>2
    <3> QED
      BY <3>2, <3>3
  <2> QED
    BY <2>1, <2>3 DEF TextsOK, PastOK
<1>5. CASE Finish(Owner)
  <2>1. /\ at[Owner] = "write" /\ at'[Owner] = "ready" /\ todo[Owner] = <<>>
        /\ UNCHANGED <<lines, appended, ledger>>
        /\ \A f \in Files : held'[Owner].lines[f] = <<>>
    BY <1>0, <1>5 DEF Finish, Goto, Returned, files, history, NothingHeld
  <2>2. \A f \in Files : Holds(lines[f], ledger)
    <3>1. ToSet(<<>>) = {}
      BY DEF ToSet
    <3> QED
      BY <2>1, <3>1 DEF PastOK, StoreInv, RewritesOK
  <2>3. <<>> \in Seq(Known(appended))
    OBVIOUS
  <2> QED
    BY <2>1, <2>2, <2>3 DEF TextsOK, PastOK
<1>6. ASSUME NEW text \in OperatorTexts, OperatorWrites(text) PROVE PastInv'
  <2>1. /\ at[Owner] = "operator" /\ at' = at
        /\ lines'["local"] = text /\ lines'["mirror"] = lines["mirror"]
        /\ UNCHANGED <<held, todo, appended, ledger, synced>>
    BY <1>0, <1>6 DEF OperatorWrites, process, history
  <2>2. Forged \in Known(appended)
    BY DEF Known
  <2>3. text \in Seq(Known(appended)) /\ InOrder(text, ledger) /\ FromStart(text, ledger)
    BY <2>2, OperatorTextsAreSound DEF TextsOK, PastOK
  <2>4. Holds(lines'["mirror"], ledger)
    BY <2>1 DEF PastOK
  <2>5. TextsOK'
    BY <2>1, <2>3 DEF TextsOK
  <2>6. PastOK'
    BY <2>1, <2>3, <2>4 DEF PastOK
  <2> QED
    BY <2>5, <2>6
<1> QED
  BY <1>1, <1>2, <1>3, <1>4, <1>5, <1>6

(* A crash of the owner leaves the files as they are; a copy is lost only    *)
(* while the other is whole.                                                *)
LEMMA FaultsKeepPast ==
    ASSUME PastInv, StoreInv', Readers = {}, FaultStep
    PROVE  PastInv'
<1> USE DEF PastInv, Files
<1>0. /\ Processes = {Owner} /\ DOMAIN at = Processes /\ DOMAIN held = Processes
      /\ DOMAIN lines = Files
  BY DEF Processes, StoreInv, StoreTypeOK
<1>1. <<>> \in Seq(Known(appended)) /\ InOrder(<<>>, ledger) /\ FromStart(<<>>, ledger)
  BY DEF InOrder, FromStart, ToSet
<1>2. CASE Crash(Owner)
  <2>1. /\ at'[Owner] = "idle" /\ ~synced' /\ UNCHANGED <<lines, appended, ledger>>
        /\ \A f \in Files : held'[Owner].lines[f] = <<>>
    BY <1>0, <1>2 DEF Crash, Goto, files, NothingHeld
  <2> QED
    BY <1>1, <2>1 DEF TextsOK, PastOK
<1>3. ASSUME NEW f \in Files, lines' = [lines EXCEPT ![f] = <<>>], at[Owner] = "idle", synced,
             ~synced', UNCHANGED <<at, held, appended, ledger>>
      PROVE  PastInv'
  <2>1. lines'[f] = <<>> /\ \A g \in Files : g # f => lines'[g] = lines[g]
    BY <1>0, <1>3
  <2>2. \A g \in Files : Holds(lines[g], ledger)
    BY <1>3 DEF PastOK
  <2>3. TextsOK'
    BY <1>1, <1>3, <2>1 DEF TextsOK
  <2>4. PastOK'
    BY <1>1, <1>3, <2>1, <2>2 DEF PastOK
  <2> QED
    BY <2>3, <2>4
<1>4. CASE \E f \in Files : LoseCopy(f)
  BY <1>3, <1>4 DEF LoseCopy, process, history
<1>5. CASE Reinitialise
  BY <1>3, <1>5 DEF Reinitialise, process, history
<1> QED
  BY <1>0, <1>2, <1>4, <1>5 DEF FaultStep

(* Every step keeps the history, if the owner is alone.                      *)
LEMMA PastNext ==
    ASSUME PastInv, Readers = {}, Distinct(Workload), [Next]_vars
    PROVE  PastInv'
<1>1. StoreInv'
  BY StoreNextInv DEF PastInv
<1>2. CASE UNCHANGED vars
  BY <1>1, <1>2 DEF PastInv, TextsOK, PastOK, vars, files, process, history, Line
<1>3. CASE \E p \in Processes : SynchroniseStep(p)
  <2>1. SynchroniseStep(Owner)
    BY <1>3 DEF Processes
  <2> QED
    BY <1>1, <2>1, MergingKeepsPast, RewritingKeepsPast, WorkingKeepsPast DEF SynchroniseStep
<1>4. CASE OwnerStep
  BY <1>1, <1>4, AppendingKeepsPast, WorkingKeepsPast DEF OwnerStep
<1>5. CASE FaultStep
  BY <1>1, <1>5, FaultsKeepPast
<1> QED
  BY <1>2, <1>3, <1>4, <1>5 DEF Next

(* If events are distinct and no other process looks at the archive, its two   *)
(* copies together keep every event that reached both, in order, and the copy  *)
(* that the owner works from holds them all, whatever crashes, whichever copy  *)
(* is lost and whatever an operator writes (archive.py ensure_local_archive,   *)
(* append_event; driver.py _run_operator_guarded).                           *)
THEOREM ArchiveKeepsHistory ==
    ASSUME Readers = {}, \A i, j \in DOMAIN Workload : Workload[i] = Workload[j] => i = j
    PROVE  Spec => []HistoryKept
<1>1. Init => PastInv
  BY PastStarts
<1>2. PastInv /\ [Next]_vars => PastInv'
  BY PastNext DEF Distinct
<1>3. PastInv => HistoryKept
  BY PastIsKept
<1> QED
  BY <1>1, <1>2, <1>3, PTL DEF Spec
==============================================================================
