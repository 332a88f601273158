----------------------------- MODULE ProcessTree -----------------------------
(***************************************************************************)
(* One owned subprocess: a root process started in a session of its own     *)
(* whose output is read through a pipe, the processes it forks, and the     *)
(* supervisor.  run_owned (runtime/process.py) and run_operator               *)
(* (operators.py) terminate the whole tree at a deadline or an interrupt;     *)
(* run_mutate (agent.py) terminates the root's group at a deadline, and       *)
(* leaves everything running at an interrupt.                                *)
(*                                                                         *)
(* Reading the output ends when no process holds the pipe any longer and    *)
(* the root is dead; with live output (operators.py) there is no pipe.  A   *)
(* process starts in the group of its parent or in a group of its own, and  *)
(* may found one later.  SIGTERM kills at once unless the process ignores    *)
(* it, SIGKILL always.  When a process dies its children pass to init and   *)
(* are no descendants of the root any more.                                 *)
(* Process ids are not reused here.                                         *)
(***************************************************************************)
EXTENDS Naturals, FiniteSets

CONSTANTS Procs,      \* the processes that may come to be
          Root,       \* the one started by the supervisor
          Nobody      \* init, the parent of orphans

ASSUME TreeAssumption ==
    Procs \subseteq Nat /\ IsFiniteSet(Procs) /\ Root \in Procs /\ Nobody \notin Procs

VARIABLES
    running,      \* the processes alive
    born,         \* those started so far
    parent,       \* the parent of each, Nobody for an orphan
    group,        \* its process group
    holds,        \* those with the pipe open
    stubborn,     \* those that ignore SIGTERM
    agent,        \* is the supervisor run_mutate, which reads no process table?
    enumerable,   \* can the process table be read?
    orderly,      \* see Fork, Regroup and Exit
    pc,           \* the supervisor
    sig,          \* its present round of signals
    unread,       \* processes listed, whose entry is still to be read
    links,        \* <<parent, child>> as read from the entries
    targets,      \* the processes read to be in the tree
    groups,       \* the groups to be signalled
    regrouped     \* those in another group than the one looked up

tree     == <<running, born, parent, group, holds, stubborn>>
setting  == <<agent, enumerable, orderly>>
view     == <<sig, unread, links, targets, groups>>
treeVars == <<tree, setting, pc, view, regrouped>>

TreeInit ==
    /\ running = {Root} /\ born = {Root} /\ holds \in SUBSET {Root}
    /\ parent = [p \in Procs |-> Nobody] /\ group = [p \in Procs |-> p]
    /\ stubborn \in SUBSET {Root}
    /\ agent \in BOOLEAN /\ enumerable \in BOOLEAN /\ orderly \in BOOLEAN
    /\ agent => ~enumerable
    /\ pc = "wait" /\ sig = "TERM" /\ unread = {} /\ links = {} /\ targets = {}
    /\ groups = {} /\ regrouped = {}

------------------------------------------------------------------------------
(* The processes.  An orderly tree starts no process and founds no group once *)
(* the supervisor has given up, and a process ends by itself only after its   *)
(* children.                                                                 *)

Children(p) == {c \in running : parent[c] = p}

Fork(p, c, ownGroup, keepsPipe, ignoresTerm) ==
    /\ p \in running
    /\ c \in Procs \ born /\ \A q \in Procs \ born : c <= q
    /\ orderly => pc = "wait"
    /\ keepsPipe => p \in holds
    /\ running' = running \cup {c} /\ born' = born \cup {c}
    /\ parent' = [parent EXCEPT ![c] = p]
    /\ group' = [group EXCEPT ![c] = IF ownGroup THEN c ELSE group[p]]
    /\ holds' = IF keepsPipe THEN holds \cup {c} ELSE holds
    /\ stubborn' = IF ignoresTerm THEN stubborn \cup {c} ELSE stubborn
    /\ UNCHANGED <<setting, pc, view, regrouped>>

(* setsid and setpgid: not for one that leads a group already.               *)
Regroup(p) ==
    /\ p \in running /\ group[p] # p
    /\ orderly => pc = "wait"
    /\ group' = [group EXCEPT ![p] = p]
    /\ regrouped' = IF pc = "signal" THEN regrouped \cup {p} ELSE regrouped
    /\ UNCHANGED <<running, born, parent, holds, stubborn, setting, pc, view>>

Dies(dead) ==
    /\ running' = running \ dead /\ holds' = holds \ dead
    /\ parent' = [c \in Procs |-> IF parent[c] \in dead THEN Nobody ELSE parent[c]]
    /\ UNCHANGED <<born, group, stubborn>>

Exit(p) ==
    /\ p \in running
    /\ orderly => Children(p) = {}
    /\ Dies({p})
    /\ UNCHANGED <<setting, pc, view, regrouped>>

------------------------------------------------------------------------------
(* Waiting for the output *)

OutputEnded == holds = {} /\ Root \notin running

(* communicate returns: the whole output has been read. *)
Returns ==
    /\ pc = "wait" /\ OutputEnded
    /\ pc' = "done"
    /\ UNCHANGED <<tree, setting, view, regrouped>>

(* The timeout; in run_owned and run_operator also KeyboardInterrupt and the *)
(* like.                                                                     *)
GivesUp ==
    /\ pc = "wait"
    /\ pc' = "list"
    /\ UNCHANGED <<tree, setting, view, regrouped>>

(* An interrupt leaves run_mutate at any point, and the others while they     *)
(* terminate the tree: nothing is signalled any more.                        *)
Abandon ==
    /\ pc \notin {"done", "abandoned"}
    /\ pc = "wait" => agent
    /\ pc' = "abandoned"
    /\ UNCHANGED <<tree, setting, view, regrouped>>

------------------------------------------------------------------------------
(* Terminating the tree *)

(* _proc_children: the names in /proc first, then one entry after the other; *)
(* nothing where neither /proc nor ps can be read, or is.                    *)
ListProcesses ==
    /\ pc = "list"
    /\ unread' = IF enumerable THEN running ELSE {}
    /\ links' = {}
    /\ pc' = "read"
    /\ UNCHANGED <<tree, setting, sig, targets, groups, regrouped>>

(* An entry may be gone. *)
ReadEntry(p) ==
    /\ pc = "read" /\ p \in unread
    /\ unread' = unread \ {p}
    /\ links' = IF p \in running THEN links \cup {<<parent[p], p>>} ELSE links
    /\ UNCHANGED <<tree, setting, pc, sig, targets, groups, regrouped>>

(* Deviation: the root's own children only. *)
ChildrenRead == {Root} \cup {p \in born : <<Root, p>> \in links}

(* _process_tree: the root, and below every process what was read to be its  *)
(* child.                                                                    *)
ClosedBelow(pids) ==
    Root \in pids /\ \A p, c \in born : p \in pids /\ <<p, c>> \in links => c \in pids
ProcessTreeRead ==
    {p \in born : \A pids \in SUBSET born : ClosedBelow(pids) => p \in pids}

(* Deviation: the second reading replaces the first. *)
TreeReadAnew ==
    /\ pc = "read" /\ unread = {}
    /\ targets' = ProcessTreeRead
    /\ pc' = "look"
    /\ UNCHANGED <<tree, setting, sig, unread, links, groups, regrouped>>

(* The second reading is joined to the first.                                *)
TreeRead ==
    /\ pc = "read" /\ unread = {}
    /\ targets' = targets \cup ProcessTreeRead
    /\ pc' = "look"
    /\ UNCHANGED <<tree, setting, sig, unread, links, groups, regrouped>>

(* _alive_pids, getpgid of a live process *)
Alive(pids) == pids \cap running
GroupsOf(pids) == {group[p] : p \in Alive(pids)}

(* _signal_process_tree: the root's group is signalled by its number, and    *)
(* the groups of the others as they are now; in the sweep only those.        *)
LookUpGroups ==
    /\ pc = "look"
    /\ groups' = GroupsOf(targets \ {Root}) \cup (IF sig = "SWEEP" THEN {} ELSE {Root})
    /\ regrouped' = {}
    /\ pc' = "signal"
    /\ UNCHANGED <<tree, setting, sig, unread, links, targets>>

Reached == {p \in running : group[p] \in groups}

AfterSignal == [TERM |-> "grace", KILL |-> "drain", SWEEP |-> "done"]

Signal ==
    /\ pc = "signal"
    /\ Dies(IF sig = "TERM" THEN Reached \ stubborn ELSE Reached)
    /\ pc' = AfterSignal[sig]
    /\ UNCHANGED <<setting, view, regrouped>>

(* Deviation: what survives the grace period unseen is left alone. *)
GraceIsEnough ==
    /\ pc = "grace" /\ OutputEnded
    /\ pc' = "done"
    /\ UNCHANGED <<tree, setting, view, regrouped>>

(* Within five seconds the output ends, and what is left of the tree is      *)
(* killed, ...                                                               *)
GraceSuffices ==
    /\ pc = "grace" /\ OutputEnded
    /\ pc' = "look" /\ sig' = "SWEEP"
    /\ UNCHANGED <<tree, setting, unread, links, targets, groups, regrouped>>

(* ... or they pass, and the tree of now and that of then are killed.        *)
GraceEnds ==
    /\ pc = "grace"
    /\ pc' = "list" /\ sig' = "KILL"
    /\ UNCHANGED <<tree, setting, unread, links, targets, groups, regrouped>>

(* The second communicate has no timeout. *)
Drained ==
    /\ pc = "drain" /\ OutputEnded
    /\ pc' = "done"
    /\ UNCHANGED <<tree, setting, view, regrouped>>

Termination ==
    \/ ListProcesses \/ (\E p \in unread : ReadEntry(p)) \/ TreeRead
    \/ LookUpGroups \/ Signal \/ GraceSuffices \/ GraceEnds \/ Drained

TreeNext ==
    \/ \E p, c \in Procs, s, k, i \in BOOLEAN : Fork(p, c, s, k, i)
    \/ \E p \in Procs : Regroup(p) \/ Exit(p)
    \/ Returns \/ GivesUp \/ Abandon \/ Termination

TreeSpec == TreeInit /\ [][TreeNext]_treeVars

(* Once it has given up the supervisor goes on: the process table can be read *)
(* to its end and the grace period has one.  Nothing is assumed of the        *)
(* processes, and no deadline.                                               *)
TreeFairSpec == TreeSpec /\ WF_treeVars(Termination)

------------------------------------------------------------------------------
(* What was read to be in the tree is dead when the termination is complete,  *)
(* also a process in a group of its own, one that ignores SIGTERM, and one    *)
(* whose parent died of it; one may have founded a group between the last     *)
(* look at its group and the signal (_terminate).  What has lost its parent   *)
(* before its entry was read is not in the tree.                             *)
ReadDies == pc = "done" => targets \cap running \subseteq regrouped

(* Where the output had to be cut off, nothing is left of the root's group,   *)
(* whoever started it and whenever (_terminate, the second signal).           *)
GroupDies == pc = "drain" => \A p \in running : group[p] # Root

(* Of an orderly tree nothing is left at all, although it is read while its   *)
(* processes end.                                                            *)
OrderlyTreeDies == pc = "done" /\ orderly /\ enumerable => running = {}

(* What the supervisor gave up on is gone when it returns.                   *)
TargetsDie == ReadDies /\ GroupDies /\ OrderlyTreeDies

(* A call that gives up on an orderly tree whose entries it can read returns, *)
(* if nobody interrupts it (run_owned, run_operator).                        *)
OrderlyTimeoutEnds ==
    pc = "list" /\ orderly /\ enumerable ~> pc \in {"done", "abandoned"}
==============================================================================
