---------------------------- MODULE MCCandidate ----------------------------
(* Four views of a candidate on its way from an agent to its tag, and the    *)
(* search that candidates make, which share no state: the initial state      *)
(* decides which of them runs.                                               *)
EXTENDS MCPrivateSearch, HarborMutate, CandidateFiles, Admission, Population, TLC

MutateIdle == mutating = "killed" /\ agent = "codex" /\ job = FALSE /\ torn = FALSE
    /\ clock = 0 /\ began = 0 /\ attempt = 0
    /\ overran = FALSE /\ timedOut = FALSE /\ container = FALSE
    /\ checkout = [r \in RootSet |-> "old"] /\ space = "old"
    /\ spare = [r \in RootSet |-> Gone] /\ backup = [r \in RootSet |-> Gone]
    /\ spaceBackup = Gone /\ spaceSpare = Gone /\ renames = 0 /\ result = "interrupt"
FilesIdle == commitStep = "idle" /\ touches = MaxTouches
    /\ work = ParentTree /\ staging = ParentTree /\ headTree = ParentTree
    /\ listed = {} /\ snapshotted = NoContent /\ tagged = NoContent
    /\ seenWork = NoContent /\ late = FALSE
AdmissionIdle == tree = None /\ head = "parent" /\ index = None
    /\ outputs = [p \in Paths |-> None] /\ tag = None /\ row = None
    /\ pc = "none" /\ cmd = None /\ todo = {} /\ seen = None
    /\ runs = 0 /\ crashes = MaxCrashes /\ judged = [j \in Judges |-> None] /\ raced = FALSE

PopulationIdle == strategy = [select |-> "none"] /\ child_ = 0 /\ moment = "idle" /\ resumed = FALSE
    /\ chosen = 0
    /\ rundir = <<>> /\ family = [g \in 0..LastBorn |-> Unwritten] /\ playbook = <<>>
    /\ kills = MaxKills

SearchIdle == file = <<>> /\ from = 0 /\ searched = 0 /\ mention = "present"

Init ==
  \/ MutateInit /\ FilesIdle /\ AdmissionIdle /\ PopulationIdle /\ SearchIdle
  \/ MutateIdle /\ FilesInit /\ AdmissionIdle /\ PopulationIdle /\ SearchIdle
  \/ MutateIdle /\ FilesIdle /\ AdmissionInit /\ PopulationIdle /\ SearchIdle
  \/ MutateIdle /\ FilesIdle /\ AdmissionIdle /\ PopulationInit /\ SearchIdle
  \/ MutateIdle /\ FilesIdle /\ AdmissionIdle /\ PopulationIdle /\ SearchInit

Next ==
  \/ MutateNext /\ UNCHANGED <<fileVars, admissionVars, populationVars, searchVars>>
  \/ FilesNext /\ UNCHANGED <<mutateVars, admissionVars, populationVars, searchVars>>
  \/ AdmissionNext /\ UNCHANGED <<mutateVars, fileVars, populationVars, searchVars>>
  \/ PopulationNext /\ UNCHANGED <<mutateVars, fileVars, admissionVars, searchVars>>
  \/ SearchNext /\ UNCHANGED <<mutateVars, fileVars, admissionVars, populationVars>>

Spec == Init /\ [][Next]_<<mutateVars, fileVars, admissionVars, populationVars, searchVars>>

(* Headings are compared with one another and nothing else. *)
HeadingSymmetry == Permutations(Headings)

(* A list that names one task twice. *)
MCPredictions == {{<<1, 1>>, <<2, 1>>}}

MCRoots == <<"target", "operators">>

MCFiles == {"prompt", "score", "skill", "sealed", "cache"}
MCDirsOf == [f \in MCFiles |->
  CASE f = "skill" -> <<"skills">> [] f = "sealed" -> <<"skills", "locked">>
    [] OTHER -> <<>>]

RecipeOf(s, g) == [select |-> s, gate |-> g]
MCStrategies ==
  {RecipeOf("greedy", "hillclimb"),
   RecipeOf("ahe_latest", "ahe_artifact_valid"), RecipeOf("score_weighted", "parent_eligible"),
   RecipeOf("score_child_prop", "parent_eligible"), RecipeOf("random", "hillclimb"),
   RecipeOf("newest", "strict")}
============================================================================
