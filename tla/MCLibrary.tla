----------------------------- MODULE MCLibrary -----------------------------
(* Seven parts of a run that share no state with each other: the initial state *)
(* decides which of them runs, and each takes only its own steps.            *)
EXTENDS TaskSelection, ParetoSelect, Replay, Minibatch, WorkspaceInit,
  Composition, RuntimeEnvironment

SelectionIdle == pc = "refused" /\ config = None /\ split = None /\ dataset = None
    /\ edits = 0 /\ request = None /\ planned = {} /\ selected = {} /\ pending = None
    /\ snapshot = None /\ ran = None /\ outcome = None
ParetoIdle == step = "idle" /\ scores = None /\ aggregate = None
    /\ fronts = [t \in TaskIds |-> {}] /\ dominated = {} /\ choice = {}
ReplayIdle == at = "idle" /\ finalZero = FALSE /\ harbor = NoFile /\ files = NoFile
    /\ vector = {} /\ index = NoFile /\ reference = NoFile /\ remaining = {}
    /\ memory = NoFile /\ view = NoFile /\ cases = {} /\ tampers = 0
BatchIdle == stage = [side |-> "parent", at |-> "idle"] /\ dedicated = FALSE
    /\ reuse = FALSE /\ criterion = "strict" /\ parent = NoBatch /\ attempt = MaxAttempts
    /\ batch = {} /\ jobs = {} /\ caseFiles = {} /\ finished = {} /\ verdict = NoBatch
InitIdle == step_ = "idle" /\ inits = MaxInits /\ seed = {} /\ recipe = {}
    /\ wantsLock = FALSE /\ staged = {} /\ ondisk = {} /\ assets = {} /\ mechanism = FALSE
    /\ index_ = Absent /\ head = Absent /\ gen0 = Absent /\ archives = {}
    /\ identity = Absent /\ genesis = Absent
ComposeIdle == composing = "idle" /\ library = [s \in LibrarySources |-> NotRead]
    /\ rewrites = 0 /\ blocks = [s \in RecipeStages |-> "missing"] /\ unasked = <<>>
    /\ problems = {} /\ asked = [s \in RecipeStages |-> NotRead]
    /\ digests = [s \in RecipeStages |-> NotRead] /\ toFreeze = {}
    /\ frozen = [s \in LibrarySources |-> NotRead]
EnvironmentIdle == env_ = <<>> /\ envChanges = MaxChanges /\ record = NoRecord
    /\ codexAgent = FALSE /\ overrides = <<>> /\ plan = Refused

(* The average score decides only when there is no frontier: two suffice.    *)
OneIsBest == \E best \in {1, 3} : aggregate = [c \in Candidates |-> IF c = best THEN 1 ELSE 0]

Init ==
  \/ SelectionInit /\ ParetoIdle /\ ReplayIdle /\ BatchIdle
     /\ InitIdle /\ ComposeIdle /\ EnvironmentIdle
  \/ SelectionIdle /\ ParetoInit /\ OneIsBest /\ ReplayIdle /\ BatchIdle
     /\ InitIdle /\ ComposeIdle /\ EnvironmentIdle
  \/ SelectionIdle /\ ParetoIdle /\ ReplayInit /\ BatchIdle
     /\ InitIdle /\ ComposeIdle /\ EnvironmentIdle
  \/ SelectionIdle /\ ParetoIdle /\ ReplayIdle /\ MinibatchInit
     /\ InitIdle /\ ComposeIdle /\ EnvironmentIdle
  \/ SelectionIdle /\ ParetoIdle /\ ReplayIdle /\ BatchIdle
     /\ WorkspaceInitial /\ ComposeIdle /\ EnvironmentIdle
  \/ SelectionIdle /\ ParetoIdle /\ ReplayIdle /\ BatchIdle
     /\ InitIdle /\ CompositionInit /\ EnvironmentIdle
  \/ SelectionIdle /\ ParetoIdle /\ ReplayIdle /\ BatchIdle
     /\ InitIdle /\ ComposeIdle /\ EnvironmentInit

vars == <<selectionVars, paretoVars, replayVars, batchVars,
          initVars, composeVars, environmentVars>>

Next ==
  \/ SelectionNext /\ UNCHANGED <<paretoVars, replayVars, batchVars,
       initVars, composeVars, environmentVars>>
  \/ ParetoNext /\ UNCHANGED <<selectionVars, replayVars, batchVars,
       initVars, composeVars, environmentVars>>
  \/ ReplayNext /\ UNCHANGED <<selectionVars, paretoVars, batchVars,
       initVars, composeVars, environmentVars>>
  \/ MinibatchNext /\ UNCHANGED <<selectionVars, paretoVars, replayVars,
       initVars, composeVars, environmentVars>>
  \/ WorkspaceNext /\ UNCHANGED <<selectionVars, paretoVars, replayVars,
       batchVars, composeVars, environmentVars>>
  \/ CompositionNext /\ UNCHANGED <<selectionVars, paretoVars, replayVars,
       batchVars, initVars, environmentVars>>
  \/ EnvironmentNext /\ UNCHANGED <<selectionVars, paretoVars, replayVars,
       batchVars, initVars, composeVars>>

Spec == Init /\ [][Next]_vars

MCCandidates == 1..3
MCTasks == 1..4

R(exception, reward, agent, bootstrap) ==
  [exception |-> exception, reward |-> reward, agent |-> agent, bootstrap |-> bootstrap]
MCHarborResults ==
  {R("none", {1}, TRUE, FALSE), R("none", {0}, TRUE, TRUE), R("none", {}, TRUE, FALSE),
   R("AgentTimeoutError", {1}, FALSE, FALSE), R("VerifierTimeoutError", {}, TRUE, FALSE),
   R("CandidateInvalidError", {}, FALSE, FALSE), R("EnvironmentError", {}, FALSE, FALSE)}

MCSeedFiles == {"agent.py", "uv.lock", ".env", "x.egg-info", "link"}
MCAssets == {"score.py", "eval.sh", "runs/case", ".hidden"}
MCKindOf == [f \in MCSeedFiles \cup MCAssets |->
  CASE f \in {"uv.lock", "runs/case"} -> "ignored" [] f = ".env" -> "secret"
    [] f = "x.egg-info" -> "metadata" [] f = "link" -> "escaping" [] f = "eval.sh" -> "generated" [] f = ".hidden" -> "hidden"
    [] OTHER -> "plain"]

MCStageList == <<"select", "mutate">>

Env(url, key, file, upper, lower, bypass) ==
  [OPENAI_BASE_URL |-> url, OPENAI_API_KEY |-> key, CODEX_AUTH_JSON_PATH |-> file,
   HTTP_PROXY |-> upper, http_proxy |-> lower, HTTPS_PROXY |-> {}, NO_PROXY |-> bypass]
MCHostEnvironments ==
  {Env(url, key, {}, {}, {}, {}) : url \in {{}, {"one"}, {"two"}}, key \in {{}, {"key"}}}
    \cup {Env({"one"}, {"key"}, file, {}, {}, {}) : file \in {{"auth"}, {"gone"}}}
    \cup {Env({"one"}, {"key"}, {}, upper, lower, bypass) : upper \in {{}, {"proxy"}},
           lower \in {{}, {"proxy"}, {"other"}, {"broken"}}, bypass \in {{}, {"local"}}}
MCCapitals == [n \in {"OPENAI_BASE_URL", "OPENAI_API_KEY", "CODEX_AUTH_JSON_PATH", "HTTP_PROXY",
    "http_proxy", "HTTPS_PROXY", "NO_PROXY", "openai_base_url", "LEVEL", "level"} |->
  CASE n = "http_proxy" -> "HTTP_PROXY" [] n = "openai_base_url" -> "OPENAI_BASE_URL"
    [] n = "level" -> "LEVEL" [] OTHER -> n]
O(name, value) == [name |-> name, value |-> {value}]
MCOverrideSets ==
  {{}, {O("LEVEL", "low")}, {O("LEVEL", "low"), O("level", "high")},
   {O("openai_base_url", "two")}, {O("LEVEL", "broken")}}
MCHostOf == [e \in {"one", "two", "official"} |-> IF e = "official" THEN e ELSE "host"]
============================================================================
