------------------------- MODULE RuntimeEnvironment -------------------------
(***************************************************************************)
(* Which environment variables an evaluation hands to the agent, to the      *)
(* verifier and to the mutate runner, and with which values                  *)
(* (src/src/evolve/runtime/environment.py, config.py, auth.py).  evolve init *)
(* records the model's endpoint in evaluator/runtime.json; every evaluation  *)
(* resolves the host's environment anew, which may be another by then.  A    *)
(* role gets names only: the value of a name is looked up in the process     *)
(* under an internal name, made of the role and the name in capitals.        *)
(*                                                                          *)
(* Values are sets of words; {} is a variable that is not set or empty.      *)
(***************************************************************************)
EXTENDS Naturals

CONSTANTS
  HostEnvironments, \* variable -> value, as the host may have them
  OverrideSets,     \* sets of [name, value] that the recipe may configure
  Capitals,         \* name -> the same name in capitals
  HostOf,           \* endpoint -> its host name, with OfficialEndpoint
  OfficialEndpoint,
  AuthFiles,        \* values of CODEX_AUTH_JSON_PATH that name a file
  MultiLine,        \* words that hold a line break
  MaxChanges,       \* bound: changes of the host's environment
  NoRecord,         \* no runtime.json, no plan
  Refused           \* the plan of an evaluation that is refused

Roles == {"agent", "verifier", "mutate"}
UpperProxies == {"HTTP_PROXY", "HTTPS_PROXY"}
ProxyNames(upper) == {n \in DOMAIN Capitals : Capitals[n] = upper}
ProtectedNames ==
  UpperProxies \cup {"NO_PROXY", "OPENAI_API_KEY", "OPENAI_BASE_URL", "CODEX_AUTH_JSON_PATH"}

ASSUME EnvironmentAssumption ==
  /\ \A env \in HostEnvironments : ProtectedNames \subseteq DOMAIN env
  /\ \A env \in HostEnvironments : \A d, e \in env["OPENAI_BASE_URL"] : d = e  \* one word
  /\ ProtectedNames \subseteq DOMAIN Capitals
  /\ \A n \in ProtectedNames : Capitals[n] = n
  /\ MaxChanges \in Nat

VARIABLES
  env_,       \* the host's environment
  envChanges,
  record,     \* evaluator/runtime.json: the endpoint, the proxy policy
  codexAgent, \* the agent can use an authentication file
  overrides,  \* role -> evaluator.agent_env, evaluator.verifier_env
  plan        \* the plan of the latest evaluation, or Refused

environmentVars == <<env_, envChanges, record, codexAgent, overrides, plan>>

Endpoint(env) == IF env["OPENAI_BASE_URL"] = {} THEN OfficialEndpoint
                 ELSE CHOOSE e \in env["OPENAI_BASE_URL"] : TRUE
ModelHost(env) == HostOf[Endpoint(env)]
SingleLine(value) == value \cap MultiLine = {}
IsSet(env, name) == name \in DOMAIN env /\ env[name] # {}

EnvironmentInit ==
  /\ env_ \in HostEnvironments /\ envChanges = 0
  /\ \/ record = NoRecord
     \/ \E required \in BOOLEAN : record = [endpoint |-> Endpoint(env_), required |-> required]
  /\ codexAgent \in BOOLEAN
  /\ overrides \in [{"agent", "verifier"} -> OverrideSets]
  /\ plan = NoRecord

ChangeEnvironment(env) ==
  /\ envChanges < MaxChanges /\ env # env_
  /\ env_' = env /\ envChanges' = envChanges + 1
  /\ plan' = NoRecord
  /\ UNCHANGED <<record, codexAgent, overrides>>

----------------------------------------------------------------------------
Entry(role, name, value) == [role |-> role, name |-> name, value |-> value]

(* resolve_authentication: the file goes before the key                      *)
Credential == IF IsSet(env_, "CODEX_AUTH_JSON_PATH") THEN "CODEX_AUTH_JSON_PATH"
              ELSE "OPENAI_API_KEY"
Authenticates ==
  /\ IF Credential = "OPENAI_API_KEY" THEN IsSet(env_, Credential) /\ SingleLine(env_[Credential])
     ELSE codexAgent /\ env_[Credential] \in AuthFiles
  /\ SingleLine(env_["OPENAI_BASE_URL"])
AuthEntries ==
  {Entry("agent", n, env_[n]) : n \in {m \in {Credential, "OPENAI_BASE_URL"} : IsSet(env_, m)}}

(* _add_configured_proxies: the two spellings of a proxy must agree, both are *)
(* forwarded to every role, and the model's host is added to those that no    *)
(* proxy is used for.                                                        *)
Spellings(upper) == {env_[n] : n \in {m \in ProxyNames(upper) : IsSet(env_, m)}}
ProxyIsActive == \E upper \in UpperProxies : Spellings(upper) # {}
ProxiesAgree ==
  \A upper \in UpperProxies \cup (IF ProxyIsActive THEN {"NO_PROXY"} ELSE {}) :
    /\ \A v, w \in Spellings(upper) : v = w
    /\ \A value \in Spellings(upper) : SingleLine(value)
Bypass == (UNION Spellings("NO_PROXY")) \cup {ModelHost(env_)}
ForAllRoles(upper, value) == {Entry(r, n, value) : r \in Roles, n \in ProxyNames(upper)}
ProxyEntries ==
  IF ~ProxyIsActive THEN {}
  ELSE ForAllRoles("NO_PROXY", Bypass)
         \cup UNION {ForAllRoles(upper, UNION Spellings(upper)) :
                       upper \in {u \in UpperProxies : Spellings(u) # {}}}

(* _add_legacy_proxies: capitals only, as they are                           *)
LegacyProxyEntries ==
  {Entry(r, n, env_[n]) :
     r \in Roles, n \in {m \in UpperProxies \cup {"NO_PROXY"} : IsSet(env_, m)}}

(* _apply_overrides: no name twice, in whatever spelling, and none of those   *)
(* that the mechanism sets itself.                                           *)
(* A plausible fault: only the usual spelling of a name is protected.         *)
IsProtectedAsSpelled(name) == name \in ProtectedNames
IsProtected(name) == Capitals[name] \in ProtectedNames
OverridesAllowed(role) ==
  /\ \A o \in overrides[role] : ~IsProtected(o.name) /\ SingleLine(o.value)
  /\ \A o, p \in overrides[role] : Capitals[o.name] = Capitals[p.name] => o = p
OverrideEntries ==
  UNION {{Entry(r, o.name, o.value) : o \in overrides[r]} : r \in DOMAIN overrides}

(* _add_value: one internal name has one value.                              *)
InternalName(entry) == <<entry.role, Capitals[entry.name]>>
Agree(entries) ==
  \A e, f \in entries : InternalName(e) = InternalName(f) => e.value = f.value
PlanOf(entries) ==
  [process |-> [key \in {InternalName(e) : e \in entries} |->
                  (CHOOSE e \in entries : InternalName(e) = key).value],
   names   |-> {<<e.role, e.name>> : e \in entries},
   agree   |-> Agree(entries)]

Publishable(p) == /\ p.agree /\ OverridesAllowed("agent") /\ OverridesAllowed("verifier")

Resolve ==
  /\ plan = NoRecord /\ record # NoRecord
  /\ plan' = LET p == PlanOf(AuthEntries \cup ProxyEntries \cup OverrideEntries)
             IN IF /\ Endpoint(env_) = record.endpoint /\ Authenticates /\ ProxiesAgree
                   /\ (record.required => ProxyIsActive) /\ Publishable(p)
                THEN p ELSE Refused
  /\ UNCHANGED <<env_, envChanges, record, codexAgent, overrides>>

(* A workspace without runtime.json: authentication only where there is some. *)
LegacyAuthentication == IsSet(env_, "OPENAI_API_KEY") \/ IsSet(env_, "CODEX_AUTH_JSON_PATH")
ResolveLegacy ==
  /\ plan = NoRecord /\ record = NoRecord
  /\ plan' = LET p == PlanOf((IF LegacyAuthentication THEN AuthEntries ELSE {})
                                 \cup LegacyProxyEntries \cup OverrideEntries)
             IN IF /\ LegacyAuthentication => Authenticates
                   /\ \A entry \in LegacyProxyEntries : SingleLine(entry.value)
                   /\ Publishable(p)
                THEN p ELSE Refused
  /\ UNCHANGED <<env_, envChanges, record, codexAgent, overrides>>

EnvironmentNext ==
  \/ \E env \in HostEnvironments : ChangeEnvironment(env)
  \/ Resolve \/ ResolveLegacy

EnvironmentSpec == EnvironmentInit /\ [][EnvironmentNext]_environmentVars

----------------------------------------------------------------------------
(* What a role's names mean when an evaluation has a plan.  A name that the    *)
(* recipe sets has the value that this role's recipe block gives it; any other *)
(* has the host's value, but for the hosts that no proxy is used for; and the  *)
(* agent talks to the endpoint that the workspace was created for, past every  *)
(* proxy, under whatever spelling a tool reads (environment.py).              *)
Value(role, name) == plan.process[InternalName(Entry(role, name, {}))]
OverriddenIn(role, name) ==
  role \in DOMAIN overrides /\ \E o \in overrides[role] : o.name = name
HostValues(name) == {env_[n] : n \in {m \in ProxyNames(Capitals[name]) : IsSet(env_, m)}}

NamesMeanTheirSource ==
  \A entry \in plan.names :
    LET role == entry[1]  name == entry[2]
    IN IF OverriddenIn(role, name)
       THEN \E o \in overrides[role] : o.name = name /\ Value(role, name) = o.value
       ELSE \E host \in HostValues(name) \cup {{}} :
              Value(role, name) \in {host, host \cup {ModelHost(env_)}}

EndpointIsTheRecorded ==
  record # NoRecord =>
    /\ \A key \in DOMAIN plan.process :
         key[2] = "OPENAI_BASE_URL" => plan.process[key] \subseteq {record.endpoint}
    /\ \A key \in DOMAIN plan.process :
         key[2] \in UpperProxies =>
           HostOf[record.endpoint] \in plan.process[<<key[1], "NO_PROXY">>]

RolesSeeTheirSources ==
  plan \notin {NoRecord, Refused} => NamesMeanTheirSource /\ EndpointIsTheRecorded
============================================================================
