---------------------------- MODULE Composition ----------------------------
(***************************************************************************)
(* From a recipe to the operators that a workspace freezes                   *)
(* (src/src/evolve/composition/).  resolve asks every operator whether it    *)
(* accepts its configuration and takes the digest of its file; init then     *)
(* prepares the seed; materialize reads the operators again with the helpers *)
(* that they may import.  The library is a directory that somebody may edit  *)
(* at any moment.                                                            *)
(*                                                                          *)
(* A source is an operator (the file of its stage in the library, or a       *)
(* script of the recipe), the helpers of a stage, the shared helpers or a    *)
(* bundle of one method's helpers; its content is a version that imports     *)
(* some bundles and accepts the configuration or not.                        *)
(***************************************************************************)
EXTENDS Naturals, Sequences, SequencesExt, FiniteSets

CONSTANTS
  StageList,   \* OPERATOR_BY_KIND, as far as the instance has them
  NeededStages,  \* REQUIRED_OPERATOR_KINDS, likewise
  Bundles,       \* names of bundles under _methods_shared
  ImportSets,    \* what a source may import
  MaxRewrites,   \* bound: edits of the library
  NotRead        \* no content

RecipeStages == ToSet(StageList)
Source(part, name) == [part |-> part, name |-> name]
Operator(stage) == Source("operator", stage)
Helpers(stage)  == Source("helpers", stage)
SharedHelpers   == Source("shared", "library")
Bundle(b)       == Source("bundle", b)
LibrarySources ==
  {Operator(s) : s \in RecipeStages} \cup {Helpers(s) : s \in RecipeStages}
    \cup {SharedHelpers} \cup {Bundle(b) : b \in Bundles}

ASSUME CompositionAssumption ==
  /\ StageList \in Seq(RecipeStages)
  /\ NeededStages \subseteq RecipeStages
  /\ ImportSets \subseteq SUBSET Bundles
  /\ MaxRewrites \in Nat

VARIABLES
  composing,  \* where init is
  library,    \* source -> its content; NotRead when the file does not exist
  rewrites,
  blocks,     \* stage -> what its block of the recipe names
  unasked,    \* the stages that resolve has still to look at, in order
  problems,   \* stages with a problem
  asked,      \* stage -> the content that accepted the configuration
  digests,    \* stage -> the content that the digest was taken of
  toFreeze,   \* sources that materialize has still to read
  frozen      \* source -> the content that the workspace will have

composeVars == <<composing, library, rewrites, blocks, unasked, problems, asked, digests,
                 toFreeze, frozen>>

Content(version, imports, accepts) ==
  [version |-> version, imports |-> imports, accepts |-> accepts]

(* library, script: well-formed, with the one or the other; malformed: the    *)
(* wrong keys, both or none of them, a bad timeout or configuration.         *)
BlockKinds == {"library", "script", "malformed", "missing"}

CompositionInit ==
  /\ composing = "resolving"
  /\ \E imports \in ImportSets, chain \in [Bundles -> ImportSets] :
       library = [s \in LibrarySources |->
         Content(0, CASE s.part = "operator" -> imports [] s.part = "bundle" -> chain[s.name]
                      [] OTHER -> {}, TRUE)]
  /\ rewrites = 0
  /\ blocks \in [RecipeStages -> BlockKinds]
  /\ unasked = StageList /\ problems = {}
  /\ asked = [s \in RecipeStages |-> NotRead] /\ digests = [s \in RecipeStages |-> NotRead]
  /\ toFreeze = {} /\ frozen = [s \in LibrarySources |-> NotRead]

----------------------------------------------------------------------------
(* Somebody edits or removes a source while init runs.                       *)
Rewrite(source, imports, accepts) ==
  /\ accepts \/ source.part = "operator"
  /\ composing \in {"resolving", "preparing", "freezing"}
  /\ rewrites < MaxRewrites /\ rewrites' = rewrites + 1
  /\ library' = [library EXCEPT ![source] = Content(rewrites', imports, accepts)]
  /\ UNCHANGED <<composing, blocks, unasked, problems, asked, digests, toFreeze, frozen>>

RemoveSource(source) ==
  /\ composing \in {"resolving", "preparing", "freezing"}
  /\ rewrites < MaxRewrites /\ rewrites' = rewrites + 1
  /\ library[source] # NotRead /\ library' = [library EXCEPT ![source] = NotRead]
  /\ UNCHANGED <<composing, blocks, unasked, problems, asked, digests, toFreeze, frozen>>

(* _resolve_stage, in the order of the stages: a problem does not stop those  *)
(* after it.  A library operator is asked about its configuration, a script  *)
(* is not.                                                                   *)
Askable(stage) == library[Operator(stage)] # NotRead
Problem(stage) ==
  \/ blocks[stage] = "missing" /\ stage \in NeededStages
  \/ blocks[stage] = "malformed"
  \/ blocks[stage] \in {"library", "script"} /\ ~Askable(stage)
  \/ blocks[stage] = "library" /\ Askable(stage) /\ ~library[Operator(stage)].accepts

AskOperator(stage) ==
  /\ composing = "resolving" /\ unasked # <<>> /\ stage = Head(unasked) /\ asked[stage] = NotRead
  /\ IF Problem(stage) \/ blocks[stage] = "missing"
     THEN /\ unasked' = Tail(unasked) /\ UNCHANGED asked
          /\ problems' = IF Problem(stage) THEN problems \cup {stage} ELSE problems
     ELSE /\ asked' = [asked EXCEPT ![stage] = library[Operator(stage)]]
          /\ UNCHANGED <<unasked, problems>>
  /\ UNCHANGED <<composing, library, rewrites, blocks, digests, toFreeze, frozen>>

(* The digest is of the file as it is read after the question; a file that is *)
(* gone by then ends init.                                                   *)
TakeDigest(stage) ==
  /\ composing = "resolving" /\ unasked # <<>> /\ stage = Head(unasked) /\ asked[stage] # NotRead
  /\ digests' = [digests EXCEPT ![stage] = library[Operator(stage)]]
  /\ unasked' = Tail(unasked)
  /\ composing' = IF Askable(stage) THEN composing ELSE "failed"
  /\ UNCHANGED <<library, rewrites, blocks, problems, asked, toFreeze, frozen>>

Resolved ==
  /\ composing = "resolving" /\ unasked = <<>>
  /\ composing' = IF problems = {} THEN "preparing" ELSE "failed"
  /\ UNCHANGED <<library, rewrites, blocks, unasked, problems, asked, digests, toFreeze, frozen>>

----------------------------------------------------------------------------
(* materialize_operators, once the target is prepared                        *)
Bound == {s \in RecipeStages : digests[s] # NotRead}
SelectedSources ==
  {Operator(s) : s \in Bound} \cup {Helpers(s) : s \in {t \in Bound : blocks[t] = "library"}}
    \cup {SharedHelpers}

TargetIsPrepared ==
  /\ composing = "preparing" /\ composing' = "freezing"
  /\ toFreeze' = SelectedSources
  /\ UNCHANGED <<library, rewrites, blocks, unasked, problems, asked, digests, frozen>>

(* A plausible fault: what was resolved is copied, whatever it is by now.     *)
SourceChangedUnseen(source) == source.part = "operator" /\ library[source] = NotRead

SourceChanged(source) ==
  source.part = "operator" /\ library[source] # digests[source.name]

MissingBundle(source) == source.part = "bundle" /\ library[source] = NotRead

(* _method_dependencies: bundles that the frozen sources import.              *)
FrozenSources == {s \in LibrarySources : frozen[s] # NotRead}
Dependencies == {Bundle(b) : b \in UNION {frozen[s].imports : s \in FrozenSources}}

(* Each file is read once; helpers that are not there are not an error.       *)
FreezeSource(source) ==
  /\ composing = "freezing" /\ source \in toFreeze
  /\ toFreeze' = toFreeze \ {source}
  /\ IF SourceChanged(source) \/ MissingBundle(source)
     THEN composing' = "failed" /\ UNCHANGED frozen
     ELSE frozen' = [frozen EXCEPT ![source] = library[source]] /\ UNCHANGED composing
  /\ UNCHANGED <<library, rewrites, blocks, unasked, problems, asked, digests>>

(* _method_helper_files: pending minus copied, until there is none.           *)
NextBundles ==
  /\ composing = "freezing" /\ toFreeze = {}
  /\ toFreeze' = Dependencies \ FrozenSources
  /\ composing' = IF toFreeze' = {} THEN "frozen" ELSE composing
  /\ UNCHANGED <<library, rewrites, blocks, unasked, problems, asked, digests, frozen>>

CompositionNext ==
  \/ \E source \in LibrarySources, imports \in ImportSets, accepts \in BOOLEAN :
       Rewrite(source, imports, accepts)
  \/ \E source \in LibrarySources : RemoveSource(source) \/ FreezeSource(source)
  \/ \E stage \in RecipeStages : AskOperator(stage) \/ TakeDigest(stage)
  \/ Resolved \/ TargetIsPrepared \/ NextBundles

CompositionSpec == CompositionInit /\ [][CompositionNext]_composeVars

----------------------------------------------------------------------------
(* A workspace that init completes runs what was resolved and nothing less:   *)
(* every needed stage has an operator, which is the one whose digest was      *)
(* taken and, unless it was edited in the moment between the two, the one     *)
(* that accepted the configuration; and every bundle that anything frozen     *)
(* imports, directly or through other bundles, is frozen with it             *)
(* (recipe.py, materialize.py), although the library is edited all the while. *)
OperatorsAreResolved ==
  /\ \A s \in Bound : frozen[Operator(s)] = digests[s]
  /\ \A s \in Bound :
       blocks[s] = "library" /\ asked[s] = digests[s] => frozen[Operator(s)].accepts
  /\ NeededStages \subseteq Bound
ImportsAreFrozen == Dependencies \subseteq FrozenSources

FrozenAsResolved == composing = "frozen" => OperatorsAreResolved /\ ImportsAreFrozen
============================================================================
