--------------------------- MODULE WorkspaceInit ---------------------------
(***************************************************************************)
(* evolve init (src/src/evolve/workspace.py): the seed is prepared in a      *)
(* staging directory, the workspace is written, committed and tagged as     *)
(* generation 0, and the archive gets its first event in both copies.       *)
(*                                                                          *)
(* Init may fail or be killed anywhere and leaves what it has written; a    *)
(* second init wants an empty directory, so the user removes the first.     *)
(* Anyone may start a run on what is there: it evaluates the tag gen/0      *)
(* (src/src/evolve/driver.py).  A file is known by its name; its kind says  *)
(* which ignore rules and checks it meets.                                  *)
(***************************************************************************)
EXTENDS Naturals, FiniteSets

CONSTANTS
  SeedFiles,     \* files a seed may have
  RecipeAssets,  \* evaluator files that a recipe may bring
  KindOf,        \* file -> its kind
  LockFile,      \* uv.lock, generated if the target asks for it
  MaxInits,      \* bound: times that init is started
  Absent         \* no repository, commit, tag, file or result

(* secret: .env, caches, and whatever else a copy of a seed leaves out;      *)
(* ignored: an ignore rule covers it, of the seed, or for an asset of the     *)
(* workspace (runs/, artifacts/ and insights/ at any depth, *.pyc, ...);      *)
(* metadata: *.egg-info;                                                   *)
(* escaping: a symbolic link to somewhere else; hidden, binary: names and    *)
(* contents that no asset has; generated: the name of a generated file.      *)
Kinds == {"plain", "secret", "ignored", "metadata", "escaping",
          "hidden", "binary", "generated"}

ASSUME WorkspaceAssumption ==
  /\ IsFiniteSet(SeedFiles) /\ IsFiniteSet(RecipeAssets)
  /\ SeedFiles \cap RecipeAssets = {}
  /\ KindOf \in [SeedFiles \cup RecipeAssets \cup {LockFile} -> Kinds]
  /\ LockFile \notin RecipeAssets /\ KindOf[LockFile] # "metadata"
  /\ MaxInits \in Nat \ {0}

VARIABLES
  step_,      \* where init is; idle when none runs
  inits,
  seed,       \* the files of the seed
  recipe,     \* the evaluator files of the recipe
  wantsLock,  \* target.generate_lock
  staged,     \* the prepared target, in the temporary directory
  ondisk,     \* the workspace's files of the target
  assets,     \* its files of the evaluator
  mechanism,  \* .evolve and the console are there
  index_,     \* git's index; Absent without a repository
  head,       \* the commit
  gen0,       \* the tag gen/0
  archives,   \* the copies of the archive that have generation 0's event
  identity,   \* the file that names the workspace's mirror
  genesis     \* what a run has evaluated as generation 0

initVars == <<step_, inits, seed, recipe, wantsLock, staged, ondisk, assets, mechanism,
              index_, head, gen0, archives, identity, genesis>>

OfKind(files, kind) == {f \in files : KindOf[f] = kind}
Written == ondisk \cup assets # {} \/ mechanism \/ index_ # Absent

(* What is left of the seed: the patterns of the copy, then the generated    *)
(* metadata; a lock is added before that.                                    *)
Vendored == seed \ OfKind(seed, "secret")
TargetLock == IF wantsLock THEN {LockFile} ELSE {}
WithoutMetadata(files) == files \ OfKind(files, "metadata")
Prepared == WithoutMetadata(Vendored \cup TargetLock)

Assets == recipe \ (OfKind(recipe, "hidden") \cup OfKind(recipe, "binary"))

-----------------------------------------------------------------------------
Fail == step_' = "idle"

StartInit ==
  /\ step_ = "idle" /\ inits < MaxInits
  /\ ~Written
  /\ step_' = "stage"
  /\ inits' = inits + 1
  /\ staged' = {}
  /\ UNCHANGED <<seed, recipe, wantsLock, ondisk, assets, mechanism, index_, head, gen0,
                 archives, identity, genesis>>

(* _write_target, _remove_generated_target_metadata and the check of the     *)
(* target's contract; the lock and the check may fail.                       *)
StageTarget ==
  /\ step_ = "stage"
  /\ \/ /\ OfKind(seed, "escaping") = {}
        /\ staged' = Prepared
        /\ step_' = "write"
     \/ /\ Fail
        /\ UNCHANGED staged
  /\ UNCHANGED <<inits, seed, recipe, wantsLock, ondisk, assets, mechanism, index_, head,
                 gen0, archives, identity, genesis>>

(* _write_files: everything is computed, and refused, before the first file. *)
WriteFiles ==
  /\ step_ = "write"
  /\ \/ /\ OfKind(Assets, "generated") = {}
        /\ \E done \in SUBSET Assets :
             /\ assets' = done
             /\ IF done = Assets THEN step_' = "target" ELSE Fail
     \/ /\ Fail
        /\ UNCHANGED assets
  /\ UNCHANGED <<inits, seed, recipe, wantsLock, staged, ondisk, mechanism, index_, head,
                 gen0, archives, identity, genesis>>

CopyTarget ==
  /\ step_ = "target"
  /\ \E done \in SUBSET staged :
       /\ ondisk' = done
       /\ IF done = staged THEN step_' = "vendor" ELSE Fail
  /\ UNCHANGED <<inits, seed, recipe, wantsLock, staged, assets, mechanism, index_, head,
                 gen0, archives, identity, genesis>>

VendorMechanism ==
  /\ step_ = "vendor"
  /\ mechanism' = TRUE
  /\ step_' = "git"
  /\ UNCHANGED <<inits, seed, recipe, wantsLock, staged, ondisk, assets, index_, head,
                 gen0, archives, identity, genesis>>

InitGit ==
  /\ step_ = "git"
  /\ index_' = {}
  /\ step_' = "add"
  /\ UNCHANGED <<inits, seed, recipe, wantsLock, staged, ondisk, assets, mechanism, head,
                 gen0, archives, identity, genesis>>

Unignored(files) == files \ OfKind(files, "ignored")

(* Mutant: the target is added by its own ignore rules. *)
AddedByRules == Unignored(ondisk \cup assets)

(* git add . and, for the target alone, git add -f. *)
Added == ondisk \cup Unignored(assets)

AddFiles ==
  /\ step_ = "add"
  /\ index_' = Added
  /\ step_' = "commit"
  /\ UNCHANGED <<inits, seed, recipe, wantsLock, staged, ondisk, assets, mechanism, head,
                 gen0, archives, identity, genesis>>

CommitGen0 ==
  /\ step_ = "commit"
  /\ head' = index_
  /\ step_' = "tag"
  /\ UNCHANGED <<inits, seed, recipe, wantsLock, staged, ondisk, assets, mechanism, index_,
                 gen0, archives, identity, genesis>>

TagGen0 ==
  /\ step_ = "tag"
  /\ gen0' = head
  /\ step_' = "local"
  /\ UNCHANGED <<inits, seed, recipe, wantsLock, staged, ondisk, assets, mechanism, index_,
                 head, archives, identity, genesis>>

(* mirror_path creates the identity, empty first, before either copy is      *)
(* appended to.                                                              *)
NameWorkspace ==
  /\ step_ = "local" /\ identity # "named"
  /\ identity' = IF identity = Absent THEN "empty" ELSE "named"
  /\ UNCHANGED <<step_, inits, seed, recipe, wantsLock, staged, ondisk, assets, mechanism,
                 index_, head, gen0, archives, genesis>>

WriteGen0Archive ==
  /\ step_ = "local" /\ identity = "named"
  /\ IF "local" \in archives THEN /\ archives' = archives \cup {"mirror"}
                                  /\ step_' = "idle"
                             ELSE /\ archives' = archives \cup {"local"}
                                  /\ UNCHANGED step_
  /\ UNCHANGED <<inits, seed, recipe, wantsLock, staged, ondisk, assets, mechanism, index_,
                 head, gen0, identity, genesis>>

Killed ==
  /\ step_ # "idle"
  /\ Fail
  /\ UNCHANGED <<inits, seed, recipe, wantsLock, staged, ondisk, assets, mechanism, index_,
                 head, gen0, archives, identity, genesis>>

-----------------------------------------------------------------------------
(* A run needs the mirror's identity (it creates a missing one and refuses   *)
(* an empty one) and the tag, which it checks out.                           *)
StartRun ==
  /\ step_ = "idle" /\ genesis = Absent
  /\ identity # "empty"
  /\ gen0 # Absent
  /\ identity' = "named"
  /\ archives' = {"local", "mirror"}
  /\ genesis' = gen0
  /\ UNCHANGED <<step_, inits, seed, recipe, wantsLock, staged, ondisk, assets, mechanism,
                 index_, head, gen0>>

(* The user removes the workspace, repository and all; the seed and the      *)
(* recipe may be others next time.                                           *)
RemoveWorkspace ==
  /\ step_ = "idle" /\ Written /\ inits < MaxInits
  /\ ondisk' = {} /\ assets' = {} /\ mechanism' = FALSE /\ index_' = Absent
  /\ head' = Absent /\ gen0' = Absent /\ identity' = Absent /\ genesis' = Absent
  /\ archives' = {}
  /\ seed' \in SUBSET SeedFiles /\ recipe' \in SUBSET RecipeAssets
  /\ UNCHANGED <<step_, inits, wantsLock, staged>>

-----------------------------------------------------------------------------
WorkspaceInitial ==
  /\ step_ = "idle" /\ inits = 0
  /\ seed \in SUBSET SeedFiles /\ recipe \in SUBSET RecipeAssets /\ wantsLock \in BOOLEAN
  /\ staged = {} /\ ondisk = {} /\ assets = {} /\ mechanism = FALSE
  /\ index_ = Absent /\ head = Absent /\ gen0 = Absent
  /\ archives = {} /\ identity = Absent /\ genesis = Absent

WorkspaceNext ==
  \/ StartInit \/ StageTarget \/ WriteFiles \/ CopyTarget \/ VendorMechanism \/ InitGit
  \/ AddFiles \/ CommitGen0 \/ TagGen0 \/ NameWorkspace \/ WriteGen0Archive \/ Killed
  \/ StartRun \/ RemoveWorkspace

WorkspaceSpec == WorkspaceInitial /\ [][WorkspaceNext]_initVars

-----------------------------------------------------------------------------
(* Whatever a killed init left behind, a run that starts evaluates the whole *)
(* seed: every file of it but secrets and generated metadata, those included *)
(* that its own ignore rules cover, and of the recipe's evaluator every asset *)
(* that the workspace's rules leave (_init_git forces the target only).       *)
GenesisIsTheSeed ==
  genesis # Absent =>
    genesis = {f \in seed : KindOf[f] \notin {"secret", "metadata"}}
                \cup (IF wantsLock THEN {LockFile} ELSE {})
                \cup {f \in recipe : KindOf[f] \notin {"hidden", "binary", "ignored"}}
=============================================================================
