----------------------------- MODULE MCRunFiles -----------------------------
(* One instance for what processes and stages leave to each other in a run  *)
(* directory: the evidence, the answers of Surface and Feature tasks, the   *)
(* context of a stage, and the Core Test packs.  The machines share no      *)
(* variable, so a behaviour moves one of them and leaves the others in      *)
(* their initial states.                                                    *)
EXTENDS EvidenceStore, TLC

CONSTANTS Tests, Pathless, MaxSessions, MaxLive, MaxRuntimes   (* of CorePacks *)

VARIABLES
  scene,                   (* the machine that moves                        *)
  (* of SurfaceMerge *)
  mergePc, mergeResume, mergeStarted, outputs, soFar, checkpoints, surface, mergeFailures,
  (* of FeatureExpansion *)
  featurePc, featureResume, featureStarted, attempt, files, modules, expansion, tree,
  featureFailures, asked, named, barred,
  (* of StageContext *)
  found, context, tooLarge,
  (* of CorePacks *)
  runtimes, sessions, overlapped

mergeVars   == <<mergePc, mergeResume, mergeStarted, outputs, soFar, checkpoints, surface,
                 mergeFailures>>
featureVars == <<featurePc, featureResume, featureStarted, attempt, files, modules, expansion,
                 tree, featureFailures, asked, named, barred>>
contextVars == <<found, context, tooLarge>>
packVars    == <<runtimes, sessions, overlapped>>

-----------------------------------------------------------------------------
(* Three IDs and one name of two kinds; confidences are 1 and 2 halves.     *)
Rank == [x \in {"api.task", "db", "handler.task", "web.board", "web.task"} |->
           CASE x = "api.task" -> 1 [] x = "db" -> 2 [] x = "handler.task" -> 3
             [] x = "web.board" -> 4 [] x = "web.task" -> 5]
Entities    == {"task"}
Roles       == {"admin"}
Permissions == {"edit"}
Libraries   == {1}
EvidenceIDs == {"ev1", "ev2"}
Certain     == 2
Naming      == [c \in {"Tasks"} |-> {3}]

SurfaceCase == INSTANCE SurfaceCases

Merge == INSTANCE SurfaceMerge WITH
  Tasks <- SurfaceCase!MCTasks, Answers <- SurfaceCase!MCAnswers, MaxFailures <- 2,
  pc <- mergePc, resume <- mergeResume, started <- mergeStarted, failures <- mergeFailures

RootNames == {"web.root"}
LowerCase ==
  [s \in {"task.list", "Task.List", "task.save", "api.rpc", "web.root", "mailer", "task.none"} |->
     IF s = "Task.List" THEN "task.list" ELSE s]

FeatureCase == INSTANCE FeatureCases

Feature == INSTANCE FeatureExpansion WITH
  Prior <- FeatureCase!MCPrior, ModuleAnswers <- FeatureCase!MCModuleAnswers,
  Expansions <- FeatureCase!MCExpansions, ByteOrder <- FeatureCase!MCByteOrder,
  MaxContext <- 10, MaxAttempts <- 1, MaxFailures <- 2,
  pc <- featurePc, resume <- featureResume, started <- featureStarted,
  failures <- featureFailures

ContextCase == INSTANCE ContextCases

Stage == INSTANCE StageContext WITH
  Findings <- ContextCase!MCFindings, ByteOrder <- ContextCase!MCByteOrder,
  AccessOrder <- ContextCase!MCAccessOrder, MaxContext <- 18

Packs == INSTANCE CorePacks

ASSUME RunFilesAssumption == Packs!PacksAssumption

TestSymmetry == Permutations(Tests)

-----------------------------------------------------------------------------
MCInit ==
  /\ scene \in {"evidence", "merge", "features", "context", "packs"}
  /\ Init /\ Merge!Init /\ Feature!Init /\ Stage!Init /\ Packs!Init

MCNext ==
  \/ /\ scene = "evidence" /\ Next
     /\ UNCHANGED <<scene, mergeVars, featureVars, contextVars, packVars>>
  \/ /\ scene = "merge" /\ Merge!Next
     /\ UNCHANGED <<scene, vars, featureVars, contextVars, packVars>>
  \/ /\ scene = "features" /\ Feature!Next
     /\ UNCHANGED <<scene, vars, mergeVars, contextVars, packVars>>
  \/ /\ scene = "context" /\ Stage!Next
     /\ UNCHANGED <<scene, vars, mergeVars, featureVars, packVars>>
  \/ /\ scene = "packs" /\ Packs!Next
     /\ UNCHANGED <<scene, vars, mergeVars, featureVars, contextVars>>

MCSpec ==
  MCInit /\ [][MCNext]_<<scene, vars, mergeVars, featureVars, contextVars, packVars>>

OrderIrrelevant  == scene = "merge" => Merge!OrderIrrelevant
MergeSound       == scene = "merge" => Merge!MergeSound
AskedOnce        == scene = "features" => Feature!AskedOnce
TreeSound        == scene = "features" => Feature!TreeSound
ContextFaithful  == scene = "context" => Stage!ContextFaithful
PacksSound       == scene = "packs" => Packs!PacksSound
NothingForgotten == scene = "packs" => Packs!NothingForgotten
=============================================================================
