---------------------------- MODULE DiscoveryRun ----------------------------
(***************************************************************************)
(* One run directory of `noescope discover`: the manifest run.json, the    *)
(* stage outputs output/<stage>.json, the application model, the Surface   *)
(* shard checkpoints and the Feature checkpoints, and the processes that   *)
(* work on them one after another.  A process may stop at any step (an     *)
(* error it returns, or a crash); what it kept in memory is lost and what  *)
(* it had written stays for `discover --resume`.                           *)
(*                                                                         *)
(* Stages are numbered in the order of orderedStages.  An investigation's  *)
(* answer is a member of Answers: the same question asked twice may get    *)
(* the same answer or another one.  A stage's findings are the sequence of *)
(* the answers of its tasks, which run one at a time.  Answers of the four *)
(* prerequisite stages are not told apart: a run never recomputes them.    *)
(* The installed version of the program accepts some of the answers; an    *)
(* upgrade between two processes may reject one that is already on disk,   *)
(* which is the only way a saved answer can fail its revalidation.         *)
(***************************************************************************)
EXTENDS Naturals, Sequences

CONSTANTS
  Answers,       (* what one investigation can come back with              *)
  NumShards,     (* Surface tasks of the run                               *)
  NumModules,    (* modules the module discovery finds                     *)
  None,          (* a checkpoint file that does not exist                  *)
  MaxAttempt,    (* bound: the operator asks for no rerun beyond it        *)
  MaxFailures,   (* bound: errors and crashes over the life of the run     *)
  MaxUpgrades    (* bound: changes of the installed version                *)

Architecture   == 1
Authentication == 2
Authorization  == 3
Entities       == 4
Surface        == 5
Features       == 6

Stages        == Architecture..Features
Prerequisites == Architecture..Entities

NoRun   == 0    (* the manifest names no target: there is no run yet       *)
NoStage == 0    (* a --through or --rerun flag that was not given          *)

ShardTasks   == 1..NumShards
FeatureTasks == 1..(NumModules + 1)   (* 1 is the module discovery         *)

FeatureCheckpoint ==
  [attempt : Nat, prior : Seq(Answers), inputs : Seq(Answers), answer : Answers]

ASSUME ConstantsAssumption ==
  /\ NumShards \in Nat /\ NumModules \in Nat
  /\ MaxAttempt \in Nat /\ MaxFailures \in Nat /\ MaxUpgrades \in Nat
  /\ None \notin Answers
  /\ None \notin FeatureCheckpoint

VARIABLES
  (* run.json *)
  through,       (* the stage the run is to reach                          *)
  completed,     (* completed_stages                                       *)
  attempt,       (* feature_attempt                                        *)
  (* the other files of the run directory *)
  output,        (* output[s]: output/<stage>.json                         *)
  application,   (* output/application.json and application.md             *)
  shardFile,     (* shardFile[i]: checkpoint of Surface task i, or None    *)
  featureFile,   (* featureFile[i]: checkpoint of Feature task i, or None  *)
  (* the process at work, if any *)
  pc, resumed, rerun, target, stage,
  merged,        (* the answers of the current stage so far                *)
  surface,       (* surfaceFindings, once the Surface stage is over        *)
  asked,         (* has this process run an investigation in this stage?   *)
  (* what the last process came to, how many of them failed *)
  outcome, failures,
  (* the answers the installed version accepts, how often it changed *)
  accepted, upgrades

manifest == <<through, completed, attempt>>
files    == <<output, application, shardFile, featureFile>>
process  == <<pc, resumed, rerun, target, stage, merged, surface, asked>>
world    == <<failures, accepted, upgrades>>
vars     == <<manifest, files, process, outcome, world>>

Missing == [state |-> "missing", content |-> <<>>, prior |-> <<>>]
Torn    == [state |-> "torn",    content |-> <<>>, prior |-> <<>>]
Whole(content, prior) == [state |-> "whole", content |-> content, prior |-> prior]

StageOutput ==
  [state : {"missing", "torn", "whole"}, content : Seq(Answers), prior : Seq(Answers)]

NumTasks(s) == CASE s = Surface  -> NumShards
                 [] s = Features -> NumModules + 1
                 [] OTHER        -> 0

Labels == {"idle", "enter", "investigate", "write", "writing", "mark",
           "publish", "publishing"}

-----------------------------------------------------------------------------
Init ==
  /\ through = NoRun /\ completed = {} /\ attempt = 0
  /\ output = [s \in Stages |-> Missing]
  /\ application = Missing
  /\ shardFile = [i \in ShardTasks |-> None]
  /\ featureFile = [i \in FeatureTasks |-> None]
  /\ pc = "idle" /\ resumed = FALSE /\ rerun = NoStage /\ target = NoStage
  /\ stage = NoStage /\ merged = <<>> /\ surface = <<>> /\ asked = FALSE
  /\ outcome = "none" /\ failures = 0
  /\ accepted = Answers /\ upgrades = 0

(* A process begins at stage s with nothing in memory. *)
Launch(s, isResume, through_, rerun_) ==
  /\ pc' = "enter" /\ stage' = s /\ resumed' = isResume
  /\ target' = through_ /\ rerun' = rerun_
  /\ outcome' = "none"
  /\ UNCHANGED <<merged, surface, asked, files, world>>

(* The process ends: its memory is gone, the files stay. *)
Exit(result) ==
  /\ pc' = "idle" /\ stage' = NoStage /\ resumed' = FALSE
  /\ target' = NoStage /\ rerun' = NoStage
  /\ merged' = <<>> /\ surface' = <<>> /\ asked' = FALSE
  /\ outcome' = result

-----------------------------------------------------------------------------
(* discover --through t: a new run, from its first stage. *)
StartRun(t) ==
  /\ pc = "idle" /\ through = NoRun
  /\ through' = t
  /\ Launch(Architecture, FALSE, t, NoStage)
  /\ UNCHANGED <<completed, attempt>>

(* discover --resume [--through t] [--rerun r].  The recorded target moves *)
(* forward only, and is saved before the rerun flag is looked at, which    *)
(* goes by the target recorded before.                                     *)
Requested(t) == IF t = NoStage THEN through ELSE t

RerunRefused(r) ==
  \/ r = Features /\ through # Features
  \/ r = Surface /\ through < Surface

ResumeTarget(t, r) ==
  IF r = NoStage THEN Requested(t)
  ELSE IF through = Surface THEN Surface ELSE Features

Resumable(t, r) ==
  /\ ~ RerunRefused(r)
  /\ ResumeTarget(t, r) >= Surface
  /\ Prerequisites \subseteq completed
  /\ \A s \in Prerequisites : output[s].state = "whole"

Resume(t, r) ==
  /\ pc = "idle" /\ through # NoRun
  /\ t # NoStage => t >= through
  /\ r # NoStage => attempt < MaxAttempt
  /\ Resumable(t, r)
  /\ through' = Requested(t)
  /\ Launch(Surface, TRUE, ResumeTarget(t, r), r)
  /\ UNCHANGED <<completed, attempt>>

RefuseResume(t, r) ==
  /\ pc = "idle" /\ through # NoRun
  /\ \/ /\ t # NoStage /\ t < through
        /\ UNCHANGED through
     \/ /\ t # NoStage => t >= through
        /\ ~ Resumable(t, r)
        /\ through' = Requested(t)
  /\ Exit("refused")
  /\ UNCHANGED <<completed, attempt, files, world>>

-----------------------------------------------------------------------------
(* The process leaves a complete stage, whose findings it holds, for the   *)
(* next stage, for the application model, or for good.                     *)
LastStage_OffByOne == stage > target       (* mutant *)
LastStage == stage >= target

Publishes_OnlyFresh == stage = Features /\ asked   (* mutant *)
Publishes == stage = Features

Advance(found) ==
  \/ /\ ~ LastStage
     /\ stage' = stage + 1 /\ pc' = "enter"
     /\ surface' = IF stage = Surface THEN found ELSE surface
     /\ merged' = <<>> /\ asked' = FALSE
     /\ UNCHANGED <<resumed, rerun, target, outcome>>
  \/ /\ LastStage /\ Publishes
     /\ pc' = "publish" /\ merged' = found
     /\ UNCHANGED <<stage, surface, asked, resumed, rerun, target, outcome>>
  \/ /\ LastStage /\ ~ Publishes
     /\ Exit("ok")

(* BeginSurfaceRerun and BeginFeatureRerun. *)
Invalidated_OnlyItself(s) == {s}           (* mutant *)
Invalidated(s) == IF s = Surface THEN {Surface, Features} ELSE {Features}

NewAttempt(s) == attempt + 1

BeginRerun ==
  /\ pc = "enter" /\ resumed /\ rerun = stage /\ stage \in completed
  /\ attempt' = NewAttempt(stage)
  /\ completed' = completed \ Invalidated(stage)
  /\ through' = IF stage = Features THEN Features ELSE through
  /\ UNCHANGED <<process, files, outcome, world>>

(* A completed stage is read back and validated again; an output that is   *)
(* not readable or not valid any more is an error.                         *)
Valid(answers) == \A i \in DOMAIN answers : answers[i] \in accepted

Reusable_OnlyFeatures == resumed /\ stage \in completed /\ stage = Features  (* mutant *)
Reusable == resumed /\ stage \in completed

LoadStage ==
  /\ pc = "enter" /\ Reusable /\ rerun # stage
  /\ \/ /\ output[stage].state = "whole" /\ Valid(output[stage].content)
        /\ Advance(output[stage].content)
     \/ /\ output[stage].state # "whole" \/ ~ Valid(output[stage].content)
        /\ Exit("unreadable")
  /\ UNCHANGED <<manifest, files, world>>

BeginStage ==
  /\ pc = "enter" /\ ~ Reusable
  /\ pc' = "investigate"
  /\ UNCHANGED <<manifest, files, stage, merged, surface, asked, resumed, rerun,
                 target, outcome, world>>

-----------------------------------------------------------------------------
task == Len(merged) + 1

Merge(answer, isNew) ==
  /\ merged' = Append(merged, answer)
  /\ asked' = (asked \/ isNew)
  /\ UNCHANGED <<pc, stage, surface, resumed, rerun, target, outcome>>

Investigating(s) == pc = "investigate" /\ stage = s /\ task <= NumTasks(s)

(* A Surface checkpoint is used by any resumed process that finds it and   *)
(* finds it valid.                                                         *)
ShardReusable(i) == resumed /\ shardFile[i] # None /\ shardFile[i] \in accepted

ReuseShard ==
  /\ Investigating(Surface)
  /\ ShardReusable(task)
  /\ Merge(shardFile[task], FALSE)
  /\ UNCHANGED <<manifest, files, world>>

RunShard ==
  /\ Investigating(Surface)
  /\ ~ ShardReusable(task)
  /\ \E a \in accepted :
       /\ shardFile' = [shardFile EXCEPT ![task] = a]
       /\ Merge(a, TRUE)
  /\ UNCHANGED <<manifest, output, application, featureFile, world>>

(* A Feature checkpoint of another attempt is ignored; one of this attempt *)
(* must have been made from the same canonical inputs.  An expansion task  *)
(* takes the interfaces the module discovery assigned to its module.       *)
ThisAttempt(i) ==
  resumed /\ featureFile[i] # None /\ featureFile[i].attempt = attempt

TaskInputs(i) == IF i = 1 THEN <<>> ELSE <<merged[1]>>

Compatible_AllSoFar(i) ==                  (* mutant *)
  featureFile[i].prior = surface /\ featureFile[i].inputs = merged
Compatible(i) ==
  featureFile[i].prior = surface /\ featureFile[i].inputs = TaskInputs(i)

ReuseFeatureTask ==
  /\ Investigating(Features)
  /\ ThisAttempt(task) /\ Compatible(task) /\ featureFile[task].answer \in accepted
  /\ Merge(featureFile[task].answer, FALSE)
  /\ UNCHANGED <<manifest, files, world>>

RejectFeatureCheckpoint ==
  /\ Investigating(Features)
  /\ ThisAttempt(task) /\ ~ Compatible(task)
  /\ Exit("incompatible")
  /\ UNCHANGED <<manifest, files, world>>

RunFeatureTask ==
  /\ Investigating(Features)
  /\ ThisAttempt(task) =>
       Compatible(task) /\ featureFile[task].answer \notin accepted
  /\ \E a \in accepted :
       /\ featureFile' = [featureFile EXCEPT ![task] =
            [attempt |-> attempt, prior |-> surface,
             inputs |-> TaskInputs(task), answer |-> a]]
       /\ Merge(a, TRUE)
  /\ UNCHANGED <<manifest, output, application, shardFile, world>>

FinishInvestigation ==
  /\ pc = "investigate" /\ task > NumTasks(stage)
  /\ pc' = "write"
  /\ UNCHANGED <<manifest, files, stage, merged, surface, asked, resumed, rerun,
                 target, outcome, world>>

-----------------------------------------------------------------------------
(* Stage outputs and the application model are written in place: the file  *)
(* is truncated first and is whole only when the last byte is out.         *)
TruncateOutput_MarksFirst ==               (* mutant *)
  /\ pc = "write"
  /\ output' = [output EXCEPT ![stage] = Torn]
  /\ completed' = completed \cup {stage}
  /\ pc' = "writing"
  /\ UNCHANGED <<through, attempt, application, shardFile, featureFile, stage, merged,
                 surface, asked, resumed, rerun, target, outcome, world>>
TruncateOutput ==
  /\ pc = "write"
  /\ output' = [output EXCEPT ![stage] = Torn]
  /\ pc' = "writing"
  /\ UNCHANGED <<manifest, application, shardFile, featureFile, stage, merged,
                 surface, asked, resumed, rerun, target, outcome, world>>

WriteOutput ==
  /\ pc = "writing"
  /\ output' = [output EXCEPT ![stage] = Whole(merged, surface)]
  /\ pc' = "mark"
  /\ UNCHANGED <<manifest, application, shardFile, featureFile, stage, merged,
                 surface, asked, resumed, rerun, target, outcome, world>>

MarkStageCompleted ==
  /\ pc = "mark"
  /\ completed' = completed \cup {stage}
  /\ Advance(merged)
  /\ UNCHANGED <<through, attempt, files, world>>

TruncateApplication ==
  /\ pc = "publish"
  /\ application' = Torn
  /\ pc' = "publishing"
  /\ UNCHANGED <<manifest, output, shardFile, featureFile, stage, merged, surface,
                 asked, resumed, rerun, target, outcome, world>>

WriteApplication ==
  /\ pc = "publishing"
  /\ application' = Whole(merged, surface)
  /\ Exit("ok")
  /\ UNCHANGED <<manifest, output, shardFile, featureFile, world>>

(* Any step of a process may return an error, or the process may die. *)
Fail ==
  /\ pc # "idle" /\ failures < MaxFailures
  /\ failures' = failures + 1
  /\ Exit("failed")
  /\ UNCHANGED <<manifest, files, accepted, upgrades>>

(* The operator installs another version, with other validation rules. *)
Upgrade ==
  /\ pc = "idle" /\ through # NoRun /\ upgrades < MaxUpgrades
  /\ \E answers \in SUBSET Answers : answers # {} /\ accepted' = answers
  /\ upgrades' = upgrades + 1
  /\ UNCHANGED <<manifest, files, process, outcome, failures>>

-----------------------------------------------------------------------------
Flags  == Stages \cup {NoStage}
Reruns == {NoStage, Surface, Features}

Operator ==
  \/ \E t \in Stages : StartRun(t)
  \/ \E t \in Flags, r \in Reruns : Resume(t, r)
  \/ \E t \in Flags, r \in Reruns : RefuseResume(t, r)

Work ==
  \/ BeginRerun \/ LoadStage \/ BeginStage
  \/ ReuseShard \/ RunShard
  \/ ReuseFeatureTask \/ RejectFeatureCheckpoint \/ RunFeatureTask
  \/ FinishInvestigation
  \/ TruncateOutput \/ WriteOutput \/ MarkStageCompleted
  \/ TruncateApplication \/ WriteApplication

Next == Operator \/ Work \/ Fail \/ Upgrade

Spec == Init /\ [][Next]_vars

(* The program is sequential and every request it makes has a timeout, so  *)
(* a process that does not fail goes on; the operator resumes an           *)
(* unfinished run sooner or later, with no flag.                           *)
Fairness == WF_vars(Work) /\ WF_vars(Resume(NoStage, NoStage))

FairSpec == Spec /\ Fairness

-----------------------------------------------------------------------------
(* Every variable keeps its shape; a stage merges no more answers than it  *)
(* has tasks.                                                              *)
TypeOK ==
  /\ through \in Stages \cup {NoRun} /\ completed \subseteq Stages
  /\ attempt \in 0..MaxAttempt
  /\ output \in [Stages -> StageOutput]
  /\ application \in StageOutput
  /\ shardFile \in [ShardTasks -> Answers \cup {None}]
  /\ featureFile \in [FeatureTasks -> FeatureCheckpoint \cup {None}]
  /\ pc \in Labels /\ resumed \in BOOLEAN /\ asked \in BOOLEAN
  /\ rerun \in Reruns /\ target \in Flags /\ stage \in Flags
  /\ merged \in Seq(Answers) /\ surface \in Seq(Answers)
  /\ stage # NoStage => Len(merged) <= NumTasks(stage)
  /\ outcome \in {"none", "ok", "failed", "refused", "unreadable", "incompatible"}
  /\ failures \in 0..MaxFailures /\ upgrades \in 0..MaxUpgrades
  /\ accepted \subseteq Answers

(* Whatever crashed and was resumed or rerun, the manifest never calls a   *)
(* stage complete unless the stages it was computed from are complete too: *)
(* run.go drops Features together with Surface.                            *)
CompletedPrefix ==
  \A s \in completed : \A r \in Stages : r < s => r \in completed

(* A stage the manifest calls complete has its whole output on disk, at    *)
(* every point a crash could hit: resumeThrough reads it back.             *)
CompletedReadable == \A s \in completed : output[s].state = "whole"

(* Completed Feature findings were made from the Surface findings on disk, *)
(* each part by the current feature attempt: no answer of an attempt that  *)
(* a rerun invalidated, and none made from another Surface, survives in    *)
(* features.json.                                                          *)
FeaturesCurrent ==
  Features \in completed =>
    /\ output[Features].prior = output[Surface].content
    /\ Len(output[Features].content) = NumModules + 1
    /\ \A i \in FeatureTasks :
         /\ featureFile[i] # None
         /\ featureFile[i].attempt = attempt
         /\ featureFile[i].prior = output[Surface].content
         /\ featureFile[i].answer = output[Features].content[i]

(* A Feature checkpoint that a process would look at was made from the     *)
(* Surface findings now on disk: a rerun that changes surface.json begins  *)
(* a new feature attempt.  Otherwise features/checkpoint.go makes the      *)
(* difference a hard error that no resume would get past.                  *)
CheckpointsFollowSurface ==
  Surface \in completed =>
    \A i \in FeatureTasks :
      featureFile[i] # None /\ featureFile[i].attempt = attempt =>
        featureFile[i].prior = output[Surface].content

(* With one version of the program, no sequence of crashes, resumes and    *)
(* reruns leads a process to a Feature checkpoint of its own attempt with  *)
(* other inputs, or to a completed output it cannot use.                   *)
NeverStuck ==
  upgrades = 0 => outcome \notin {"incompatible", "unreadable"}

(* A command that succeeds on a run whose Features are complete leaves an  *)
(* application model of exactly the completed findings, also when the      *)
(* process that completed them died before it wrote the model.             *)
ApplicationCurrent ==
  outcome = "ok" /\ Features \in completed =>
    application = Whole(output[Features].content, output[Surface].content)

(* While a stage is recorded complete its output file is not touched: a    *)
(* rerun invalidates the manifest before it writes over the old output.    *)
CompletedOutputStable ==
  [][\A s \in completed \cap completed' : output'[s] = output[s]]_vars

(* Once the four prerequisite stages are complete, a run through Features  *)
(* gets finished by plain resumes, however many reruns and failures (there *)
(* are finitely many) interrupted it.  An upgrade may break this: it can   *)
(* reject a completed output, or the module discovery that a later         *)
(* expansion's checkpoint was made from.                                   *)
ResumeCompletes ==
  (Prerequisites \subseteq completed /\ through = Features)
    ~> (Features \in completed /\ outcome = "ok")

-----------------------------------------------------------------------------
(* cmd/noescope/main.go: the help of --through says the command "run[s]    *)
(* discovery through a stage".  A command that succeeds has completed      *)
(* every stage up to the target the manifest records.                      *)
SuccessReachesTarget ==
  outcome = "ok" => \A s \in Stages : s <= through => s \in completed

(* cmd/noescope/main.go: the help of --rerun says the command "rerun[s]    *)
(* Surface (and dependent Features)".  A rerun of a published Surface asks *)
(* at least one Surface investigation again before it writes surface.json. *)
RerunInvestigates ==
  /\ pc = "write" /\ stage = Surface /\ rerun = Surface
  /\ output[Surface].state = "whole"
  => asked
=============================================================================
