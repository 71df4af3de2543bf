------------------------- MODULE DiscoveryRunProofs -------------------------
(***************************************************************************)
(* What holds of a run directory for every number of shards, modules,      *)
(* failures, reruns and upgrades and every set of answers.                 *)
(***************************************************************************)
EXTENDS DiscoveryRun, TLAPS

Working    == pc # "idle"
Computing  == pc \in {"investigate", "write", "writing", "mark"}
Publishing == pc \in {"publish", "publishing"}

(* TypeOK, and what makes it inductive: a stage output holds no more       *)
(* answers than its stage has tasks, and a process that will still begin a *)
(* rerun was started with an attempt to spare.                             *)
Shape ==
  /\ TypeOK
  /\ \A s \in Stages : Len(output[s].content) <= NumTasks(s)
  /\ Working /\ rerun # NoStage
       /\ (stage < rerun \/ (pc = "enter" /\ stage = rerun /\ stage \in completed))
     => attempt < MaxAttempt

(* Where the process is relative to the manifest: every earlier stage is   *)
(* complete, and the stage it computes is not.                             *)
Position ==
  /\ through = NoRun => completed = {} /\ ~ Working
  /\ \A s \in completed : s <= through
  /\ ~ Working => stage = NoStage /\ merged = <<>>
  /\ Working =>
       /\ stage \in Stages /\ target \in Stages /\ stage <= target /\ target <= through
       /\ outcome = "none"
       /\ resumed => stage >= Surface
       /\ \A r \in Stages : r < stage => r \in completed
       /\ target < Features => Features \notin completed
  /\ Computing => stage \notin completed
  /\ Publishing => stage = Features /\ Features \in completed
  /\ Working /\ ~ resumed /\ ~ Publishing => \A s \in completed : s < stage
  /\ pc = "enter" => merged = <<>>
  /\ pc \in {"write", "writing", "mark"} => Len(merged) = NumTasks(stage)

(* What the process holds in memory is what is on disk. *)
Memory ==
  /\ Working /\ stage = Features => surface = output[Surface].content
  /\ pc = "mark" => output[stage] = Whole(merged, surface)
  /\ Publishing => merged = output[Features].content

(* Checkpoints of the current attempt: there are none before the Surface   *)
(* stage is complete, and those of the tasks merged so far are the ones    *)
(* the process made or took over.                                          *)
Current(i) == featureFile[i] # None /\ featureFile[i].attempt = attempt

MergedTasks == IF stage = Features THEN Len(merged) ELSE 0

Checkpoints ==
  /\ \A i \in FeatureTasks :
       featureFile[i] # None =>
         /\ featureFile[i].attempt <= attempt
         /\ Surface \notin completed => featureFile[i].attempt < attempt
  /\ through = NoRun => \A i \in FeatureTasks : featureFile[i] = None
  /\ Computing /\ stage = Features =>
       \A i \in 1..Len(merged) :
         /\ Current(i)
         /\ featureFile[i].prior = surface
         /\ featureFile[i].answer = merged[i]
  /\ Working /\ ~ resumed /\ ~ Publishing =>
       \A i \in FeatureTasks : i > MergedTasks => featureFile[i] = None

(* Before the first upgrade: every answer is accepted, and the expansions  *)
(* of the current attempt were made from its module discovery.             *)
FirstVersion ==
  upgrades = 0 =>
    /\ accepted = Answers
    /\ \A i \in FeatureTasks :
         Current(i) =>
           IF i = 1 THEN featureFile[i].inputs = <<>>
           ELSE Current(1) /\ featureFile[i].inputs = <<featureFile[1].answer>>

IInv ==
  /\ Shape /\ Position /\ Memory /\ Checkpoints /\ FirstVersion
  /\ CompletedPrefix /\ CompletedReadable /\ CheckpointsFollowSurface
  /\ FeaturesCurrent /\ ApplicationCurrent /\ NeverStuck

-----------------------------------------------------------------------------
(* The stages are the numbers 1 to 6. *)
LEMMA StagesAre ==
  /\ Stages = 1..6 /\ Prerequisites = 1..4
  /\ Surface = 5 /\ Features = 6 /\ Architecture = 1
  /\ NoRun = 0 /\ NoStage = 0
BY DEF Stages, Prerequisites, Architecture, Entities, Surface, Features, NoRun, NoStage

LEMMA NumTasksType == \A s \in Stages : NumTasks(s) \in Nat
BY StagesAre, ConstantsAssumption DEF NumTasks

(* What a resume that is let through knows. *)
LEMMA ResumeFacts ==
  ASSUME IInv, NEW t \in Flags, NEW r \in Reruns, Resume(t, r)
  PROVE  /\ through \in Stages /\ through' \in Stages /\ through <= through'
         /\ target' \in {Surface, Features} /\ target' <= through'
         /\ target' < Features => through < Features
         /\ r = Features => through = Features
<1>1. through \in Stages /\ through' = Requested(t) /\ target' = ResumeTarget(t, r)
  BY StagesAre DEF Resume, Launch, IInv, Shape, TypeOK
<1>2. Requested(t) \in Stages /\ through <= Requested(t)
  BY <1>1, StagesAre DEF Requested, Flags, Resume
<1>3. /\ r = Features => through = Features
      /\ r = Surface => through >= Surface
      /\ ResumeTarget(t, r) >= Surface
  BY <1>1, StagesAre DEF Resume, Resumable, RerunRefused
<1>4. CASE r = NoStage
  BY <1>1, <1>2, <1>3, <1>4, StagesAre DEF ResumeTarget
<1>5. CASE r # NoStage
  BY <1>1, <1>2, <1>3, <1>5, StagesAre DEF ResumeTarget, Reruns
<1> QED
  BY <1>4, <1>5

LEMMA PositionStep ==
  ASSUME IInv, [Next]_vars
  PROVE  Position'
<1> USE StagesAre DEF Working, Computing, Publishing
<1>0. /\ through \in Stages \cup {NoRun} /\ completed \subseteq Stages
      /\ stage \in 0..6 /\ target \in 0..6 /\ pc \in Labels
      /\ resumed \in BOOLEAN
  BY DEF IInv, Shape, TypeOK, Flags
<1>1. ASSUME NEW t \in Stages, StartRun(t) PROVE Position'
  BY <1>0, <1>1 DEF StartRun, Launch, IInv, Position, files, world
<1>2. ASSUME NEW t \in Flags, NEW r \in Reruns, Resume(t, r) PROVE Position'
  BY <1>0, <1>2, ResumeFacts DEF Resume, Resumable, Launch, IInv, Position, files, world
<1>3. ASSUME NEW t \in Flags, NEW r \in Reruns, RefuseResume(t, r) PROVE Position'
  BY <1>0, <1>3 DEF RefuseResume, Exit, Requested, Flags, IInv, Position, files, world
<1>4. CASE BeginRerun
  BY <1>0, <1>4 DEF BeginRerun, Invalidated, process, files, world, IInv, Position
<1>5. CASE LoadStage
  <2>1. pc = "enter" /\ resumed /\ stage \in completed /\ UNCHANGED manifest
    BY <1>5 DEF LoadStage, Reusable
  <2>2. \/ Advance(output[stage].content)
        \/ Exit("unreadable")
    BY <1>5 DEF LoadStage
  <2>3. CASE Advance(output[stage].content)
    <3>1. UNCHANGED <<through, completed>>
      BY <2>1 DEF manifest
    <3>2. CASE ~ LastStage
      <4>1. /\ stage' = stage + 1 /\ stage < target /\ pc' = "enter" /\ merged' = <<>>
            /\ UNCHANGED <<resumed, target, outcome>>
        BY <1>0, <2>3, <3>2 DEF Advance, LastStage
      <4> QED
        BY <1>0, <2>1, <3>1, <4>1 DEF IInv, Position
    <3>3. CASE LastStage /\ Publishes
      <4>1. stage = Features /\ pc' = "publish" /\ UNCHANGED <<stage, resumed, target, outcome>>
        BY <2>3, <3>3 DEF Advance, Publishes
      <4> QED
        BY <1>0, <2>1, <3>1, <4>1 DEF IInv, Position
    <3>4. CASE LastStage /\ ~ Publishes
      BY <1>0, <2>1, <2>3, <3>1, <3>4 DEF Advance, Exit, IInv, Position
    <3> QED
      BY <3>2, <3>3, <3>4
  <2>4. CASE Exit("unreadable")
    BY <1>0, <2>1, <2>4 DEF Exit, manifest, IInv, Position
  <2> QED
    BY <2>2, <2>3, <2>4
<1>6. CASE BeginStage
  BY <1>0, <1>6
  DEF BeginStage, Reusable, manifest, files, world, IInv, Position
<1>7. CASE ReuseShard \/ RunShard \/ ReuseFeatureTask \/ RunFeatureTask
  <2>1. /\ pc = "investigate" /\ UNCHANGED <<through, completed, attempt>>
        /\ UNCHANGED <<pc, stage, resumed, rerun, target, outcome>>
    BY <1>7
    DEF ReuseShard, RunShard, ReuseFeatureTask, RunFeatureTask, Investigating, Merge,
        manifest
  <2> QED
    BY <1>0, <2>1 DEF IInv, Position
<1>8. CASE RejectFeatureCheckpoint \/ Fail
  BY <1>0, <1>8
  DEF RejectFeatureCheckpoint, Fail, Exit, manifest, files, world, IInv, Position
<1>9. CASE FinishInvestigation
  <2>1. /\ pc = "investigate" /\ pc' = "write" /\ UNCHANGED <<through, completed>>
        /\ UNCHANGED <<stage, merged, resumed, rerun, target, outcome>>
        /\ Len(merged) + 1 > NumTasks(stage)
    BY <1>9 DEF FinishInvestigation, manifest, task
  <2>2. Len(merged) \in Nat /\ Len(merged) <= NumTasks(stage)
    BY <2>1, SMTT(60) DEF IInv, Shape, TypeOK, Position
  <2>3. NumTasks(stage) \in Nat
    BY <2>1, NumTasksType DEF IInv, Position
  <2>4. Len(merged) = NumTasks(stage)
    BY <2>1, <2>2, <2>3
  <2>5. NumTasks(stage)' = NumTasks(stage) /\ Len(merged)' = Len(merged)
    BY <2>1 DEF NumTasks
  <2> QED
    BY <1>0, <2>1, <2>4, <2>5 DEF IInv, Position
<1>10. CASE TruncateOutput \/ WriteOutput
  <2>1. /\ UNCHANGED <<through, completed, stage, merged, resumed, target, outcome>>
        /\ \/ pc = "write" /\ pc' = "writing"
           \/ pc = "writing" /\ pc' = "mark"
    BY <1>10 DEF TruncateOutput, WriteOutput, manifest
  <2> QED
    BY <1>0, <2>1 DEF NumTasks, IInv, Position
<1>13. CASE TruncateApplication
  <2>1. /\ UNCHANGED <<through, completed, stage, merged, resumed, target, outcome>>
        /\ pc = "publish" /\ pc' = "publishing"
    BY <1>13 DEF TruncateApplication, manifest
  <2> QED
    BY <1>0, <2>1 DEF IInv, Position
<1>14. CASE WriteApplication
  BY <1>0, <1>14 DEF WriteApplication, Exit, manifest, IInv, Position
<1>11. CASE MarkStageCompleted
  BY <1>0, <1>11
  DEF MarkStageCompleted, Advance, LastStage, Publishes, Exit, files, world, IInv, Position
<1>12. CASE Upgrade \/ UNCHANGED vars
  <2>1. UNCHANGED <<manifest, process, outcome>>
    BY <1>12 DEF Upgrade, vars
  <2> QED
    BY <1>0, <2>1 DEF manifest, process, NumTasks, IInv, Position
<1> QED
  BY <1>1, <1>2, <1>3, <1>4, <1>5, <1>6, <1>7, <1>8, <1>9, <1>10, <1>11, <1>12, <1>13,
     <1>14
  DEF Next, Operator, Work

-----------------------------------------------------------------------------
(* The files and the memory of the process keep their types. *)
Content(s) == {c \in Seq(Answers) : Len(c) <= NumTasks(s)}

LEMMA WholeType ==
  \A content \in Seq(Answers), prior \in Seq(Answers) :
    Whole(content, prior) \in StageOutput
BY DEF Whole, StageOutput

(* What a process holds: the answers of its current stage, no more than    *)
(* the stage has tasks, and the Surface findings.                          *)
MemoryTyped ==
  /\ merged \in Seq(Answers) /\ surface \in Seq(Answers)
  /\ stage # NoStage => Len(merged) <= NumTasks(stage)

LEMMA MemoryType ==
  ASSUME IInv, [Next]_vars
  PROVE  MemoryTyped'
<1> USE StagesAre
<1>0. /\ merged \in Seq(Answers) /\ surface \in Seq(Answers)
      /\ stage # NoStage => Len(merged) <= NumTasks(stage)
      /\ accepted \subseteq Answers /\ output \in [Stages -> StageOutput]
      /\ stage \in 0..6 /\ shardFile \in [ShardTasks -> Answers \cup {None}]
      /\ featureFile \in [FeatureTasks -> FeatureCheckpoint \cup {None}]
  BY SMTT(60) DEF IInv, Shape, TypeOK, Flags
<1>1. \A s \in Stages : output[s].content \in Content(s)
  BY <1>0 DEF IInv, Shape, StageOutput, Content
<1>2. ASSUME NEW found \in Seq(Answers), stage \in Stages, found \in Content(stage),
             Advance(found)
      PROVE  MemoryTyped'
  <2>1. CASE ~ LastStage
    <3>1. merged' = <<>> /\ surface' \in {found, surface}
      BY <1>2, <2>1 DEF Advance
    <3>2. stage' \in Stages
      <4>1. stage' = stage + 1 /\ stage < target /\ target \in 0..6
        BY <1>2, <2>1 DEF Advance, LastStage, IInv, Shape, TypeOK, Flags
      <4> QED
        BY <1>2, <4>1
    <3> QED
      BY <1>0, <1>2, <3>1, <3>2, NumTasksType, SMTT(60) DEF MemoryTyped
  <2>2. CASE LastStage /\ Publishes
    <3>1. merged' = found /\ surface' = surface /\ stage' = stage
      BY <1>2, <2>2 DEF Advance
    <3>2. Len(found) <= NumTasks(stage)
      BY <1>2 DEF Content
    <3> QED
      BY <1>0, <1>2, <3>1, <3>2 DEF MemoryTyped
  <2>3. CASE LastStage /\ ~ Publishes
    <3>1. merged' = <<>> /\ surface' = <<>> /\ stage' = NoStage
      BY <1>2, <2>3 DEF Advance, Exit
    <3> QED
      BY <3>1 DEF MemoryTyped
  <2> QED
    BY <2>1, <2>2, <2>3
<1>3. ASSUME NEW answer \in Answers, NEW isNew, stage \in Stages,
             task <= NumTasks(stage), Merge(answer, isNew)
      PROVE  MemoryTyped'
  <2>1. merged' = Append(merged, answer) /\ UNCHANGED <<surface, stage>>
    BY <1>3 DEF Merge
  <2>2. Len(merged') = Len(merged) + 1 /\ merged' \in Seq(Answers)
    BY <1>0, <2>1
  <2> QED
    BY <1>0, <1>3, <2>1, <2>2 DEF task, MemoryTyped
<1>4. CASE ReuseShard \/ RunShard
  <2>1. stage = Surface /\ stage \in Stages /\ task <= NumTasks(stage)
    <3>1. Investigating(Surface)
      BY <1>4 DEF ReuseShard, RunShard
    <3> QED
      BY <3>1 DEF Investigating
  <2>2. \E a \in Answers, isNew \in BOOLEAN : Merge(a, isNew)
    BY <1>0, <1>4 DEF ReuseShard, RunShard, ShardReusable
  <2> QED
    BY <1>3, <2>1, <2>2
<1>5. CASE ReuseFeatureTask \/ RunFeatureTask
  <2>1. stage = Features /\ stage \in Stages /\ task <= NumTasks(stage)
    <3>1. Investigating(Features)
      BY <1>5 DEF ReuseFeatureTask, RunFeatureTask
    <3> QED
      BY <3>1 DEF Investigating
  <2>2. \E a \in Answers, isNew \in BOOLEAN : Merge(a, isNew)
    BY <1>0, <1>5 DEF ReuseFeatureTask, RunFeatureTask
  <2> QED
    BY <1>3, <2>1, <2>2
<1>6. CASE LoadStage
  <2>1. stage \in Stages
    BY <1>6 DEF LoadStage, Working, IInv, Position
  <2>2. Advance(output[stage].content) \/ Exit("unreadable")
    BY <1>6 DEF LoadStage
  <2>3. CASE Advance(output[stage].content)
    <3>1. output[stage].content \in Seq(Answers)
      BY <1>1, <2>1 DEF Content
    <3> QED
      BY <1>1, <1>2, <2>1, <2>3, <3>1
  <2>4. CASE Exit("unreadable")
    BY <2>4 DEF Exit, MemoryTyped
  <2> QED
    BY <2>2, <2>3, <2>4
<1>7. CASE MarkStageCompleted
  <2>1. stage \in Stages /\ Advance(merged)
    BY <1>7 DEF MarkStageCompleted, Working, IInv, Position
  <2> QED
    BY <1>0, <1>2, <2>1 DEF Content, MemoryTyped
<1>9. ASSUME \/ \E t \in Stages : StartRun(t)
             \/ \E t \in Flags, r \in Reruns : Resume(t, r)
      PROVE  MemoryTyped'
  <2>1. pc = "idle" /\ stage' \in Stages /\ merged' = merged /\ surface' = surface
    BY <1>9 DEF StartRun, Resume, Launch
  <2>2. merged' = <<>>
    BY <2>1 DEF Working, IInv, Position
  <2> QED
    BY <1>0, <2>1, <2>2, NumTasksType DEF MemoryTyped
<1>10. ASSUME NEW result, Exit(result)
       PROVE  MemoryTyped'
  BY <1>10 DEF Exit, MemoryTyped
<1>11. ASSUME \/ \E t \in Flags, r \in Reruns : RefuseResume(t, r)
              \/ RejectFeatureCheckpoint \/ WriteApplication \/ Fail
       PROVE  MemoryTyped'
  BY <1>10, <1>11 DEF RefuseResume, RejectFeatureCheckpoint, WriteApplication, Fail
<1>12. CASE \/ BeginRerun \/ BeginStage \/ FinishInvestigation \/ TruncateOutput
            \/ WriteOutput \/ TruncateApplication \/ Upgrade \/ UNCHANGED vars
  <2>1. UNCHANGED <<merged, surface, stage>>
    BY <1>12
    DEF BeginRerun, BeginStage, FinishInvestigation, TruncateOutput, WriteOutput,
        TruncateApplication, Upgrade, vars, process
  <2> QED
    BY <1>0, <2>1 DEF MemoryTyped, NumTasks
<1> QED
  BY <1>4, <1>5, <1>6, <1>7, <1>9, <1>11, <1>12 DEF Next, Operator, Work

(* An expansion task is asked after the module discovery. *)
LEMMA TaskInputsType ==
  ASSUME merged \in Seq(Answers)
  PROVE  task \in Nat \ {0} /\ TaskInputs(task) \in Seq(Answers)
<1>1. task \in Nat \ {0} /\ (task # 1 => Len(merged) >= 1)
  BY DEF task
<1>2. task # 1 => merged[1] \in Answers
  BY <1>1
<1> QED
  BY <1>1, <1>2 DEF TaskInputs

FilesTyped ==
  /\ output \in [Stages -> StageOutput]
  /\ \A s \in Stages : Len(output[s].content) <= NumTasks(s)
  /\ application \in StageOutput
  /\ shardFile \in [ShardTasks -> Answers \cup {None}]
  /\ featureFile \in [FeatureTasks -> FeatureCheckpoint \cup {None}]

LEMMA FilesType ==
  ASSUME IInv, [Next]_vars
  PROVE  FilesTyped'
<1> USE StagesAre
<1>0. /\ FilesTyped /\ merged \in Seq(Answers) /\ surface \in Seq(Answers)
      /\ accepted \subseteq Answers /\ attempt \in Nat
  BY ConstantsAssumption DEF IInv, Shape, TypeOK, FilesTyped
<1>1. Torn \in StageOutput /\ Whole(merged, surface) \in StageOutput
  BY <1>0, WholeType DEF Torn, StageOutput
<1>2. \A s \in Stages : \A f \in StageOutput :
        Len(f.content) <= NumTasks(s) =>
          /\ [output EXCEPT ![s] = f] \in [Stages -> StageOutput]
          /\ \A r \in Stages : Len([output EXCEPT ![s] = f][r].content) <= NumTasks(r)
  BY <1>0 DEF FilesTyped
<1>3. CASE TruncateOutput
  <2>1. /\ stage \in Stages /\ output' = [output EXCEPT ![stage] = Torn]
        /\ UNCHANGED <<application, shardFile, featureFile>>
    BY <1>3 DEF TruncateOutput, Working, IInv, Position
  <2>2. Len(Torn.content) <= NumTasks(stage)
    BY <2>1, NumTasksType DEF Torn
  <2> QED
    BY <1>0, <1>1, <1>2, <2>1, <2>2 DEF FilesTyped
<1>4. CASE WriteOutput
  <2>1. /\ stage \in Stages /\ output' = [output EXCEPT ![stage] = Whole(merged, surface)]
        /\ UNCHANGED <<application, shardFile, featureFile>>
    BY <1>4 DEF WriteOutput, Working, IInv, Position
  <2>2. Len(Whole(merged, surface).content) <= NumTasks(stage)
    BY <2>1 DEF Whole, IInv, Shape, TypeOK
  <2> QED
    BY <1>0, <1>1, <1>2, <2>1, <2>2 DEF FilesTyped
<1>5. CASE TruncateApplication \/ WriteApplication
  BY <1>0, <1>1, <1>5 DEF TruncateApplication, WriteApplication, FilesTyped
<1>6. CASE RunShard
  <2>1. /\ \E a \in Answers : shardFile' = [shardFile EXCEPT ![task] = a]
        /\ UNCHANGED <<output, application, featureFile>>
    BY <1>0, <1>6 DEF RunShard
  <2> QED
    BY <1>0, <2>1 DEF FilesTyped
<1>7. CASE RunFeatureTask
  <2>1. PICK a \in Answers :
          featureFile' = [featureFile EXCEPT ![task] =
            [attempt |-> attempt, prior |-> surface,
             inputs |-> TaskInputs(task), answer |-> a]]
    BY <1>0, <1>7 DEF RunFeatureTask
  <2>2. UNCHANGED <<output, application, shardFile>>
    BY <1>7 DEF RunFeatureTask
  <2>3. [attempt |-> attempt, prior |-> surface, inputs |-> TaskInputs(task), answer |-> a]
          \in FeatureCheckpoint
    BY <1>0, TaskInputsType DEF FeatureCheckpoint
  <2>4. featureFile' \in [FeatureTasks -> FeatureCheckpoint \cup {None}]
    BY <1>0, <2>1, <2>3 DEF FilesTyped
  <2> QED
    BY <1>0, <2>2, <2>4 DEF FilesTyped
<1>8. CASE \/ \E t \in Stages : StartRun(t)
           \/ \E t \in Flags, r \in Reruns : Resume(t, r) \/ RefuseResume(t, r)
           \/ BeginRerun \/ LoadStage \/ BeginStage \/ ReuseShard \/ ReuseFeatureTask
           \/ RejectFeatureCheckpoint \/ FinishInvestigation \/ MarkStageCompleted
           \/ Fail \/ Upgrade \/ UNCHANGED vars
  <2>1. UNCHANGED files
    BY <1>8
    DEF StartRun, Resume, RefuseResume, Launch, BeginRerun, LoadStage, BeginStage,
        ReuseShard, ReuseFeatureTask, RejectFeatureCheckpoint, FinishInvestigation,
        MarkStageCompleted, Fail, Upgrade, vars
  <2> QED
    BY <1>0, <2>1 DEF files, FilesTyped
<1> QED
  BY <1>3, <1>4, <1>5, <1>6, <1>7, <1>8 DEF Next, Operator, Work

-----------------------------------------------------------------------------
(* The remaining variables, and the attempt a rerun has to spare. *)
ManifestTyped ==
  /\ through \in Stages \cup {NoRun} /\ completed \subseteq Stages
  /\ attempt \in 0..MaxAttempt
  /\ Working /\ rerun # NoStage
       /\ (stage < rerun \/ (pc = "enter" /\ stage = rerun /\ stage \in completed))
     => attempt < MaxAttempt

LEMMA ManifestType ==
  ASSUME IInv, [Next]_vars
  PROVE  ManifestTyped'
<1> USE StagesAre, ConstantsAssumption DEF Working
<1>0. /\ ManifestTyped /\ stage \in 0..6 /\ target \in 0..6 /\ rerun \in {0, 5, 6}
      /\ pc # "idle" => stage \in Stages
      /\ pc \in {"investigate", "write", "writing", "mark"} => stage \notin completed
      /\ pc \in {"publish", "publishing"} => stage = Features
  BY DEF IInv, Shape, TypeOK, Flags, Reruns, ManifestTyped, Position, Computing, Publishing
<1>1. ASSUME NEW t \in Stages, StartRun(t) PROVE ManifestTyped'
  BY <1>0, <1>1 DEF StartRun, Launch, ManifestTyped
<1>2. ASSUME NEW t \in Flags, NEW r \in Reruns, Resume(t, r) PROVE ManifestTyped'
  <2>1. through' \in Stages
    BY <1>2, ResumeFacts
  <2>2. /\ UNCHANGED <<completed, attempt>> /\ rerun' = r
        /\ r # NoStage => attempt < MaxAttempt
    BY <1>2 DEF Resume, Launch
  <2> QED
    BY <1>0, <2>1, <2>2 DEF ManifestTyped
<1>3. ASSUME NEW t \in Flags, NEW r \in Reruns, RefuseResume(t, r) PROVE ManifestTyped'
  BY <1>0, <1>3 DEF RefuseResume, Exit, Requested, Flags, ManifestTyped
<1>4. CASE BeginRerun
  <2>1. /\ pc = "enter" /\ rerun = stage /\ stage \in completed /\ attempt' = attempt + 1
        /\ completed' = completed \ Invalidated(stage) /\ UNCHANGED process
        /\ through' \in {Features, through}
    BY <1>4 DEF BeginRerun, NewAttempt
  <2>2. stage \notin completed' /\ completed' \subseteq Stages
    BY <1>0, <2>1 DEF Invalidated, process, ManifestTyped
  <2> QED
    BY <1>0, <2>1, <2>2 DEF process, ManifestTyped
<1>5. CASE LoadStage \/ MarkStageCompleted
  <2>1. /\ UNCHANGED <<through, attempt>> /\ stage \in Stages
        /\ pc \in {"enter", "mark"} /\ (pc = "enter" => stage \in completed /\ rerun # stage)
        /\ completed' \in {completed, completed \cup {stage}}
    BY <1>0, <1>5 DEF LoadStage, MarkStageCompleted, Reusable, manifest
  <2>2. (\E found : Advance(found)) \/ (\E result : Exit(result))
    BY <1>5 DEF LoadStage, MarkStageCompleted
  <2>3. CASE \E result : Exit(result)
    BY <1>0, <2>1, <2>3 DEF Exit, ManifestTyped
  <2>4. CASE \E found : Advance(found)
    <3>1. \/ stage' = stage + 1 /\ pc' = "enter" /\ rerun' = rerun
          \/ stage' = stage /\ pc' = "publish" /\ stage = Features /\ rerun' = rerun
          \/ pc' = "idle"
      BY <2>4 DEF Advance, Exit, Publishes
    <3> QED
      BY <1>0, <2>1, <3>1 DEF ManifestTyped
  <2> QED
    BY <2>2, <2>3, <2>4
<1>6. CASE \/ BeginStage \/ ReuseShard \/ RunShard \/ ReuseFeatureTask \/ RunFeatureTask
           \/ FinishInvestigation \/ TruncateOutput \/ WriteOutput \/ TruncateApplication
           \/ Upgrade \/ UNCHANGED vars
  <2>1. /\ UNCHANGED <<through, completed, attempt, stage, rerun>>
        /\ pc' # "enter" \/ pc' = pc
        /\ pc' # "idle" => pc # "idle"
    BY <1>6
    DEF BeginStage, ReuseShard, RunShard, ReuseFeatureTask, RunFeatureTask, Merge,
        Investigating, FinishInvestigation, TruncateOutput, WriteOutput,
        TruncateApplication, Upgrade, vars, manifest, process
  <2> QED
    BY <1>0, <2>1 DEF ManifestTyped
<1>7. CASE RejectFeatureCheckpoint \/ WriteApplication \/ Fail
  BY <1>0, <1>7 DEF RejectFeatureCheckpoint, WriteApplication, Fail, Exit, manifest,
                    ManifestTyped
<1> QED
  BY <1>1, <1>2, <1>3, <1>4, <1>5, <1>6, <1>7 DEF Next, Operator, Work

ProcessTyped ==
  /\ pc \in Labels /\ resumed \in BOOLEAN /\ asked \in BOOLEAN
  /\ rerun \in Reruns /\ target \in Flags /\ stage \in Flags
  /\ outcome \in {"none", "ok", "failed", "refused", "unreadable", "incompatible"}

LEMMA ExitType ==
  ASSUME NEW result \in {"ok", "failed", "refused", "unreadable", "incompatible"},
         Exit(result)
  PROVE  ProcessTyped'
BY DEF Exit, ProcessTyped, Labels, Flags, Reruns

LEMMA ProcessType ==
  ASSUME IInv, [Next]_vars
  PROVE  ProcessTyped'
<1> USE StagesAre
<1>0. /\ ProcessTyped /\ (pc # "idle" => stage \in Stages /\ target \in Stages /\ stage <= target)
  BY DEF IInv, Shape, TypeOK, ProcessTyped, Position, Working
<1>1. ASSUME NEW t \in Stages, StartRun(t) PROVE ProcessTyped'
  <2>1. /\ pc' = "enter" /\ stage' = Architecture /\ resumed' = FALSE /\ target' = t
        /\ rerun' = NoStage /\ outcome' = "none" /\ asked' = asked
    BY <1>1 DEF StartRun, Launch
  <2>2. stage' \in Flags /\ target' \in Flags /\ rerun' \in Reruns /\ pc' \in Labels
    BY <2>1 DEF Labels, Flags, Reruns
  <2> QED
    BY <1>0, <2>1, <2>2 DEF ProcessTyped
<1>2. ASSUME NEW t \in Flags, NEW r \in Reruns, Resume(t, r) PROVE ProcessTyped'
  <2>1. /\ pc' = "enter" /\ stage' = Surface /\ resumed' = TRUE
        /\ rerun' = r /\ outcome' = "none" /\ asked' = asked
    BY <1>2 DEF Resume, Launch
  <2> QED
    BY <1>0, <1>2, <2>1, ResumeFacts DEF ProcessTyped, Labels, Flags
<1>3. ASSUME NEW t \in Flags, NEW r \in Reruns, RefuseResume(t, r) PROVE ProcessTyped'
  BY <1>3, ExitType DEF RefuseResume
<1>4. CASE LoadStage \/ MarkStageCompleted
  <2>1. /\ pc # "idle"
        /\ (\E found : Advance(found)) \/ Exit("unreadable")
    BY <1>4 DEF LoadStage, MarkStageCompleted
  <2>2. CASE Exit("unreadable")
    BY <2>2, ExitType
  <2>3. CASE \E found : Advance(found)
    <3>1. \/ /\ stage' = stage + 1 /\ stage < target /\ pc' = "enter" /\ asked' = FALSE
             /\ UNCHANGED <<resumed, rerun, target, outcome>>
          \/ pc' = "publish" /\ UNCHANGED <<stage, asked, resumed, rerun, target, outcome>>
          \/ Exit("ok")
      BY <1>0, <2>1, <2>3 DEF Advance, LastStage
    <3>2. stage < target => stage + 1 \in Stages
      BY <1>0, <2>1
    <3> QED
      BY <1>0, <2>1, <3>1, <3>2, ExitType DEF ProcessTyped, Labels, Flags
  <2> QED
    BY <2>1, <2>2, <2>3
<1>5. CASE ReuseShard \/ RunShard \/ ReuseFeatureTask \/ RunFeatureTask
  <2>1. /\ UNCHANGED <<pc, stage, resumed, rerun, target, outcome>>
        /\ asked' \in BOOLEAN
    BY <1>0, <1>5
    DEF ReuseShard, RunShard, ReuseFeatureTask, RunFeatureTask, Merge, ProcessTyped
  <2> QED
    BY <1>0, <2>1 DEF ProcessTyped
<1>6. CASE \/ BeginRerun \/ BeginStage \/ FinishInvestigation \/ TruncateOutput \/ WriteOutput
           \/ TruncateApplication \/ Upgrade \/ UNCHANGED vars
  <2>1. /\ UNCHANGED <<stage, resumed, asked, rerun, target, outcome>>
        /\ pc' \in {pc, "investigate", "write", "writing", "mark", "publishing"}
    BY <1>6
    DEF BeginRerun, BeginStage, FinishInvestigation, TruncateOutput, WriteOutput,
        TruncateApplication, Upgrade, process, vars
  <2> QED
    BY <1>0, <2>1 DEF ProcessTyped, Labels
<1>7. CASE RejectFeatureCheckpoint \/ WriteApplication \/ Fail
  BY <1>7, ExitType DEF RejectFeatureCheckpoint, WriteApplication, Fail
<1> QED
  BY <1>1, <1>2, <1>3, <1>4, <1>5, <1>6, <1>7 DEF Next, Operator, Work

WorldTyped ==
  /\ failures \in 0..MaxFailures /\ upgrades \in 0..MaxUpgrades
  /\ accepted \subseteq Answers

LEMMA WorldType ==
  ASSUME IInv, [Next]_vars
  PROVE  WorldTyped'
<1>0. WorldTyped
  BY DEF IInv, Shape, TypeOK, WorldTyped
<1>1. CASE Fail
  BY <1>0, <1>1, ConstantsAssumption DEF Fail, WorldTyped
<1>2. CASE Upgrade
  BY <1>0, <1>2, ConstantsAssumption DEF Upgrade, WorldTyped
<1>3. CASE ~ (Fail \/ Upgrade)
  <2>1. UNCHANGED world
    BY <1>3
    DEF Next, Operator, Work, StartRun, Resume, RefuseResume, Launch, BeginRerun, LoadStage,
        BeginStage, ReuseShard, RunShard, ReuseFeatureTask, RejectFeatureCheckpoint,
        RunFeatureTask, FinishInvestigation, TruncateOutput, WriteOutput, MarkStageCompleted,
        TruncateApplication, WriteApplication, vars
  <2> QED
    BY <1>0, <2>1 DEF world, WorldTyped
<1> QED
  BY <1>1, <1>2, <1>3

LEMMA ShapeStep ==
  ASSUME IInv, [Next]_vars
  PROVE  Shape'
BY MemoryType, FilesType, ManifestType, ProcessType, WorldType
DEF MemoryTyped, FilesTyped, ManifestTyped, ProcessTyped, WorldTyped, Shape, TypeOK

-----------------------------------------------------------------------------
(* Outputs are only written for a stage that is not complete. *)
LEMMA OutputKept ==
  ASSUME IInv, [Next]_vars
  PROVE  \A s \in completed : output'[s] = output[s]
<1>1. CASE TruncateOutput \/ WriteOutput
  <2>1. stage \notin completed /\ pc \in {"write", "writing"}
    BY <1>1 DEF TruncateOutput, WriteOutput, Computing, IInv, Position
  <2>2. \E f : output' = [output EXCEPT ![stage] = f]
    BY <1>1 DEF TruncateOutput, WriteOutput
  <2>3. output \in [Stages -> StageOutput] /\ completed \subseteq Stages
    BY DEF IInv, Shape, TypeOK
  <2> QED
    BY <2>1, <2>2, <2>3
<1>2. CASE ~ (TruncateOutput \/ WriteOutput)
  <2>1. output' = output
    BY <1>2
    DEF Next, Operator, Work, StartRun, Resume, RefuseResume, Launch, BeginRerun, LoadStage,
        BeginStage, ReuseShard, RunShard, ReuseFeatureTask, RejectFeatureCheckpoint,
        RunFeatureTask, FinishInvestigation, MarkStageCompleted, TruncateApplication,
        WriteApplication, Fail, Upgrade, vars, files
  <2> QED
    BY <2>1
<1> QED
  BY <1>1, <1>2

(* A step that leaves a stage for the next, for the application model or   *)
(* for good.                                                               *)
LEMMA AdvanceCases ==
  ASSUME NEW found, Advance(found)
  PROVE  \/ /\ ~ LastStage
            /\ stage' = stage + 1 /\ pc' = "enter" /\ merged' = <<>>
            /\ surface' = IF stage = Surface THEN found ELSE surface
            /\ UNCHANGED <<resumed, rerun, target, outcome>>
         \/ /\ stage = Features /\ pc' = "publish" /\ merged' = found
            /\ UNCHANGED <<stage, surface, resumed, rerun, target, outcome>>
         \/ /\ stage # Features /\ LastStage /\ pc' = "idle" /\ outcome' = "ok"
            /\ stage' = NoStage
BY DEF Advance, Publishes, Exit

LEMMA MemoryStep ==
  ASSUME IInv, [Next]_vars
  PROVE  Memory'
<1> USE StagesAre DEF Working, Publishing
<1>0. /\ Memory /\ output \in [Stages -> StageOutput]
      /\ pc # "idle" => stage \in Stages
      /\ pc \in {"publish", "publishing"} => stage = Features
  BY DEF IInv, Shape, TypeOK, Position
<1>1. CASE \E t \in Stages : StartRun(t)
  BY <1>1 DEF StartRun, Launch, Memory
<1>2. CASE \E t \in Flags, r \in Reruns : Resume(t, r)
  BY <1>2 DEF Resume, Launch, Memory
<1>3. ASSUME NEW result, Exit(result) PROVE Memory'
  BY <1>3 DEF Exit, Memory
<1>4. CASE \/ \E t \in Flags, r \in Reruns : RefuseResume(t, r)
           \/ RejectFeatureCheckpoint \/ WriteApplication \/ Fail
  BY <1>3, <1>4 DEF RefuseResume, RejectFeatureCheckpoint, WriteApplication, Fail
<1>5. ASSUME NEW found, Advance(found), UNCHANGED output, found = output[stage].content
      PROVE  Memory'
  <2>1. CASE stage' = stage + 1 /\ pc' = "enter"
    <3>1. surface' = IF stage = Surface THEN found ELSE surface
      BY <1>5, <2>1, AdvanceCases
    <3>2. stage' = Features => stage = Surface
      BY <2>1, <1>0 DEF IInv, Shape, TypeOK, Flags
    <3> QED
      BY <1>5, <2>1, <3>1, <3>2 DEF Memory
  <2>2. CASE stage = Features /\ pc' = "publish"
    <3>1. merged' = found /\ UNCHANGED <<stage, surface>> /\ pc # "idle"
      BY <1>5, <2>2, AdvanceCases DEF IInv, Position
    <3> QED
      BY <1>0, <1>5, <2>2, <3>1 DEF Memory
  <2>3. CASE pc' = "idle"
    BY <2>3 DEF Memory
  <2> QED
    BY <1>5, <2>1, <2>2, <2>3, AdvanceCases
<1>6. CASE LoadStage
  BY <1>3, <1>5, <1>6 DEF LoadStage, files
<1>7. CASE MarkStageCompleted
  <2>1. merged = output[stage].content /\ Advance(merged) /\ UNCHANGED output
    BY <1>0, <1>7 DEF MarkStageCompleted, files, Memory, Whole
  <2> QED
    BY <1>5, <2>1
<1>8. CASE \/ BeginRerun \/ BeginStage \/ FinishInvestigation \/ TruncateApplication
           \/ Upgrade \/ UNCHANGED vars
  <2>1. /\ UNCHANGED <<output, stage, merged, surface>>
        /\ \/ pc' = pc
           \/ pc # "idle" /\ pc' \in {"investigate", "write"}
           \/ pc = "publish" /\ pc' = "publishing"
    BY <1>8
    DEF BeginRerun, BeginStage, FinishInvestigation, TruncateApplication, Upgrade, vars,
        files, process
  <2> QED
    BY <1>0, <2>1 DEF Memory
<1>9. CASE ReuseShard \/ RunShard \/ ReuseFeatureTask \/ RunFeatureTask
  <2>1. pc = "investigate" /\ UNCHANGED <<output, pc, stage, surface>>
    BY <1>9
    DEF ReuseShard, RunShard, ReuseFeatureTask, RunFeatureTask, Investigating, Merge, files
  <2> QED
    BY <1>0, <2>1 DEF Memory
<1>10. CASE TruncateOutput \/ WriteOutput
  <2>1. /\ stage \in Stages /\ UNCHANGED <<stage, merged, surface>>
        /\ \/ pc' = "writing" /\ output' = [output EXCEPT ![stage] = Torn]
           \/ pc' = "mark" /\ output' = [output EXCEPT ![stage] = Whole(merged, surface)]
        /\ pc # "idle"
    BY <1>0, <1>10 DEF TruncateOutput, WriteOutput
  <2>2. stage = Features => output'[Surface] = output[Surface]
    BY <1>0, <2>1
  <2>3. pc' = "mark" => output'[stage] = Whole(merged, surface)
    BY <1>0, <2>1
  <2>4. (Whole(merged, surface) = Whole(merged, surface)')
    BY <2>1 DEF Whole
  <2> QED
    BY <1>0, <2>1, <2>2, <2>3, <2>4 DEF Memory
<1> QED
  BY <1>1, <1>2, <1>4, <1>6, <1>7, <1>8, <1>9, <1>10 DEF Next, Operator, Work

-----------------------------------------------------------------------------
(* The Feature checkpoints. *)
CheckpointAges ==
  \A i \in FeatureTasks :
    featureFile[i] # None =>
      /\ featureFile[i].attempt <= attempt
      /\ Surface \notin completed => featureFile[i].attempt < attempt

NoneYet == through = NoRun => \A i \in FeatureTasks : featureFile[i] = None

MergedCurrent ==
  Computing /\ stage = Features =>
    \A i \in 1..Len(merged) :
      /\ Current(i)
      /\ featureFile[i].prior = surface
      /\ featureFile[i].answer = merged[i]

FreshRun ==
  Working /\ ~ resumed /\ ~ Publishing =>
    \A i \in FeatureTasks : i > MergedTasks => featureFile[i] = None

(* The recorded target is never taken back. *)
LEMMA ThroughKept ==
  ASSUME IInv, [Next]_vars
  PROVE  through <= through'
<1> USE StagesAre
<1>0. through \in 0..6 /\ stage \in 0..6
  BY DEF IInv, Shape, TypeOK, Flags
<1>1. ASSUME NEW t \in Flags, NEW r \in Reruns, Resume(t, r) PROVE through <= through'
  BY <1>1, ResumeFacts
<1>2. ASSUME NEW t \in Flags, NEW r \in Reruns, RefuseResume(t, r) PROVE through <= through'
  BY <1>0, <1>2 DEF RefuseResume, Requested, Flags
<1>3. ASSUME NEW t \in Stages, StartRun(t) PROVE through <= through'
  BY <1>0, <1>3 DEF StartRun
<1>4. CASE BeginRerun
  BY <1>0, <1>4 DEF BeginRerun
<1>5. CASE (Work /\ ~ BeginRerun) \/ Fail \/ Upgrade \/ UNCHANGED vars
  <2>1. through' = through
    BY <1>5
    DEF Work, LoadStage, BeginStage, ReuseShard, RunShard, ReuseFeatureTask,
        RejectFeatureCheckpoint, RunFeatureTask, FinishInvestigation, TruncateOutput,
        WriteOutput, MarkStageCompleted, TruncateApplication, WriteApplication, Fail, Upgrade,
        vars, manifest
  <2> QED
    BY <1>0, <2>1
<1> QED
  BY <1>1, <1>2, <1>3, <1>4, <1>5 DEF Next, Operator

LEMMA CheckpointParts ==
  Checkpoints <=> CheckpointAges /\ NoneYet /\ MergedCurrent /\ FreshRun
BY DEF Checkpoints, CheckpointAges, NoneYet, MergedCurrent, FreshRun

(* What a Feature investigation writes, and where. *)
LEMMA FeatureTaskRun ==
  ASSUME IInv, RunFeatureTask
  PROVE  /\ stage = Features /\ pc = "investigate" /\ task \in FeatureTasks
         /\ surface = output[Surface].content /\ Surface \in completed
         /\ Features \notin completed /\ through # NoRun
         /\ UNCHANGED <<through, completed, attempt, pc, stage, surface, resumed, output>>
         /\ \E a \in accepted :
              /\ merged' = Append(merged, a)
              /\ featureFile' = [featureFile EXCEPT ![task] =
                   [attempt |-> attempt, prior |-> surface,
                    inputs |-> TaskInputs(task), answer |-> a]]
<1> USE StagesAre
<1>1. /\ Investigating(Features) /\ UNCHANGED <<through, completed, attempt, output>>
      /\ \E a \in accepted :
           /\ Merge(a, TRUE)
           /\ featureFile' = [featureFile EXCEPT ![task] =
                [attempt |-> attempt, prior |-> surface,
                 inputs |-> TaskInputs(task), answer |-> a]]
  BY DEF RunFeatureTask, manifest
<1>2. stage = Features /\ pc = "investigate" /\ task <= NumTasks(Features)
  BY <1>1 DEF Investigating
<1>3. task \in FeatureTasks
  <2>1. task \in Nat \ {0}
    BY TaskInputsType DEF IInv, Shape, TypeOK
  <2>2. NumTasks(Features) = NumModules + 1
    BY DEF NumTasks
  <2> QED
    BY <1>2, <2>1, <2>2, ConstantsAssumption DEF FeatureTasks
<1>4. Surface \in completed /\ Features \notin completed /\ through # NoRun
  BY <1>2 DEF IInv, Position, Working, Computing
<1>5. surface = output[Surface].content
  BY <1>2 DEF IInv, Memory, Working
<1> QED
  BY <1>1, <1>2, <1>3, <1>4, <1>5 DEF Merge

LEMMA CheckpointsStep ==
  ASSUME IInv, [Next]_vars
  PROVE  Checkpoints'
<1> USE StagesAre DEF Working, Computing, Publishing
<1>0. /\ CheckpointAges /\ NoneYet /\ MergedCurrent /\ FreshRun
      /\ attempt \in Nat /\ merged \in Seq(Answers) /\ completed \subseteq Stages
      /\ featureFile \in [FeatureTasks -> FeatureCheckpoint \cup {None}]
      /\ \A i \in FeatureTasks : featureFile[i] # None => featureFile[i].attempt \in Nat
  <2>1. featureFile \in [FeatureTasks -> FeatureCheckpoint \cup {None}]
    BY DEF IInv, Shape, TypeOK
  <2>2. \A i \in FeatureTasks : featureFile[i] # None => featureFile[i].attempt \in Nat
    BY <2>1 DEF FeatureCheckpoint
  <2> QED
    BY <2>1, <2>2, CheckpointParts, ConstantsAssumption DEF IInv, Shape, TypeOK
<1>1. CheckpointAges'
  <2>1. CASE RunFeatureTask
    <3>1. \E a : featureFile' = [featureFile EXCEPT ![task] =
                   [attempt |-> attempt, prior |-> surface,
                    inputs |-> TaskInputs(task), answer |-> a]]
      BY <2>1, FeatureTaskRun
    <3>2. attempt' = attempt /\ completed' = completed /\ Surface \in completed
      BY <2>1, FeatureTaskRun
    <3> QED
      BY <1>0, <3>1, <3>2 DEF CheckpointAges
  <2>2. CASE BeginRerun
    <3>1. attempt' = attempt + 1 /\ featureFile' = featureFile
      BY <2>2 DEF BeginRerun, NewAttempt, files
    <3> QED
      BY <1>0, <3>1 DEF CheckpointAges
  <2>3. CASE ~ (RunFeatureTask \/ BeginRerun)
    <3>1. featureFile' = featureFile /\ attempt' = attempt /\ completed \subseteq completed'
      BY <2>3
      DEF Next, Operator, Work, StartRun, Resume, RefuseResume, Launch, LoadStage, BeginStage,
          ReuseShard, RunShard, ReuseFeatureTask, RejectFeatureCheckpoint, FinishInvestigation,
          TruncateOutput, WriteOutput, MarkStageCompleted, TruncateApplication,
          WriteApplication, Fail, Upgrade, vars, manifest, files
    <3> QED
      BY <1>0, <3>1 DEF CheckpointAges
  <2> QED
    BY <2>1, <2>2, <2>3
<1>2. NoneYet'
  <2>1. CASE RunFeatureTask
    BY <2>1, FeatureTaskRun DEF NoneYet
  <2>2. CASE ~ RunFeatureTask
    <3>1. featureFile' = featureFile
      BY <2>2
      DEF Next, Operator, Work, StartRun, Resume, RefuseResume, Launch, BeginRerun, LoadStage,
          BeginStage, ReuseShard, RunShard, ReuseFeatureTask, RejectFeatureCheckpoint,
          FinishInvestigation, TruncateOutput, WriteOutput, MarkStageCompleted,
          TruncateApplication, WriteApplication, Fail, Upgrade, vars, files
    <3>2. through' = NoRun => through = NoRun
      <4>1. through \in 0..6 /\ through <= through'
        BY ThroughKept DEF IInv, Shape, TypeOK
      <4> QED
        BY <4>1
    <3> QED
      BY <1>0, <3>1, <3>2 DEF NoneYet
  <2> QED
    BY <2>1, <2>2
<1>3. ASSUME RunFeatureTask PROVE MergedCurrent' /\ FreshRun'
  <2>1. PICK a \in accepted :
          /\ merged' = Append(merged, a)
          /\ featureFile' = [featureFile EXCEPT ![task] =
               [attempt |-> attempt, prior |-> surface,
                inputs |-> TaskInputs(task), answer |-> a]]
    BY <1>3, FeatureTaskRun
  <2>2. /\ stage = Features /\ pc = "investigate" /\ task \in FeatureTasks
        /\ UNCHANGED <<attempt, pc, stage, surface, resumed>>
    BY <1>3, FeatureTaskRun
  <2>3. /\ Len(merged') = task /\ merged'[task] = a /\ task = Len(merged) + 1
        /\ \A i \in 1..Len(merged) : merged'[i] = merged[i]
    BY <1>0, <2>1 DEF task
  <2>4. /\ featureFile'[task] = [attempt |-> attempt, prior |-> surface,
                                 inputs |-> TaskInputs(task), answer |-> a]
        /\ \A i \in FeatureTasks \ {task} : featureFile'[i] = featureFile[i]
    BY <1>0, <2>1, <2>2
  <2>5. featureFile'[task] # None
    <3>1. featureFile' \in [FeatureTasks -> FeatureCheckpoint \cup {None}]
      BY FilesType DEF FilesTyped
    <3>2. featureFile'[task] \in FeatureCheckpoint
      <4>1. surface \in Seq(Answers) /\ a \in Answers /\ TaskInputs(task) \in Seq(Answers)
        BY <1>0, TaskInputsType DEF IInv, Shape, TypeOK
      <4> QED
        BY <1>0, <2>4, <4>1 DEF FeatureCheckpoint
    <3> QED
      BY <3>2, ConstantsAssumption
  <2>6. MergedCurrent'
    <3> SUFFICES ASSUME NEW i \in 1..task
                 PROVE  /\ Current(i)' /\ featureFile'[i].prior = surface'
                        /\ featureFile'[i].answer = merged'[i]
      BY <2>3 DEF MergedCurrent
    <3>1. CASE i = task
      BY <2>2, <2>3, <2>4, <2>5, <3>1 DEF Current
    <3>2. CASE i # task
      <4>1. i \in 1..Len(merged) /\ i \in FeatureTasks
        BY <1>0, <2>2, <2>3, <3>2, ConstantsAssumption DEF FeatureTasks
      <4>2. Current(i) /\ featureFile[i].prior = surface /\ featureFile[i].answer = merged[i]
        BY <1>0, <2>2, <4>1 DEF MergedCurrent
      <4> QED
        BY <2>2, <2>3, <2>4, <3>2, <4>1, <4>2 DEF Current
    <3> QED
      BY <3>1, <3>2
  <2>7. FreshRun'
    BY <1>0, <2>2, <2>3, <2>4 DEF FreshRun, MergedTasks, FeatureTasks
  <2> QED
    BY <2>6, <2>7
<1>4. ASSUME ReuseFeatureTask PROVE MergedCurrent' /\ FreshRun'
  <2>1. /\ stage = Features /\ pc = "investigate" /\ resumed
        /\ Current(task) /\ featureFile[task].prior = surface
        /\ merged' = Append(merged, featureFile[task].answer)
        /\ UNCHANGED <<attempt, featureFile, pc, stage, surface, resumed>>
    BY <1>4
    DEF ReuseFeatureTask, Investigating, ThisAttempt, Compatible, Merge, Current, manifest, files
  <2>2. /\ Len(merged') = Len(merged) + 1 /\ task = Len(merged) + 1
        /\ merged'[task] = featureFile[task].answer
        /\ \A i \in 1..Len(merged) : merged'[i] = merged[i]
    BY <1>0, <2>1 DEF task
  <2>3. \A i \in 1..(Len(merged) + 1) :
          /\ Current(i) /\ featureFile[i].prior = surface
          /\ featureFile[i].answer = merged'[i]
    BY <1>0, <2>1, <2>2 DEF MergedCurrent
  <2> QED
    BY <2>1, <2>2, <2>3 DEF MergedCurrent, FreshRun, Current
<1>5. ASSUME RunShard \/ ReuseShard PROVE MergedCurrent' /\ FreshRun'
  <2>1. /\ stage = Surface /\ stage' = stage /\ featureFile' = featureFile
        /\ pc = "investigate" /\ pc' = pc /\ resumed' = resumed
    BY <1>5 DEF RunShard, ReuseShard, Investigating, Merge, files
  <2> QED
    BY <1>0, <2>1 DEF MergedCurrent, FreshRun, MergedTasks
<1>6. ASSUME \E t \in Stages : StartRun(t) PROVE MergedCurrent' /\ FreshRun'
  <2>1. /\ through = NoRun /\ featureFile' = featureFile /\ pc' = "enter"
    BY <1>6 DEF StartRun, Launch, files
  <2> QED
    BY <1>0, <2>1 DEF MergedCurrent, FreshRun, NoneYet
<1>7. ASSUME NEW result, Exit(result) PROVE MergedCurrent' /\ FreshRun'
  BY <1>7 DEF Exit, MergedCurrent, FreshRun
<1>8. ASSUME \/ \E t \in Flags, r \in Reruns : RefuseResume(t, r)
             \/ RejectFeatureCheckpoint \/ WriteApplication \/ Fail
      PROVE  MergedCurrent' /\ FreshRun'
  BY <1>7, <1>8 DEF RefuseResume, RejectFeatureCheckpoint, WriteApplication, Fail
<1>9. ASSUME \E t \in Flags, r \in Reruns : Resume(t, r) PROVE MergedCurrent' /\ FreshRun'
  BY <1>9 DEF Resume, Launch, MergedCurrent, FreshRun
<1>10. ASSUME LoadStage PROVE MergedCurrent' /\ FreshRun'
  <2>1. resumed /\ (Advance(output[stage].content) \/ Exit("unreadable"))
    BY <1>10 DEF LoadStage, Reusable
  <2>2. pc' = "idle" \/ (pc' \in {"enter", "publish"} /\ resumed' = resumed)
    BY <2>1, AdvanceCases DEF Exit
  <2> QED
    BY <2>1, <2>2 DEF MergedCurrent, FreshRun
<1>11. ASSUME MarkStageCompleted PROVE MergedCurrent' /\ FreshRun'
  <2>1. Advance(merged) /\ pc = "mark" /\ featureFile' = featureFile
    BY <1>11 DEF MarkStageCompleted, files
  <2>2. CASE stage' = stage + 1 /\ pc' = "enter"
    <3>1. stage < Features /\ merged' = <<>> /\ resumed' = resumed
      <4>1. ~ LastStage /\ merged' = <<>> /\ resumed' = resumed
        BY <2>1, <2>2, AdvanceCases
      <4>2. stage \in Stages /\ target \in Stages
        BY <2>1 DEF IInv, Position
      <4> QED
        BY <4>1, <4>2 DEF LastStage
    <3>2. MergedTasks = 0 /\ MergedTasks' = 0
      BY <3>1 DEF MergedTasks
    <3> QED
      BY <1>0, <2>1, <2>2, <3>1, <3>2 DEF MergedCurrent, FreshRun
  <2>3. CASE pc' \in {"publish", "idle"}
    BY <2>3 DEF MergedCurrent, FreshRun
  <2> QED
    BY <2>1, <2>2, <2>3, AdvanceCases
<1>12. ASSUME BeginRerun \/ TruncateApplication PROVE MergedCurrent' /\ FreshRun'
  <2>1. \/ pc = "enter" /\ resumed /\ UNCHANGED process
        \/ pc' = "publishing"
    BY <1>12 DEF BeginRerun, TruncateApplication
  <2> QED
    BY <2>1 DEF process, MergedCurrent, FreshRun
<1>13. ASSUME \/ BeginStage \/ FinishInvestigation \/ TruncateOutput \/ WriteOutput \/ Upgrade
              \/ UNCHANGED vars
       PROVE  MergedCurrent' /\ FreshRun'
  <2>1. /\ UNCHANGED <<attempt, featureFile, stage, merged, surface, resumed>>
        /\ \/ pc' = pc
           \/ pc = "enter" /\ pc' = "investigate"
           \/ Computing /\ Computing'
    BY <1>13
    DEF BeginStage, FinishInvestigation, TruncateOutput, WriteOutput, Upgrade, vars, manifest,
        files, process
  <2>2. pc = "enter" => Len(merged) = 0
    BY DEF IInv, Position
  <2>3. MergedTasks' = MergedTasks /\ \A i : Current(i)' = Current(i)
    BY <2>1 DEF MergedTasks, Current
  <2>4. MergedCurrent'
    BY <1>0, <2>1, <2>2, <2>3 DEF MergedCurrent
  <2>5. FreshRun'
    BY <1>0, <2>1, <2>3 DEF FreshRun
  <2> QED
    BY <2>4, <2>5
<1>14. MergedCurrent' /\ FreshRun'
  BY <1>3, <1>4, <1>5, <1>6, <1>8, <1>9, <1>10, <1>11, <1>12, <1>13
  DEF Next, Operator, Work
<1> QED
  BY <1>1, <1>2, <1>14, CheckpointParts
  DEF Checkpoints, CheckpointAges, NoneYet, MergedCurrent, FreshRun

-----------------------------------------------------------------------------
(* What is recorded complete changes only when a stage is marked, when it  *)
(* was the next one, or when a rerun invalidates it with its dependents.   *)
LEMMA CompletedChanges ==
  ASSUME IInv, [Next]_vars
  PROVE  \/ completed' = completed
         \/ /\ MarkStageCompleted /\ stage \in Stages /\ stage \notin completed
            /\ completed' = completed \cup {stage}
            /\ \A r \in Stages : r < stage => r \in completed
         \/ /\ BeginRerun /\ stage \in {Surface, Features}
            /\ completed' = completed \ {s \in Stages : s >= stage}
<1> USE StagesAre
<1>1. CASE MarkStageCompleted
  BY <1>1 DEF MarkStageCompleted, IInv, Position, Working, Computing
<1>2. CASE BeginRerun
  <2>1. /\ stage \in {Surface, Features}
        /\ completed' = completed \ Invalidated(stage)
    BY <1>2 DEF BeginRerun, IInv, Shape, TypeOK, Position, Working, Reruns
  <2>2. Invalidated(stage) = {s \in Stages : s >= stage}
    BY <2>1 DEF Invalidated
  <2> QED
    BY <1>2, <2>1, <2>2
<1>3. CASE ~ (MarkStageCompleted \/ BeginRerun)
  <2>1. completed' = completed
    BY <1>3
    DEF Next, Operator, Work, StartRun, Resume, RefuseResume, LoadStage, BeginStage, ReuseShard,
        RunShard, ReuseFeatureTask, RejectFeatureCheckpoint, RunFeatureTask,
        FinishInvestigation, TruncateOutput, WriteOutput, TruncateApplication, WriteApplication,
        Fail, Upgrade, vars, manifest
  <2> QED
    BY <2>1
<1> QED
  BY <1>1, <1>2, <1>3

LEMMA CompletedStep ==
  ASSUME IInv, [Next]_vars
  PROVE  CompletedPrefix' /\ CompletedReadable'
<1> USE StagesAre
<1>0. CompletedPrefix /\ CompletedReadable /\ completed \subseteq Stages
  BY DEF IInv, Shape, TypeOK
<1>1. CompletedPrefix'
  <2>1. CASE completed' = completed
    BY <1>0, <2>1 DEF CompletedPrefix
  <2>2. CASE /\ completed' = completed \cup {stage}
             /\ \A r \in Stages : r < stage => r \in completed
    BY <1>0, <2>2 DEF CompletedPrefix
  <2>3. CASE stage \in {Surface, Features} /\ completed' = completed \ {s \in Stages : s >= stage}
    <3> SUFFICES ASSUME NEW s \in completed', NEW r \in Stages, r < s PROVE r \in completed'
      BY DEF CompletedPrefix
    <3> QED
      BY <1>0, <2>3 DEF CompletedPrefix
  <2> QED
    BY <2>1, <2>2, <2>3, CompletedChanges
<1>2. CompletedReadable'
  <2>1. CASE completed' \subseteq completed
    BY <1>0, <2>1, OutputKept DEF CompletedReadable
  <2>2. CASE MarkStageCompleted /\ completed' = completed \cup {stage}
    <3>1. output' = output /\ output[stage].state = "whole"
      BY <2>2 DEF MarkStageCompleted, files, IInv, Memory, Whole
    <3> QED
      BY <1>0, <2>2, <3>1 DEF CompletedReadable
  <2> QED
    BY <2>1, <2>2, CompletedChanges
<1> QED
  BY <1>1, <1>2

(* Steps that write no Feature checkpoint, begin no rerun and mark no      *)
(* stage disturb none of the relations between the files.                  *)
LEMMA OtherSteps ==
  ASSUME IInv, [Next]_vars, ~ (RunFeatureTask \/ BeginRerun \/ MarkStageCompleted)
  PROVE  UNCHANGED <<completed, attempt, featureFile>>
BY DEF Next, Operator, Work, StartRun, Resume, RefuseResume, Launch, LoadStage, BeginStage,
       ReuseShard, RunShard, ReuseFeatureTask, RejectFeatureCheckpoint, FinishInvestigation,
       TruncateOutput, WriteOutput, TruncateApplication, WriteApplication, Fail, Upgrade, vars,
       manifest, files

LEMMA MarkFacts ==
  ASSUME IInv, MarkStageCompleted
  PROVE  /\ pc = "mark" /\ stage \in Stages /\ stage \notin completed
         /\ completed' = completed \cup {stage} /\ output[stage] = Whole(merged, surface)
         /\ Len(merged) = NumTasks(stage)
         /\ UNCHANGED <<through, attempt, output, application, shardFile, featureFile>>
         /\ UNCHANGED world /\ Advance(merged)
BY DEF MarkStageCompleted, files, IInv, Position, Working, Computing, Memory

(* A rerun leaves no checkpoint of the current attempt. *)
LEMMA RerunFacts ==
  ASSUME IInv, BeginRerun
  PROVE  /\ \A i \in FeatureTasks : ~ Current(i)'
         /\ Features \notin completed' /\ UNCHANGED files /\ UNCHANGED outcome
         /\ UNCHANGED world
<1>1. attempt' = attempt + 1 /\ UNCHANGED files /\ UNCHANGED outcome /\ UNCHANGED world
  BY DEF BeginRerun, NewAttempt
<1>2. \A i \in FeatureTasks : featureFile[i] # None => featureFile[i].attempt \in Nat
  BY DEF IInv, Shape, TypeOK, FeatureCheckpoint
<1>3. \A i \in FeatureTasks : featureFile[i] # None => featureFile[i].attempt <= attempt
  BY DEF IInv, Checkpoints
<1>4. attempt \in Nat
  BY ConstantsAssumption DEF IInv, Shape, TypeOK
<1>5. \A i \in FeatureTasks : ~ Current(i)'
  BY <1>1, <1>2, <1>3, <1>4 DEF Current, files
<1>6. Features \notin completed'
  BY StagesAre DEF BeginRerun, Invalidated, IInv, Shape, TypeOK, Reruns, Position, Working
<1> QED
  BY <1>1, <1>5, <1>6

LEMMA FollowSurfaceStep ==
  ASSUME IInv, [Next]_vars
  PROVE  CheckpointsFollowSurface'
<1> USE StagesAre
<1>0. /\ CheckpointsFollowSurface /\ completed \subseteq Stages
      /\ featureFile \in [FeatureTasks -> FeatureCheckpoint \cup {None}]
  BY DEF IInv, Shape, TypeOK
<1>1. CASE RunFeatureTask
  <2>1. /\ Surface \in completed /\ surface = output[Surface].content /\ task \in FeatureTasks
        /\ UNCHANGED <<completed, attempt, output>>
        /\ \E a : featureFile' = [featureFile EXCEPT ![task] =
                     [attempt |-> attempt, prior |-> surface,
                      inputs |-> TaskInputs(task), answer |-> a]]
    BY <1>1, FeatureTaskRun
  <2> QED
    BY <1>0, <2>1 DEF CheckpointsFollowSurface
<1>2. CASE BeginRerun
  BY <1>2, RerunFacts DEF CheckpointsFollowSurface, Current
<1>3. CASE MarkStageCompleted
  <2>1. CASE stage = Surface
    <3>1. \A i \in FeatureTasks : featureFile[i] # None => featureFile[i].attempt # attempt
      <4>1. \A i \in FeatureTasks : featureFile[i] # None =>
              featureFile[i].attempt < attempt /\ featureFile[i].attempt \in Nat
        BY <1>0, <1>3, <2>1, MarkFacts DEF IInv, Checkpoints, FeatureCheckpoint
      <4>2. attempt \in Nat
        BY ConstantsAssumption DEF IInv, Shape, TypeOK
      <4> QED
        BY <4>1, <4>2
    <3> QED
      BY <1>3, <3>1, MarkFacts DEF CheckpointsFollowSurface
  <2>2. CASE stage # Surface
    BY <1>0, <1>3, <2>2, MarkFacts DEF CheckpointsFollowSurface
  <2> QED
    BY <2>1, <2>2
<1>4. CASE ~ (RunFeatureTask \/ BeginRerun \/ MarkStageCompleted)
  BY <1>0, <1>4, OtherSteps, OutputKept DEF CheckpointsFollowSurface
<1> QED
  BY <1>1, <1>2, <1>3, <1>4

LEMMA FeaturesStep ==
  ASSUME IInv, [Next]_vars
  PROVE  FeaturesCurrent'
<1> USE StagesAre
<1>0. FeaturesCurrent /\ CompletedPrefix /\ completed \subseteq Stages
  BY DEF IInv, Shape, TypeOK
<1>1. CASE MarkStageCompleted /\ stage = Features
  <2>1. /\ output[Features] = Whole(merged, surface) /\ Len(merged) = NumModules + 1
        /\ UNCHANGED <<attempt, output, featureFile>> /\ pc = "mark"
    BY <1>1, MarkFacts DEF NumTasks
  <2>2. surface = output[Surface].content
    BY <1>1, <2>1 DEF IInv, Memory, Working
  <2>3. \A i \in 1..Len(merged) :
          /\ Current(i)
          /\ featureFile[i].prior = surface
          /\ featureFile[i].answer = merged[i]
    BY <1>1, <2>1 DEF IInv, Checkpoints, Computing
  <2> QED
    BY <2>1, <2>2, <2>3 DEF FeaturesCurrent, FeatureTasks, Whole, Current
<1>2. CASE Features \in completed /\ Features \in completed'
  <2>1. UNCHANGED <<attempt, featureFile>>
    BY <1>2, FeatureTaskRun, RerunFacts, MarkFacts, OtherSteps
  <2>2. output'[Features] = output[Features] /\ output'[Surface] = output[Surface]
    BY <1>0, <1>2, OutputKept DEF CompletedPrefix
  <2> QED
    BY <1>0, <1>2, <2>1, <2>2 DEF FeaturesCurrent
<1>3. CASE Features \notin completed'
  BY <1>3 DEF FeaturesCurrent
<1> QED
  BY <1>1, <1>2, <1>3, CompletedChanges

LEMMA ApplicationStep ==
  ASSUME IInv, [Next]_vars
  PROVE  ApplicationCurrent'
<1> USE StagesAre
<1>0. /\ ApplicationCurrent /\ CompletedPrefix /\ completed \subseteq Stages
      /\ pc # "idle" => outcome = "none"
  BY DEF IInv, Shape, TypeOK, Position, Working
<1>1. CASE WriteApplication
  <2>1. /\ stage = Features /\ merged = output[Features].content
        /\ surface = output[Surface].content
    BY <1>1 DEF WriteApplication, IInv, Position, Memory, Publishing, Working
  <2>2. application' = Whole(merged, surface) /\ output' = output
    BY <1>1 DEF WriteApplication
  <2> QED
    BY <2>1, <2>2 DEF ApplicationCurrent, Whole
<1>2. ASSUME NEW found, Advance(found), pc # "idle",
             completed' \in {completed, completed \cup {stage}}
      PROVE  ApplicationCurrent'
  <2>1. CASE outcome' = outcome
    BY <1>0, <1>2, <2>1 DEF ApplicationCurrent
  <2>2. CASE stage # Features /\ LastStage
    <3>1. target < Features /\ Features \notin completed
      <4>1. stage \in Stages /\ target \in Stages
        BY <1>2 DEF IInv, Position, Working
      <4>2. target < Features
        BY <2>2, <4>1 DEF LastStage
      <4> QED
        BY <1>2, <4>2 DEF IInv, Position, Working
    <3> QED
      BY <1>2, <2>2, <3>1 DEF ApplicationCurrent
  <2> QED
    BY <1>2, <2>1, <2>2, AdvanceCases
<1>3. ASSUME NEW result \in {"failed", "refused", "unreadable", "incompatible"}, Exit(result)
      PROVE  ApplicationCurrent'
  BY <1>3 DEF Exit, ApplicationCurrent
<1>4. CASE LoadStage
  <2>1. /\ pc # "idle" /\ completed' = completed
        /\ Advance(output[stage].content) \/ Exit("unreadable")
    BY <1>4 DEF LoadStage, manifest
  <2> QED
    BY <1>2, <1>3, <2>1
<1>5. CASE MarkStageCompleted
  BY <1>2, <1>5, MarkFacts
<1>6. CASE \/ \E t \in Flags, r \in Reruns : RefuseResume(t, r)
           \/ RejectFeatureCheckpoint \/ Fail
  BY <1>3, <1>6 DEF RefuseResume, RejectFeatureCheckpoint, Fail
<1>7. CASE \/ \E t \in Stages : StartRun(t)
           \/ \E t \in Flags, r \in Reruns : Resume(t, r)
  BY <1>7 DEF StartRun, Resume, Launch, ApplicationCurrent
<1>8. CASE \/ BeginRerun \/ BeginStage \/ ReuseShard \/ RunShard \/ ReuseFeatureTask
           \/ RunFeatureTask \/ FinishInvestigation \/ TruncateOutput \/ WriteOutput
           \/ TruncateApplication
  <2>1. pc # "idle" /\ outcome' = outcome
    BY <1>8
    DEF BeginRerun, BeginStage, ReuseShard, RunShard, ReuseFeatureTask, RunFeatureTask,
        Investigating, Merge, FinishInvestigation, TruncateOutput, WriteOutput,
        TruncateApplication
  <2> QED
    BY <1>0, <2>1 DEF ApplicationCurrent
<1>9. CASE Upgrade \/ UNCHANGED vars
  <2>1. UNCHANGED <<outcome, completed, application, output>>
    BY <1>9 DEF Upgrade, vars, manifest, files
  <2> QED
    BY <1>0, <2>1 DEF ApplicationCurrent
<1> QED
  BY <1>1, <1>4, <1>5, <1>6, <1>7, <1>8, <1>9 DEF Next, Operator, Work

LEMMA UpgradesKept ==
  ASSUME IInv, [Next]_vars, upgrades' = 0
  PROVE  upgrades = 0 /\ accepted' = accepted
<1>1. CASE Upgrade
  BY <1>1 DEF Upgrade, IInv, Shape, TypeOK
<1>2. CASE ~ Upgrade
  BY <1>2
  DEF Next, Operator, Work, StartRun, Resume, RefuseResume, Launch, BeginRerun, LoadStage,
      BeginStage, ReuseShard, RunShard, ReuseFeatureTask, RejectFeatureCheckpoint,
      RunFeatureTask, FinishInvestigation, TruncateOutput, WriteOutput, MarkStageCompleted,
      TruncateApplication, WriteApplication, Fail, vars, world
<1> QED
  BY <1>1, <1>2

LEMMA FirstVersionStep ==
  ASSUME IInv, [Next]_vars
  PROVE  FirstVersion'
<1> SUFFICES ASSUME upgrades' = 0
             PROVE  /\ accepted' = Answers
                    /\ \A i \in FeatureTasks :
                         Current(i)' =>
                           IF i = 1 THEN featureFile'[i].inputs = <<>>
                           ELSE /\ Current(1)'
                                /\ featureFile'[i].inputs = <<featureFile'[1].answer>>
  BY DEF FirstVersion
<1>0. /\ accepted = Answers /\ accepted' = accepted
      /\ \A i \in FeatureTasks :
           Current(i) =>
             IF i = 1 THEN featureFile[i].inputs = <<>>
             ELSE Current(1) /\ featureFile[i].inputs = <<featureFile[1].answer>>
  BY UpgradesKept DEF IInv, FirstVersion
<1>1. CASE RunFeatureTask
  <2>1. PICK a \in accepted :
          /\ merged' = Append(merged, a)
          /\ featureFile' = [featureFile EXCEPT ![task] =
               [attempt |-> attempt, prior |-> surface,
                inputs |-> TaskInputs(task), answer |-> a]]
    BY <1>1, FeatureTaskRun
  <2>2. /\ stage = Features /\ pc = "investigate" /\ task \in FeatureTasks
        /\ attempt' = attempt
        /\ featureFile \in [FeatureTasks -> FeatureCheckpoint \cup {None}]
        /\ merged \in Seq(Answers)
    BY <1>1, FeatureTaskRun DEF IInv, Shape, TypeOK
  <2>3. /\ featureFile'[task].inputs = TaskInputs(task)
        /\ \A i \in FeatureTasks \ {task} :
             featureFile'[i] = featureFile[i] /\ Current(i)' = Current(i)
    BY <2>1, <2>2 DEF Current
  <2>4. CASE task = 1
    <3>1. \A i \in FeatureTasks \ {1} : ~ Current(i)
      <4>1. CASE ~ resumed
        <5>1. MergedTasks = 0
          BY <2>2, <2>4 DEF MergedTasks, task
        <5>2. \A i \in FeatureTasks : featureFile[i] = None
          <6>1. \A i \in FeatureTasks : i > 0
            BY ConstantsAssumption DEF FeatureTasks
          <6> QED
            BY <2>2, <4>1, <5>1, <6>1 DEF IInv, Checkpoints, Working, Publishing
        <5> QED
          BY <5>2 DEF Current
      <4>2. CASE resumed
        <5>1. ~ ThisAttempt(1)
          <6>1. ThisAttempt(1) => featureFile[1].answer \notin accepted
            BY <1>1, <2>4 DEF RunFeatureTask
          <6>2. ThisAttempt(1) => featureFile[1].answer \in Answers
            BY <2>2, <2>4 DEF ThisAttempt, FeatureCheckpoint
          <6> QED
            BY <1>0, <6>1, <6>2
        <5>2. ~ Current(1)
          BY <4>2, <5>1 DEF ThisAttempt, Current
        <5> QED
          BY <1>0, <5>2
      <4> QED
        BY <4>1, <4>2
    <3> QED
      BY <1>0, <2>3, <2>4, <3>1 DEF TaskInputs
  <2>5. CASE task # 1
    <3>1. /\ Len(merged) >= 1 /\ 1 \in FeatureTasks /\ TaskInputs(task) = <<merged[1]>>
      BY <2>2, <2>5, ConstantsAssumption DEF task, FeatureTasks, TaskInputs
    <3>2. Current(1) /\ featureFile[1].answer = merged[1]
      <4>1. 1 \in 1..Len(merged)
        BY <2>2, <3>1
      <4> QED
        BY <2>2, <4>1 DEF IInv, Checkpoints, Computing
    <3> QED
      BY <1>0, <2>3, <2>5, <3>1, <3>2
  <2> QED
    BY <2>4, <2>5
<1>2. CASE BeginRerun
  BY <1>0, <1>2, RerunFacts
<1>3. CASE ~ (RunFeatureTask \/ BeginRerun)
  <2>1. UNCHANGED <<attempt, featureFile>>
    BY <1>3, OtherSteps, MarkFacts
  <2> QED
    BY <1>0, <2>1 DEF Current
<1> QED
  BY <1>1, <1>2, <1>3

LEMMA NeverStuckStep ==
  ASSUME IInv, [Next]_vars
  PROVE  NeverStuck'
<1> SUFFICES ASSUME upgrades' = 0
             PROVE  outcome' \notin {"incompatible", "unreadable"}
  BY DEF NeverStuck
<1> USE StagesAre
<1>0. /\ outcome \notin {"incompatible", "unreadable"}
      /\ upgrades = 0 /\ accepted = Answers
  BY UpgradesKept DEF IInv, FirstVersion, NeverStuck
<1>1. ~ RejectFeatureCheckpoint
  <2> SUFFICES ASSUME RejectFeatureCheckpoint PROVE FALSE
    OBVIOUS
  <2>1. /\ stage = Features /\ pc = "investigate" /\ task <= NumTasks(Features)
        /\ Current(task) /\ ~ Compatible(task)
    BY DEF RejectFeatureCheckpoint, Investigating, ThisAttempt, Current
  <2>2. task \in FeatureTasks /\ task = Len(merged) + 1 /\ Len(merged) \in Nat
    <3>1. task \in Nat \ {0} /\ Len(merged) \in Nat
      BY TaskInputsType DEF IInv, Shape, TypeOK
    <3> QED
      BY <2>1, <3>1, ConstantsAssumption DEF NumTasks, FeatureTasks, task
  <2>3. featureFile[task].prior = surface
    <3>1. Surface \in completed /\ surface = output[Surface].content
      BY <2>1 DEF IInv, Position, Memory, Working
    <3> QED
      BY <2>1, <2>2, <3>1 DEF IInv, CheckpointsFollowSurface, Current
  <2>4. featureFile[task].inputs = TaskInputs(task)
    <3>1. CASE task = 1
      BY <1>0, <2>1, <2>2, <3>1 DEF IInv, FirstVersion, TaskInputs
    <3>2. CASE task # 1
      <4>1. 1 \in 1..Len(merged)
        BY <2>2, <3>2
      <4>2. featureFile[1].answer = merged[1]
        BY <2>1, <4>1 DEF IInv, Checkpoints, Computing
      <4> QED
        BY <1>0, <2>1, <2>2, <3>2, <4>2 DEF IInv, FirstVersion, TaskInputs
    <3> QED
      BY <3>1, <3>2
  <2> QED
    BY <2>1, <2>3, <2>4 DEF Compatible
<1>2. CASE LoadStage
  <2>1. stage \in Stages /\ stage \in completed /\ outcome = "none"
    BY <1>2 DEF LoadStage, Reusable, IInv, Position, Working
  <2>2. output[stage].state = "whole"
    BY <2>1 DEF IInv, CompletedReadable
  <2>3. Valid(output[stage].content)
    <3>1. output[stage].content \in Seq(Answers)
      BY <2>1 DEF IInv, Shape, TypeOK, StageOutput
    <3> QED
      BY <1>0, <3>1 DEF Valid
  <2>4. Advance(output[stage].content)
    BY <1>2, <2>2, <2>3 DEF LoadStage
  <2> QED
    BY <2>1, <2>4, AdvanceCases
<1>3. CASE MarkStageCompleted
  BY <1>0, <1>3, MarkFacts, AdvanceCases
<1>4. CASE ~ (LoadStage \/ MarkStageCompleted)
  BY <1>0, <1>1, <1>4
  DEF Next, Operator, Work, StartRun, Resume, RefuseResume, Launch, Exit, BeginRerun, BeginStage,
      ReuseShard, RunShard, ReuseFeatureTask, RunFeatureTask, Merge, FinishInvestigation,
      TruncateOutput, WriteOutput, TruncateApplication, WriteApplication, Fail, Upgrade, vars
<1> QED
  BY <1>2, <1>3, <1>4

-----------------------------------------------------------------------------
LEMMA InitInv == Init => IInv
<1> SUFFICES ASSUME Init PROVE IInv
  OBVIOUS
<1> USE StagesAre
<1>1. Missing \in StageOutput /\ Missing.content = <<>>
  BY DEF Missing, StageOutput
<1>2. \A s \in Stages : Len(output[s].content) <= NumTasks(s)
  BY <1>1, NumTasksType DEF Init
<1>3. Shape
  <2>1. FilesTyped
    BY <1>1, <1>2 DEF Init, FilesTyped
  <2>2. MemoryTyped
    BY DEF Init, MemoryTyped
  <2>3. ManifestTyped
    BY ConstantsAssumption DEF Init, ManifestTyped, Working
  <2>4. ProcessTyped
    BY DEF Init, ProcessTyped, Labels, Flags, Reruns
  <2>5. WorldTyped
    BY ConstantsAssumption DEF Init, WorldTyped
  <2> QED
    BY <2>1, <2>2, <2>3, <2>4, <2>5
    DEF FilesTyped, MemoryTyped, ManifestTyped, ProcessTyped, WorldTyped, Shape, TypeOK
<1>4. Position
  BY DEF Init, Position, Working, Computing, Publishing
<1>5. Memory
  BY DEF Init, Memory, Working, Publishing
<1>6. Checkpoints /\ FirstVersion
  BY DEF Init, Checkpoints, FirstVersion, Current, Working, Computing
<1>7. /\ CompletedPrefix /\ CompletedReadable /\ CheckpointsFollowSurface
      /\ FeaturesCurrent /\ ApplicationCurrent /\ NeverStuck
  BY DEF Init, CompletedPrefix, CompletedReadable, CheckpointsFollowSurface, FeaturesCurrent,
         ApplicationCurrent, NeverStuck
<1> QED
  BY <1>3, <1>4, <1>5, <1>6, <1>7 DEF IInv

LEMMA Invariance == Spec => []IInv
<1>1. IInv /\ [Next]_vars => IInv'
  BY ShapeStep, PositionStep, MemoryStep, CheckpointsStep, FirstVersionStep, CompletedStep,
     FollowSurfaceStep, FeaturesStep, ApplicationStep, NeverStuckStep
  DEF IInv
<1> QED
  BY InitInv, <1>1, PTL DEF Spec

(* Every variable of a run directory and of the process at work keeps its  *)
(* shape: in particular no stage merges more answers than it has tasks,    *)
(* and a process begins at most one rerun.                                 *)
THEOREM TypeCorrect == Spec => []TypeOK
<1>1. IInv => TypeOK
  BY DEF IInv, Shape
<1> QED
  BY Invariance, <1>1, PTL

(* No sequence of failures, resumes and reruns leaves the manifest with a  *)
(* complete stage and an earlier one that is not: BeginSurfaceRerun drops  *)
(* the dependent stage, and a stage is only entered after the one before.  *)
THEOREM CompletedIsPrefix == Spec => []CompletedPrefix
<1>1. IInv => CompletedPrefix
  BY DEF IInv
<1> QED
  BY Invariance, <1>1, PTL

(* At any point a crash could hit, the output of every stage recorded      *)
(* complete is whole on disk.                                              *)
THEOREM CompletedIsReadable == Spec => []CompletedReadable
<1>1. IInv => CompletedReadable
  BY DEF IInv
<1> QED
  BY Invariance, <1>1, PTL

(* Completed Feature findings are exactly the answers of the current       *)
(* attempt's checkpoints, all made from the Surface findings on disk.      *)
THEOREM FeaturesAreCurrent == Spec => []FeaturesCurrent
<1>1. IInv => FeaturesCurrent
  BY DEF IInv
<1> QED
  BY Invariance, <1>1, PTL

(* A Feature checkpoint of the current attempt was made from the Surface   *)
(* findings on disk, so features/checkpoint.go never refuses it for them.  *)
THEOREM CheckpointsFollow == Spec => []CheckpointsFollowSurface
<1>1. IInv => CheckpointsFollowSurface
  BY DEF IInv
<1> QED
  BY Invariance, <1>1, PTL

(* While the program is not upgraded, no resume is refused for a           *)
(* checkpoint or a completed output, whatever happened before.             *)
THEOREM ResumesAreNotStuck == Spec => []NeverStuck
<1>1. IInv => NeverStuck
  BY DEF IInv
<1> QED
  BY Invariance, <1>1, PTL

(* A successful command on a run with complete Features leaves the         *)
(* application model of exactly those findings.                            *)
THEOREM ApplicationIsCurrent == Spec => []ApplicationCurrent
<1>1. IInv => ApplicationCurrent
  BY DEF IInv
<1> QED
  BY Invariance, <1>1, PTL

(* The output of a stage is not written while the stage stays recorded     *)
(* complete.                                                               *)
THEOREM CompletedOutputIsStable == Spec => CompletedOutputStable
<1>1. IInv /\ [Next]_vars =>
        [\A s \in completed \cap completed' : output'[s] = output[s]]_vars
  BY OutputKept
<1> QED
  BY Invariance, <1>1, PTL DEF Spec, CompletedOutputStable
=============================================================================
