---------------------------- MODULE SurfaceShards ---------------------------
(***************************************************************************)
(* The Surface coordinator: the categories in their order, the tasks each  *)
(* is divided into, the depth-first splitting of a task whose answer is    *)
(* too large, and the shard states (run.json) and checkpoint files that    *)
(* carry the work over from one process to the next.                       *)
(*                                                                         *)
(* The candidates of a process are one sequence, `listing': the web routes *)
(* its scan of the working tree found, then the API entities in the order  *)
(* they are dealt to their groups.  A task stands for an interval of it,   *)
(* empty for a category without candidates.  An answer is a member of      *)
(* Answers; Accepted says which answers pass the validation of a task      *)
(* after a given set of earlier answers (references to interfaces found    *)
(* before, conflicts with them).                                           *)
(***************************************************************************)
EXTENDS Integers, Sequences, FiniteSets, Functions

CONSTANTS
  Web, API, CLI, Background, Integrations,   (* the categories             *)
  Worktrees,          (* web route listings the working tree may hold      *)
  Targets,            (* the entities, one API candidate each              *)
  Applicable,         (* categories Architecture's findings call for       *)
  Answers,
  Accepted,           (* [SUBSET Answers -> SUBSET Answers]                *)
  BackgroundAnswers,  (* CLI answers that show a worker, queue or cron job *)
  WebRoutesPerGroup,  (* 18 in the code                                    *)
  MaxShardDepth,      (* 4 in the code                                     *)
  MaxFailures,        (* bound: failed processes                           *)
  MaxEdits            (* bound: changes of the working tree                *)

categoryOrder == <<Web, API, CLI, Background, Integrations>>
Categories    == Range(categoryOrder)

(* The scan keeps one route of each identity, and the entities an accepted *)
(* Entities answer declares have different identifiers.  A route is named  *)
(* by a JSON object, an entity by a label that begins with its identifier, *)
(* hence with a letter: no route and entity are the same candidate.        *)
Distinct(s) == \A i, j \in DOMAIN s : s[i] = s[j] => i = j

ASSUME SurfaceAssumption ==
  /\ Distinct(categoryOrder) /\ Applicable \subseteq Categories
  /\ Worktrees # {} /\ \A w \in Worktrees : w \in Seq(Range(w)) /\ Distinct(w)
  /\ Targets \in Seq(Range(Targets)) /\ Distinct(Targets)
  /\ \A w \in Worktrees : Range(w) \cap Range(Targets) = {}
  /\ Accepted \in [SUBSET Answers -> SUBSET Answers]
  /\ BackgroundAnswers \subseteq Answers
  /\ WebRoutesPerGroup \in Nat \ {0} /\ MaxShardDepth \in Nat
  /\ MaxFailures \in Nat /\ MaxEdits \in Nat

VARIABLES
  (* the working tree, and the run directory *)
  worktree,      (* the web routes registered in it now                    *)
  states,        (* run.json: Surface[task ID]                             *)
  checkpoints,   (* work/surface/: checkpoint[task ID]                     *)
  (* the process at work *)
  pc,
  resume,        (* is this a process of discover --resume?                *)
  turn,          (* position in categoryOrder                              *)
  routes,        (* the web routes this process found                      *)
  pending,       (* tasks of the category still to be done, next one first *)
  leaves,        (* outputs: the tasks done, with their answers            *)
  (* history and bounds *)
  started, failures, edits

disk    == <<states, checkpoints>>
process == <<pc, resume, turn, routes, pending, leaves>>
vars    == <<worktree, disk, process, started, failures, edits>>

Put(f, k, v) == [x \in DOMAIN f \cup {k} |-> IF x = k THEN v ELSE f[x]]

-----------------------------------------------------------------------------
(* Candidates and tasks. *)

(* apiEntityTargets are dealt round-robin to at most three groups. *)
ApiGroupSize(g) == (Len(Targets) + 3 - g) \div 3
ApiGroup(g)     == [k \in 1..ApiGroupSize(g) |-> Targets[g + 3 * (k - 1)]]
ApiCandidates   == IF API \in Applicable
                   THEN ApiGroup(1) \o ApiGroup(2) \o ApiGroup(3) ELSE <<>>

listing == routes \o ApiCandidates

(* The last position of the listing that the categories up to c take up. *)
End(c) == IF c = Web THEN Len(routes) ELSE Len(listing)

Task(id, c, lo, hi, shared, depth) ==
  [id |-> id, category |-> c, lo |-> lo, hi |-> hi, shared |-> shared, depth |-> depth]

candidates(t) == SubSeq(listing, t.lo, t.hi)
Size(t)       == t.hi - t.lo + 1

Least(a, b) == IF a < b THEN a ELSE b

webTaskSpecs ==
  [g \in 1..((Len(routes) + WebRoutesPerGroup - 1) \div WebRoutesPerGroup) |->
     Task(<<Web, g>>, Web, (g - 1) * WebRoutesPerGroup + 1,
          Least(g * WebRoutesPerGroup, Len(routes)), FALSE, 0)]

ApiStart(g) == Len(routes) + (IF g > 1 THEN ApiGroupSize(1) ELSE 0)
                           + (IF g > 2 THEN ApiGroupSize(2) ELSE 0)

apiTaskSpecs ==
  [g \in 1..Least(3, Len(Targets)) |->
     Task(<<API, g>>, API, ApiStart(g) + 1, ApiStart(g) + ApiGroupSize(g), g = 1, 0)]

(* The tasks of a category; one without candidates has a single task, and  *)
(* that of the API includes the shared transport.                          *)
categoryTaskSpecs(c) ==
  IF c = Web /\ routes # <<>> THEN webTaskSpecs
  ELSE IF c = API /\ Targets # <<>> THEN apiTaskSpecs
  ELSE << Task(<<c>>, c, End(c) + 1, End(c), c = API, 0) >>

(* The two halves of a task; the shared transport stays on the left. *)
Middle(t) == t.lo + (Size(t) + 1) \div 2 - 1

splitCategoryTaskSpec_Overlap(t) ==                       (* mutant *)
  << Task(Append(t.id, 1), t.category, t.lo, Middle(t), t.shared, t.depth + 1),
     Task(Append(t.id, 2), t.category, Middle(t), t.hi, FALSE, t.depth + 1) >>
splitCategoryTaskSpec(t) ==
  << Task(Append(t.id, 1), t.category, t.lo, Middle(t), t.shared, t.depth + 1),
     Task(Append(t.id, 2), t.category, Middle(t) + 1, t.hi, FALSE, t.depth + 1) >>

current == Head(pending)
id      == current.id

(* SetSurfaceShard keeps the candidates sorted: their order is lost. *)
State(status, t) == [status |-> status, candidates |-> Range(candidates(t))]
HasState(status) == id \in DOMAIN states /\ states[id].status = status

Accepts(answer) == answer \in Accepted[{leaves[i].answer : i \in DOMAIN leaves}]

Leaf(answer, askedFor) == [task |-> current, answer |-> answer, askedFor |-> askedFor]

-----------------------------------------------------------------------------
Init ==
  /\ worktree \in Worktrees
  /\ states = << >> /\ checkpoints = << >>
  /\ pc = "idle" /\ resume = FALSE /\ turn = 0
  /\ routes = <<>> /\ pending = <<>> /\ leaves = <<>>
  /\ started = FALSE /\ failures = 0 /\ edits = 0

(* A process: the first one of the run, then discover --resume, with or    *)
(* without --rerun surface (which keeps the shard states and checkpoints). *)
(* It scans the working tree before it does anything else.                 *)
Launch ==
  /\ pc \in {"idle", "done"}
  /\ pc' = "work" /\ resume' = started /\ started' = TRUE
  /\ routes' = IF Web \in Applicable THEN worktree ELSE <<>>
  /\ turn' = 0 /\ pending' = <<>> /\ leaves' = <<>>
  /\ UNCHANGED <<worktree, disk, failures, edits>>

(* The process ends without findings. *)
Stop ==
  /\ pc' = "idle" /\ resume' = FALSE /\ turn' = 0
  /\ routes' = <<>> /\ pending' = <<>> /\ leaves' = <<>>

(* The next category, when the tasks of the last one are done.  Background *)
(* is also due when the CLI findings merged so far show background work.   *)
BackgroundSupported ==
  \E i \in DOMAIN leaves :
    leaves[i].task.category = CLI /\ leaves[i].answer \in BackgroundAnswers

Due(c) == c \in Applicable \/ (c = Background /\ BackgroundSupported)

BeginCategory ==
  /\ pc = "work" /\ pending = <<>> /\ turn < Len(categoryOrder)
  /\ turn' = turn + 1
  /\ LET c == categoryOrder[turn + 1]
     IN  pending' = IF Due(c) THEN categoryTaskSpecs(c) ELSE <<>>
  /\ UNCHANGED <<worktree, disk, pc, resume, routes, leaves, started, failures, edits>>

Finish ==
  /\ pc = "work" /\ pending = <<>> /\ turn = Len(categoryOrder)
  /\ pc' = "done"
  /\ UNCHANGED <<worktree, disk, resume, turn, routes, pending, leaves, started,
                 failures, edits>>

-----------------------------------------------------------------------------
(* executeCategoryShard, up to the execution of the task. *)
AtTask == pc = "work" /\ pending # <<>>

SplitBefore_Forgotten == FALSE                            (* mutant *)
SplitBefore == resume /\ HasState("split")

FollowSplit ==
  /\ AtTask /\ SplitBefore
  /\ states[id].candidates = Range(candidates(current))
  /\ pending' = splitCategoryTaskSpec(current) \o Tail(pending)
  /\ UNCHANGED <<worktree, disk, pc, resume, turn, routes, leaves, started, failures,
                 edits>>

RejectSplit_Running ==                                    (* mutant *)
  /\ AtTask /\ HasState("running")
  /\ Stop
  /\ UNCHANGED <<worktree, disk, started, failures, edits>>
RejectSplit ==
  /\ AtTask /\ SplitBefore
  /\ states[id].candidates # Range(candidates(current))
  /\ Stop
  /\ UNCHANGED <<worktree, disk, started, failures, edits>>

HasCheckpoint == resume /\ id \in DOMAIN checkpoints

SameCandidates_Length ==                                  (* mutant *)
  Len(checkpoints[id].candidates) = Len(candidates(current))
SameCandidates == checkpoints[id].candidates = candidates(current)

RejectCheckpoint ==
  /\ AtTask /\ ~ SplitBefore /\ HasCheckpoint /\ ~ SameCandidates
  /\ Stop
  /\ UNCHANGED <<worktree, disk, started, failures, edits>>

ReuseCheckpoint ==
  /\ AtTask /\ ~ SplitBefore /\ HasCheckpoint /\ SameCandidates
  /\ Accepts(checkpoints[id].answer)
  /\ leaves' = Append(leaves, Leaf(checkpoints[id].answer, checkpoints[id].candidates))
  /\ pending' = Tail(pending)
  /\ UNCHANGED <<worktree, disk, pc, resume, turn, routes, started, failures, edits>>

(* A checkpoint whose answer does not fit the findings merged by this      *)
(* process is not used; the task is marked failed, then executed.          *)
DropCheckpoint ==
  /\ AtTask /\ ~ SplitBefore /\ HasCheckpoint /\ SameCandidates
  /\ ~ Accepts(checkpoints[id].answer)
  /\ states' = Put(states, id, State("failed", current))
  /\ pc' = "execute"
  /\ UNCHANGED <<worktree, checkpoints, resume, turn, routes, pending, leaves, started,
                 failures, edits>>

BeginTask ==
  /\ \/ AtTask /\ ~ SplitBefore /\ ~ HasCheckpoint
     \/ pc = "execute"
  /\ states' = Put(states, id, State("running", current))
  /\ pc' = "asking"
  /\ UNCHANGED <<worktree, checkpoints, resume, turn, routes, pending, leaves, started,
                 failures, edits>>

-----------------------------------------------------------------------------
(* The execution of the task: an accepted answer, of which the checkpoint  *)
(* file is written before the manifest; an answer too large for one task;  *)
(* or an error.                                                            *)
SaveCheckpoint_StateFirst ==                              (* mutant *)
  /\ pc = "asking"
  /\ \E a \in Answers : Accepts(a)
  /\ states' = Put(states, id, State("completed", current))
  /\ pc' = "answered"
  /\ UNCHANGED <<worktree, checkpoints, resume, turn, routes, pending, leaves, started,
                 failures, edits>>
SaveCheckpoint ==
  /\ pc = "asking"
  /\ \E a \in Answers :
       /\ Accepts(a)
       /\ checkpoints' = Put(checkpoints, id, [candidates |-> candidates(current),
                                               answer     |-> a])
  /\ pc' = "answered"
  /\ UNCHANGED <<worktree, states, resume, turn, routes, pending, leaves, started,
                 failures, edits>>

CompleteTask ==
  /\ pc = "answered"
  /\ states' = Put(states, id, State("completed", current))
  /\ leaves' = Append(leaves, Leaf(checkpoints[id].answer, candidates(current)))
  /\ pending' = Tail(pending)
  /\ pc' = "work"
  /\ UNCHANGED <<worktree, checkpoints, resume, turn, routes, started, failures, edits>>

Splittable == Size(current) > 1 /\ current.depth < MaxShardDepth

SplitTask ==
  /\ pc = "asking" /\ Splittable
  /\ states' = Put(states, id, State("split", current))
  /\ pending' = splitCategoryTaskSpec(current) \o Tail(pending)
  /\ pc' = "work"
  /\ UNCHANGED <<worktree, checkpoints, resume, turn, routes, leaves, started, failures,
                 edits>>

(* Too large and not splittable, or any other error of the execution. *)
FailTask ==
  /\ pc = "asking" /\ failures < MaxFailures
  /\ failures' = failures + 1
  /\ states' = Put(states, id, State("failed", current))
  /\ Stop
  /\ UNCHANGED <<worktree, checkpoints, started, edits>>

-----------------------------------------------------------------------------
(* The process dies, or a write or the final validation returns an error. *)
Crash ==
  /\ pc \notin {"idle", "done"} /\ failures < MaxFailures
  /\ failures' = failures + 1
  /\ Stop
  /\ UNCHANGED <<worktree, disk, started, edits>>

EditWorktree ==
  /\ edits < MaxEdits /\ edits' = edits + 1
  /\ worktree' \in Worktrees \ {worktree}
  /\ UNCHANGED <<disk, process, started, failures>>

Work ==
  \/ BeginCategory \/ Finish
  \/ FollowSplit \/ RejectSplit
  \/ RejectCheckpoint \/ ReuseCheckpoint \/ DropCheckpoint
  \/ BeginTask \/ SaveCheckpoint \/ CompleteTask \/ SplitTask

Next == Launch \/ Work \/ FailTask \/ Crash \/ EditWorktree

Spec == Init /\ [][Next]_vars

(* The coordinator runs its tasks one after another and every request it   *)
(* makes has a timeout; the operator resumes a run that has not finished.  *)
FairSpec ==
  Spec /\ WF_vars(Work) /\ WF_vars(pc = "idle" /\ Launch)

-----------------------------------------------------------------------------
TaskRecords ==
  [id : Seq(Categories \cup Nat), category : Categories, lo : Nat, hi : Nat,
   shared : BOOLEAN, depth : 0..MaxShardDepth]

Candidates == (UNION {Range(w) : w \in Worktrees}) \cup Range(Targets)

(* Every variable keeps its shape; no task is split below the maximum      *)
(* shard depth.                                                            *)
TypeOK ==
  /\ worktree \in Worktrees
  /\ \A i \in DOMAIN states :
       states[i] \in [status : {"running", "failed", "split", "completed"},
                      candidates : SUBSET Candidates]
  /\ \A i \in DOMAIN checkpoints :
       checkpoints[i] \in [candidates : Seq(Candidates), answer : Answers]
  /\ pc \in {"idle", "work", "execute", "asking", "answered", "done"}
  /\ resume \in BOOLEAN /\ started \in BOOLEAN
  /\ turn \in 0..Len(categoryOrder)
  /\ routes \in Seq(Candidates)
  /\ pending \in Seq(TaskRecords)
  /\ leaves \in Seq([task : TaskRecords, answer : Answers, askedFor : Seq(Candidates)])
  /\ failures \in 0..MaxFailures /\ edits \in 0..MaxEdits

Tasks == [i \in DOMAIN leaves |-> leaves[i].task] \o pending

(* The tasks done and the tasks to do lie end to end over the listing:     *)
(* splitting, following an old split and taking tasks over from an earlier *)
(* process never leaves a candidate out and never lists it twice.          *)
ExactCover ==
  LET n == Len(Tasks)
  IN  /\ n > 0 => Tasks[1].lo = 1
      /\ \A i \in 1..(n - 1) : Tasks[i + 1].lo = Tasks[i].hi + 1
      /\ n > 0 => Tasks[n].hi = End(categoryOrder[turn])
      /\ \A i \in 1..n : Tasks[i].hi + 1 >= Tasks[i].lo

(* Every merged answer was given for the candidates this process has: a    *)
(* checkpoint made from another working tree contributes nothing.          *)
LeavesCurrent ==
  \A i \in DOMAIN leaves : leaves[i].askedFor = candidates(leaves[i].task)

(* A task the manifest calls completed has its checkpoint on disk, for the *)
(* same candidates, whenever a crash hits.                                 *)
CompletedHasCheckpoint ==
  \A i \in DOMAIN states :
    states[i].status = "completed" =>
      /\ i \in DOMAIN checkpoints
      /\ Range(checkpoints[i].candidates) = states[i].candidates

(* The manifest and the checkpoints keep their shape and agree.            *)
StatesSound == TypeOK /\ CompletedHasCheckpoint

(* While the working tree stays as it is, nothing a checkpoint answers is  *)
(* asked again: not the task itself, and not a task above or below it.     *)
NothingAskedTwice ==
  edits = 0 /\ pc = "asking" =>
    \A i \in DOMAIN checkpoints :
      /\ i # id
      /\ Range(checkpoints[i].candidates) \cap Range(candidates(current)) = {}

(* The coordinator implements CandidateCover: no candidate is merged       *)
(* twice, and the findings it returns leave none out.                      *)
Listed(t)   == {<<t.category, x>> : x \in Range(candidates(t))}
Wanted      == {<<Web, x>> : x \in Range(routes)}
                 \cup {<<API, x>> : x \in Range(ApiCandidates)}
Mentions(c) == Cardinality({i \in DOMAIN leaves : c \in Listed(leaves[i].task)})

Cover == INSTANCE CandidateCover WITH
  Candidate <- {Web, API} \X Candidates,
  phase     <- CASE pc = "idle" -> "none" [] pc = "done" -> "closed" [] OTHER -> "open",
  claims    <- IF pc = "idle" THEN << >> ELSE [c \in Wanted |-> Mentions(c)]

CoversCandidates == Cover!CoverSpec

(* With a working tree that stays as it is and finitely many failures, the *)
(* resumed run gets through every category: no crash leaves a shard state  *)
(* or a checkpoint behind that stops each later process.                   *)
ResumesFinish == <>(pc = "done")
=============================================================================
