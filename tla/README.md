# A TLA+ model of noescope

noescope inspects the source of a web application with a language model
(`noescope discover`), verifies what it found in a browser, and derives tests
from it. These modules describe the parts of the program whose correctness
depends on what happens over time: processes that crash and are resumed, tasks
that are split, retried and checkpointed, conversations with a model that must
stay well formed, and files that are written piece by piece. TLC checks the
properties on small instances; TLAPS proves the most important of them for
every value of the constants. `PROJECT.json` lists the runs, the source lines
behind each definition, the hazards and the findings.

## 1. The system

| part | state it keeps | operations | talks to |
|---|---|---|---|
| command line (`cmd/noescope`) | none | discover, resume, rerun, verify-runtime, test, export | run manifest, discovery pipeline |
| run manifest (`run`) | `run.json`: target, completed stages, feature attempt, Surface shard states | start, open, save (temporary file and rename), mark complete, begin a rerun | read and written by the pipeline and the Surface coordinator |
| discovery pipeline (`discovery`) | `output/<stage>.json`, `application.json`, `application.md` | six stages in order; fresh run; resume; reading a completed stage back | runs the investigations, marks the manifest |
| investigations (`investigations/*`) | answers in memory; checkpoint files of Surface shards and Feature tasks | divide into tasks, split, validate, merge, checkpoint | investigation runner, manifest |
| investigation runner (`investigation`) | one conversation; turn, tool-call and repair counters | investigation turns, tool calls, finalization, repair, fallback, compaction | provider client, tools, evidence store |
| evidence store (`evidence`) | `evidence.jsonl` and its records in memory | append drafts, reopen | runner; every result cites its records |
| provider client, repository tools (`llm`, `repository`, `tools`) | none | HTTP requests; read-only file access | runner |
| runtime verification (`runtimeverify`) | observations, visited URLs, counters | reach, log in, visit each interface within limits | browser |
| browser driver (`runtimeverify/browser`) | a Chrome tab | navigate, submit, activate | target application |
| core tests (`coretests`) | values, owned objects and their cleanup status | plan and execute the owned-object lifecycle, read-only tests | browser, target application |
| portable tests (`portabletests`) | bundle with its history; one run at a time in the test server | run a bundle's tests, clean up, reports, test server | browser, target application |
| reports, bundles, configuration (`report`, `testbundle`, `config`, `model`, `id`) | none | rendering, export, defaults | files |

What is hard here, and what makes each part correct:

* *A run directory outlives its processes.* Several files change one after
  another, and each point between two writes is a state that the next process
  has to cope with. Correct: what the manifest calls complete is complete,
  readable, made from current inputs, and is never a dead end.
* *Reruns invalidate.* Rerunning Surface changes the input of Features. Correct:
  no Feature answer made from the old Surface survives, in an output or in a
  checkpoint that a later process would trust.
* *Surface tasks are split while the run goes on,* the split is remembered by
  later processes, and the candidates are scanned anew by each process. Correct:
  each candidate goes into exactly one task's findings and no finished work is
  repeated or taken over for other candidates.
* *A conversation is a protocol.* Correct: each tool call is answered before the
  next request, the two repair budgets do not leak into each other, and the
  number of requests is bounded whatever the provider answers.
* *Appends can be cut.* Correct: evidence cited by a saved result is known to
  each later process, and no cut line makes the run useless.
* *Answers of many tasks become one model.* Each is validated when it arrives, and
  the whole again at the end. Correct: merging loses nothing and does not depend
  on the order, and what passed in parts passes as a whole, since the parts
  are kept and a rejected whole is rejected at every resume.
* *A conversation outgrows its window.* Correct: what is sent is a valid
  sequence, within the budget, and keeps what the next turn needs.
* *A target application is observed through a browser.* Pages redirect, deny and
  fail, and evidence may fail to be written. Correct: what is called verified was
  seen with the access it claims, and what was not seen is said to be so.
* *Tests are made of observations* and executed later, against a target that may
  have changed. Correct: a test passes while nothing changed, and fails when what
  it is about did.
* *Tests change a target application* that the program does not control.
  Correct: what a test created is deleted on every path, only what it created
  is deleted, and what is left is reported.
* *Packs and reports join results of several processes,* which may be killed or
  overlap. Correct: nothing verified is forgotten, nothing that failed is shown as
  passed, and the status, the report and the exit code say the same.

## 2. Modules

| module | models | kind |
|---|---|---|
| `DiscoveryRun` | `cmd/noescope/main.go` (discover), `run`, `discovery`, and the task loop and checkpoints of `features` | component |
| `DiscoveryRunProofs` | theorems about it | proofs |
| `SurfaceShards` | `investigations/surface`: tasks, splitting, shard states, checkpoints | component |
| `SurfaceShardsProofs` | theorems about it | proofs |
| `CandidateCover` | what Surface promises about its candidates | abstract specification |
| `InvestigationRunner` | `investigation/runner.go` | component |
| `InvestigationRunnerProofs` | theorems about it and about what its instance sends | proofs |
| `EvidenceStore` | `evidence/store.go` | component |
| `EvidenceStoreProofs` | theorems about it and about `CorePacks` | proofs |
| `ContextCompaction` | `investigation/context.go` | component |
| `ContextCompactionProofs` | theorems about it | proofs |
| `SurfaceFindings` | `investigations/surface`: validation and merge of findings | operators |
| `SurfaceMerge` | the stage that validates, keeps and merges them | component |
| `FeatureTree` | `investigations/features`: nodes, answers, expansion context, coverage | operators |
| `FeatureExpansion` | the stage that discovers modules and expands each | component |
| `StageContext` | `discovery/context.go`: what a stage is told of the earlier ones | component |
| `InterfaceRules` | `runtimeverify`: safety of an interface, status of a page | operators |
| `RuntimeVerifier` | `runtimeverify` | component |
| `RuntimeVerifierProofs` | theorems about it and about `SecondFactor` | proofs |
| `SecondFactor` | `authn/totp.go` | component |
| `CoreSelection` | `coretests/selection.go`, `grounding.go`, `executor.go` | component |
| `LifecyclePlan` | `coretests/workflow_plan.go` | component |
| `OwnedTest` | what a test that changes data promises | abstract specification |
| `OwnedLifecycle` | `coretests/workflow_executor.go`, `coretests/state.go` | component |
| `OwnedLifecycleProofs` | theorems about it, `PortableMutation` and `PortableReport` | proofs |
| `CorePacks` | `coretests/artifacts.go`, `source.go`, `testbundle/export.go` | component |
| `PortableMutation` | `portabletests/mutation.go` | component |
| `PortableServer` | `portabletests/server.go`, `executor.go`, `load.go`, `write.go` | component |
| `PortableServerProofs` | theorems about it | proofs |
| `PortableReport` | `portabletests/report.go`, `cli.go`; results of an export | component |
| `MCDiscoveryRun`, `MCSurfaceShards` | constants of the instances | model checking |
| `MCInvestigation` | the runner and the compaction | model checking |
| `MCRunFiles` | evidence, merge, features, context, packs | model checking |
| `MCVerification` | verifier, second factor, selection, plan | model checking |
| `MCOwnedTests` | both executors of owned tests, server, report | model checking |
| `SurfaceCases`, `FeatureCases`, `ContextCases`, `SelectionCases`, `PlanCases`, `PortableCases` | answers, applications, targets and tests of the instances | model checking |

How they fit together: `FeatureExpansion` and `StageContext` extend `FeatureTree`,
`SurfaceMerge` extends `SurfaceFindings`, `RuntimeVerifier` and `CoreSelection`
extend `InterfaceRules`, so that what two parts of the program share is written
once. `SurfaceShards` implements `CandidateCover`; `OwnedLifecycle` and
`PortableMutation`, two executors of the same kind of test, both implement `OwnedTest`.

The last four `MC` modules instantiate components that share no variable side by side. Their variable
`scene` says which of them a behaviour moves; the others stay in an initial state. So each
component is checked exactly as it would be alone, and no interleaving that would mean
nothing is explored; the renamed constants and variables of an instance are in its `WITH`.
The constants of `ContextCompaction`, `SecondFactor`, `CorePacks`, `PortableMutation`, `PortableServer`
and `PortableReport` are constants of these modules too, assumed to be what the component assumes. So
the modules of proofs can extend them, and what is proved there of an instance holds for any value of
those constants, not only for the ones of the `.cfg`.
`DiscoveryRun` has the stages as sequences of tasks with answers that are only told
apart; `SurfaceShards`, `SurfaceMerge` and `FeatureExpansion` are two of its stages in detail.

### DiscoveryRun

One run directory, and the processes that work on it one after another.
`through`, `completed` and `attempt` are the fields of `run.json`; `output`,
`application`, `shardFile` and `featureFile` are the other files; the variables
after `pc` are the memory of the process at work and are lost in `Exit`. A file
is `missing`, `torn` or `whole`: stage outputs and the application model are
written in place (`writeResult`, `writeApplicationArtifacts`), so each write is
two steps with a possible crash between them; `run.json` and the checkpoint
files are written to a temporary file and renamed, so each is one step.

`Resume` and `RefuseResume` follow `newDiscoverCommand` line by line, with its
order: the new target is saved before the rerun flag is checked. `BeginRerun` is
`BeginSurfaceRerun`/`BeginFeatureRerun`; `LoadStage` reads a completed stage
back and validates it; `RunShard`, `ReuseShard`, `RunFeatureTask`,
`ReuseFeatureTask` and `RejectFeatureCheckpoint` are one pass of the task loops.
A task's answer is a member of `Answers`, and two runs of a task may differ. The
installed version accepts a set of answers; `Upgrade` changes it, which is the
only way a saved answer can fail its revalidation. Findings of a stage are the
sequence of its tasks' answers: what a stage output holds is compared exactly,
what it says is not looked into. The four prerequisite stages have no tasks: a
resumed process only requires their outputs.

### SurfaceShards and CandidateCover

`listing` is what a process found: the routes its scan returned and the entities
dealt to the API groups; a task is an interval of it. `pending` is the
depth-first recursion of `executeCategoryShard` made explicit: `SplitTask` and
`FollowSplit` replace a task by its two halves. `states` and `checkpoints` are
on disk; the checkpoint of a completed task is written before its state. `Accepted`
stands for the validation of an answer after the answers merged before it, so a
checkpoint that was accepted once may not be accepted by a later process whose
earlier answers differ (`DropCheckpoint`). That it may be a function of the set of the
earlier answers, and not of their order, is `SurfaceMerge`'s `OrderIrrelevant`. The working tree may change between
any two steps (`EditWorktree`).

`CandidateCover` says what a caller relies on: while the work is open each
candidate is claimed at most once, it is closed only when each is claimed, and
an abandoned attempt leaves nothing claimed. `SurfaceShards` implements it under
the mapping at its end, where a candidate's claims are the merged tasks that list it.

### InvestigationRunner

One task. `messages` is the conversation, reduced to roles and tool calls; `todo`
is the rest of the calls of the message being executed. `AnswerStructured`,
`AnswerLegacy` and `FallBack` are the outcomes of one request for the result in
each mode; `Refunded` is the attempt given back when a repair finds out that
the provider has no structured output. `requests` and `rejected` are history
variables.

### EvidenceStore

`file` is what the writes left, in order, each record with how much of it got
out; `records` is the store in memory; `saved` the IDs that results on disk cite.

### OwnedLifecycle

One execution of `ExecuteOwnedLifecycle` and the target application it changes.
`exists` is what the target holds, `bindings` and `cleanup` what the test knows:
an entity with a cleanup status other than `unowned` is an entry of
`ExecutionState.owned`. `CreateParent`, `CreateChild` and `UpdateChild` are the
three parts of `runOwnedWorkflow`, `SkipUnowned`, `MissConfirmation` and `CleanUp`
one turn of the loop of `cleanupOwnedWorkflow`, `Report` the end of
`ExecuteOwnedLifecycle`. A request may fail with or without having had its effect.
`Pages` is what the page after a creation can tell, and `Captured` is
`captureRuntimeBinding`: the page's own address if it has the form of the view,
else a link whose text has the generated value. `Stray` is an identifier
without an object (`/items/create` has the form `/items/{id}`).

What is assumed of the target: the page of an object that exists says so (a target
that answers "not found" for an object that exists could make any cleanup look
done), its links lead to objects that exist, and a confirmation of a deletion is
offered for existing objects only. That a creation ends on the new object or on a
page that is not the view of one is an assumption with a switch, `LandsElsewhere`.
The choice of a fresh context for the cleanup (lines 125-130) is left out: the
command's context is never cancelled.

It implements `OwnedTest`: `Work` is a creation or an update with whatever the target makes
of it, `Remove` one step of the cleanup, `Judge` the report.

### ContextCompaction

The conversations the runner builds, in groups of an assistant message and the results of
its tool calls, and the request `prepareMessagesWithOptions` makes of one, once for an
investigation turn and once for a repair. A message has a size and the size its
replacement would have; the numbers of the budget are small but in the same order as the
code's (a stub is smaller than most results and larger than the smallest).
A pass of the code's loops compacts the first messages of a kind until the rest fits
(`Pass`); groups go one at a time (`DropOldest`), and each time the groups are formed anew.
`OldestDropped` and `Needed` describe the result without the loops that compute it.

A rejected answer (`RejectCall`) makes one or two calls, any of which may be of the submit tool: the
runner rejects an answer that calls another tool, or several, as it does an invalid submission
(`runner.go:595-599`), and answers each call with the error (`appendLegacySubmissionError`). Compaction
spares the tool messages that answer a submission (`context.go:76-79, 114, 136`) and user messages. So
`RejectionKept` says that a repair is told why the answer was rejected where it submitted something or
was text. The error that answers only calls of other tools is not spared: it may be replaced
by a stub, and the model is then asked to correct an answer without being told what was wrong. No text of the
repository promises otherwise, so this is not among the findings. `MaxRepairs` is the sum of the two
repair budgets. The runner's own instructions (`runner.go:286-291`, `381-385`, `705-709`) are short user
messages, like the one that follows `Write`, and have no action of their own.

### SurfaceFindings and SurfaceMerge

`SurfaceFindings` has no variables: `normalizeFindings`, `validateResultWithReferences`,
the category and coverage rules and the merge of interfaces, integrations, handlers and
relationships, with conflicts in a field resolved as the code does. `SurfaceMerge` is the loop over
the tasks: an answer is validated together with what is merged so far, kept in its
checkpoint, and validated again by each later process; `Finish` merges and
validates the whole. Names are numbers in the order `preferredLabel` prefers, IDs are
model values with their alphabetical rank.

### FeatureTree and FeatureExpansion

`FeatureTree` holds the rules for nodes and answers, `expansionContext` (which interfaces,
entities, roles and permissions the expansion of a module is shown), the rule
that a module with concrete interfaces must have an action, and the coverage counts.
`FeatureExpansion` is the stage: `Discover`, `Expand`, their checkpoints with the file name
derived from the module ID (`modules` being the name of the discovery's own), `Finish`, failures,
resumes and a rerun, which begins a new attempt. Here the answers are
trees; in `DiscoveryRun`, which has the same tasks amid the whole run, only values.

### StageContext

What `Context...` of `discovery/context.go` passes to each of the six stages, the
normalised JSON being left out: the projection of roles, permissions and
entities with their first evidence ID, and the table of interfaces with its profiles and
its roots. A context above the size limit fails the stage, which `MaxContext` stands for.

### RuntimeVerifier, InterfaceRules and SecondFactor

`Verify` visits the interfaces by priority, anonymously, then logs in, then visits
with the session those that need it. A page is what the verifier concludes from it:
where it ended, the class of its status, whether it has a login form, its links. Each
evidence record is a write that may be lost, at which point the code goes on, gives up
the observation, or fails, each as in the code. `runtime` is the record it writes.
`SecondFactor` is `CompleteSecondFactor` with a clock in half seconds: the
margin before the end of a period, the sleep (which may take longer than asked), the code, and its
submission, which reaches the server after at most `MaxDelay`.

### CoreSelection, LifecyclePlan and CorePacks

`CoreSelection`: an application and a world (the pages the target shows, with and without a
session) give what `runtime.json` holds, by the rules of `InterfaceRules`; of that
candidates are made, sorted and cut (`Select`), and executed against the world as it is by
then (`Execute`). URLs and titles go through the redactor as in the code.
A candidate with a route that needs a parameter ends unresolved, a mutating one
blocked or unresolved, as the executor has no way to carry it out.
`SelectionCases` has the applications and their worlds: a page is its own, walled, moved, gone, or its own
with fields for a user name and a password (a page to create a user); the login page has a form, or none
that could be found. The executor takes a login form for the sign that there is no session
(`coretests/executor.go:250-256`), which the last two belie; `FormsTell` is the set of worlds where the sign
is right, and `ReplayPasses` is about those. Without it the property is `TestsReplay`, a divergence below.

`LifecyclePlan`: the choice of an interface for each of the eight roles of the workflow test,
by the scores of `chooseWorkflowBinding`, and the identifiers that the routes need when the
plan is carried out, on pages that behave. Cleanup is "always", as the configuration's
default says.

`CorePacks`: sessions of the `test` command on one run directory; each is seeded with the best pack
it finds, promotes what passed, and writes its pack, its execution and, unless the pack is empty, its
baseline one after the other (the Markdown report, which nothing reads, is left out). The export only
reads: `Union`, `Onboarding` and `Cited` are what it would make of a pack. A test once
verified stays in the pack when a later execution of it fails, which is how the code means it
(`FailureShown` says that the bundle shows the failure).

### PortableMutation, PortableServer and PortableReport

`PortableMutation` interprets the steps of a mutating test and its cleanup list: navigate,
fill, submit, wait for an object, against a target that may fail each request with or without
effect. A test has the values its assertions expect (`asserted`): only those have to be on the page at
an `observe` step, and only those can be waited for. `PortableServer`: a pack's files as the export writes
them, the server's handler, the goroutine of a run with its writes, and any number of `test` commands on
the same directory, also at once; the server and each command may be killed at any step, and any write may
fail. A run is first with the browser (`Browse`: it ends, or is refused for its target or its test) and
then writes (`Save`). A run of the server, and of a command without `--output`, is `kept` in the `runs`
directory of the pack, where `LoadHistory` looks; a command with `--output` writes its execution elsewhere,
and the report at the root of the pack all the same. `PortableReport`: the latest result of each test, the
summary, the overall status and the exit code, over all results a history can hold.

## 3. Runs

| run | instance | shows |
|---|---|---|
| `run_directory` | 2 shards, 2 modules, 2 answers, 2 reruns, 2 failures, 1 upgrade | what is recorded complete is readable, current and untouched; no process is stuck; the application model follows |
| `run_completes` | 1 shard, 2 modules, 2 reruns, 1 failure, no upgrade | plain resumes finish the run |
| `success_reaches_target`, `rerun_investigates` | 2 shards, 1 module | two places where the command's help and the code disagree |
| `surface_edits` | 4 routes in groups of 3, 1 entity, depth 1, 3 working trees, 2 edits, 1 failure | tasks tile the candidates; checkpoints of other candidates are not used; states and checkpoints agree |
| `surface_cover` | 4 entities in 3 groups, CLI, Background and Integrations, 2 failures | the coordinator implements `CandidateCover`; no work repeated; resumes get through every category |
| `investigation` | 4 turns, 3 tool calls, 2 format repairs, 1 semantic repair, 2 calls a message; conversations of up to 5 groups of two sizes, both purposes, 2 rejected answers of up to 2 calls, any of them a submission, whose arguments alone exceed the budget | conversations stay well formed, budgets are exact; prepared requests fit, stay valid, lose nothing without need and tell why a submission was rejected |
| `run_files` | 4 records in batches of 2, 3 failures; 4 Surface tasks (Web, twice API, Integrations) and 14 answers, 2 failures; up to 3 modules, 2 failures, 1 rerun; 6 stages; 2 Core Tests, 3 sessions, 2 at once, 2 runtimes, kills between writes | cited evidence is known; merging loses nothing in any order; Feature work is repeated, refused or rejected only when it must be; what a context shows is accepted and decodes; packs claim what was executed |
| `evidence_reopens` | 3 records, 2 failures | a cut line makes the run impossible to resume |
| `verification` | 4 applications of 3 interfaces, limit 2, any page, any record lost; codes of 5 s with a margin of 2 s, delays of up to 2 s, every set of ten signals; 3 applications with all worlds of their pages, one of which may have a form for a password of its own, and a login page with and without a form, one page and the login changed later, limit 4; 8 interfaces of a lifecycle, any one missing, any of 8 competing ones | every interface is accounted for, verified means seen with the right access; a code is fresh, sent once, and only where it is asked for; selection order, replays, what a pass means; plans can be carried out and leave nothing |
| `owned_lifecycle` | two other objects, each creation ends on the new object, its link, or neither; the generated lifecycle and a bare submission; 2 tests, 2 jobs of the server or of test commands, with and without `--output`, 2 kills, failing writes; 3 tests, 1 run after the export, every result of each | what is left is reported, a pass leaves nothing, only the test's objects are deleted; both executors implement `OwnedTest`; pages, report and restart tell the same, a run is over once the browser is done; status, rows and exit code agree |
| `owned_lands_elsewhere` | the executor of owned workflows, where a creation may end on another object's page | that object is deleted |

Many invariants of the later modules are conjunctions of named parts, one part per sentence a
reader would ask about: `MergeSound` is `NothingLost`, `AlwaysClosed` and `MergedValid`,
`AllAccounted` is `AccountedFor`, `WithinLimit`, `WallsRevisited` and `FailsOnlyOnLoss`, and so
on. TLC reports the conjunction; checking a part by name in its place tells which one fails.

Why the bounds are enough. Two answers are what it takes for a checkpoint and
a new answer to differ; two modules, for one expansion to be checkpointed and the
other not; two reruns and two failures, for a failure inside a rerun inside a
resumed failure. The theorems confirm that the bounds hide nothing for the
properties they cover. In `SurfaceShards` a group of three routes splits into
halves of two and one, a group of one cannot split, and with depth 1 both reasons
not to split occur; the three working trees rename a route inside a group (same
length, other candidates) and drop a whole group. The runner's limits are the
smallest for which each counter can be passed by one and the two kinds of repair
can alternate. Unequal repair budgets keep the two kinds apart.

`OwnedLifecycle` has no bound of its own: a test has two objects; `PortableMutation`
has the two shapes of test that are generated. In `RuntimeVerifier` three interfaces with a
limit of two are what it takes for one to be cut off, one of them to need the session and one
to be skipped; the four applications put a form, an endpoint, a page under the login path and two
pages with one parameter among them. Conversations of five groups are more than the
four an investigation keeps and the two a repair keeps; the budget of 14 lets them be too long
with large messages, and the smaller size cannot be compacted. The merge has two API tasks, for an order
among equals, and answers that agree, complete each other, and conflict in each field that can.
`CoreSelection`'s limit of four is less than the candidates of its first application, so that the
cut shows; `MaxChanges` is one because a test visits one page. `CorePacks` needs
three sessions: two that disagree and one that chooses between their packs.

The four composed runs do not check for deadlock: most of their components are programs that
end, or stop where a bound is reached. The runs of `DiscoveryRun` and `SurfaceShards` do.

Fairness. A process of `discover` is sequential and each of its requests to the provider has a
timeout (`llm/client.go:29`, and the task's own, `runner.go:72`), so the process's own steps are weakly fair; that the operator resumes an unfinished
run, with no flags, is assumed (`WF(Resume(NoStage, NoStage))`, `WF(Launch)` when idle).
Nothing is assumed about failures except that there are finitely many. An
upgrade can make a run impossible to finish (it may reject a completed output), so
the liveness instance has none; an edited working tree can make a split obsolete for
good, so that one has no edits.
Of a run of the test server only the steps after the browser are weakly fair (`WF(Save(j))`): they write
files and take a lock. Nothing is assumed of the browser. `chromedp.go` waits for pages and controls without a
limit, on a context that comes from `context.Background()` (`portabletests/server.go:137`), so a page that
never answers keeps the server busy until it is killed. `RunEnds` therefore begins when the browser is done: from
then on, whatever fails, the server gets free. A server that is killed is not running any more.

## 4. What is proved

`DiscoveryRunProofs`, for every number of shards, modules, reruns, failures and
upgrades and every set of answers: `TypeOK`, `CompletedPrefix`,
`CompletedReadable`, `CheckpointsFollowSurface`, `FeaturesCurrent`,
`ApplicationCurrent`, `NeverStuck` and the action property
`CompletedOutputStable`. None of them is inductive. `IInv` adds `Shape` (an output
holds no more answers than its stage has tasks), `Position` (where the process is
relative to the manifest: a stage being computed is not recorded complete and
all earlier ones are), `Memory` (what the process holds is what is on disk),
`Checkpoints` (there is no checkpoint of the current attempt before Surface is complete, and those
of the merged tasks are the ones merged) and `FirstVersion` (until the first upgrade,
expansions were made from the module discovery on disk). Each part has a lemma `...Step`,
with one step per action. The only assumption is `ConstantsAssumption`: the bounds
are naturals and `None` is not an answer or a checkpoint.

`InvestigationRunnerProofs`, for every budget a task may ask for: `TypeOK`,
`RepairsCounted`, `RepairBudgetsExact` and `RequestsBounded`, from `IInv`, where `Requests` accounts
for each request: one per investigation turn, per rejected result, and for the
fallback. `WellFormed` needs a second invariant, `Dialog`: between requests the conversation is
`Closed` (each tool message follows the assistant message that called it, each call has one), and
while calls are executed it is `Open`, closed but for exactly the calls in `todo`; lemmas say
what appending calls, a result, a rejection or an error does to either. The assumption
`BudgetAssumption` is that budgets are naturals, zero meaning the default.

`ContextCompactionProofs`, for every budget, every size of messages and conversations of any
length: `RequestValid` and `OnlyNeeded`. The invariant `Conv` is about the conversation alone: it is a
chat (`Chat`), of which only results and prose can be compacted, whose answers are in rising
order and in which only the model's messages have arguments (`Talk`); the request is what
`Prepared` makes of it. That the errors a repair has to see come through (`ConvRejectionKept`) is shown
by following a position of the conversation into the request, for every message that says why
something was rejected (`Why`), not only for the newest. The work is in the lemmas about `Prepared`: a compaction changes sizes
only (`PassCompacts`); dropping the oldest complete group leaves a chat that lacks a prefix of its
groups (`OldestIsFirst`, `CutKeepsChat`, `DropGroupsCuts`); and when nothing more can be dropped no
more groups are left than are kept (`FewGroups`). The assumption `CompactionAssumption` is that
budget and sizes are positive and that some message is larger than its stub. A submission's
arguments have a size as well: they are a JSON object, so never empty. `InvestigationRunnerProofs`
carries both theorems over to the instance that the run checks.

`EvidenceStoreProofs`, for any number of records, drafts and failures: `TypeOK`,
`CitedEvidenceKnown` and the action property `OnlyAppended`. The invariant says that the IDs in
the file are distinct and below the next one (`File`), that the IDs given and those still to give
are within the bound (`Counters`), that a working process has in memory exactly what the next
one would load, and that what is cited is among that (`Kept`). The assumption
`EvidenceAssumption` is that the bounds are naturals.

It also proves `PacksSound` and `NothingForgotten` of `CorePacks`, for any finite set of tests and any
number of sessions, verifications, and sessions killed or unable to write. `PacksInv` has three
parts. `Sessions` is the shape: what a session has written follows from where it is, and a pack names
each test once. `Earned`: each test of a pack stands there with a session of the same runtime that saw it pass,
the pack's own or one whose pack is on disk; only the second kind can be taken over as a seed. `Chained`:
unless sessions overlapped, only the last may be running, and a pack contains the older ones of
its runtime. That the best pack found then contains all others is `BestContains`: of a chain of
finite sets, one of the largest size contains the rest, whichever of equals is chosen.

`OwnedLifecycleProofs`, for every set of other objects in the target: `TypeOK` and
`AllTried` in any target, and `PassedLeavesNothing`, `LeftoversReported`,
`OnlyOwnDeleted`, the action property `ChildFirst` and the refinement of `OwnedTest`
(`OwnedContract`) under `~ LandsElsewhere`, the
condition whose failure is the finding below. `Tracking` is the inductive invariant
of the first two: `Phases` (what is owned at each point of the workflow; a workflow that
did not fail owns both objects), `Tried` (the cleanup skipped nobody, and a failed cleanup is
flagged) and `Reported` (the result follows the flags). `Honest` adds that an
identifier names its own object or none, that what was verified is gone, and that
nothing else was deleted. The refinement needs `Exact` in addition, which knows whose turn the
cleanup is; then each action maps to `Work`, `Remove`, `Judge` or a stutter. The assumption
`OwnedAssumption` is that the objects and the two identifiers without an object are distinct.

The same module proves the second refinement, `PortableContract`: the interpreter of portable tests
implements `OwnedTest` too. Its invariant follows the interpreter through a list of
steps of any length: where a value is filled in, only its object can come into being; ownership
comes with the step that waits for it; no object of the test exists that was never
submitted; and the cleanup list is worked through in order. What it needs of a test is `Generated`,
the shape in which `ownedLifecycleTest` (`coretests/workflow_plan.go`) writes it: what is filled in to
create an object is submitted at once and the object waited for after that, a wait follows a
submission, and what is waited for is in the cleanup list, which names no object
twice. `PortableAssumption` asks that of every test, and nothing else but that the identifiers are distinct. Of the
target the model assumes what it does for `OwnedLifecycle`: pages do not lie, and a creation
ends on no other object's page.

`ReportAgrees` of `PortableReport`, for any finite set of tests and any number of executions:
the latest result of a test, the counts made of them, the gravest of the counts and the exit code
are related by lemmas about the operators; the invariant (`Told`) is only that results are of tests of
the pack and that the exit code is the one of the last execution.

`PortableServerProofs`, for any pack, any number of jobs and kills, and whichever writes
fail: `ServerTruthful`. The header of the module tells what the parts of `Inv` say. The hard parts are
`ReportComplete`, which needs that a process knows of every kept job that ended well unless two
processes ran side by side (`Informed`), and `RestartAgrees`, which compares a list that grew
with one made by sorting. `LoadHistory` is for that reason written as a choice of a list
in the order of completion; `OrderExists` proves that there is one, by counting. The completion times of two
jobs are assumed to differ, as they are taken to the nanosecond. `OwnedLifecycleProofs` carries the
theorem over to the instance of the run.

`SurfaceShardsProofs`, for any working trees and entities, any group size and depth, any edits
and failures, and any of the categories applicable: `StatesSound`, `ExactCover`, `LeavesCurrent`, and that
`SurfaceShards` implements `CandidateCover`, and `NothingAskedTwice`. The core of the invariant is
`Coverage`: the merged tasks followed by the pending ones are a chain of intervals, each
beginning where the one before ends, from the first candidate to the last. `Files` gives the manifest and the checkpoints their shape, and to each
state "completed" a checkpoint; `Process` says what the process at work holds. For the refinement,
`Marks` relates the claims of a candidate to the end of the merged part. That a split yields two
chained halves, and the groups of a category a chain, are lemmas about the operators.
The assumption `SurfaceAssumption` has bounds that are naturals, and lists without
repetition: routes are deduplicated by their identity (`surface/web_routes.go`), entity
names when they are validated (`entities/task.go`); and no route and entity are the same candidate, a
route being named by a JSON object and an entity by a label that begins with a letter.

`NothingAskedTwice` is about the history of splits and answers across processes. Its invariant,
`Frontier`, says that while the working tree was not edited, there is a place `F` at or after the
process's own, such that what is on disk is what a process without failures would have
written on its way there: the checkpoints are those of the tasks before `F` on the way, and the states
record the splits on it. A process that resumes replays this way from the start
(`Taken`), reuses, follows and drops what it finds, and asks only when it has reached `F`.
`Named` adds that the names of tasks tell them apart: those of two pending tasks are not prefixes of one another.

`RuntimeVerifierProofs`, for every finite set of interfaces, any tree of features, any limit and
whatever pages the target shows: `AllAccounted`, and `VerifiedSound` if no link of the target holds
a secret of the identity, the condition whose failure is a divergence below; without
it, `VisitedWereLinked`: what is visited was linked to, up to redaction. The invariant has
a part for each thing the verification keeps track of, from where it is (`Course`), what it
may follow (`Followed`), what was tried (`Tried`) and its login (`LoggedIn`) to what each observation
says (`Observed`) and which interfaces have one (`Complete`). The coverage of features is a least fixed
point over the tree, and a lemma shows that it satisfies its recursion, whatever the tree.

It also proves `CodeSound` of `SecondFactor`, for every period, margin, delay and length of sleep under
`TimingAssumption`. The invariant is about when a code is generated: either more than the margin
before the end of its period, or just after the sleep that awaited the next one (`Steady`). Two
lemmas about division, `SteadyNow` and `SteadyAfterSleep`, show that in both cases the code is still the
current one when it arrives. `TimingAssumption` is what this needs: a submission takes no longer than the
margin, and what a sleep takes too long, together with the submission, less than a period. The code
bounds neither, so it is the limit of what the margin can promise; with the defaults (30 seconds and a margin
of 2) it holds unless a submission takes longer than the margin, or the process is held up for most of a period.

Recursive functions and least fixed points are reasoned about without an induction theorem, which
the installed provers cannot instantiate: `Least` finds the first number for which a claim fails, and
the step before it refutes that; a fixed point of a monotone operator is unfolded once.

Only model-checked: the invariants of merging (`OrderIrrelevant`, `MergeSound`), features (`AskedOnce`,
`TreeSound`), stage contexts (`ContextFaithful`), selection and replay (`SelectionSound`,
`ReplaySound`) and plans (`PlanSound`). They say what long pure functions over records compute, some of
them by recursion over the data, and speak of the answers, applications and plans the instances
list; there are few steps to reason about, and a proof would unfold the functions case by case.
Out of the prover's reach: the liveness properties `ResumeCompletes`, `ResumesFinish` and
`RunEnds`. The other way round, `CompletedPrefix`, `CheckpointsFollowSurface`, `RepairsCounted`,
`LeftoversReported`, `ChildFirst`, `OnlyAppended` and `VisitedWereLinked`, and `TypeOK` of the runner,
the evidence store and the workflow executor, have proofs and no run.

## 5. Findings

Four runs show a disagreement between the code and what its texts say:

* `SuccessReachesTarget`: resuming a run recorded through surface with `--through
  features --rerun surface` records the target features and returns success with
  Features not run.
* `RerunInvestigates`: `--rerun surface` keeps the shard checkpoints and runs as a
  resume, so `surface.json` is rewritten from the old answers.
* `FailedRunOpens`: a cut last line in `evidence.jsonl` stops every later
  process, although the run is otherwise intact.
* `OnlyOwnDeleted`: a creation that ends on the page of another object of the same
  kind, with the new one's name on it, makes the cleanup delete that other object.

Further divergences are kept as properties or as switches of the instances; each is violated once
the instance is changed as said, and the rest of the properties were found to hold without that change.
The two with a configuration of their own are shown by TLC as they are.

* In `MCVerification.cfg`, `Values = {plain, secret}`: `VerifiedSound` fails in `BoundToSeenLink`.
  Links are stored redacted and visited as stored (`runtimeverify/binding.go`); a path with the
  user name in it becomes an address that no page linked to.
* In `MCVerification`, `Denials <- TRUE` or `Queries <- {"next=/"}` of `SelectionCases`: `ReplaySound`
  fails in `ReplayPasses`. The boundary test (`coretests/selection.go`) asserts a login form where a
  403 was seen, and compares the live address with one that was encoded anew.
* `Untitled <- TRUE`: `ReplaySound` fails in `PassedAgrees`. A view test passes on another page
  without a title.
* `Spellings <- {"", "_id"}` of `PlanCases`: `PlanSound` fails in `PlanBindable`. A plan may choose
  interfaces that spell one parameter in two ways, and then cannot delete what it created
  (`coretests/workflow_plan.go`).
* `Selection!TestsReplay` in `MCVerification` (`MCVerification_TestsReplay.cfg`): a page seen in a session that
  has fields for a user name and a password of its own, such as one to create a user, is verified
  (`runtimeverify/verifier.go:551-600`) and gets the assertion `authenticated` (`coretests/selection.go:90`),
  which fails wherever `DetectLoginForm` finds such fields (`coretests/executor.go:250-253`,
  `runtimeverify/browser/browser.go:163`); and a page that is the login by its words and address, without a form,
  gets `not_authenticated` (`selection.go:51`), which wants one (`executor.go:254-256`). Either test fails on
  a target that did not change, though the candidate is to check that the interface "behaves as observed
  during onboarding" (`selection.go:226`).
* `ReportWhole` in `PortableServer` (`PortableServer_ReportWhole.cfg`): `--output` is described as the "execution
  history directory" (`portabletests/cli.go:39`), but the history is read from `runs` of the pack alone
  (`load.go:229-256`), and each run rewrites the report of the pack from what it loaded
  (`executor.go:73-92`). An execution with `--output` is in the report when it ends and gone from it after the
  next run, with no other process at work.
* `Portable!CleanupAlways` in `MCOwnedTests`: a portable test looks after an object only once a page
  has shown it; an object whose creation was not answered stays, and the result does not mention it.
* `Compaction!EvidenceKept` in `MCInvestigation`: once the stubs of an investigation outgrow the
  budget, groups are dropped from its requests, with the evidence IDs the stubs were made to
  preserve (`investigation/context.go`).
* `Merge!RouteMapped` in `MCRunFiles`: the check that each route candidate is covered
  (`surface/web_routes.go`) takes the file from one interface and the handler from another,
  depending on the order of their IDs.
* `Stage!InterfacesCite`: the instructions of the Feature stage explain evidence values that
  the interface table of `discovery/context.go` does not have. `Stage!OperationsAreNoRoots`: a REST operation with a
  protocol in its locator is taken for a root and never assigned to a module (`features/mapping.go`).
* `Pathless <- {submit}` of `Packs`: `Packs!Exportable` fails. An action with an API operation
  among its interfaces makes the pack it is in, though only as a blocked candidate,
  impossible to export.
* `Packs!SelfContained`: the onboarding report cites the evidence of earlier sessions, which is
  not copied (`testbundle/export.go`).

## 6. Not modelled, and the plan

Not modelled for good: the provider client, repository access, the browser driver and the
rendering of reports, which are I/O and text; the prompts; the scans of source text for
routes, API methods and references, which are string matching; configuration and identifiers. The
validation of the four prerequisite findings checks single fields and references within one
answer; in the model an answer is accepted or not. Two processes of `discover` on one run directory
at once are not modelled: nothing locks it, and nothing says it may be done. In the core tests, the
evidence file and the choice of form controls are left out; in the portable ones, the pages'
text, the integrity lock and the profiles.

Smaller things that are left out or only partly covered. `Visit` of `RuntimeVerifier` has no branch for an
address that does not parse (`verifier.go:473-483`): like one that needs a binding, such an interface gets
an observation, with evidence that may be lost, and is not visited. `PortableServer` has one server for a pack; a
second one on another port would lose executions from the report as a second `test` command does, which
is why `ReportComplete` is about processes that do not overlap. What a killed server leaves in the target is
not looked at. `PacksSound` does not claim that a bundle holds the evidence its report cites (`SelfContained`
above).

What is left: `AskedOnce` of `FeatureExpansion` for any answers, by an invariant that relates each
checkpoint to the discovery it was made from, as `Frontier` does for Surface; and the lemmas about the merge
of two interfaces from which `OrderIrrelevant` would follow for any number of answers.
