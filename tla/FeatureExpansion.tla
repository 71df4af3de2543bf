-------------------------- MODULE FeatureExpansion --------------------------
(***************************************************************************)
(* The Feature stage: one task finds the modules, one task expands each of *)
(* them, in the order of their IDs, and the tree they make together is     *)
(* validated once more.  Every answer is kept in a checkpoint, a file      *)
(* named for the module; a resume reads it back, refuses it if it is of    *)
(* other inputs, ignores it if it is of an earlier attempt, and validates  *)
(* it again.  The findings of the earlier stages do not change here.       *)
(***************************************************************************)
EXTENDS FeatureTree

CONSTANTS
  Prior,           (* the findings of the earlier stages                   *)
  ModuleAnswers,   (* what the module discovery may answer: forests        *)
  Expansions,      (* [module IDs -> SUBSET forests]                       *)
  ByteOrder,       (* the module IDs in the order of sort.Slice            *)
  MaxContext,      (* maxModuleContextBytes, in entries                    *)
  MaxAttempts,     (* bound: feature_attempt                               *)
  MaxFailures      (* bound: processes that end early                      *)

VARIABLES
  pc,          (* idle | modules | expand | done | rejected | refused | large *)
  resume, started,
  attempt,     (* feature_attempt of the manifest                          *)
  files,       (* work/features: [module IDs -> checkpoints]               *)
  modules,     (* this process: the answer of the module discovery         *)
  expansion,   (* this process: [module IDs -> forests]                    *)
  tree,        (* the merged findings                                      *)
  failures,
  asked,       (* history: 0, 1 or 2 (more), the times each task was       *)
               (* executed in this attempt                                 *)
  named,       (* history: the modules discovered in this attempt          *)
  barred       (* history: attempts whose tree was rejected                *)

process == <<modules, expansion, tree>>
history == <<asked, named, barred>>
vars == <<pc, resume, started, attempt, files, process, failures, history>>

refs       == referencesFromFindings(Prior)
candidates == ConcreteCandidateInterfaceIDs(Prior.surface)

Discovery == <<"modules">>   (* the name of the module discovery's file *)
TaskIDs   == {Discovery} \cup DOMAIN Expansions
ModuleIDs(f) == {f[p].id : p \in Top(f)}

Again(n) == IF n = 0 THEN 1 ELSE 2

Fresh ==
  /\ modules' = << >> /\ expansion' = << >> /\ tree' = << >>

Init ==
  /\ pc = "idle" /\ resume = FALSE /\ started = FALSE
  /\ attempt = 0 /\ files = << >>
  /\ modules = << >> /\ expansion = << >> /\ tree = << >>
  /\ failures = 0
  /\ asked = [id \in TaskIDs |-> 0] /\ named = {} /\ barred = {}

(* discover, then any number of discover --resume. *)
Launch ==
  /\ pc \in {"idle", "rejected", "refused", "large"}
  /\ pc' = "modules" /\ resume' = started /\ started' = TRUE
  /\ Fresh
  /\ UNCHANGED <<attempt, files, failures, history>>

(* discover --resume --rerun: of the completed stage, or of the Surface    *)
(* stage before it.                                                        *)
NewAttempt ==
  /\ pc \in {"done", "idle", "rejected", "refused", "large"} /\ started
  /\ attempt < MaxAttempts
  /\ attempt' = attempt + 1 /\ pc' = "idle"
  /\ asked' = [id \in TaskIDs |-> 0] /\ named' = {}
  /\ Fresh
  /\ UNCHANGED <<resume, started, files, failures, barred>>

-----------------------------------------------------------------------------
(* Checkpoints.  The file of module discovery and of a module called       *)
(* "modules" is the same, and so is their task ID.                         *)

Kept_Never(id) == FALSE                                (* mutant *)
Kept(id) == resume /\ id \in DOMAIN files /\ files[id].attempt = attempt

Compatible(id, inputs) == files[id].inputs = inputs

save(id, inputs, answer) ==
  files' = (id :> [attempt |-> attempt, inputs |-> inputs, answer |-> answer]) @@ files

-----------------------------------------------------------------------------
(* Module discovery *)

Normalized(f) == normalizeCanonicalInterfaceReferences(f, refs.interfaces)

ModulesAccepted(f) == moduleDiscoveryAccepts(Normalized(f), refs, candidates)

Found(f) ==
  /\ pc' = "expand" /\ modules' = f /\ named' = named \cup ModuleIDs(f)

ReuseModules ==
  /\ pc = "modules" /\ Kept(Discovery) /\ Compatible(Discovery, candidates)
  /\ ModulesAccepted(files[Discovery].answer)
  /\ Found(Normalized(files[Discovery].answer))
  /\ UNCHANGED <<resume, started, attempt, files, expansion, tree, failures, asked, barred>>

(* An answer that is not accepted is repaired, or the process fails. *)
AskModules ==
  /\ pc = "modules"
  /\ Kept(Discovery) =>
       Compatible(Discovery, candidates) /\ ~ ModulesAccepted(files[Discovery].answer)
  /\ \E f \in ModuleAnswers :
       /\ ModulesAccepted(f)
       /\ Found(Normalized(f)) /\ save(Discovery, candidates, Normalized(f))
  /\ asked' = [asked EXCEPT ![Discovery] = Again(@)]
  /\ UNCHANGED <<resume, started, attempt, expansion, tree, failures, barred>>

RefuseModules ==
  /\ pc = "modules" /\ Kept(Discovery) /\ ~ Compatible(Discovery, candidates)
  /\ pc' = "refused"
  /\ UNCHANGED <<resume, started, attempt, files, process, failures, history>>

-----------------------------------------------------------------------------
(* The expansion of the next module *)

Waiting == {p \in DOMAIN modules : modules[p].id \notin DOMAIN expansion}
Place(id) == CHOOSE i \in DOMAIN ByteOrder : ByteOrder[i] = id
module ==
  modules[CHOOSE p \in Waiting : \A q \in Waiting : Place(modules[p].id) <= Place(modules[q].id)]

context == buildModuleContext(module, Prior)

AtModule == pc = "expand" /\ Waiting # {}
Fits     == contextSize(context) <= MaxContext

ExpansionAccepted(f) == moduleExpansionAccepts(module, Normalized(f), refs, candidates)

Take(f) == expansion' = (module.id :> f) @@ expansion

TooLarge ==
  /\ AtModule /\ ~ Fits
  /\ pc' = "large"
  /\ UNCHANGED <<resume, started, attempt, files, process, failures, history>>

ReuseExpansion ==
  /\ AtModule /\ Fits /\ Kept(module.id) /\ Compatible(module.id, module.interfaces)
  /\ ExpansionAccepted(files[module.id].answer)
  /\ Take(Normalized(files[module.id].answer))
  /\ UNCHANGED <<pc, resume, started, attempt, files, modules, tree, failures, history>>

AskExpansion ==
  /\ AtModule /\ Fits
  /\ Kept(module.id) =>
       Compatible(module.id, module.interfaces) /\ ~ ExpansionAccepted(files[module.id].answer)
  /\ \E f \in Expansions[module.id] :
       /\ ExpansionAccepted(f)
       /\ Take(Normalized(f)) /\ save(module.id, module.interfaces, Normalized(f))
  /\ asked' = [asked EXCEPT ![module.id] = Again(@)]
  /\ UNCHANGED <<pc, resume, started, attempt, modules, tree, failures, named, barred>>

RefuseExpansion ==
  /\ AtModule /\ Fits /\ Kept(module.id) /\ ~ Compatible(module.id, module.interfaces)
  /\ pc' = "refused"
  /\ UNCHANGED <<resume, started, attempt, files, process, failures, history>>

-----------------------------------------------------------------------------
(* The merged tree must stand on its own. *)
Finish ==
  /\ pc = "expand" /\ Waiting = {}
  /\ tree' = mergeResults(modules, expansion)
  /\ IF validateResultWithReferences(tree', refs)
     THEN pc' = "done" /\ barred' = barred
     ELSE pc' = "rejected" /\ barred' = barred \cup {attempt}
  /\ UNCHANGED <<resume, started, attempt, files, modules, expansion, failures, asked, named>>

(* The process dies, or a task fails. *)
Fail ==
  /\ pc \in {"modules", "expand"} /\ failures < MaxFailures
  /\ pc' = "idle" /\ failures' = failures + 1
  /\ Fresh
  /\ UNCHANGED <<resume, started, attempt, files, history>>

Next ==
  \/ Launch \/ NewAttempt \/ Fail \/ Finish
  \/ ReuseModules \/ AskModules \/ RefuseModules
  \/ TooLarge \/ ReuseExpansion \/ AskExpansion \/ RefuseExpansion

Spec == Init /\ [][Next]_vars

-----------------------------------------------------------------------------
(* Every variable keeps its shape; what a process holds and what a file    *)
(* keeps is normalized: it refers to canonical IDs only.                   *)
Shaped(f) ==
  \A p \in DOMAIN f : f[p].type \in nodeTypes /\ f[p].interfaces \subseteq refs.interfaces
TypeOK ==
  /\ pc \in {"idle", "modules", "expand", "done", "rejected", "refused", "large"}
  /\ resume \in BOOLEAN /\ started \in BOOLEAN
  /\ attempt \in 0..MaxAttempts /\ failures \in 0..MaxFailures
  /\ DOMAIN files \subseteq TaskIDs /\ DOMAIN expansion \subseteq ModuleIDs(modules)
  /\ named \subseteq DOMAIN Expansions /\ barred \subseteq 0..attempt
  /\ \A id \in TaskIDs : asked[id] \in 0..2
  /\ \A id \in DOMAIN files : files[id].attempt \in 0..attempt /\ Shaped(files[id].answer)
  /\ Shaped(modules) /\ Shaped(tree) /\ \A id \in DOMAIN expansion : Shaped(expansion[id])

(* No work is lost: within an attempt a task whose answer is kept is not   *)
(* executed again, however often the process ends, unless the answer of a  *)
(* module called "modules" took the place of the module discovery's.       *)
AskedOnce ==
  Discovery \notin named => \A id \in TaskIDs : asked[id] <= 1

(* The checkpoints are refused, which ends every later resume of the       *)
(* attempt too, only when a module is called "modules".                    *)
RefusedForName == pc = "refused" => Discovery \in named

(* The answers fit together: a tree is rejected after all of them were     *)
(* accepted only when one module's ID lies within another's.               *)
RejectedForNesting ==
  pc = "rejected" =>
    \E p, q \in DOMAIN modules : IsStrictPrefix(modules[p].id, modules[q].id)

(* A rejected tree stays rejected: the accepted answers are read back, so  *)
(* no resume of that attempt completes the stage.                          *)
RejectedForGood ==
  pc = "done" /\ attempt \in barred => Discovery \in named

(* A completed tree acts on everything: each module of an application with *)
(* concrete interfaces has an action below it, and each interface a node   *)
(* of a module refers to was assigned to that module.  So the counts       *)
(* reported at the end cover at least one action for each module.          *)
EveryModuleActs ==
  pc = "done" =>
    LET counts == CountInterfaceMappings(tree, Prior.surface)
    IN  /\ \A p \in Top(tree) :
             /\ candidates # {} => \E q \in Actions(tree) : q[1] = p[1]
             /\ \A q \in DOMAIN tree :
                  q[1] = p[1] => tree[q].interfaces \subseteq tree[p].interfaces
        /\ candidates # {} =>
             counts.concrete + counts.rootOnly + counts.unmapped >= Cardinality(Top(tree))

(* The coverage reported at the end is the coverage of the assignment: an  *)
(* interface counts as referenced once a module has it, whatever the       *)
(* expansions did with it.                                                 *)
CoverageIsAssignment ==
  pc = "done" =>
    CountConcreteInterfaceCoverage(tree, Prior.surface).referenced =
      Cardinality(assignedConcreteInterfaces(modules, Prior.surface))

(* The context of an expansion names every interface its answer may refer  *)
(* to, and every entity, role and permission those interfaces mention.     *)
ContextDescribes ==
  AtModule =>
    /\ module.interfaces \subseteq IDs(context.interfaces)
    /\ Concerned(context.interfaces) \subseteq IDs(context.entities)
    /\ Granted(context.interfaces, "roles") \subseteq IDs(context.roles)
    /\ Granted(context.interfaces, "permissions") \subseteq IDs(context.permissions)

(* Every process gets the stage to an end that the answers justify: it is  *)
(* refused for a name, rejected for nested modules and then for good, or   *)
(* completed with a tree that acts on everything that was assigned.        *)
TreeSound ==
  /\ TypeOK /\ ContextDescribes
  /\ RefusedForName /\ RejectedForNesting /\ RejectedForGood
  /\ EveryModuleActs /\ CoverageIsAssignment
=============================================================================
