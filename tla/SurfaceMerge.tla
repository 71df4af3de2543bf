---------------------------- MODULE SurfaceMerge ----------------------------
(***************************************************************************)
(* The findings of a Surface stage: the answer of each task is validated   *)
(* beside the findings merged so far and kept in a checkpoint, a resume    *)
(* validates the checkpoints again, and when the last task is done the     *)
(* answers are merged and validated once more.  SurfaceShards models how   *)
(* the tasks come about; here they are given.                              *)
(***************************************************************************)
EXTENDS SurfaceFindings

CONSTANTS
  Tasks,       (* [category, routes] of each task, in their order          *)
  Answers,     (* [categories -> SUBSET answers]                           *)
  MaxFailures  (* bound: processes that end early                          *)

VARIABLES
  pc,          (* idle | work | merged | rejected                          *)
  resume, started,
  outputs,     (* the answers this process has, one per task done          *)
  soFar,       (* mergedSoFar: their findings                              *)
  checkpoints, (* work/surface: [tasks -> answers]                         *)
  surface,     (* the findings of the stage, once merged                   *)
  failures

vars == <<pc, resume, started, outputs, soFar, checkpoints, surface, failures>>

turn == Len(outputs) + 1
task == Tasks[turn]

Init ==
  /\ pc = "idle" /\ resume = FALSE /\ started = FALSE
  /\ outputs = <<>> /\ soFar = NoFindings
  /\ checkpoints = << >> /\ surface = NoFindings
  /\ failures = 0

(* discover, then any number of discover --resume. *)
Launch ==
  /\ pc \in {"idle", "rejected"}
  /\ pc' = "work" /\ resume' = started /\ started' = TRUE
  /\ outputs' = <<>> /\ soFar' = NoFindings
  /\ UNCHANGED <<checkpoints, surface, failures>>

(* task.ValidateResult: the answer by itself, then beside the others. *)
Accepted(answer) ==
  /\ validateCategoryResult(task.category, answer, soFar)
  /\ validateWebCandidateCoverage(mergeFindings(NoFindings, answer).findings, task.routes)
  /\ mergeFindings(soFar, Normalized(answer)).ok

AtTask     == pc = "work" /\ turn <= Len(Tasks)
Checkpoint == resume /\ turn \in DOMAIN checkpoints
Reusable   == Checkpoint /\ Accepted(checkpoints[turn])

Take(answer) ==
  /\ outputs' = Append(outputs, answer)
  /\ soFar'   = mergeFindings(soFar, answer).findings

Reuse ==
  /\ AtTask /\ Reusable
  /\ Take(checkpoints[turn])
  /\ UNCHANGED <<pc, resume, started, checkpoints, surface, failures>>

(* The task is executed; an answer that is not accepted is repaired. *)
Execute ==
  /\ AtTask /\ ~ Reusable
  /\ \E answer \in Answers[task.category] :
       /\ Accepted(answer)
       /\ Take(Normalized(answer))
       /\ checkpoints' = (turn :> Normalized(answer)) @@ checkpoints
  /\ UNCHANGED <<pc, resume, started, surface, failures>>

(* The process dies, or the repairs of an answer are used up. *)
Fail ==
  /\ pc = "work" /\ failures < MaxFailures
  /\ pc' = "idle" /\ failures' = failures + 1
  /\ outputs' = <<>> /\ soFar' = NoFindings
  /\ UNCHANGED <<resume, started, checkpoints, surface>>

(* The merged findings must stand on their own. *)
Whole(merge) == merge.ok /\ validateResultWithReferences(merge.findings, NoFindings)

Finish ==
  /\ pc = "work" /\ turn > Len(Tasks)
  /\ LET merge == mergeCategoryFindings(outputs)
     IN  IF Whole(merge)
         THEN pc' = "merged" /\ surface' = merge.findings
         ELSE pc' = "rejected" /\ surface' = surface
  /\ UNCHANGED <<resume, started, outputs, soFar, checkpoints, failures>>

Next == Launch \/ Reuse \/ Execute \/ Fail \/ Finish

Spec == Init /\ [][Next]_vars

-----------------------------------------------------------------------------
(* Every variable keeps its shape; an answer handed on names each interface *)
(* and each handler once.                                                  *)
Once(items) == \A i, j \in DOMAIN items : ID(items[i]) = ID(items[j]) => i = j
TypeOK ==
  /\ pc \in {"idle", "work", "merged", "rejected"}
  /\ resume \in BOOLEAN /\ started \in BOOLEAN /\ failures \in 0..MaxFailures
  /\ Len(outputs) <= Len(Tasks) /\ DOMAIN checkpoints \subseteq DOMAIN Tasks
  /\ DOMAIN soFar = DOMAIN NoFindings /\ DOMAIN surface = DOMAIN NoFindings
  /\ \A n \in DOMAIN outputs : Once(outputs[n].interfaces) /\ Once(outputs[n].handlers)

(* The merged findings do not depend on how the work was divided: the same *)
(* answers give the same findings in any order of the tasks, and conflict  *)
(* in none.                                                                *)
Permutation(s) ==
  {p \in [DOMAIN s -> DOMAIN s] : \A i, j \in DOMAIN s : p[i] = p[j] => i = j}
OrderIrrelevant ==
  \A p \in Permutation(outputs) :
    LET merge == mergeCategoryFindings([i \in DOMAIN outputs |-> outputs[p[i]]])
    IN  merge.ok /\ merge.findings = soFar

(* Every answer survives the merge: each of its interfaces and handlers is *)
(* there, of its type, with its evidence and with what it refers to.       *)
Kept(item, whole) ==
  /\ whole.type = item.type
  /\ item.support.evidence \subseteq whole.support.evidence
  /\ item.support.confidence <= whole.support.confidence
KeptAccess(access, whole) ==
  /\ access.authentication \in {"absent", "unknown", whole.authentication}
  /\ access.roles \subseteq whole.roles /\ access.permissions \subseteq whole.permissions
NothingLost ==
  \A n \in DOMAIN outputs :
    /\ \A k \in DOMAIN outputs[n].interfaces :
         LET item == outputs[n].interfaces[k]
             whole == soFar.interfaces[item.id]
         IN  /\ Kept(item, whole) /\ KeptAccess(item.access, whole.access)
             /\ item.entities \subseteq whole.entities
             /\ item.sources \subseteq whole.sources
    /\ \A k \in DOMAIN outputs[n].handlers :
         LET item == outputs[n].handlers[k]
             whole == soFar.handlers[item.id]
         IN  /\ Kept(item, whole) /\ item.interfaces \subseteq whole.interfaces
             /\ Qualifies(whole.symbol, item.symbol)

(* The findings merged so far refer to nothing they do not contain, though *)
(* each task may refer to what the tasks before it found.                  *)
AlwaysClosed ==
  /\ \A h \in Items(soFar.handlers) : h.interfaces \subseteq DOMAIN soFar.interfaces
  /\ \A r \in Items(soFar.relationships) :
       /\ {r.from, r.to} \ {Empty} \subseteq DOMAIN soFar.interfaces
       /\ {r.integration} \ {Empty} \subseteq DOMAIN soFar.integrations

(* Items that were valid in every answer are valid merged, but for one     *)
(* case: one task found the method of an endpoint without the path of its  *)
(* transport, and another found that the endpoint is JSON-RPC.             *)
MethodWithoutTransport(i) ==
  /\ i.type = "api_endpoint" /\ i.locator.protocol = "jsonrpc"
  /\ i.locator.method_name # Empty /\ i.locator.transport_path = Empty
MergedValid ==
  /\ \A i \in Items(soFar.interfaces) : ValidInterface(i) \/ MethodWithoutTransport(i)
  /\ \A g \in Items(soFar.integrations) : ValidIntegration(g)
  /\ pc = "rejected" => \E i \in Items(soFar.interfaces) : MethodWithoutTransport(i)

(* Merging is sound: it loses nothing, refers to nothing outside, and what *)
(* was valid in parts is valid as a whole.                                 *)
MergeSound == TypeOK /\ NothingLost /\ AlwaysClosed /\ MergedValid

(* webTaskSpec: "Every returned interface must include the candidate       *)
(* route-registration file in source_components, and every candidate must  *)
(* map through handler.interface_ids to its controller/action handler":    *)
(* one interface does both.                                                *)
RouteMapped ==
  \A n \in DOMAIN outputs : \A route \in Tasks[n].routes :
    LET f == mergeFindings(NoFindings, outputs[n]).findings
    IN  \E i \in AtPath(f, route) :
          Registered(i, route) /\ HandledBy(f.handlers, i.id, route)
=============================================================================
