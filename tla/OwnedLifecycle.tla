---------------------------- MODULE OwnedLifecycle --------------------------
(***************************************************************************)
(* ExecuteOwnedLifecycle: a test creates a parent and a child object in a  *)
(* target application, changes the child, and deletes both again.  The     *)
(* target holds other objects too.  Its pages are what the test knows of   *)
(* it: each request may fail, whether or not it took effect, and the page  *)
(* after a creation may show the new object, link to it, or not mention it.*)
(*                                                                         *)
(* A route bound to an identifier stands for the object with it; Stray is  *)
(* an identifier no object has: the address of a creation form may look    *)
(* like the view of an object called "create".  The page of an object that *)
(* exists is assumed to say so: it is neither missing nor redirected       *)
(* elsewhere.  A confirmation of its deletion is offered for no other.     *)
(***************************************************************************)
EXTENDS Naturals, Sequences

CONSTANTS
  Parent, Child,     (* the objects the test creates, and their entities   *)
  Others,            (* objects of the target that are not the test's      *)
  Stray,             (* an identifier without an object                    *)
  None,              (* no identifier                                      *)
  LandsElsewhere     (* may a creation end on the page of another object?  *)

Own     == {Parent, Child}
Objects == Own \cup Others

ASSUME OwnedAssumption ==
  /\ Parent # Child /\ Own \cap Others = {}
  /\ None \notin Objects \cup {Stray} /\ Stray \notin Objects
  /\ LandsElsewhere \in BOOLEAN

VARIABLES
  exists,          (* the objects the target holds                         *)
  pc,
  step,            (* of the cleanup; 0 outside it                         *)
  always,          (* is testing.cleanup "always"?                         *)
  bindings,        (* the identifier captured for each entity              *)
  cleanup,         (* cleanup[e]: "unowned", then the status of e's cleanup *)
  workflowFailed, cleanupFailed,
  status,          (* of the result; "candidate" until there is one        *)
  (* history *)
  deleted          (* objects whose deletion the test confirmed            *)

result == <<workflowFailed, cleanupFailed, status>>
vars   == <<exists, pc, step, always, bindings, cleanup, result, deleted>>

owned == {e \in Own : cleanup[e] # "unowned"}

-----------------------------------------------------------------------------
Init ==
  /\ exists = Others
  /\ pc = "begin" /\ step = 0 /\ always \in BOOLEAN
  /\ bindings = [e \in Own |-> None]
  /\ cleanup = [e \in Own |-> "unowned"]
  /\ workflowFailed = FALSE /\ cleanupFailed = FALSE
  /\ status = "candidate" /\ deleted = {}

(* The test is invalid or not allowed, there are no credentials or no      *)
(* browser, or the login fails: nothing was created.                       *)
Decline ==
  /\ pc = "begin"
  /\ status' \in {"unresolved", "blocked", "failed"}
  /\ pc' = "ended"
  /\ UNCHANGED <<exists, step, always, bindings, cleanup, workflowFailed, cleanupFailed,
                 deleted>>

Begin ==
  /\ pc = "begin" /\ pc' = "create parent"
  /\ UNCHANGED <<exists, step, always, bindings, cleanup, result, deleted>>

(* The workflow ends in an error, wherever it is; then comes the cleanup,  *)
(* if it is configured and there is anything to clean.                     *)
AfterWorkflow(owns) ==
  IF always /\ owns THEN pc' = "clean" /\ step' = 1 ELSE pc' = "report" /\ step' = 0

FailWorkflow ==
  /\ workflowFailed' = TRUE
  /\ AfterWorkflow(owned # {})
  /\ UNCHANGED <<always, bindings, cleanup, cleanupFailed, status, deleted>>

(* The page after a creation: does it show the generated value, is it the  *)
(* view of some object, and to which objects does it link?                 *)
Pages(e) ==
  [shows : BOOLEAN, at : {None, Stray, e} \cup (IF LandsElsewhere THEN Others ELSE {}),
   links : SUBSET ({e} \cup Others)]

Truthful(page, held) ==
  /\ page.at \in held \cup {None, Stray} /\ page.links \subseteq held
  /\ page.links \cap Own # {} => page.shows

(* captureRuntimeBinding: the page's own address, if it is the view of an  *)
(* object; else the links, of which the text must contain the value.       *)
Captured_AnyLink(page, e) ==                                   (* mutant *)
  IF page.at # None THEN {page.at} ELSE page.links
Captured(page, e) ==
  IF page.at # None THEN {page.at} ELSE page.links \cap {e}

(* Creation of e: ownership is established only after the resulting page   *)
(* shows the value and yields an identifier.                               *)
Create(e, next) ==
  \/ FailWorkflow /\ UNCHANGED exists
  \/ FailWorkflow /\ exists' = exists \cup {e}
  \/ \E held \in {exists, exists \cup {e}} :
       /\ exists' = held
       /\ \E page \in Pages(e) :
            /\ Truthful(page, held)
            /\ \/ /\ ~ page.shows \/ Captured(page, e) = {}
                  /\ FailWorkflow
               \/ /\ page.shows
                  /\ \E o \in Captured(page, e) : bindings' = [bindings EXCEPT ![e] = o]
                  /\ cleanup' = [cleanup EXCEPT ![e] = ""]
                  /\ pc' = next
                  /\ UNCHANGED <<step, always, result, deleted>>

CreateParent == pc = "create parent" /\ Create(Parent, "create child")
CreateChild  == pc = "create child" /\ Create(Child, "update child")

UpdateChild ==
  /\ pc = "update child"
  /\ \/ FailWorkflow
     \/ /\ AfterWorkflow(TRUE)
        /\ UNCHANGED <<always, bindings, cleanup, result, deleted>>
  /\ UNCHANGED exists

-----------------------------------------------------------------------------
(* The cleanup: child first.  For each owned object a destructive          *)
(* confirmation is opened and activated, and the object's page must then   *)
(* be unavailable.  Deleting the parent may take the child along.          *)
cleanupSteps == <<Child, Parent>>

Cascade(o) == IF o = Parent THEN SUBSET {Child} ELSE {{}}

NextStep == IF step < Len(cleanupSteps) THEN step + 1 ELSE 0

StepAfterFailure_Stop == 0                                     (* mutant *)
StepAfterFailure == NextStep

GoTo(next) ==
  /\ step' = next
  /\ pc' = IF next = 0 THEN "report" ELSE "clean"

FailCleanup(e) ==
  /\ cleanup' = [cleanup EXCEPT ![e] = "failed"]
  /\ cleanupFailed' = TRUE
  /\ GoTo(StepAfterFailure)

Cleaning(e) == pc = "clean" /\ e = cleanupSteps[step]

SkipUnowned ==
  /\ \E e \in Own \ owned : Cleaning(e)
  /\ GoTo(NextStep)
  /\ UNCHANGED <<exists, always, bindings, cleanup, result, deleted>>

(* The confirmation cannot be reached, or offers no destructive control. *)
MissConfirmation ==
  /\ \E e \in owned : Cleaning(e) /\ FailCleanup(e)
  /\ UNCHANGED <<exists, always, bindings, workflowFailed, status, deleted>>

Delete(o) ==
  /\ deleted' = deleted \cup {o}
  /\ \/ UNCHANGED exists
     \/ \E more \in Cascade(o) : exists' = exists \ ({o} \cup more)

CleanUp ==
  /\ \E e \in owned :
       /\ Cleaning(e) /\ bindings[e] \in exists
       /\ Delete(bindings[e])
       /\ \/ FailCleanup(e)
          \/ /\ bindings[e] \notin exists'
             /\ cleanup' = [cleanup EXCEPT ![e] = "verified"]
             /\ GoTo(NextStep)
             /\ UNCHANGED cleanupFailed
  /\ UNCHANGED <<always, bindings, workflowFailed, status>>

(* A failed cleanup outweighs a failed workflow; a test passes only if it  *)
(* owned something and all of it was verified deleted.                     *)
AllCleaned_NoneFailed == ~ cleanupFailed                       (* mutant *)
AllCleaned == owned # {} /\ \A e \in owned : cleanup[e] = "verified"

Outcome_WorkflowFirst ==                                       (* mutant *)
  IF workflowFailed THEN "failed"
  ELSE IF cleanupFailed \/ ~ AllCleaned THEN "cleanup_failed" ELSE "passed"
Outcome ==
  IF cleanupFailed THEN "cleanup_failed"
  ELSE IF workflowFailed THEN "failed"
  ELSE IF ~ AllCleaned THEN "cleanup_failed" ELSE "passed"

Report ==
  /\ pc = "report"
  /\ status' = Outcome
  /\ pc' = "ended"
  /\ UNCHANGED <<exists, step, always, bindings, cleanup, workflowFailed, cleanupFailed,
                 deleted>>

Next ==
  \/ Decline \/ Begin
  \/ CreateParent \/ CreateChild \/ UpdateChild
  \/ SkipUnowned \/ MissConfirmation \/ CleanUp
  \/ Report

Spec == Init /\ [][Next]_vars

-----------------------------------------------------------------------------
(* Every variable keeps its shape; ownership comes with an identifier.     *)
TypeOK ==
  /\ exists \subseteq Objects /\ deleted \subseteq Objects
  /\ pc \in {"begin", "create parent", "create child", "update child", "clean",
             "report", "ended"}
  /\ step \in 0..2 /\ (step # 0 <=> pc = "clean")
  /\ always \in BOOLEAN /\ workflowFailed \in BOOLEAN /\ cleanupFailed \in BOOLEAN
  /\ bindings \in [Own -> Objects \cup {Stray, None}]
  /\ cleanup \in [Own -> {"unowned", "", "failed", "verified"}]
  /\ \A e \in owned : bindings[e] # None
  /\ status \in {"candidate", "unresolved", "blocked", "failed", "cleanup_failed",
                 "passed"}

(* A test that passes leaves nothing of its own in the target, whatever    *)
(* the target did with the requests.                                       *)
PassedLeavesNothing == status = "passed" => exists \cap Own = {}

(* An object the test took ownership of and left behind is never hidden    *)
(* behind another failure: with cleanup "always", the result is            *)
(* cleanup_failed, also when a wrong identifier was captured for it.       *)
LeftoversReported ==
  pc = "ended" /\ always /\ owned \cap exists # {}
    => status = "cleanup_failed"

(* One object that cannot be deleted does not keep the other: each owned   *)
(* object's cleanup was tried by the end.                                  *)
AllTried ==
  pc = "ended" /\ always => \A e \in owned : cleanup[e] \in {"failed", "verified"}

(* The parent is not touched before the cleanup of an owned child was      *)
(* tried, which deleting the parent could make impossible.                 *)
ChildFirst ==
  [][bindings[Parent] \in deleted' \ deleted /\ Child \in owned
       => cleanup[Child] \in {"failed", "verified"}]_vars

(* coretests/state.go says ownership is the boundary of any destructive    *)
(* step.  No object that is not the test's own is ever deleted.            *)
OnlyOwnDeleted == deleted \subseteq Own

(* The workflow executor implements what OwnedTest promises. *)
Contract == INSTANCE OwnedTest WITH
  duty <- always, left <- exists \cap Own, claimed <- owned,
  cleaned <- {e \in Own : cleanup[e] = "verified"}, verdict <- status

OwnedContract == Contract!Spec
=============================================================================
