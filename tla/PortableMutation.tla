-------------------------- MODULE PortableMutation --------------------------
(***************************************************************************)
(* A mutating test of a portable pack: Runner.runTest, runMutating and     *)
(* cleanupPortable.  The test is data, a list of steps and a list of       *)
(* cleanups, which the runner interprets against a target that may fail    *)
(* any request, with or without effect.                                    *)
(*                                                                         *)
(* A step is a record: its type, the value it fills in or the entity it    *)
(* waits for, and the entities in the route it opens.  A value bears the   *)
(* name of the object its submission creates; any other value updates; the *)
(* asserted ones are expected by an assertion of the test.                 *)
(* Stray is an identifier no object has, read off the address of a form.   *)
(***************************************************************************)
EXTENDS Naturals, Sequences, FiniteSets, SequencesExt

CONSTANTS
  Own, Others,     (* the objects the tests create; those of others        *)
  Stray, None,     (* an identifier without an object; no identifier       *)
  Tests            (* the tests: [steps, asserted, cleanup] records        *)

Objects == Own \cup Others

(* How the generator of tests writes one: what is filled in to create an   *)
(* object is submitted at once, and the object waited for after that; what *)
(* is waited for has been submitted, and is cleaned up once.               *)
Generated(t) ==
  /\ t.cleanup \in Seq(Own) /\ IsInjective(t.cleanup)
  /\ Len(t.steps) \in Nat /\ DOMAIN t.steps = 1 .. Len(t.steps)
  /\ \A i \in DOMAIN t.steps :
       /\ t.steps[i].type = "wait_for" =>
            /\ i > 1 /\ t.steps[i - 1].type = "submit"
            /\ t.steps[i].entity \in Range(t.cleanup)
       /\ t.steps[i].type = "fill" /\ t.steps[i].value \in Own =>
            /\ i + 2 <= Len(t.steps) /\ t.steps[i + 1].type = "submit"
            /\ t.steps[i + 2] = [type |-> "wait_for", entity |-> t.steps[i].value]

PortableAssumption ==
  /\ Own \cap Others = {} /\ {Stray, None} \cap Objects = {} /\ Stray # None
  /\ \A t \in Tests : Generated(t)

VARIABLES
  test, pc,
  exists,          (* the objects the target holds                         *)
  at,              (* the index of the step, or of the cleanup             *)
  page,            (* the page the browser shows                           *)
  pending,         (* is a form filled in and not yet submitted?           *)
  filled,          (* the value of the last fill; None at first            *)
  bindings,        (* the identifier captured for each entity              *)
  cleanup,         (* "unowned", then the CleanupStatus of the object      *)
  workflowErr, failures,
  status,
  (* history *)
  deleted          (* objects whose deletion was confirmed                 *)

progress == <<pc, at>>
form == <<pending, filled>>
ownership == <<bindings, cleanup>>
result == <<workflowErr, failures, status>>
vars == <<test, progress, exists, page, form, ownership, result, deleted>>

owned == {e \in Own : cleanup[e] # "unowned"}

-----------------------------------------------------------------------------
(* A page: does it have a matching form, what does it show, which object's *)
(* page does its address look like, and to which objects does it link?     *)
Pages ==
  [control : BOOLEAN, shows : BOOLEAN, at : {None, Stray} \cup Own, links : SUBSET Objects]

Truthful(p, held, value) ==
  /\ p.at \in ({value} \cap held \cap Own) \cup {None, Stray}
  /\ p.links \subseteq held /\ p.links \cap Own \subseteq {value}
  /\ value \in p.links => p.shows

Init ==
  /\ test \in Tests /\ pc = "begin" /\ at = 1
  /\ exists = Others
  /\ page = [control |-> FALSE, shows |-> FALSE, at |-> None, links |-> {}]
  /\ pending = FALSE /\ filled = None
  /\ bindings = [e \in Own |-> None] /\ cleanup = [e \in Own |-> "unowned"]
  /\ workflowErr = FALSE /\ failures = FALSE /\ status = "candidate"
  /\ deleted = {}

(* runTest: mutations are disabled, credentials or the browser are         *)
(* missing, the login fails or the browser cannot submit forms.            *)
Decline ==
  /\ pc = "begin"
  /\ status' \in {"blocked", "failed", "unresolved"} /\ pc' = "ended"
  /\ UNCHANGED <<test, at, exists, page, form, ownership, workflowErr, failures, deleted>>

Begin ==
  /\ pc = "begin" /\ pc' = "steps"
  /\ UNCHANGED <<test, at, exists, page, form, ownership, result, deleted>>

(* The first error ends the workflow, and so does the last step; then the  *)
(* cleanup begins, whatever there is to clean.                             *)
ToCleanup == pc' = "cleanup" /\ at' = 1

AfterError == ToCleanup

FailStep ==
  /\ workflowErr' = TRUE /\ AfterError
  /\ UNCHANGED <<test, page, form, ownership, failures, status, deleted>>

At(type) == pc = "steps" /\ at <= Len(test.steps) /\ test.steps[at].type = type
Done == at' = at + 1 /\ UNCHANGED <<test, pc, result, deleted>>
Step == test.steps[at]

EndOfSteps ==
  /\ pc = "steps" /\ at > Len(test.steps)
  /\ ToCleanup
  /\ UNCHANGED <<test, exists, page, form, ownership, result, deleted>>

(* A route with a parameter nothing was captured for cannot be opened. *)
Resolves(entities) == \A e \in entities : bindings[e] # None

NavigateStep ==
  /\ At("navigate")
  /\ \/ FailStep
     \/ /\ Resolves(Step.route)
        /\ \E p \in Pages : Truthful(p, exists, None) /\ p.links = {} /\ page' = p
        /\ pending' = FALSE
        /\ Done /\ UNCHANGED <<filled, ownership>>
  /\ UNCHANGED exists

Fill ==
  /\ At("fill")
  /\ \/ ~ page.control /\ FailStep
     \/ /\ page.control
        /\ pending' = TRUE /\ filled' = Step.value
        /\ Done /\ UNCHANGED <<page, ownership>>
  /\ UNCHANGED exists

(* The request may be lost, refused, carried out, or carried out with its  *)
(* answer lost.                                                            *)
Submit ==
  /\ At("submit")
  /\ \/ ~ pending /\ FailStep /\ UNCHANGED exists
     \/ /\ pending
        /\ exists' \in {exists, exists \cup ({filled} \cap Own)}
        /\ \/ FailStep
           \/ /\ \E p \in Pages : Truthful(p, exists', filled) /\ page' = p
              /\ pending' = FALSE
              /\ Done /\ UNCHANGED <<filled, ownership>>

(* capturePortableBinding: the page's own address if it is a view; else a  *)
(* link whose text contains the generated value.                           *)
Captured_AnyLink(p, e) ==                                      (* mutant *)
  IF p.at # None THEN {p.at} ELSE p.links
Captured(p, e) ==
  IF p.at # None THEN {p.at} ELSE p.links \cap {e}

Asserted == filled \in test.asserted

WaitFor ==
  /\ At("wait_for")
  /\ LET e == Step.entity IN
     \/ /\ filled # e \/ ~ Asserted \/ ~ page.shows \/ Captured(page, e) = {}
        /\ FailStep
     \/ /\ filled = e /\ Asserted /\ page.shows
        /\ \E o \in Captured(page, e) : bindings' = [bindings EXCEPT ![e] = o]
        /\ cleanup' = [cleanup EXCEPT ![e] = ""]
        /\ Done /\ UNCHANGED <<page, form>>
  /\ UNCHANGED exists

(* Only a value that is asserted has to be on the page. *)
Observe ==
  /\ At("observe")
  /\ \/ Asserted /\ ~ page.shows /\ FailStep
     \/ (Asserted => page.shows) /\ Done /\ UNCHANGED <<page, form, ownership>>
  /\ UNCHANGED exists

-----------------------------------------------------------------------------
(* cleanupPortable: every listed object that is owned, in the order of the *)
(* list; a failure of one does not keep the next from being tried.         *)
Cleaning(e) == pc = "cleanup" /\ at <= Len(test.cleanup) /\ e = test.cleanup[at]

FailCleanup ==
  /\ failures' = TRUE /\ at' = at + 1
  /\ UNCHANGED <<test, pc, page, form, bindings, workflowErr, status>>

Mark(e, s) == cleanup' = [cleanup EXCEPT ![e] = s]

SkipUnowned ==
  /\ \E e \in Own \ owned : Cleaning(e)
  /\ at' = at + 1
  /\ UNCHANGED <<test, pc, exists, page, form, ownership, result, deleted>>

(* The route cannot be opened, or the page offers nothing that reads like  *)
(* a confirmation.  Only the latter is noted at the object.                *)
MissConfirmation ==
  /\ \E e \in owned : Cleaning(e) /\ (UNCHANGED cleanup \/ Mark(e, "failed"))
  /\ FailCleanup
  /\ UNCHANGED <<exists, deleted>>

Confirmed(o) ==
  /\ deleted' = deleted \cup {o}
  /\ \/ UNCHANGED exists
     \/ \E more \in SUBSET (exists \cap Own) : exists' = exists \ ({o} \cup more)

LoseActivation ==
  /\ \E e \in owned : Cleaning(e) /\ bindings[e] \in exists /\ Confirmed(bindings[e])
  /\ FailCleanup
  /\ UNCHANGED cleanup

(* portableUnavailable decides on the page of the object afterwards. *)
Unavailable_Trusting(o) == TRUE                                (* mutant *)
Unavailable(o) == o \notin exists'

CleanUp ==
  /\ \E e \in owned :
       /\ Cleaning(e) /\ bindings[e] \in exists /\ Confirmed(bindings[e])
       /\ \/ Mark(e, "failed") /\ FailCleanup
          \/ /\ Unavailable(bindings[e])
             /\ Mark(e, "verified")
             /\ at' = at + 1
             /\ UNCHANGED <<test, pc, page, form, bindings, result>>

allPortableCleaned == \A e \in owned : cleanup[e] = "verified"

Outcome ==
  IF failures THEN "cleanup_failed"
  ELSE IF workflowErr THEN "failed"
  ELSE IF owned = {} \/ ~ allPortableCleaned THEN "cleanup_failed" ELSE "passed"

Judge ==
  /\ \/ pc = "judge" \/ (pc = "cleanup" /\ at > Len(test.cleanup))
  /\ status' = Outcome /\ pc' = "ended"
  /\ UNCHANGED <<test, at, exists, page, form, ownership, workflowErr, failures, deleted>>

Next ==
  \/ Decline \/ Begin \/ EndOfSteps
  \/ NavigateStep \/ Fill \/ Submit \/ WaitFor \/ Observe
  \/ SkipUnowned \/ MissConfirmation \/ LoseActivation \/ CleanUp \/ Judge

Spec == Init /\ [][Next]_vars

-----------------------------------------------------------------------------
(* Every variable keeps its shape; what is owned has an identifier. *)
TypeOK ==
  /\ pc \in {"begin", "steps", "cleanup", "judge", "ended"}
  /\ test \in Tests /\ at \in 1 .. (Len(test.steps) + Len(test.cleanup) + 1)
  /\ exists \subseteq Objects /\ deleted \subseteq Objects /\ page \in Pages
  /\ pending \in BOOLEAN /\ workflowErr \in BOOLEAN /\ failures \in BOOLEAN
  /\ bindings \in [Own -> Objects \cup {Stray, None}]
  /\ cleanup \in [Own -> {"unowned", "", "failed", "verified"}]
  /\ \A e \in owned : bindings[e] # None
  /\ status \in {"candidate", "blocked", "unresolved", "failed", "cleanup_failed", "passed"}

(* No object of somebody else is deleted, on a target whose pages have the *)
(* address of no object but the one the page is about.                     *)
OthersKept == Others \subseteq exists /\ deleted \subseteq Own

(* Every owned object the test lists was looked after, also after an error *)
(* in the workflow: it is verified gone or the cleanup is said to fail.    *)
ListedTried ==
  pc = "ended" =>
    \A e \in owned \cap Range(test.cleanup) :
      cleanup[e] = "verified" \/ status = "cleanup_failed"

(* A test that lists all it may own is the executor of what OwnedTest      *)
(* promises: a pass leaves nothing, leftovers it knows of are reported.    *)
Contract == INSTANCE OwnedTest WITH
  duty <- TRUE, left <- exists \cap Own, claimed <- owned,
  cleaned <- {e \in Own : cleanup[e] = "verified"}, verdict <- status

OwnedContract == Contract!Spec

(* The server announces of a mutating test "Cleanup: Always": at its end,  *)
(* what it created is gone or its cleanup was tried.                       *)
CleanupAlways ==
  pc = "ended" => exists \cap Own \subseteq owned
=============================================================================
