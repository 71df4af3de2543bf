------------------------ MODULE OwnedLifecycleProofs ------------------------
(***************************************************************************)
(* What the tests that change a target guarantee.                          *)
(*                                                                         *)
(* The executor's workflow, for every set of other objects in the target:  *)
(* AllTried needs nothing of the target; the other properties need         *)
(* creations to end on no other object's page.  The portable runner's      *)
(* mutation, for every pack of tests of the generator's shape.  The report *)
(* of any number of runs, and the server, for every pack and number of     *)
(* jobs and kills.                                                         *)
(***************************************************************************)
EXTENDS MCOwnedTests, FiniteSetTheorems, TLAPS

Working == {"create parent", "create child", "update child"}

(* Where the test is, and what it owns by then.                            *)
Phases ==
  /\ pc \in {"begin", "create parent"} => \A e \in Own : cleanup[e] = "unowned"
  /\ pc = "create child" => cleanup[Parent] = ""
  /\ pc \in Working => \A e \in Own : cleanup[e] \in {"unowned", ""}
  /\ pc \in Working \cup {"begin"} => ~ workflowFailed /\ ~ cleanupFailed
  /\ pc \notin {"begin", "create parent", "create child", "ended"} /\ ~ workflowFailed
       => \A e \in Own : cleanup[e] # "unowned"

(* The cleanup leaves nobody out, and a failure in it is remembered.       *)
Tried ==
  /\ step = 2 => cleanup[Child] # ""
  /\ pc \in {"report", "ended"} /\ always => \A e \in Own : cleanup[e] # ""
  /\ \A e \in Own : cleanup[e] = "failed" => cleanupFailed

(* The result follows the flags.                                           *)
Reported ==
  /\ pc # "ended" => status = "candidate"
  /\ pc = "ended" /\ cleanupFailed => status = "cleanup_failed"
  /\ status = "passed" => \A e \in Own : cleanup[e] = "verified"

(* The type invariant, in parts.                                           *)
Control ==
  /\ pc \in Working \cup {"begin", "clean", "report", "ended"}
  /\ step \in {0, 1, 2}
  /\ step # 0 => pc = "clean"
  /\ pc = "clean" => step # 0
  /\ status \in {"candidate", "unresolved", "blocked", "failed", "cleanup_failed",
                 "passed"}
Flags == always \in BOOLEAN /\ workflowFailed \in BOOLEAN /\ cleanupFailed \in BOOLEAN
Target == exists \subseteq Objects /\ deleted \subseteq Objects
Known ==
  /\ bindings \in [Own -> Objects \cup {Stray, None}]
  /\ cleanup \in [Own -> {"unowned", "", "failed", "verified"}]
  /\ \A e \in Own : cleanup[e] # "unowned" => bindings[e] # None

Tracking ==
  Control /\ Flags /\ Target /\ Known /\ Phases /\ Tried /\ Reported

(* What was verified is gone, and an identifier names its object or none.  *)
Honest ==
  /\ \A e \in Own : bindings[e] \in {None, Stray, e}
  /\ \A e \in Own : cleanup[e] = "verified" => e \notin exists
  /\ deleted \subseteq Own

-----------------------------------------------------------------------------
LEMMA Steps ==
  /\ Len(cleanupSteps) = 2
  /\ cleanupSteps[1] = Child /\ cleanupSteps[2] = Parent
BY DEF cleanupSteps

LEMMA StepsMove ==
  ASSUME Control, pc = "clean"
  PROVE  /\ step \in {1, 2}
         /\ step = 1 => NextStep = 2 /\ StepAfterFailure = 2
         /\ step = 2 => NextStep = 0 /\ StepAfterFailure = 0
<1>1. step \in {1, 2}
  BY DEF Control
<1> QED
  BY <1>1, Steps DEF NextStep, StepAfterFailure

LEMMA CleaningOne ==
  ASSUME NEW e \in Own, Cleaning(e)
  PROVE  /\ step = 1 => e = Child
         /\ step = 2 => e = Parent
BY Steps DEF Cleaning

LEMMA TypeParts == Control /\ Flags /\ Target /\ Known => TypeOK
<1>1. ASSUME Control
      PROVE  /\ pc \in {"begin", "create parent", "create child", "update child", "clean",
                        "report", "ended"}
             /\ step \in 0..2 /\ (step # 0 <=> pc = "clean")
             /\ status \in {"candidate", "unresolved", "blocked", "failed",
                            "cleanup_failed", "passed"}
  <2>1. step \in 0..2
    BY <1>1 DEF Control
  <2>2. step # 0 <=> pc = "clean"
    BY <1>1 DEF Control
  <2> QED
    BY <1>1, <2>1, <2>2 DEF Control, Working
<1>2. Known => \A e \in owned : bindings[e] # None
  BY DEF Known, owned
<1> QED
  BY <1>1, <1>2, Zenon DEF Flags, Target, Known, TypeOK

LEMMA TrackingInit == Init => Tracking
<1> SUFFICES ASSUME Init PROVE Tracking
  OBVIOUS
<1>1. Control
  BY DEF Init, Control, Working
<1>2. Flags
  BY Zenon DEF Init, Flags
<1>3. Target
  BY DEF Init, Target, Objects
<1>4. Known
  BY DEF Init, Known
<1>5. Phases
  BY DEF Init, Phases, Working
<1>6. Tried
  BY DEF Init, Tried
<1>7. Reported
  BY DEF Init, Reported
<1> QED
  BY <1>1, <1>2, <1>3, <1>4, <1>5, <1>6, <1>7 DEF Tracking

(* What the end of the workflow does, whether it failed or not.            *)
LEMMA FailEffect ==
  ASSUME Tracking, FailWorkflow, pc \in Working, exists' \subseteq Objects
  PROVE  Tracking'
<1>1. /\ workflowFailed' = TRUE
      /\ UNCHANGED <<always, bindings, cleanup, cleanupFailed, status, deleted>>
  BY DEF FailWorkflow
<1>2. \/ pc' = "clean" /\ step' = 1
      \/ pc' = "report" /\ step' = 0 /\ (always => owned = {})
  BY DEF FailWorkflow, AfterWorkflow
<1>3. owned = {} => \A e \in Own : cleanup[e] = "unowned"
  BY DEF owned
<1>4. Control'
  <2>1. status' \in {"candidate", "unresolved", "blocked", "failed", "cleanup_failed",
                     "passed"}
    BY <1>1 DEF Tracking, Control
  <2>2. CASE pc' = "clean" /\ step' = 1
    BY <2>1, <2>2 DEF Control
  <2>3. CASE pc' = "report" /\ step' = 0
    BY <2>1, <2>3 DEF Control
  <2> QED
    BY <1>2, <2>2, <2>3
<1>5. Flags'
  BY <1>1, Zenon DEF Tracking, Flags
<1>6. Target' /\ Known'
  BY <1>1 DEF Tracking, Target, Known
<1>7. Phases'
  BY <1>1, <1>2 DEF Phases, Working
<1>8. Tried'
  <2>1. \A e \in Own : cleanup'[e] = "failed" => cleanupFailed'
    BY <1>1 DEF Tracking, Tried
  <2>2. step' # 2
    BY <1>2
  <2>3. pc' \in {"report", "ended"} /\ always' => \A e \in Own : cleanup'[e] # ""
    BY <1>1, <1>2, <1>3
  <2> QED
    BY <2>1, <2>2, <2>3 DEF Tried
<1>9. Reported'
  BY <1>1, <1>2 DEF Tracking, Reported, Working
<1> QED
  BY <1>4, <1>5, <1>6, <1>7, <1>8, <1>9 DEF Tracking

(* A creation ends in a failure or in the ownership of its object.         *)
LEMMA CreateEffect ==
  ASSUME Target, NEW e \in Own, NEW next, Create(e, next)
  PROVE  /\ exists' \subseteq Objects
         /\ \/ FailWorkflow
            \/ /\ \E o \in {Stray, e} \cup Others :
                    /\ ~ LandsElsewhere => o \in {Stray, e}
                    /\ bindings' = [bindings EXCEPT ![e] = o]
               /\ cleanup' = [cleanup EXCEPT ![e] = ""]
               /\ pc' = next
               /\ UNCHANGED <<step, always, result, deleted>>
<1>1. exists' \in {exists, exists \cup {e}}
  BY DEF Create
<1>2. exists' \subseteq Objects
  BY <1>1 DEF Target, Objects
<1>3. CASE FailWorkflow
  BY <1>2, <1>3
<1>4. CASE ~ FailWorkflow
  <2>1. PICK shown \in Pages(e) :
          /\ \E o \in Captured(shown, e) : bindings' = [bindings EXCEPT ![e] = o]
          /\ cleanup' = [cleanup EXCEPT ![e] = ""]
          /\ pc' = next
          /\ UNCHANGED <<step, always, result, deleted>>
    BY <1>4 DEF Create
  <2>2. shown.at \in {None, Stray, e} \cup (IF LandsElsewhere THEN Others ELSE {})
    BY DEF Pages
  <2>3. ASSUME NEW o \in Captured(shown, e)
        PROVE  /\ o \in {Stray, e} \cup Others
               /\ ~ LandsElsewhere => o \in {Stray, e}
    BY <2>2, <2>3 DEF Captured
  <2> QED
    BY <1>2, <2>1, <2>3
<1> QED
  BY <1>3, <1>4

LEMMA TrackingStep == Tracking /\ [Next]_vars => Tracking'
<1> SUFFICES ASSUME Tracking, [Next]_vars PROVE Tracking'
  OBVIOUS
<1>1. CASE Decline
  <2>1. /\ pc = "begin" /\ pc' = "ended"
        /\ status' \in {"unresolved", "blocked", "failed"}
        /\ UNCHANGED <<exists, step, always, bindings, cleanup, workflowFailed,
                       cleanupFailed, deleted>>
    BY <1>1 DEF Decline
  <2>2. Control' /\ Flags' /\ Target' /\ Known'
    BY <2>1 DEF Tracking, Control, Flags, Target, Known
  <2>3. Phases' /\ Tried' /\ Reported'
    BY <2>1 DEF Tracking, Control, Phases, Tried, Reported, Working
  <2> QED
    BY <2>2, <2>3 DEF Tracking
<1>2. CASE Begin
  <2>1. /\ pc = "begin" /\ pc' = "create parent"
        /\ UNCHANGED <<exists, step, always, bindings, cleanup, workflowFailed,
                       cleanupFailed, status, deleted>>
    BY <1>2 DEF Begin, result
  <2>2. Control' /\ Flags' /\ Target' /\ Known'
    BY <2>1 DEF Tracking, Control, Flags, Target, Known, Working
  <2>3. Phases' /\ Tried' /\ Reported'
    BY <2>1 DEF Tracking, Control, Phases, Tried, Reported, Working
  <2> QED
    BY <2>2, <2>3 DEF Tracking
<1>3. ASSUME NEW e \in Own, NEW next, Create(e, next),
             \/ e = Parent /\ pc = "create parent" /\ next = "create child"
             \/ e = Child /\ pc = "create child" /\ next = "update child"
      PROVE  Tracking'
  <2>1. pc \in Working /\ pc # "ended"
    BY <1>3 DEF Working
  <2>2. CASE FailWorkflow
    BY <1>3, <2>1, <2>2, FailEffect, CreateEffect DEF Tracking
  <2>3. CASE ~ FailWorkflow
    <3>1. /\ exists' \subseteq Objects
          /\ \E o \in {Stray, e} \cup Others : bindings' = [bindings EXCEPT ![e] = o]
          /\ cleanup' = [cleanup EXCEPT ![e] = ""]
          /\ pc' = next
          /\ UNCHANGED <<step, always, workflowFailed, cleanupFailed, status, deleted>>
      BY <1>3, <2>3, CreateEffect DEF Tracking, result
    <3>2. \A x \in Own : cleanup'[x] = IF x = e THEN "" ELSE cleanup[x]
      BY <3>1 DEF Tracking, Known
    <3>3. Known'
      <4>1. PICK o \in {Stray, e} \cup Others : bindings' = [bindings EXCEPT ![e] = o]
        BY <3>1
      <4>2. o \in Objects \cup {Stray} /\ o # None
        BY <1>3, OwnedAssumption DEF Objects
      <4> QED
        BY <3>1, <3>2, <4>1, <4>2 DEF Tracking, Known
    <3>4. Control' /\ Flags' /\ Target'
      BY <1>3, <3>1 DEF Tracking, Control, Flags, Target, Working
    <3>5. Phases'
      BY <1>3, <3>1, <3>2, OwnedAssumption DEF Tracking, Phases, Working, Own
    <3>6. Tried'
      <4>1. step' = 0 /\ pc' \notin {"report", "ended"}
        BY <1>3, <3>1 DEF Tracking, Control
      <4>2. ASSUME NEW x \in Own, cleanup'[x] = "failed" PROVE cleanupFailed'
        <5>1. cleanup[x] = "failed"
          BY <3>2, <4>2
        <5>2. cleanupFailed
          BY <5>1 DEF Tracking, Tried
        <5> QED
          BY <3>1, <5>2
      <4> QED
        <5>1. step' # 2
          BY <4>1
        <5> QED
          BY <4>1, <4>2, <5>1, Zenon DEF Tried
    <3>7. Reported'
      BY <1>3, <3>1 DEF Tracking, Reported
    <3> QED
      BY <3>3, <3>4, <3>5, <3>6, <3>7 DEF Tracking
  <2> QED
    BY <2>2, <2>3
<1>4. CASE CreateParent
  BY <1>3, <1>4 DEF CreateParent, Own
<1>5. CASE CreateChild
  BY <1>3, <1>5 DEF CreateChild, Own
<1>6. CASE UpdateChild
  <2>1. exists' = exists /\ exists' \subseteq Objects /\ pc = "update child"
    BY <1>6 DEF UpdateChild, Tracking, Target
  <2>2. CASE FailWorkflow
    BY <2>1, <2>2, FailEffect DEF Working
  <2>3. CASE ~ FailWorkflow
    <3>1. /\ UNCHANGED <<always, bindings, cleanup, workflowFailed, cleanupFailed, status,
                         deleted>>
          /\ \/ pc' = "clean" /\ step' = 1
             \/ pc' = "report" /\ step' = 0 /\ ~ always
      BY <1>6, <2>3 DEF UpdateChild, AfterWorkflow, result
    <3>2. Control'
      <4>1. status' \in {"candidate", "unresolved", "blocked", "failed", "cleanup_failed",
                         "passed"}
        BY <3>1 DEF Tracking, Control
      <4>2. CASE pc' = "clean" /\ step' = 1
        BY <4>1, <4>2 DEF Control
      <4>3. CASE pc' = "report" /\ step' = 0
        BY <4>1, <4>3 DEF Control
      <4> QED
        BY <3>1, <4>2, <4>3
    <3>3. Flags' /\ Target' /\ Known'
      BY <2>1, <3>1 DEF Tracking, Flags, Target, Known
    <3>4. Phases'
      BY <2>1, <3>1 DEF Tracking, Phases, Working
    <3>5. Tried'
      <4>1. step' # 2 /\ ~ (pc' \in {"report", "ended"} /\ always')
        BY <3>1
      <4>2. \A x \in Own : cleanup'[x] = "failed" => cleanupFailed'
        BY <3>1 DEF Tracking, Tried
      <4> QED
        BY <4>1, <4>2 DEF Tried
    <3>6. Reported'
      BY <2>1, <3>1 DEF Tracking, Reported
    <3> QED
      BY <3>2, <3>3, <3>4, <3>5, <3>6 DEF Tracking
  <2> QED
    BY <2>2, <2>3
<1>7. CASE SkipUnowned
  <2>1. PICK e \in Own : Cleaning(e) /\ cleanup[e] = "unowned"
    BY <1>7 DEF SkipUnowned, owned
  <2>2. /\ pc = "clean" /\ step' = NextStep
        /\ pc' = IF NextStep = 0 THEN "report" ELSE "clean"
        /\ UNCHANGED <<exists, always, bindings, cleanup, workflowFailed, cleanupFailed,
                       status, deleted>>
    BY <1>7, <2>1 DEF SkipUnowned, GoTo, Cleaning, result
  <2>3. \/ step = 1 /\ e = Child /\ step' = 2 /\ pc' = "clean"
        \/ step = 2 /\ e = Parent /\ step' = 0 /\ pc' = "report"
    BY <2>1, <2>2, StepsMove, CleaningOne DEF Tracking
  <2>4. Control'
    BY <2>2, <2>3 DEF Tracking, Control
  <2>5. Flags' /\ Target' /\ Known'
    BY <2>2 DEF Tracking, Flags, Target, Known
  <2>6. Phases'
    BY <2>2, <2>3 DEF Tracking, Phases, Working
  <2>7. Tried'
    <3>1. \A x \in Own : cleanup'[x] = "failed" => cleanupFailed'
      BY <2>2 DEF Tracking, Tried
    <3>2. step' = 2 => cleanup'[Child] # ""
      <4>1. step' = 2 => e = Child
        BY <2>3
      <4> QED
        BY <2>1, <2>2, <4>1
    <3>3. pc' \in {"report", "ended"} => \A x \in Own : cleanup'[x] # ""
      BY <2>1, <2>2, <2>3 DEF Tracking, Tried, Own
    <3> QED
      BY <3>1, <3>2, <3>3 DEF Tried
  <2>8. Reported'
    BY <2>2, <2>3 DEF Tracking, Reported
  <2> QED
    BY <2>4, <2>5, <2>6, <2>7, <2>8 DEF Tracking
<1>8. ASSUME NEW e \in owned, Cleaning(e), NEW s \in {"failed", "verified"},
             s = "failed" => cleanupFailed' = TRUE /\ GoTo(StepAfterFailure),
             s = "verified" => cleanupFailed' = cleanupFailed /\ GoTo(NextStep),
             cleanup' = [cleanup EXCEPT ![e] = s],
             UNCHANGED <<always, bindings, workflowFailed, status>>,
             exists' \subseteq Objects, deleted' \subseteq Objects
      PROVE  Tracking'
  <2>1. e \in Own /\ pc = "clean" /\ cleanup[e] # "unowned"
    BY <1>8 DEF Cleaning, owned
  <2>2. \/ step = 1 /\ e = Child /\ step' = 2 /\ pc' = "clean"
        \/ step = 2 /\ e = Parent /\ step' = 0 /\ pc' = "report"
    BY <1>8, <2>1, StepsMove, CleaningOne DEF Tracking, GoTo
  <2>3. \A x \in Own : cleanup'[x] = IF x = e THEN s ELSE cleanup[x]
    BY <1>8 DEF Tracking, Known
  <2>4. cleanupFailed' = TRUE \/ cleanupFailed' = cleanupFailed
    BY <1>8
  <2>5. Control'
    BY <1>8, <2>2 DEF Tracking, Control
  <2>6. Flags'
    BY <1>8, <2>4, Zenon DEF Tracking, Flags
  <2>7. Target' /\ Known'
    BY <1>8, <2>1, <2>3 DEF Tracking, Target, Known
  <2>8. Phases'
    BY <1>8, <2>1, <2>2, <2>3 DEF Tracking, Phases, Working
  <2>9. Tried'
    <3>1. ASSUME NEW x \in Own, cleanup'[x] = "failed" PROVE cleanupFailed'
      <4>1. CASE s = "failed"
        BY <1>8, <4>1
      <4>2. CASE s = "verified"
        <5>1. cleanup[x] = "failed"
          BY <2>3, <3>1, <4>2
        <5>2. cleanupFailed
          BY <5>1 DEF Tracking, Tried
        <5> QED
          BY <1>8, <4>2, <5>2
      <4> QED
        BY <4>1, <4>2
    <3>2. step' = 2 => cleanup'[Child] # ""
      <4>1. step' = 2 => e = Child
        BY <2>2
      <4> QED
        BY <2>1, <2>3, <4>1
    <3>3. pc' \in {"report", "ended"} => \A x \in Own : cleanup'[x] # ""
      BY <2>1, <2>2, <2>3 DEF Tracking, Tried, Own
    <3> QED
      BY <3>1, <3>2, <3>3 DEF Tried
  <2>10. Reported'
    BY <1>8, <2>1, <2>2 DEF Tracking, Reported
  <2> QED
    BY <2>5, <2>6, <2>7, <2>8, <2>9, <2>10 DEF Tracking
<1>9. CASE MissConfirmation
  <2>1. /\ \E e \in owned : Cleaning(e) /\ FailCleanup(e)
        /\ UNCHANGED <<exists, always, bindings, workflowFailed, status, deleted>>
    BY <1>9 DEF MissConfirmation
  <2> QED
    BY <1>8, <2>1 DEF FailCleanup, Tracking, Target
<1>10. CASE CleanUp
  <2>1. PICK e \in owned :
          /\ Cleaning(e) /\ bindings[e] \in exists
          /\ Delete(bindings[e])
          /\ \/ FailCleanup(e)
             \/ /\ cleanup' = [cleanup EXCEPT ![e] = "verified"]
                /\ GoTo(NextStep)
                /\ UNCHANGED cleanupFailed
    BY <1>10 DEF CleanUp
  <2>2. UNCHANGED <<always, bindings, workflowFailed, status>>
    BY <1>10 DEF CleanUp
  <2>3. exists' \subseteq Objects /\ deleted' \subseteq Objects
    BY <2>1 DEF Delete, Tracking, Target
  <2>4. CASE FailCleanup(e)
    BY <1>8, <2>1, <2>2, <2>3, <2>4 DEF FailCleanup
  <2> QED
    BY <1>8, <2>1, <2>2, <2>3, <2>4
<1>11. CASE Report
  <2>1. /\ pc = "report" /\ pc' = "ended" /\ status' = Outcome
        /\ UNCHANGED <<exists, step, always, bindings, cleanup, workflowFailed,
                       cleanupFailed, deleted>>
    BY <1>11 DEF Report
  <2>2. /\ Outcome \in {"failed", "cleanup_failed", "passed"}
        /\ cleanupFailed => Outcome = "cleanup_failed"
        /\ Outcome = "passed" => ~ workflowFailed /\ AllCleaned
    BY DEF Outcome
  <2>3. Outcome = "passed" => \A e \in Own : cleanup[e] = "verified"
    BY <2>1, <2>2 DEF AllCleaned, Tracking, Phases, owned
  <2>4. Control'
    BY <2>1, <2>2 DEF Tracking, Control
  <2>5. Flags' /\ Target' /\ Known'
    BY <2>1 DEF Tracking, Flags, Target, Known
  <2>6. Phases' /\ Reported'
    BY <2>1, <2>2, <2>3 DEF Phases, Reported, Working
  <2>7. Tried'
    BY <2>1 DEF Tracking, Control, Tried
  <2> QED
    BY <2>4, <2>5, <2>6, <2>7 DEF Tracking
<1>12. CASE UNCHANGED vars
  BY <1>12, ZenonT(60)
  DEF vars, result, Tracking, Control, Flags, Target, Known, Phases, Tried, Reported
<1> QED
  BY <1>1, <1>2, <1>4, <1>5, <1>6, <1>7, <1>9, <1>10, <1>11, <1>12 DEF Next

THEOREM TrackingInvariant == Spec => []Tracking
BY TrackingInit, TrackingStep, PTL DEF Spec

(* Every variable keeps its shape: ownership comes with an identifier.     *)
THEOREM TypeCorrect == Spec => []TypeOK
<1>1. Tracking => TypeOK
  BY TypeParts DEF Tracking
<1> QED
  BY <1>1, TrackingInvariant, PTL

(* Every owned object's cleanup was tried by the end of a test whose       *)
(* cleanup is "always", whichever failed before it, in any target.         *)
THEOREM AllOwnedTried == Spec => []AllTried
<1>1. Tracking => AllTried
  <2> SUFFICES ASSUME Tracking, pc = "ended", always, NEW e \in owned
               PROVE  cleanup[e] \in {"failed", "verified"}
    BY DEF AllTried
  <2> QED
    BY DEF Tracking, Known, Tried, owned
<1> QED
  BY <1>1, TrackingInvariant, PTL

-----------------------------------------------------------------------------
(* From here on no creation ends on the page of an object that is not the  *)
(* test's.                                                                 *)
Safe == Tracking /\ Honest

LEMMA HonestInit == Init => Honest
BY DEF Init, Honest

(* What the cleanup deletes is the object whose turn it is.                *)
LEMMA CleanUpDeletesOwn ==
  ASSUME Safe, NEW e \in owned, bindings[e] \in exists
  PROVE  e \in Own /\ bindings[e] = e
BY OwnedAssumption DEF Safe, Tracking, Target, Honest, owned

LEMMA CreateHonest ==
  ASSUME Safe, ~ LandsElsewhere, NEW e \in Own, NEW next, Create(e, next), pc \in Working
  PROVE  Honest'
<1>1. \A x \in Own : cleanup[x] \in {"unowned", ""}
  BY DEF Safe, Tracking, Phases
<1>2. CASE FailWorkflow
  <2>1. UNCHANGED <<bindings, cleanup, deleted>>
    BY <1>2 DEF FailWorkflow
  <2> QED
    BY <1>1, <2>1 DEF Safe, Honest
<1>3. CASE ~ FailWorkflow
  <2>1. PICK o \in {Stray, e} : bindings' = [bindings EXCEPT ![e] = o]
    BY <1>3, CreateEffect DEF Safe, Tracking
  <2>2. cleanup' = [cleanup EXCEPT ![e] = ""] /\ deleted' = deleted
    BY <1>3, CreateEffect DEF Safe, Tracking
  <2>3. \A x \in Own : bindings'[x] \in {None, Stray, x}
    BY <2>1 DEF Safe, Tracking, Known, Honest
  <2>4. \A x \in Own : cleanup'[x] # "verified"
    BY <1>1, <2>2 DEF Safe, Tracking, Known
  <2> QED
    BY <2>2, <2>3, <2>4 DEF Safe, Honest
<1> QED
  BY <1>2, <1>3

LEMMA HonestStep ==
  ASSUME Safe, ~ LandsElsewhere, [Next]_vars
  PROVE  Honest'
<1>1. CASE CreateParent
  BY <1>1, CreateHonest DEF CreateParent, Own, Working
<1>2. CASE CreateChild
  BY <1>2, CreateHonest DEF CreateChild, Own, Working
<1>3. CASE CleanUp
  <2>1. PICK e \in owned :
          /\ bindings[e] \in exists
          /\ Delete(bindings[e])
          /\ \/ cleanup' = [cleanup EXCEPT ![e] = "failed"]
             \/ /\ bindings[e] \notin exists'
                /\ cleanup' = [cleanup EXCEPT ![e] = "verified"]
    BY <1>3 DEF CleanUp, FailCleanup
  <2>2. e \in Own /\ bindings[e] = e
    BY <2>1, CleanUpDeletesOwn
  <2>3. bindings' = bindings
    BY <1>3 DEF CleanUp
  <2>4. deleted' \subseteq Own /\ exists' \subseteq exists
    BY <2>1, <2>2 DEF Delete, Safe, Honest
  <2>5. ASSUME NEW x \in Own, cleanup'[x] = "verified" PROVE x \notin exists'
    <3>1. CASE x = e
      BY <2>1, <2>2, <2>5, <3>1 DEF Safe, Tracking, Known
    <3>2. CASE x # e
      <4>1. cleanup[x] = "verified"
        BY <2>1, <2>2, <2>5, <3>2 DEF Safe, Tracking, Known
      <4> QED
        BY <2>4, <4>1 DEF Safe, Honest
    <3> QED
      BY <3>1, <3>2
  <2> QED
    BY <2>3, <2>4, <2>5 DEF Safe, Honest
<1>4. CASE MissConfirmation
  <2>1. PICK e \in owned : cleanup' = [cleanup EXCEPT ![e] = "failed"]
    BY <1>4 DEF MissConfirmation, FailCleanup
  <2>2. UNCHANGED <<exists, bindings, deleted>>
    BY <1>4 DEF MissConfirmation
  <2>3. \A x \in Own : cleanup'[x] = "verified" => cleanup[x] = "verified"
    BY <2>1 DEF Safe, Tracking, Known
  <2> QED
    BY <2>2, <2>3 DEF Safe, Honest
<1>5. CASE Decline \/ Begin \/ UpdateChild \/ SkipUnowned \/ Report \/ UNCHANGED vars
  <2>1. UNCHANGED <<exists, bindings, cleanup, deleted>>
    BY <1>5 DEF Decline, Begin, UpdateChild, FailWorkflow, SkipUnowned, Report, vars
  <2> QED
    BY <2>1 DEF Safe, Honest
<1> QED
  BY <1>1, <1>2, <1>3, <1>4, <1>5 DEF Next

THEOREM SafeInvariant ==
  ASSUME ~ LandsElsewhere
  PROVE  Spec => []Safe
<1>1. Init => Safe
  BY TrackingInit, HonestInit DEF Safe
<1>2. Safe /\ [Next]_vars => Safe'
  BY TrackingStep, HonestStep DEF Safe
<1> QED
  BY <1>1, <1>2, PTL DEF Spec

(* A test that passes leaves nothing of its own, whatever the target did   *)
(* with the requests.                                                      *)
THEOREM PassLeavesNothing ==
  ASSUME ~ LandsElsewhere
  PROVE  Spec => []PassedLeavesNothing
<1>1. Safe => PassedLeavesNothing
  BY DEF Safe, Tracking, Reported, Honest, PassedLeavesNothing
<1> QED
  BY <1>1, SafeInvariant, PTL

(* What an owned object's cleanup could not remove is in the result, also  *)
(* when the workflow had failed before.                                    *)
THEOREM LeftoversAreReported ==
  ASSUME ~ LandsElsewhere
  PROVE  Spec => []LeftoversReported
<1>1. Safe => LeftoversReported
  <2> SUFFICES ASSUME Safe, pc = "ended", always, NEW e \in owned, e \in exists
               PROVE  status = "cleanup_failed"
    BY DEF LeftoversReported
  <2>1. e \in Own /\ cleanup[e] \in {"failed", "verified"}
    BY DEF Safe, Tracking, Known, Tried, owned
  <2>2. cleanup[e] = "failed"
    BY <2>1 DEF Safe, Honest
  <2>3. cleanupFailed
    BY <2>1, <2>2 DEF Safe, Tracking, Tried
  <2> QED
    BY <2>3 DEF Safe, Tracking, Reported
<1> QED
  BY <1>1, SafeInvariant, PTL

(* Nothing is deleted but what the test created.                           *)
THEOREM OnlyOwnObjectsDeleted ==
  ASSUME ~ LandsElsewhere
  PROVE  Spec => []OnlyOwnDeleted
<1>1. Safe => OnlyOwnDeleted
  BY DEF Safe, Honest, OnlyOwnDeleted
<1> QED
  BY <1>1, SafeInvariant, PTL

(* The parent is left alone until the cleanup of an owned child was tried. *)
THEOREM ChildBeforeParent ==
  ASSUME ~ LandsElsewhere
  PROVE  Spec => ChildFirst
<1>1. ASSUME Safe, [Next]_vars
      PROVE  [bindings[Parent] \in deleted' \ deleted /\ Child \in owned
                => cleanup[Child] \in {"failed", "verified"}]_vars
  <2> SUFFICES ASSUME bindings[Parent] \in deleted' \ deleted, Child \in owned
               PROVE  cleanup[Child] \in {"failed", "verified"}
    OBVIOUS
  <2>1. CASE CleanUp
    <3>1. PICK e \in owned : Cleaning(e) /\ bindings[e] \in exists /\ Delete(bindings[e])
      BY <2>1 DEF CleanUp
    <3>2. e \in Own /\ bindings[e] = e
      BY <1>1, <3>1, CleanUpDeletesOwn
    <3>3. bindings[Parent] = e
      BY <3>1, <3>2 DEF Delete
    <3>4. e = Parent
      BY <1>1, <3>2, <3>3, OwnedAssumption DEF Safe, Honest, Own, Objects
    <3>5. step = 2
      BY <1>1, <3>1, <3>2, <3>4, StepsMove, CleaningOne, OwnedAssumption
      DEF Safe, Tracking, Cleaning
    <3>6. cleanup[Child] # "" /\ cleanup[Child] # "unowned" /\ Child \in Own
      BY <1>1, <3>5 DEF Safe, Tracking, Tried, owned
    <3> QED
      BY <1>1, <3>6 DEF Safe, Tracking, Known
  <2>2. CASE ~ CleanUp
    <3>1. deleted' = deleted
      BY <1>1, <2>2 DEF Next, Decline, Begin, CreateParent, CreateChild, Create, FailWorkflow,
        UpdateChild, SkipUnowned, MissConfirmation, Report, vars
    <3> QED
      BY <3>1
  <2> QED
    BY <2>1, <2>2
<1> QED
  BY <1>1, SafeInvariant, PTL DEF Spec, ChildFirst
-----------------------------------------------------------------------------
(* The executor implements OwnedTest.  The refinement also needs to know   *)
(* that nothing exists before the test begins, and that an object whose    *)
(* turn in the cleanup is still to come has no verdict yet.                *)
Turns ==
  /\ pc = "begin" => exists \cap Own = {}
  /\ step = 1 => cleanup[Child] \in {"unowned", ""}
  /\ step \in {1, 2} => cleanup[Parent] \in {"unowned", ""}

Verified == {e \in Own : cleanup[e] = "verified"}

Exact == Safe /\ Turns

LEMMA TurnsInit == Init => Turns
BY OwnedAssumption DEF Init, Turns, Own

LEMMA TurnsStep ==
  ASSUME Safe, Turns, [Next]_vars
  PROVE  Turns'
<1> USE DEF Own
<1>1. CASE Decline \/ Begin \/ Report
  BY <1>1 DEF Decline, Begin, Report, result, Turns
<1>2. CASE CreateParent \/ CreateChild \/ UpdateChild
  <2>1. pc \in Working /\ pc' # "begin"
    BY <1>2 DEF CreateParent, CreateChild, UpdateChild, Create, FailWorkflow, AfterWorkflow,
      Working
  <2>2. \A e \in Own : cleanup[e] \in {"unowned", ""}
    BY <2>1 DEF Safe, Tracking, Phases
  <2>3. cleanup' = cleanup \/ \E e \in Own : cleanup' = [cleanup EXCEPT ![e] = ""]
    BY <1>2 DEF CreateParent, CreateChild, UpdateChild, Create, FailWorkflow
  <2>4. \A e \in Own : cleanup'[e] \in {"unowned", ""}
    BY <2>2, <2>3 DEF Safe, Tracking, Known
  <2> QED
    BY <2>1, <2>4 DEF Turns
<1>3. CASE SkipUnowned \/ MissConfirmation \/ CleanUp
  <2>1. pc = "clean"
    BY <1>3 DEF SkipUnowned, MissConfirmation, CleanUp, Cleaning
  <2>2. /\ step = 1 => NextStep = 2 /\ StepAfterFailure = 2
        /\ step = 2 => NextStep = 0 /\ StepAfterFailure = 0
        /\ step \in {1, 2}
    BY <2>1, StepsMove DEF Safe, Tracking
  <2>3. /\ step' \in {NextStep, StepAfterFailure}
        /\ pc' \in {"report", "clean"}
    BY <1>3 DEF SkipUnowned, MissConfirmation, CleanUp, FailCleanup, GoTo
  <2>4. \/ cleanup' = cleanup
        \/ \E e \in owned, s \in {"failed", "verified"} :
             Cleaning(e) /\ cleanup' = [cleanup EXCEPT ![e] = s]
    BY <1>3 DEF SkipUnowned, MissConfirmation, CleanUp, FailCleanup
  <2>5. step = 1 => cleanup'[Parent] = cleanup[Parent]
    <3>1. ASSUME step = 1, NEW e \in owned, Cleaning(e) PROVE e # Parent /\ e \in Own
      BY <3>1, CleaningOne, OwnedAssumption DEF owned
    <3> QED
      BY <2>4, <3>1 DEF Safe, Tracking, Known
  <2>6. (step = 1 /\ step' = 2) \/ (step = 2 /\ step' = 0)
    BY <2>2, <2>3
  <2>7. step' \in {1, 2} => cleanup'[Parent] \in {"unowned", ""}
    <3>1. step = 1 => cleanup[Parent] \in {"unowned", ""}
      BY DEF Turns
    <3>2. step' \in {1, 2} => step = 1
      BY <2>6
    <3> QED
      BY <2>5, <3>1, <3>2, Zenon
  <2>8. step' # 1 /\ pc' # "begin"
    BY <2>3, <2>6
  <2> QED
    BY <2>7, <2>8, Zenon DEF Turns
<1>4. CASE UNCHANGED vars
  BY <1>4 DEF vars, Turns
<1> QED
  BY <1>1, <1>2, <1>3, <1>4 DEF Next

THEOREM ExactInvariant ==
  ASSUME ~ LandsElsewhere
  PROVE  Spec => []Exact
<1>1. Init => Exact
  BY TrackingInit, HonestInit, TurnsInit DEF Safe, Exact
<1>2. Exact /\ [Next]_vars => Exact'
  BY TrackingStep, HonestStep, TurnsStep DEF Safe, Exact
<1> QED
  BY <1>1, <1>2, PTL DEF Spec

LEMMA ContractInit == Init => Contract!Init
<1> SUFFICES ASSUME Init PROVE Contract!Init
  OBVIOUS
<1>1. exists \cap Own = {} /\ owned = {} /\ Verified = {}
  BY OwnedAssumption DEF Init, owned, Verified
<1> QED
  BY <1>1, Zenon DEF Init, Contract!Init, Verified

(* A creation claims at most its own object.                               *)
LEMMA CreationWorks ==
  ASSUME Exact, NEW e \in Own, NEW next, Create(e, next), pc \in Working
  PROVE  Contract!Work
<1>1. /\ status = "candidate" /\ UNCHANGED <<always, status>>
  <2>1. status = "candidate"
    BY DEF Exact, Safe, Tracking, Reported, Working
  <2> QED
    BY <2>1 DEF Create, FailWorkflow, result
<1>2. exists \cap Own \subseteq exists' \cap Own
  BY DEF Create
<1>3. cleanup' = cleanup \/ cleanup' = [cleanup EXCEPT ![e] = ""]
  BY DEF Create, FailWorkflow
<1>4. Verified = {} /\ Verified' = {}
  <2>1. \A x \in Own : cleanup[x] \in {"unowned", ""}
    BY DEF Exact, Safe, Tracking, Phases
  <2>2. \A x \in Own : cleanup'[x] \in {"unowned", ""}
    BY <1>3, <2>1 DEF Exact, Safe, Tracking, Known
  <2> QED
    BY <2>1, <2>2 DEF Verified
<1>5. owned \subseteq owned' /\ owned' \ owned \subseteq {e} /\ owned' \subseteq Own
  BY <1>3 DEF owned, Exact, Safe, Tracking, Known
<1> QED
  BY <1>1, <1>2, <1>4, <1>5 DEF Contract!Work, Contract!Running, Verified

LEMMA ContractStep ==
  ASSUME Exact, Exact', ~ LandsElsewhere, [Next]_vars
  PROVE  [Contract!Next]_(Contract!vars)
<1>1. CASE Decline
  <2>1. /\ pc = "begin" /\ status' \in {"unresolved", "blocked", "failed"}
        /\ UNCHANGED <<exists, always, cleanup>>
    BY <1>1 DEF Decline
  <2>2. exists \cap Own = {} /\ owned = {} /\ Verified = {} /\ status = "candidate"
    BY <2>1 DEF Exact, Turns, Safe, Tracking, Phases, Reported, owned, Verified
  <2>3. UNCHANGED <<always, exists \cap Own, owned, Verified>>
    BY <2>1 DEF owned, Verified
  <2>4. Contract!Judge
    BY <2>1, <2>2, <2>3 DEF Contract!Judge, Verified
  <2> QED
    BY <2>4 DEF Contract!Next
<1>2. CASE CreateParent \/ CreateChild
  <2>1. Contract!Work
    BY <1>2, CreationWorks DEF CreateParent, CreateChild, Own, Working
  <2> QED
    BY <2>1 DEF Contract!Next
<1>3. CASE Begin \/ UpdateChild \/ SkipUnowned \/ UNCHANGED vars
  <2>1. UNCHANGED <<exists, always, cleanup, status>>
    BY <1>3 DEF Begin, UpdateChild, FailWorkflow, SkipUnowned, result, vars
  <2>2. UNCHANGED <<always, exists \cap Own, owned, Verified, status>>
    BY <2>1 DEF owned, Verified
  <2> QED
    BY <2>2 DEF Contract!vars, Verified
<1>4. CASE MissConfirmation \/ CleanUp
  <2>1. PICK e \in owned :
          /\ Cleaning(e) /\ UNCHANGED <<always, status, bindings>>
          /\ \/ exists' = exists
             \/ bindings[e] \in exists /\ Delete(bindings[e])
          /\ \/ cleanup' = [cleanup EXCEPT ![e] = "failed"]
             \/ /\ bindings[e] \in exists /\ bindings[e] \notin exists'
                /\ cleanup' = [cleanup EXCEPT ![e] = "verified"]
    BY <1>4 DEF MissConfirmation, CleanUp, FailCleanup
  <2>2. e \in Own /\ cleanup[e] = ""
    BY <2>1, CleaningOne DEF Exact, Turns, Safe, Tracking, Control, Cleaning, owned
  <2>3. status = "candidate"
    BY <2>1 DEF Exact, Safe, Tracking, Reported, Cleaning
  <2>4. exists' \subseteq exists
    BY <2>1 DEF Delete
  <2>5. \A x \in Own : x # e => cleanup'[x] = cleanup[x]
    BY <2>1, <2>2 DEF Exact, Safe, Tracking, Known
  <2>6. cleanup'[e] \in {"failed", "verified"}
    BY <2>1, <2>2 DEF Exact, Safe, Tracking, Known
  <2>7. owned' = owned
    BY <2>1, <2>2, <2>5, <2>6 DEF owned
  <2>8. CASE cleanup'[e] = "failed"
    <3>1. Verified' = Verified
      BY <2>2, <2>5, <2>8 DEF Verified
    <3>2. Contract!Remove
      BY <2>1, <2>3, <2>4, <2>7, <3>1 DEF Contract!Remove, Contract!Running, Verified
    <3> QED
      BY <3>2 DEF Contract!Next
  <2>9. CASE cleanup'[e] = "verified"
    <3>1. Verified' = Verified \cup {e}
      BY <2>2, <2>5, <2>9 DEF Verified
    <3>2. e \notin exists'
      BY <2>2, <2>9 DEF Exact, Safe, Honest
    <3>3. Contract!Remove
      BY <2>1, <2>3, <2>4, <2>7, <3>1, <3>2 DEF Contract!Remove, Contract!Running, Verified
    <3> QED
      BY <3>3 DEF Contract!Next
  <2> QED
    BY <2>6, <2>8, <2>9
<1>5. CASE Report
  <2>1. /\ pc = "report" /\ status' = Outcome
        /\ UNCHANGED <<exists, always, cleanup>>
    BY <1>5 DEF Report
  <2>2. UNCHANGED <<always, exists \cap Own, owned, Verified>>
    BY <2>1 DEF owned, Verified
  <2>3. status = "candidate"
    BY <2>1 DEF Exact, Safe, Tracking, Reported
  <2>4. Outcome \in {"passed", "failed", "cleanup_failed"}
    BY DEF Outcome
  <2>5. Outcome = "passed" => exists \cap Own = {} /\ owned # {} /\ owned = Verified
    <3>1. Outcome = "passed" => ~ workflowFailed /\ AllCleaned
      BY DEF Outcome
    <3>2. ~ workflowFailed => \A e \in Own : cleanup[e] # "unowned"
      BY <2>1 DEF Exact, Safe, Tracking, Phases
    <3> QED
      BY <3>1, <3>2 DEF AllCleaned, owned, Verified, Exact, Safe, Honest
  <2>6. always /\ owned # Verified => Outcome = "cleanup_failed"
    <3>1. ASSUME always, owned # Verified PROVE cleanupFailed
      <4>1. PICK e \in owned : cleanup[e] # "verified"
        BY <3>1 DEF owned, Verified
      <4>2. e \in Own /\ cleanup[e] = "failed"
        BY <2>1, <3>1, <4>1 DEF owned, Exact, Safe, Tracking, Known, Tried
      <4> QED
        BY <4>2 DEF Exact, Safe, Tracking, Tried
    <3> QED
      BY <3>1 DEF Outcome
  <2>7. Contract!Judge
    BY <2>1, <2>2, <2>3, <2>4, <2>5, <2>6 DEF Contract!Judge, Verified
  <2> QED
    BY <2>7 DEF Contract!Next
<1> QED
  BY <1>1, <1>2, <1>3, <1>4, <1>5 DEF Next

(* The workflow executor does what OwnedTest says of every test that       *)
(* changes data: it passes only over a clean target, and an unverified     *)
(* claim makes its result cleanup_failed.                                  *)
THEOREM ImplementsOwnedTest ==
  ASSUME ~ LandsElsewhere
  PROVE  Spec => OwnedContract
<1>1. Exact /\ Exact' /\ [Next]_vars => [Contract!Next]_(Contract!vars)
  BY ContractStep
<1> QED
  BY <1>1, ContractInit, ExactInvariant, PTL DEF Spec, OwnedContract, Contract!Spec

-----------------------------------------------------------------------------
(* The portable runner's mutation implements the owned-object workflow.    *)
(* The proof follows the generator's steps: what a fill of an object of    *)
(* its own starts, the submission after it may create and the wait after   *)
(* that records, so when a test ends without an error nothing is unknown.  *)
StepNumbers == 1 .. Len(test.steps)
Type(i) == test.steps[i].type
Lists(e) == \E i \in DOMAIN test.cleanup : test.cleanup[i] = e

(* Step i fills in what creates e.                                         *)
Fills(i, e) == i \in StepNumbers /\ Type(i) = "fill" /\ test.steps[i].value = e

(* While the steps run, whatever was created has been waited for, but for  *)
(* the object of the submission before; a page may only name that one.     *)
Stepping ==
  /\ \A e \in Own : removal[e] \in {"unowned", ""}
  /\ ~ workflowErr /\ ~ failures
  /\ pending /\ filled \in Own => at > 1 /\ Fills(at - 1, filled)
  /\ at > 1 /\ Type(at - 1) = "submit" => page.at \in {filled, None, Stray}
  /\ \A e \in target \cap Own :
       e \in Portable!owned \/ (at > 2 /\ Fills(at - 2, e) /\ filled = e)

(* The cleanup: whatever is before the next of the list, and owned, is     *)
(* verified gone, or there was a failure.                                  *)
Cleaned ==
  /\ \A e \in Own : removal[e] = "verified" =>
       \E i \in DOMAIN test.cleanup : i < at /\ test.cleanup[i] = e
  /\ ~ failures => \A i \in DOMAIN test.cleanup :
       i < at /\ test.cleanup[i] \in Portable!owned => removal[test.cleanup[i]] = "verified"
  /\ ~ workflowErr => target \cap Own \subseteq Portable!owned

Placed ==
  /\ test \in PortableTests /\ at \in Nat /\ at > 0
  /\ testPc \in {"begin", "steps", "cleanup", "ended"}
  /\ testPc # "ended" => verdict = "candidate"
  /\ target \subseteq Objects
Flagged == workflowErr \in BOOLEAN /\ failures \in BOOLEAN
Tracked ==
  /\ removal \in [Own -> {"unowned", "", "failed", "verified"}]
  /\ captured \in [Own -> Objects \cup {Stray, None}]

Owning ==
  \A e \in Own :
    /\ captured[e] \in {e, Stray, None}
    /\ removal[e] # "unowned" => Lists(e)
    /\ removal[e] = "verified" => e \notin target

Starting ==
  /\ target \cap Own = {} /\ at = 1 /\ ~ pending /\ ~ workflowErr /\ ~ failures
  /\ \A e \in Own : removal[e] = "unowned"

Held ==
  /\ Placed /\ Flagged /\ Tracked /\ Owning
  /\ testPc = "begin" => Starting
  /\ testPc = "steps" => Stepping
  /\ testPc = "cleanup" => Cleaned

-----------------------------------------------------------------------------
LEMMA Planned ==
  ASSUME Held
  PROVE  /\ Len(test.steps) \in Nat
         /\ test.cleanup \in Seq(Own) /\ DOMAIN test.cleanup = 1 .. Len(test.cleanup)
         /\ Len(test.cleanup) \in Nat
         /\ \A i, k \in DOMAIN test.cleanup : test.cleanup[i] = test.cleanup[k] => i = k
         /\ \A i \in StepNumbers : Type(i) = "wait_for" =>
              i > 1 /\ Type(i - 1) = "submit" /\ Lists(test.steps[i].entity)
         /\ \A i, e : Fills(i, e) /\ e \in Own =>
              /\ i + 2 <= Len(test.steps) /\ Type(i + 1) = "submit"
              /\ Type(i + 2) = "wait_for" /\ test.steps[i + 2].entity = e
         /\ Own \cap Others = {} /\ Stray \notin Objects /\ None \notin Objects /\ Stray # None
<1>1. Portable!Generated(test)
  BY TestsAssumption, Zenon DEF Held, Placed, Portable!PortableAssumption
<1>2. test.cleanup \in Seq(Own) /\ Portable!IsInjective(test.cleanup)
  BY <1>1, Zenon DEF Portable!Generated
<1>3. \A i, k \in DOMAIN test.cleanup : test.cleanup[i] = test.cleanup[k] => i = k
  BY <1>2, Zenon DEF Portable!IsInjective
<1>4. Len(test.steps) \in Nat /\ DOMAIN test.steps = StepNumbers
  BY <1>1, Zenon DEF Portable!Generated, StepNumbers
<1>5. \A i \in StepNumbers : Type(i) = "wait_for" =>
        i > 1 /\ Type(i - 1) = "submit" /\ Lists(test.steps[i].entity)
  <2>. SUFFICES ASSUME NEW i \in StepNumbers, Type(i) = "wait_for"
                PROVE  i > 1 /\ Type(i - 1) = "submit" /\ Lists(test.steps[i].entity)
    BY Zenon
  <2>1. /\ i > 1 /\ test.steps[i - 1].type = "submit"
        /\ test.steps[i].entity \in Portable!Range(test.cleanup)
    BY <1>1, <1>4, Zenon DEF Portable!Generated, Type
  <2>. QED  BY <2>1 DEF Portable!Range, Lists, Type
<1>6. \A i, e : Fills(i, e) /\ e \in Own =>
        /\ i + 2 <= Len(test.steps) /\ Type(i + 1) = "submit"
        /\ Type(i + 2) = "wait_for" /\ test.steps[i + 2].entity = e
  <2>. SUFFICES ASSUME NEW i, NEW e \in Own, Fills(i, e)
                PROVE  /\ i + 2 <= Len(test.steps) /\ Type(i + 1) = "submit"
                       /\ Type(i + 2) = "wait_for" /\ test.steps[i + 2].entity = e
    BY Zenon
  <2>1. i \in DOMAIN test.steps /\ test.steps[i].type = "fill" /\ test.steps[i].value = e
    BY <1>4, Zenon DEF Fills, Type
  <2>2. /\ i + 2 <= Len(test.steps) /\ test.steps[i + 1].type = "submit"
        /\ test.steps[i + 2] = [type |-> "wait_for", entity |-> test.steps[i].value]
    BY <1>1, <2>1, Zenon DEF Portable!Generated
  <2>. QED  BY <2>1, <2>2 DEF Type
<1>7. Own \cap Others = {} /\ Stray \notin Objects /\ None \notin Objects /\ Stray # None
  BY TestsAssumption DEF Portable!PortableAssumption, Portable!Objects, Objects
<1>. QED  BY <1>2, <1>3, <1>4, <1>5, <1>6, <1>7

LEMMA HeldInit == Portable!Init => Held
<1>. SUFFICES ASSUME Portable!Init PROVE Held
  OBVIOUS
<1>1. Own \cap Others = {}
  BY TestsAssumption DEF Portable!PortableAssumption
<1>2. /\ test \in PortableTests /\ testPc = "begin" /\ at = 1 /\ target = Others
      /\ pending = FALSE /\ captured = [e \in Own |-> None]
      /\ removal = [e \in Own |-> "unowned"]
      /\ workflowErr = FALSE /\ failures = FALSE /\ verdict = "candidate"
  BY Zenon DEF Portable!Init
<1>3. Portable!owned = {}  BY <1>2 DEF Portable!owned
<1>4. \A e \in Own : captured[e] = None /\ removal[e] = "unowned"  BY <1>2
<1>5. target \cap Own = {} /\ target \subseteq Objects  BY <1>1, <1>2 DEF Objects
<1>6. /\ removal \in [Own -> {"unowned", "", "failed", "verified"}]
      /\ captured \in [Own -> Objects \cup {Stray, None}]
  BY <1>2
<1>7. Placed /\ Flagged /\ Tracked
  <2>1. Placed  BY <1>2, <1>5 DEF Placed
  <2>2. Flagged  BY <1>2, Zenon DEF Flagged
  <2>. QED  BY <1>6, <2>1, <2>2, Zenon DEF Tracked
<1>8. Owning  BY <1>4 DEF Owning
<1>9. Starting  BY <1>2, <1>4, <1>5 DEF Starting
<1>10. testPc # "steps" /\ testPc # "cleanup"  BY <1>2
<1>. QED  BY <1>7, <1>8, <1>9, <1>10, Zenon DEF Held

(* An error leaves a working test with nothing cleaned yet. *)
LEMMA FailHeld ==
  ASSUME Held, testPc = "steps", Portable!FailStep, target' \subseteq Objects
  PROVE  Held'
<1>1. /\ workflowErr' = TRUE /\ testPc' = "cleanup" /\ at' = 1 /\ test' = test
      /\ captured' = captured /\ removal' = removal /\ failures' = failures
      /\ verdict' = verdict
  BY Zenon DEF Portable!FailStep, Portable!AfterError, Portable!ToCleanup, Portable!ownership
<1>2. Stepping  BY DEF Held
<1>3. \A e \in Own : removal'[e] # "verified"  BY <1>1, <1>2 DEF Stepping
<1>4. DOMAIN test.cleanup \subseteq Nat \ {0}  BY Planned
<1>5. Cleaned'
  <2>1. \A i \in DOMAIN test.cleanup : ~ (i < 1)  BY <1>4
  <2>. QED  BY <1>1, <1>3, <2>1 DEF Cleaned
<1>6. Placed /\ Flagged /\ Tracked /\ Owning  BY Zenon DEF Held
<1>7. Placed' /\ Flagged' /\ Tracked'
  <2>1. Placed'
    <3>1. at' \in Nat /\ at' > 0  BY <1>1
    <3>2. testPc' # "ended" => verdict' = "candidate"  BY <1>1, <1>6 DEF Placed
    <3>. QED  BY <1>1, <1>6, <3>1, <3>2, Zenon DEF Placed
  <2>2. Flagged' /\ Tracked'  BY <1>1, <1>6, Zenon DEF Flagged, Tracked
  <2>. QED  BY <2>1, <2>2
<1>8. Owning'  BY <1>1, <1>3, <1>6 DEF Owning, Lists
<1>9. testPc' # "steps" /\ testPc' # "begin"  BY <1>1
<1>. QED  BY <1>5, <1>7, <1>8, <1>9, Zenon DEF Held

LEMMA NextPlace ==
  \A n, m : n \in Nat /\ n > 0 /\ m = n + 1 =>
    m \in Nat /\ m > 0 /\ m - 1 = n /\ m - 2 = n - 1 /\ m > 1 /\ (n > 1 => m > 2)
OBVIOUS

(* A step that is done leaves the test at the next. *)
LEMMA DoneHeld ==
  ASSUME Held, testPc = "steps", Portable!Done, target' \subseteq Objects,
         \A e \in Own : /\ removal'[e] \in {removal[e], ""}
                        /\ captured'[e] \in {e, Stray, None}
                        /\ removal'[e] # "unowned" => Lists(e),
         removal' \in [Own -> {"unowned", "", "failed", "verified"}],
         captured' \in [Own -> Objects \cup {Stray, None}],
         pending' /\ filled' \in Own => Fills(at, filled'),
         Type(at) = "submit" => page'.at \in {filled', None, Stray},
         \A e \in target' \cap Own :
           removal'[e] # "unowned" \/ (at > 1 /\ Fills(at - 1, e) /\ filled' = e)
  PROVE  Held'
<1>1. at' = at + 1 /\ test' = test /\ testPc' = "steps" /\ verdict' = verdict
      /\ workflowErr' = workflowErr /\ failures' = failures
  BY Zenon DEF Portable!Done, Portable!result
<1>2. Stepping  BY DEF Held
<1>3. at \in Nat /\ at > 0 /\ at' > 0 /\ at' \in Nat /\ at' - 1 = at /\ at' - 2 = at - 1 /\ at' > 1 /\ (at > 1 => at' > 2)
  <2>1. at \in Nat /\ at > 0  BY Zenon DEF Held, Placed
  <2>. QED  BY <1>1, <2>1, NextPlace, Zenon
<1>4. \A e \in Own : removal'[e] \in {"unowned", ""}  BY <1>2 DEF Stepping
<1>5. StepNumbers' = StepNumbers /\ \A i : Type(i)' = Type(i)  BY <1>1 DEF StepNumbers, Type
<1>6. Stepping'
  <2>1. pending' /\ filled' \in Own => at' > 1 /\ Fills(at - 1, filled)'
    <3>1. Fills(at - 1, filled)' <=> Fills(at, filled')
      BY <1>1, <1>3, <1>5 DEF Fills
    <3>. QED  BY <1>3, <3>1
  <2>2. Type(at - 1)' = Type(at)  BY <1>1, <1>3 DEF Type
  <2>3. \A e \in target' \cap Own : e \in Portable!owned' \/ (at' > 2 /\ Fills(at - 2, e)' /\ filled' = e)
    <3>. SUFFICES ASSUME NEW e \in target' \cap Own
                  PROVE  e \in Portable!owned' \/ (at' > 2 /\ Fills(at - 2, e)' /\ filled' = e)
      BY Zenon
    <3>1. CASE removal'[e] # "unowned"  BY <3>1 DEF Portable!owned
    <3>2. CASE at > 1 /\ Fills(at - 1, e) /\ filled' = e
      <4>1. Fills(at - 2, e)' <=> Fills(at - 1, e)  BY <1>1, <1>3, <1>5 DEF Fills
      <4>. QED  BY <1>3, <3>2, <4>1
    <3>. QED  BY <3>1, <3>2
  <2>. QED  BY <1>1, <1>2, <1>4, <2>1, <2>2, <2>3, Zenon DEF Stepping
<1>7. \A e \in Own : Lists(e)' <=> Lists(e)  BY <1>1 DEF Lists
<1>8. Placed /\ Flagged /\ Tracked  BY Zenon DEF Held
<1>9. Placed' /\ Flagged' /\ Tracked'
  <2>1. at' \in Nat /\ at' > 0  BY <1>3, Zenon
  <2>2. testPc' # "ended" => verdict' = "candidate"  BY <1>1, <1>8 DEF Placed
  <2>3. Placed'  BY <1>1, <1>8, <2>1, <2>2, Zenon DEF Placed
  <2>4. Flagged' /\ Tracked'  BY <1>1, <1>8, Zenon DEF Flagged, Tracked
  <2>. QED  BY <2>3, <2>4
<1>10. Owning'  BY <1>4, <1>7 DEF Owning
<1>11. testPc' # "cleanup" /\ testPc' # "begin"  BY <1>1
<1>. QED  BY <1>6, <1>9, <1>10, <1>11, Zenon DEF Held

(* The step a test is at, and what the steps around it must be. *)
LEMMA StepAt ==
  ASSUME NEW type, Portable!At(type)
  PROVE  testPc = "steps" /\ at <= Len(test.steps) /\ Type(at) = type
BY Zenon DEF Portable!At, Type

LEMMA NextButOne == \A n \in Nat : n - 2 + 2 = n /\ n - 1 + 1 = n
OBVIOUS

LEMMA Waited ==
  ASSUME Held, testPc = "steps", Type(at) # "wait_for" \/ ~ (at <= Len(test.steps))
  PROVE  \A e \in target \cap Own : removal[e] # "unowned"
<1>. SUFFICES ASSUME NEW e \in target \cap Own, e \notin Portable!owned PROVE FALSE
  BY Zenon DEF Portable!owned
<1>1. Fills(at - 2, e)  BY Zenon DEF Held, Stepping
<1>2. at - 2 + 2 <= Len(test.steps) /\ Type(at - 2 + 2) = "wait_for"
  BY <1>1, Planned, Zenon
<1>3. at - 2 + 2 = at  BY NextButOne, Zenon DEF Held, Placed
<1>. QED  BY <1>2, <1>3, Zenon

LEMMA Pended ==
  ASSUME Held, testPc = "steps", pending, filled \in Own
  PROVE  Type(at) = "submit"
<1>1. Fills(at - 1, filled)  BY Zenon DEF Held, Stepping
<1>2. Type(at - 1 + 1) = "submit"  BY <1>1, Planned, Zenon
<1>3. at - 1 + 1 = at  BY NextButOne, Zenon DEF Held, Placed
<1>. QED  BY <1>2, <1>3, Zenon

LEMMA Here ==
  ASSUME Held, at <= Len(test.steps)
  PROVE  at \in StepNumbers
<1>1. at \in Nat /\ at > 0  BY Zenon DEF Held, Placed
<1>2. Len(test.steps) \in Nat  BY Planned, Zenon
<1>3. \A n, k : n \in Nat /\ n > 0 /\ k \in Nat /\ n <= k => n \in 1 .. k  OBVIOUS
<1>. QED  BY <1>1, <1>2, <1>3, Zenon DEF StepNumbers

-----------------------------------------------------------------------------
LEMMA NavigateHeld == Held /\ Portable!NavigateStep => Held'
<1>. SUFFICES ASSUME Held, Portable!NavigateStep PROVE Held'
  OBVIOUS
<1>1. testPc = "steps" /\ at <= Len(test.steps) /\ Type(at) = "navigate" /\ target' = target
  BY StepAt, Zenon DEF Portable!NavigateStep
<1>2. Placed /\ Tracked /\ Owning  BY Zenon DEF Held
<1>3. target' \subseteq Objects  BY <1>1, <1>2, Zenon DEF Placed
<1>4. CASE Portable!FailStep  BY <1>1, <1>3, <1>4, FailHeld, Zenon
<1>5. CASE Portable!Done /\ pending' = FALSE /\ removal' = removal /\ captured' = captured
  <2>1. \A e \in Own : /\ removal'[e] \in {removal[e], ""}
                       /\ captured'[e] \in {e, Stray, None}
                       /\ removal'[e] # "unowned" => Lists(e)
    BY <1>2, <1>5 DEF Owning
  <2>2. \A e \in target' \cap Own : removal'[e] # "unowned"
    <3>1. Type(at) # "wait_for"  BY <1>1
    <3>. QED  BY <1>1, <1>5, <3>1, Waited, Zenon
  <2>3. Type(at) # "submit"  BY <1>1
  <2>4. removal' \in [Own -> {"unowned", "", "failed", "verified"}]
        /\ captured' \in [Own -> Objects \cup {Stray, None}]
    BY <1>2, <1>5, Zenon DEF Tracked
  <2>. QED  BY <1>1, <1>3, <1>5, <2>1, <2>2, <2>3, <2>4, DoneHeld, Zenon
<1>. QED  BY <1>4, <1>5, Zenon DEF Portable!NavigateStep, Portable!ownership

LEMMA FillHeld == Held /\ Portable!Fill => Held'
<1>. SUFFICES ASSUME Held, Portable!Fill PROVE Held'
  OBVIOUS
<1>1. testPc = "steps" /\ at <= Len(test.steps) /\ Type(at) = "fill" /\ target' = target
  BY StepAt, Zenon DEF Portable!Fill
<1>2. Placed /\ Tracked /\ Owning  BY Zenon DEF Held
<1>3. target' \subseteq Objects  BY <1>1, <1>2, Zenon DEF Placed
<1>4. CASE Portable!FailStep  BY <1>1, <1>3, <1>4, FailHeld, Zenon
<1>5. CASE Portable!Done /\ filled' = Portable!Step.value /\ removal' = removal
           /\ captured' = captured
  <2>1. \A e \in Own : /\ removal'[e] \in {removal[e], ""}
                       /\ captured'[e] \in {e, Stray, None}
                       /\ removal'[e] # "unowned" => Lists(e)
    BY <1>2, <1>5 DEF Owning
  <2>2. \A e \in target' \cap Own : removal'[e] # "unowned"
    <3>1. Type(at) # "wait_for"  BY <1>1
    <3>. QED  BY <1>1, <1>5, <3>1, Waited, Zenon
  <2>3. Type(at) # "submit"  BY <1>1
  <2>4. removal' \in [Own -> {"unowned", "", "failed", "verified"}]
        /\ captured' \in [Own -> Objects \cup {Stray, None}]
    BY <1>2, <1>5, Zenon DEF Tracked
  <2>5. Fills(at, filled')
    <3>1. at \in StepNumbers  BY <1>1, Here, Zenon
    <3>. QED  BY <1>1, <1>5, <3>1, Zenon DEF Fills, Portable!Step
  <2>. QED  BY <1>1, <1>3, <1>5, <2>1, <2>2, <2>3, <2>4, <2>5, DoneHeld, Zenon
<1>. QED  BY <1>4, <1>5, Zenon DEF Portable!Fill, Portable!ownership

LEMMA SubmitHeld == Held /\ Portable!Submit => Held'
<1>. SUFFICES ASSUME Held, Portable!Submit PROVE Held'
  OBVIOUS
<1>1. testPc = "steps" /\ at <= Len(test.steps) /\ Type(at) = "submit"
  BY StepAt, Zenon DEF Portable!Submit
<1>2. Placed /\ Tracked /\ Owning /\ Stepping  BY <1>1, Zenon DEF Held
<1>3. target' = target \/ (pending /\ target' = target \cup ({filled} \cap Own))
  <2>1. \/ target' = target
        \/ pending /\ target' \in {target, target \cup ({filled} \cap Own)}
    BY Zenon DEF Portable!Submit
  <2>. QED  BY <2>1
<1>4. target' \subseteq Objects  BY <1>2, <1>3 DEF Placed, Objects
<1>5. CASE Portable!FailStep  BY <1>1, <1>4, <1>5, FailHeld, Zenon
<1>6. CASE /\ Portable!Done /\ \E p \in Portable!Pages : Portable!Truthful(p, target', filled) /\ page' = p
           /\ pending' = FALSE /\ filled' = filled /\ removal' = removal /\ captured' = captured
  <2>1. \A e \in Own : /\ removal'[e] \in {removal[e], ""}
                       /\ captured'[e] \in {e, Stray, None}
                       /\ removal'[e] # "unowned" => Lists(e)
    BY <1>2, <1>6 DEF Owning
  <2>2. \A e \in target' \cap Own :
          removal'[e] # "unowned" \/ (at > 1 /\ Fills(at - 1, e) /\ filled' = e)
    <3>. SUFFICES ASSUME NEW e \in target' \cap Own
                  PROVE  removal'[e] # "unowned" \/ (at > 1 /\ Fills(at - 1, e) /\ filled' = e)
      BY Zenon
    <3>1. CASE e \in target
      <4>1. Type(at) # "wait_for"  BY <1>1
      <4>2. removal[e] # "unowned"  BY <1>1, <3>1, <4>1, Waited, Zenon
      <4>. QED  BY <1>6, <4>2, Zenon
    <3>2. CASE e \notin target
      <4>1. pending /\ e = filled  BY <1>3, <3>2
      <4>. QED  BY <1>2, <1>6, <4>1, Zenon DEF Stepping
    <3>. QED  BY <3>1, <3>2, Zenon
  <2>3. page'.at \in {filled', None, Stray}
    <3>1. PICK p \in Portable!Pages : Portable!Truthful(p, target', filled) /\ page' = p
      BY <1>6, Zenon
    <3>2. p.at \in ({filled} \cap target' \cap Own) \cup {None, Stray}
      BY <3>1, Zenon DEF Portable!Truthful
    <3>3. p.at \in {filled, None, Stray}  BY <3>2
    <3>. QED  BY <1>6, <3>1, <3>3, Zenon
  <2>4. removal' \in [Own -> {"unowned", "", "failed", "verified"}]
        /\ captured' \in [Own -> Objects \cup {Stray, None}]
    BY <1>2, <1>6, Zenon DEF Tracked
  <2>. QED  BY <1>1, <1>4, <1>6, <2>1, <2>2, <2>3, <2>4, DoneHeld, Zenon
<1>. QED  BY <1>5, <1>6, Zenon DEF Portable!Submit, Portable!ownership

(* What is captured for an object is the object, or an identifier none has. *)
LEMMA WaitCaptures ==
  ASSUME Held, Portable!At("wait_for"), NEW e, e = Portable!Step.entity, filled = e,
         NEW o \in Portable!Captured(page, e)
  PROVE  e \in Own /\ Lists(e) /\ o \in {e, Stray} /\ o # None
<1>1. testPc = "steps" /\ at <= Len(test.steps) /\ Type(at) = "wait_for"  BY StepAt, Zenon
<1>2. at \in StepNumbers  BY <1>1, Here, Zenon
<1>3. at > 1 /\ Type(at - 1) = "submit" /\ Lists(e)
  BY <1>1, <1>2, Planned, Zenon DEF Portable!Step
<1>4. e \in Own
  <2>1. PICK i \in DOMAIN test.cleanup : test.cleanup[i] = e  BY <1>3, Zenon DEF Lists
  <2>. QED  BY <2>1, Planned
<1>5. page.at \in {e, None, Stray}  BY <1>1, <1>3, Zenon DEF Held, Stepping
<1>6. e # None /\ Stray # None  BY <1>4, Planned DEF Objects
<1>7. CASE page.at # None
  <2>1. o = page.at  BY <1>7 DEF Portable!Captured
  <2>. QED  BY <1>3, <1>4, <1>5, <1>7, <2>1
<1>8. CASE page.at = None
  <2>1. o = e  BY <1>8 DEF Portable!Captured
  <2>. QED  BY <1>3, <1>4, <1>6, <2>1
<1>. QED  BY <1>7, <1>8

LEMMA WaitHeld == Held /\ Portable!WaitFor => Held'
<1>. SUFFICES ASSUME Held, Portable!WaitFor PROVE Held'
  OBVIOUS
<1>1. /\ testPc = "steps" /\ at <= Len(test.steps) /\ Type(at) = "wait_for"
      /\ Portable!At("wait_for") /\ target' = target
  BY StepAt, Zenon DEF Portable!WaitFor
<1>2. Placed /\ Tracked /\ Owning /\ Stepping  BY <1>1, Zenon DEF Held
<1>3. target' \subseteq Objects  BY <1>1, <1>2, Zenon DEF Placed
<1>4. CASE Portable!FailStep  BY <1>1, <1>3, <1>4, FailHeld, Zenon
<1>. PICK e : e = Portable!Step.entity  OBVIOUS
<1>5. CASE /\ filled = e /\ \E o \in Portable!Captured(page, e) : captured' = [captured EXCEPT ![e] = o]
           /\ removal' = [removal EXCEPT ![e] = ""] /\ Portable!Done
           /\ pending' = pending /\ filled' = filled
  <2>1. PICK o \in Portable!Captured(page, e) : captured' = [captured EXCEPT ![e] = o]
    BY <1>5, Zenon
  <2>2. e \in Own /\ Lists(e) /\ o \in {e, Stray}  BY <1>1, <1>5, WaitCaptures, Zenon
  <2>3. removal' \in [Own -> {"unowned", "", "failed", "verified"}]
        /\ captured' \in [Own -> Objects \cup {Stray, None}]
        /\ removal'[e] = "" /\ captured'[e] = o
        /\ \A x \in Own \ {e} : removal'[x] = removal[x] /\ captured'[x] = captured[x]
    <3>1. removal' = [removal EXCEPT ![e] = ""]  BY <1>5
    <3>. QED  BY <1>2, <2>1, <2>2, <3>1 DEF Tracked, Objects
  <2>4. \A x \in Own : /\ removal'[x] \in {removal[x], ""}
                       /\ captured'[x] \in {x, Stray, None}
                       /\ removal'[x] # "unowned" => Lists(x)
    BY <1>2, <2>2, <2>3 DEF Owning
  <2>5. \A x \in target' \cap Own : removal'[x] # "unowned"
    <3>. SUFFICES ASSUME NEW x \in target \cap Own PROVE removal'[x] # "unowned"
      BY <1>1, Zenon
    <3>1. CASE x = e  BY <2>3, <3>1
    <3>2. CASE x # e
      <4>1. x \in Portable!owned  BY <1>2, <1>5, <3>2, Zenon DEF Stepping
      <4>. QED  BY <2>3, <3>2, <4>1 DEF Portable!owned
    <3>. QED  BY <3>1, <3>2, Zenon
  <2>6. Type(at) # "submit"  BY <1>1
  <2>7. ~ (pending' /\ filled' \in Own)  BY <1>1, <1>5, <2>6, Pended, Zenon
  <2>. QED  BY <1>1, <1>3, <1>5, <2>3, <2>4, <2>5, <2>6, <2>7, DoneHeld, Zenon
<1>. QED  BY <1>4, <1>5, Zenon DEF Portable!WaitFor, Portable!form

LEMMA ObserveHeld == Held /\ Portable!Observe => Held'
<1>. SUFFICES ASSUME Held, Portable!Observe PROVE Held'
  OBVIOUS
<1>1. testPc = "steps" /\ at <= Len(test.steps) /\ Type(at) = "observe" /\ target' = target
  BY StepAt, Zenon DEF Portable!Observe
<1>2. Placed /\ Tracked /\ Owning  BY Zenon DEF Held
<1>3. target' \subseteq Objects  BY <1>1, <1>2, Zenon DEF Placed
<1>4. CASE Portable!FailStep  BY <1>1, <1>3, <1>4, FailHeld, Zenon
<1>5. CASE /\ Portable!Done /\ pending' = pending /\ filled' = filled /\ removal' = removal
           /\ captured' = captured
  <2>1. \A e \in Own : /\ removal'[e] \in {removal[e], ""}
                       /\ captured'[e] \in {e, Stray, None}
                       /\ removal'[e] # "unowned" => Lists(e)
    BY <1>2, <1>5 DEF Owning
  <2>2. \A e \in target' \cap Own : removal'[e] # "unowned"
    <3>1. Type(at) # "wait_for"  BY <1>1
    <3>. QED  BY <1>1, <1>5, <3>1, Waited, Zenon
  <2>3. Type(at) # "submit"  BY <1>1
  <2>4. removal' \in [Own -> {"unowned", "", "failed", "verified"}]
        /\ captured' \in [Own -> Objects \cup {Stray, None}]
    BY <1>2, <1>5, Zenon DEF Tracked
  <2>5. ~ (pending' /\ filled' \in Own)  BY <1>1, <1>5, <2>3, Pended, Zenon
  <2>. QED  BY <1>1, <1>3, <1>5, <2>1, <2>2, <2>3, <2>4, <2>5, DoneHeld, Zenon
<1>. QED  BY <1>4, <1>5, Zenon DEF Portable!Observe, Portable!ownership, Portable!form

(* Begin, and the end of the steps. *)
LEMMA BeginHeld == Held /\ Portable!Begin => Held'
<1>. SUFFICES ASSUME Held, Portable!Begin PROVE Held'
  OBVIOUS
<1>1. /\ testPc = "begin" /\ testPc' = "steps" /\ test' = test /\ at' = at /\ target' = target
      /\ pending' = pending /\ removal' = removal /\ captured' = captured
      /\ workflowErr' = workflowErr /\ failures' = failures /\ verdict' = verdict
  BY Zenon DEF Portable!Begin, Portable!form, Portable!ownership, Portable!result
<1>2. Placed /\ Flagged /\ Tracked /\ Owning /\ Starting  BY <1>1, Zenon DEF Held
<1>3. Placed'
  <2>1. testPc' # "ended" => verdict' = "candidate"  BY <1>1, <1>2 DEF Placed
  <2>2. testPc' \in {"begin", "steps", "cleanup", "ended"}  BY <1>1
  <2>. QED  BY <1>1, <1>2, <2>1, <2>2, Zenon DEF Placed
<1>4. Flagged' /\ Tracked' /\ Owning'
  BY <1>1, <1>2, Zenon DEF Flagged, Tracked, Owning, Lists
<1>5. Stepping'
  <2>1. ~ (at' > 1)  BY <1>1, <1>2 DEF Starting
  <2>2. target' \cap Own = {}  BY <1>1, <1>2 DEF Starting
  <2>3. \A e \in Own : removal'[e] \in {"unowned", ""}  BY <1>1, <1>2 DEF Starting
  <2>4. ~ pending' /\ ~ workflowErr' /\ ~ failures'  BY <1>1, <1>2, Zenon DEF Starting
  <2>. QED  BY <2>1, <2>2, <2>3, <2>4, Zenon DEF Stepping
<1>6. testPc' # "begin" /\ testPc' # "cleanup"  BY <1>1
<1>. QED  BY <1>3, <1>4, <1>5, <1>6, Zenon DEF Held

LEMMA EndOfStepsHeld == Held /\ Portable!EndOfSteps => Held'
<1>. SUFFICES ASSUME Held, Portable!EndOfSteps PROVE Held'
  OBVIOUS
<1>1. /\ testPc = "steps" /\ testPc' = "cleanup" /\ test' = test /\ at' = 1 /\ target' = target
      /\ removal' = removal /\ captured' = captured
      /\ workflowErr' = workflowErr /\ failures' = failures /\ verdict' = verdict
      /\ at > Len(test.steps)
  BY Zenon DEF Portable!EndOfSteps, Portable!ToCleanup, Portable!ownership, Portable!result
<1>2. Placed /\ Flagged /\ Tracked /\ Owning /\ Stepping  BY <1>1, Zenon DEF Held
<1>3. Placed'
  <2>1. testPc' # "ended" => verdict' = "candidate"  BY <1>1, <1>2 DEF Placed
  <2>2. testPc' \in {"begin", "steps", "cleanup", "ended"}  BY <1>1
  <2>3. at' \in Nat /\ at' > 0  BY <1>1
  <2>. QED  BY <1>1, <1>2, <2>1, <2>2, <2>3, Zenon DEF Placed
<1>4. Flagged' /\ Tracked' /\ Owning'
  BY <1>1, <1>2, Zenon DEF Flagged, Tracked, Owning, Lists
<1>5. ~ (at <= Len(test.steps))
  <2>1. at \in Nat /\ Len(test.steps) \in Nat  BY <1>2, Planned, Zenon DEF Placed
  <2>2. \A n, k \in Nat : n > k => ~ (n <= k)  OBVIOUS
  <2>. QED  BY <1>1, <2>1, <2>2, Zenon
<1>6. \A e \in target \cap Own : removal[e] # "unowned"  BY <1>1, <1>5, Waited, Zenon
<1>7. Cleaned'
  <2>1. \A e \in Own : removal'[e] # "verified"  BY <1>1, <1>2 DEF Stepping
  <2>2. \A i \in DOMAIN test.cleanup : ~ (i < 1)
    <3>1. DOMAIN test.cleanup = 1 .. Len(test.cleanup) /\ Len(test.cleanup) \in Nat  BY Planned, Zenon
    <3>. QED  BY <3>1
  <2>3. target' \cap Own \subseteq Portable!owned'  BY <1>1, <1>6 DEF Portable!owned
  <2>. QED  BY <1>1, <2>1, <2>2, <2>3, Zenon DEF Cleaned
<1>8. testPc' # "begin" /\ testPc' # "steps"  BY <1>1
<1>. QED  BY <1>4, <1>3, <1>7, <1>8, Zenon DEF Held

(* The end of a test keeps what is known of it. *)
LEMMA EndHeld ==
  ASSUME Held, testPc' = "ended",
         UNCHANGED <<test, at, target, removal, captured, workflowErr, failures>>
  PROVE  Held'
<1>2. Placed /\ Flagged /\ Tracked /\ Owning  BY Zenon DEF Held
<1>3. Placed'
  <2>1. testPc' \in {"begin", "steps", "cleanup", "ended"}  OBVIOUS
  <2>. QED  BY <1>2, <2>1, Zenon DEF Placed
<1>4. Flagged' /\ Tracked' /\ Owning'
  BY <1>2, Zenon DEF Flagged, Tracked, Owning, Lists
<1>5. testPc' # "begin" /\ testPc' # "steps" /\ testPc' # "cleanup"  OBVIOUS
<1>. QED  BY <1>3, <1>4, <1>5, Zenon DEF Held

-----------------------------------------------------------------------------
(* One entry of the cleanup list is dealt with: e was looked at, and either *)
(* is not owned, or is verified gone, or there is a failure.                *)
Tended(e, removed) ==
  /\ testPc = "cleanup" /\ Portable!Cleaning(e) /\ e \in Own
  /\ testPc' = "cleanup" /\ test' = test /\ at' = at + 1 /\ captured' = captured
  /\ workflowErr' = workflowErr /\ verdict' = verdict
  /\ target' \subseteq target
  /\ removal' = [removal EXCEPT ![e] = removed]
  /\ removed \in {removal[e], "failed", "verified"}
  /\ removed # removal[e] => e \in Portable!owned
  /\ removed = "verified" => e \notin target'
  /\ failures' \in {TRUE, failures}
  /\ ~ failures' => e \notin Portable!owned \/ removed = "verified"

LEMMA ListAt ==
  ASSUME Held, NEW e, Portable!Cleaning(e)
  PROVE  /\ testPc = "cleanup" /\ at \in DOMAIN test.cleanup /\ test.cleanup[at] = e
         /\ e \in Own /\ removal[e] # "verified"
<1>1. testPc = "cleanup" /\ at <= Len(test.cleanup) /\ e = test.cleanup[at]
  BY Zenon DEF Portable!Cleaning
<1>2. at \in DOMAIN test.cleanup
  <2>1. at \in Nat /\ at > 0  BY Zenon DEF Held, Placed
  <2>2. DOMAIN test.cleanup = 1 .. Len(test.cleanup) /\ Len(test.cleanup) \in Nat  BY Planned, Zenon
  <2>3. \A n, k : n \in Nat /\ n > 0 /\ k \in Nat /\ n <= k => n \in 1 .. k  OBVIOUS
  <2>. QED  BY <1>1, <2>1, <2>2, <2>3, Zenon
<1>3. e \in Own
  <2>1. test.cleanup \in Seq(Own)  BY Planned, Zenon
  <2>. QED  BY <1>1, <1>2, <2>1
<1>4. removal[e] # "verified"
  <2>. SUFFICES ASSUME removal[e] = "verified" PROVE FALSE
    BY Zenon
  <2>1. PICK i \in DOMAIN test.cleanup : i < at /\ test.cleanup[i] = e
    BY <1>1, <1>3, Zenon DEF Held, Cleaned
  <2>2. i = at  BY <1>1, <1>2, <2>1, Planned, Zenon
  <2>3. at \in Nat  BY Zenon DEF Held, Placed
  <2>4. \A n \in Nat : ~ (n < n)  OBVIOUS
  <2>. QED  BY <2>1, <2>2, <2>3, <2>4, Zenon
<1>. QED  BY <1>1, <1>2, <1>3, <1>4, Zenon

LEMMA TendedHeld ==
  ASSUME Held, NEW e, NEW removed, Tended(e, removed)
  PROVE  Held'
<1>1. /\ testPc' = "cleanup" /\ test' = test /\ at' = at + 1 /\ captured' = captured
      /\ workflowErr' = workflowErr /\ verdict' = verdict /\ target' \subseteq target
      /\ removal' = [removal EXCEPT ![e] = removed]
  BY Zenon DEF Tended
<1>2. /\ removed \in {removal[e], "failed", "verified"}
      /\ removed # removal[e] => removal[e] # "unowned"
      /\ removed = "verified" => e \notin target'
      /\ failures' \in {TRUE, failures}
      /\ ~ failures' => removal[e] = "unowned" \/ removed = "verified"
  BY DEF Tended, Portable!owned
<1>3. testPc = "cleanup" /\ at \in DOMAIN test.cleanup /\ test.cleanup[at] = e
      /\ e \in Own /\ removal[e] # "verified"
  BY ListAt, Zenon DEF Tended
<1>4. Placed /\ Flagged /\ Tracked /\ Owning /\ Cleaned  BY <1>3, Zenon DEF Held
<1>5. /\ removal' \in [Own -> {"unowned", "", "failed", "verified"}]
      /\ removal'[e] = removed /\ \A x \in Own \ {e} : removal'[x] = removal[x]
      /\ \A x \in Own : removal'[x] = "unowned" <=> removal[x] = "unowned"
  BY <1>1, <1>2, <1>3, <1>4 DEF Tracked
<1>6. Placed'
  <2>1. at' \in Nat /\ at' > 0  BY <1>1, <1>4, NextPlace, Zenon DEF Placed
  <2>2. testPc' # "ended" => verdict' = "candidate"  BY <1>1, <1>3, <1>4 DEF Placed
  <2>3. target' \subseteq Objects  BY <1>1, <1>4 DEF Placed
  <2>4. testPc' \in {"begin", "steps", "cleanup", "ended"}  BY <1>1
  <2>. QED  BY <1>1, <1>4, <2>1, <2>2, <2>3, <2>4, Zenon DEF Placed
<1>7. Flagged' /\ Tracked'
  <2>1. failures' \in BOOLEAN  BY <1>2, <1>4, Zenon DEF Flagged
  <2>. QED  BY <1>1, <1>4, <1>5, <2>1, Zenon DEF Flagged, Tracked
<1>8. Owning'
  <2>. SUFFICES ASSUME NEW x \in Own
                PROVE  /\ captured[x] \in {x, Stray, None}
                       /\ removal'[x] # "unowned" => Lists(x)
                       /\ removal'[x] = "verified" => x \notin target'
    BY <1>1, Zenon DEF Owning, Lists
  <2>1. captured[x] \in {x, Stray, None} /\ (removal'[x] # "unowned" => Lists(x))
    BY <1>4, <1>5, Zenon DEF Owning
  <2>2. CASE x = e  BY <1>2, <1>5, <2>1, <2>2, Zenon
  <2>3. CASE x # e
    <3>1. removal'[x] = removal[x]  BY <1>5, <2>3
    <3>2. removal[x] = "verified" => x \notin target  BY <1>4, Zenon DEF Owning
    <3>. QED  BY <1>1, <2>1, <3>1, <3>2
  <2>. QED  BY <2>2, <2>3, Zenon
<1>9. Cleaned'
  <2>1. Portable!owned' = Portable!owned  BY <1>5 DEF Portable!owned
  <2>2. \A i \in DOMAIN test.cleanup : i < at' <=> (i < at \/ i = at)
    <3>1. DOMAIN test.cleanup \subseteq Nat
      <4>1. DOMAIN test.cleanup = 1 .. Len(test.cleanup)  BY Planned, Zenon
      <4>. QED  BY <4>1
    <3>2. \A n, m \in Nat : m < n + 1 <=> (m < n \/ m = n)  OBVIOUS
    <3>3. at \in Nat  BY <1>4, Zenon DEF Placed
    <3>. QED  BY <1>1, <3>1, <3>2, <3>3, Zenon
  <2>3. \A x \in Own : removal'[x] = "verified" =>
          \E i \in DOMAIN test.cleanup : i < at' /\ test.cleanup[i] = x
    <3>. SUFFICES ASSUME NEW x \in Own, removal'[x] = "verified"
                  PROVE  \E i \in DOMAIN test.cleanup : i < at' /\ test.cleanup[i] = x
      BY Zenon
    <3>1. CASE x = e  BY <1>3, <2>2, <3>1, Zenon
    <3>2. CASE x # e
      <4>1. removal[x] = "verified"  BY <1>5, <3>2
      <4>. QED  BY <1>4, <2>2, <4>1, Zenon DEF Cleaned
    <3>. QED  BY <3>1, <3>2
  <2>4. ~ failures' => \A i \in DOMAIN test.cleanup :
          i < at' /\ test.cleanup[i] \in Portable!owned => removal'[test.cleanup[i]] = "verified"
    <3>. SUFFICES ASSUME ~ failures', NEW i \in DOMAIN test.cleanup, i < at',
                         test.cleanup[i] \in Portable!owned
                  PROVE  removal'[test.cleanup[i]] = "verified"
      BY Zenon
    <3>. PICK x : x = test.cleanup[i]  OBVIOUS
    <3>1. x \in Own /\ removal[x] # "unowned"  BY DEF Portable!owned
    <3>2. CASE x = e  BY <1>2, <1>5, <3>1, <3>2, Zenon
    <3>3. CASE x # e
      <4>1. i < at  BY <1>3, <2>2, <3>3, Zenon
      <4>2. ~ failures  BY <1>2, Zenon
      <4>3. removal[x] = "verified"  BY <1>4, <4>1, <4>2, Zenon DEF Cleaned
      <4>. QED  BY <1>5, <3>1, <3>3, <4>3
    <3>. QED  BY <3>2, <3>3
  <2>5. ~ workflowErr => target' \cap Own \subseteq Portable!owned
    BY <1>1, <1>4 DEF Cleaned
  <2>. QED  BY <1>1, <2>1, <2>3, <2>4, <2>5, Zenon DEF Cleaned
<1>10. testPc' # "begin" /\ testPc' # "steps"  BY <1>1
<1>. QED  BY <1>6, <1>7, <1>8, <1>9, <1>10, Zenon DEF Held

(* Every action of the cleanup is of this kind. *)
Tending == \E e \in Own : \E removed : Tended(e, removed)

LEMMA Shrinks ==
  ASSUME NEW o, Portable!Confirmed(o) PROVE target' \subseteq target
BY DEF Portable!Confirmed

LEMMA SameMark ==
  ASSUME Held, NEW e \in Own, removal' = removal
  PROVE  removal' = [removal EXCEPT ![e] = removal[e]]
<1>1. removal \in [Own -> {"unowned", "", "failed", "verified"}]  BY Zenon DEF Held, Tracked
<1>. QED  BY <1>1

LEMMA SkipTends == Held /\ Portable!SkipUnowned => Tending
<1>. SUFFICES ASSUME Held, Portable!SkipUnowned PROVE Tending
  OBVIOUS
<1>1. PICK e \in Own \ Portable!owned : Portable!Cleaning(e)  BY Zenon DEF Portable!SkipUnowned
<1>2. /\ testPc' = testPc /\ test' = test /\ at' = at + 1 /\ captured' = captured
      /\ workflowErr' = workflowErr /\ verdict' = verdict /\ target' = target
      /\ removal' = removal /\ failures' = failures
  BY Zenon DEF Portable!SkipUnowned, Portable!ownership, Portable!result
<1>3. e \in Own /\ testPc = "cleanup" /\ removal[e] # "verified"  BY <1>1, ListAt, Zenon
<1>4. removal' = [removal EXCEPT ![e] = removal[e]]  BY <1>2, <1>3, SameMark, Zenon
<1>5. target' \subseteq target /\ removal[e] \in {removal[e], "failed", "verified"}
      /\ failures' \in {TRUE, failures}
  BY <1>2
<1>6. Tended(e, removal[e])  BY <1>1, <1>2, <1>3, <1>4, <1>5, Zenon DEF Tended
<1>. QED  BY <1>3, <1>6, Zenon DEF Tending

(* A failure that leaves the status of the object, or says that it failed. *)
LEMMA FailTends ==
  ASSUME Held, NEW e \in Portable!owned, Portable!Cleaning(e), target' \subseteq target,
         Portable!FailCleanup, removal' = removal \/ Portable!Mark(e, "failed"),
         verdict' = verdict
  PROVE  Tending
<1>1. /\ testPc' = testPc /\ test' = test /\ at' = at + 1 /\ captured' = captured
      /\ workflowErr' = workflowErr /\ failures' = TRUE
  BY Zenon DEF Portable!FailCleanup
<1>2. e \in Own /\ testPc = "cleanup" /\ removal[e] # "verified"  BY ListAt, Zenon
<1>3. failures' \in {TRUE, failures} /\ "failed" # "verified"  BY <1>1
<1>4. CASE removal' = removal
  <2>1. removal' = [removal EXCEPT ![e] = removal[e]]  BY <1>2, <1>4, SameMark, Zenon
  <2>2. removal[e] \in {removal[e], "failed", "verified"}  OBVIOUS
  <2>3. Tended(e, removal[e])  BY <1>1, <1>2, <1>3, <2>1, <2>2, Zenon DEF Tended
  <2>. QED  BY <1>2, <2>3, Zenon DEF Tending
<1>5. CASE Portable!Mark(e, "failed")
  <2>1. removal' = [removal EXCEPT ![e] = "failed"]  BY <1>5, Zenon DEF Portable!Mark
  <2>2. "failed" \in {removal[e], "failed", "verified"}  OBVIOUS
  <2>3. Tended(e, "failed")  BY <1>1, <1>2, <1>3, <2>1, <2>2, Zenon DEF Tended
  <2>. QED  BY <1>2, <2>3, Zenon DEF Tending
<1>. QED  BY <1>4, <1>5

LEMMA MissTends == Held /\ Portable!MissConfirmation => Tending
<1>. SUFFICES ASSUME Held, Portable!MissConfirmation PROVE Tending
  OBVIOUS
<1>1. PICK e \in Portable!owned :
        Portable!Cleaning(e) /\ (removal' = removal \/ Portable!Mark(e, "failed"))
  BY Zenon DEF Portable!MissConfirmation
<1>2. Portable!FailCleanup /\ target' = target  BY Zenon DEF Portable!MissConfirmation
<1>3. verdict' = verdict  BY <1>2, Zenon DEF Portable!FailCleanup
<1>4. target' \subseteq target  BY <1>2
<1>. QED  BY <1>1, <1>2, <1>3, <1>4, FailTends, Zenon

LEMMA LoseTends == Held /\ Portable!LoseActivation => Tending
<1>. SUFFICES ASSUME Held, Portable!LoseActivation PROVE Tending
  OBVIOUS
<1>1. PICK e \in Portable!owned : Portable!Cleaning(e) /\ Portable!Confirmed(captured[e])
  BY Zenon DEF Portable!LoseActivation
<1>2. Portable!FailCleanup /\ removal' = removal  BY Zenon DEF Portable!LoseActivation
<1>3. verdict' = verdict  BY <1>2, Zenon DEF Portable!FailCleanup
<1>4. target' \subseteq target  BY <1>1, Shrinks, Zenon
<1>. QED  BY <1>1, <1>2, <1>3, <1>4, FailTends, Zenon

LEMMA CleanUpTends == Held /\ Portable!CleanUp => Tending
<1>. SUFFICES ASSUME Held, Portable!CleanUp PROVE Tending
  OBVIOUS
<1>1. PICK e \in Portable!owned :
        /\ Portable!Cleaning(e) /\ captured[e] \in target /\ Portable!Confirmed(captured[e])
        /\ \/ Portable!Mark(e, "failed") /\ Portable!FailCleanup
           \/ /\ Portable!Unavailable(captured[e])
              /\ Portable!Mark(e, "verified")
              /\ at' = at + 1
              /\ UNCHANGED <<test, testPc, page, Portable!form, captured, Portable!result>>
  BY Zenon DEF Portable!CleanUp
<1>2. target' \subseteq target  BY <1>1, Shrinks, Zenon
<1>3. CASE Portable!Mark(e, "failed") /\ Portable!FailCleanup
  <2>1. verdict' = verdict  BY <1>3, Zenon DEF Portable!FailCleanup
  <2>. QED  BY <1>1, <1>2, <1>3, <2>1, FailTends, Zenon
<1>4. CASE /\ Portable!Unavailable(captured[e])
           /\ Portable!Mark(e, "verified")
           /\ at' = at + 1
           /\ UNCHANGED <<test, testPc, page, Portable!form, captured, Portable!result>>
  <2>1. /\ testPc' = testPc /\ test' = test /\ at' = at + 1 /\ captured' = captured
        /\ workflowErr' = workflowErr /\ failures' = failures /\ verdict' = verdict
        /\ removal' = [removal EXCEPT ![e] = "verified"] /\ captured[e] \notin target'
    BY <1>4, Zenon DEF Portable!result, Portable!Mark, Portable!Unavailable
  <2>2. e \in Own /\ testPc = "cleanup" /\ removal[e] # "verified"  BY <1>1, ListAt, Zenon
  <2>3. captured[e] = e
    <3>1. captured[e] \in {e, Stray, None}  BY <2>2, Zenon DEF Held, Owning
    <3>2. captured[e] \in Objects  BY <1>1 DEF Held, Placed
    <3>3. Stray \notin Objects /\ None \notin Objects  BY Planned, Zenon
    <3>. QED  BY <3>1, <3>2, <3>3
  <2>4. "verified" \in {removal[e], "failed", "verified"} /\ failures' \in {TRUE, failures}
    BY <2>1
  <2>5. Tended(e, "verified")
    BY <1>1, <1>2, <2>1, <2>2, <2>3, <2>4, Zenon DEF Tended
  <2>. QED  BY <2>2, <2>5, Zenon DEF Tending
<1>. QED  BY <1>1, <1>3, <1>4

-----------------------------------------------------------------------------
Attempts ==
  Portable!NavigateStep \/ Portable!Fill \/ Portable!Submit \/ Portable!WaitFor \/ Portable!Observe

LEMMA AttemptHeld == Held /\ Attempts => Held'
BY NavigateHeld, FillHeld, SubmitHeld, WaitHeld, ObserveHeld, Zenon DEF Attempts

LEMMA TendingFound ==
  Held /\ (Portable!SkipUnowned \/ Portable!MissConfirmation \/ Portable!LoseActivation
           \/ Portable!CleanUp) => Tending
BY SkipTends, MissTends, LoseTends, CleanUpTends, Zenon

LEMMA Moves ==
  ASSUME Held, Portable!Next
  PROVE  \/ Portable!Decline \/ Portable!Begin \/ Portable!EndOfSteps \/ Attempts
         \/ Tending \/ Portable!Judge
BY TendingFound, Zenon DEF Portable!Next, Attempts

LEMMA HeldStep == Held /\ [Portable!Next]_testVars => Held'
<1>. SUFFICES ASSUME Held, [Portable!Next]_testVars PROVE Held'
  OBVIOUS
<1>1. CASE UNCHANGED testVars
  <2>1. UNCHANGED <<test, testPc, target, at, page, pending, filled, captured, removal,
                    workflowErr, failures, verdict>>
    BY <1>1, Zenon DEF testVars
  <2>2. Portable!owned' = Portable!owned /\ StepNumbers' = StepNumbers
    BY <2>1, Zenon DEF Portable!owned, StepNumbers
  <2>3. Placed' = Placed /\ Flagged' = Flagged /\ Tracked' = Tracked
    BY <2>1, Zenon DEF Placed, Flagged, Tracked
  <2>4. Owning' = Owning /\ Starting' = Starting
    BY <2>1, Zenon DEF Owning, Starting, Lists
  <2>5. Stepping' = Stepping  BY <2>1, <2>2, Zenon DEF Stepping, Fills, Type
  <2>6. Cleaned' = Cleaned  BY <2>1, <2>2, Zenon DEF Cleaned
  <2>. QED  BY <2>1, <2>3, <2>4, <2>5, <2>6, Zenon DEF Held
<1>2. CASE Portable!Next
  <2>1. CASE Portable!Decline \/ Portable!Judge
    <3>1. /\ testPc' = "ended"
          /\ UNCHANGED <<test, at, target, removal, captured, workflowErr, failures>>
      BY <2>1, Zenon DEF Portable!Decline, Portable!Judge, Portable!ownership
    <3>. QED  BY <3>1, EndHeld, Zenon
  <2>2. CASE Tending  BY <2>2, TendedHeld, Zenon DEF Tending
  <2>. QED  BY <1>2, <2>1, <2>2, Moves, BeginHeld, EndOfStepsHeld, AttemptHeld, Zenon
<1>. QED  BY <1>1, <1>2, Zenon

-----------------------------------------------------------------------------
(* The contract, in the words of the runner. *)
VerifiedGone == {e \in Own : removal[e] = "verified"}
Left == target \cap Own
contractVars == <<Left, Portable!owned, VerifiedGone, verdict>>

LEMMA ContractStart == Portable!Init => Portable!Contract!Init
<1>. SUFFICES ASSUME Portable!Init PROVE Portable!Contract!Init
  OBVIOUS
<1>1. Own \cap Others = {}
  BY TestsAssumption DEF Portable!PortableAssumption
<1>2. target = Others /\ verdict = "candidate" /\ removal = [e \in Own |-> "unowned"]
  BY Zenon DEF Portable!Init
<1>3. target \cap Own = {} /\ Portable!owned = {} /\ {e \in Own : removal[e] = "verified"} = {}
  BY <1>1, <1>2 DEF Portable!owned
<1>. QED  BY <1>2, <1>3 DEF Portable!Contract!Init

(* An attempt creates at most what it submits, and claims at most what it  *)
(* waited for.                                                             *)
LEMMA AttemptWorks ==
  ASSUME Held, Attempts
  PROVE  /\ verdict = "candidate" /\ verdict' = verdict
         /\ VerifiedGone = {} /\ VerifiedGone' = {}
         /\ Left \subseteq Left' /\ Portable!owned \subseteq Portable!owned'
         /\ \A c, d \in Portable!owned' \ Portable!owned : c = d
<1>1. testPc = "steps" /\ verdict' = verdict
  <2>1. testPc = "steps"
    BY Zenon DEF Attempts, Portable!NavigateStep, Portable!Fill, Portable!Submit, Portable!WaitFor,
       Portable!Observe, Portable!At
  <2>2. Portable!FailStep \/ Portable!Done
    BY Zenon DEF Attempts, Portable!NavigateStep, Portable!Fill, Portable!Submit, Portable!WaitFor,
       Portable!Observe
  <2>. QED  BY <2>1, <2>2, Zenon DEF Portable!FailStep, Portable!Done, Portable!result
<1>2. Stepping /\ Tracked /\ verdict = "candidate"
  <2>1. Stepping /\ Tracked /\ Placed  BY <1>1, Zenon DEF Held
  <2>2. verdict = "candidate"  BY <1>1, <2>1 DEF Placed
  <2>. QED  BY <2>1, <2>2, Zenon
<1>3. target \subseteq target'
  <2>1. target' = target \/ target' \in {target, target \cup ({filled} \cap Own)}
    BY Zenon DEF Attempts, Portable!NavigateStep, Portable!Fill, Portable!Submit, Portable!WaitFor,
       Portable!Observe
  <2>. QED  BY <2>1
<1>4. \/ removal' = removal
      \/ \E e : removal' = [removal EXCEPT ![e] = ""]
  <2>1. Portable!FailStep => removal' = removal
    BY Zenon DEF Portable!FailStep, Portable!ownership
  <2>. QED
    BY <2>1, Zenon DEF Attempts, Portable!NavigateStep, Portable!Fill, Portable!Submit,
       Portable!WaitFor, Portable!Observe, Portable!ownership
<1>. DEFINE Only(e) == \A x \in Own : removal'[x] = removal[x] \/ (x = e /\ removal'[x] = "")
<1>5. \E e : Only(e)
  <2>1. CASE removal' = removal
    <3>1. Only(None)  BY <2>1
    <3>. HIDE DEF Only
    <3>. QED  BY <3>1, Zenon
  <2>2. CASE \E e : removal' = [removal EXCEPT ![e] = ""]
    <3>1. PICK d : removal' = [removal EXCEPT ![d] = ""]  BY <2>2, Zenon
    <3>2. Only(d)  BY <1>2, <3>1 DEF Tracked
    <3>. HIDE DEF Only
    <3>. QED  BY <3>2, Zenon
  <2>. QED  BY <1>4, <2>1, <2>2, Zenon
<1>. PICK e : Only(e)
  <2>. HIDE DEF Only
  <2>. QED  BY <1>5, Zenon
<1>6. VerifiedGone = {} /\ VerifiedGone' = {}
  <2>1. \A x \in Own : removal[x] # "verified"  BY <1>2 DEF Stepping
  <2>2. \A x \in Own : removal'[x] # "verified"  BY <2>1
  <2>. QED  BY <2>1, <2>2 DEF VerifiedGone
<1>7. Portable!owned \subseteq Portable!owned'  BY DEF Portable!owned
<1>8. \A c, d \in Portable!owned' \ Portable!owned : c = d
  <2>1. \A c \in Portable!owned' \ Portable!owned : c = e  BY DEF Portable!owned
  <2>. QED  BY <2>1, Zenon
<1>9. Left \subseteq Left'  BY <1>3 DEF Left
<1>. QED  BY <1>1, <1>2, <1>6, <1>7, <1>8, <1>9, Zenon

(* Tending to an object removes, and verifies at most the one removed.     *)
LEMMA TendingRemoves ==
  ASSUME Held, Tending
  PROVE  /\ verdict = "candidate" /\ verdict' = verdict
         /\ Portable!owned' = Portable!owned /\ Left' \subseteq Left
         /\ \/ VerifiedGone' = VerifiedGone
            \/ \E e \in Portable!owned \ Left' : VerifiedGone' = VerifiedGone \cup {e}
<1>0. PICK e \in Own : \E removed : Tended(e, removed)  BY Zenon DEF Tending
<1>1. PICK removed : Tended(e, removed)  BY <1>0, Zenon
<1>2. /\ testPc = "cleanup" /\ verdict' = verdict /\ target' \subseteq target
      /\ removal' = [removal EXCEPT ![e] = removed]
      /\ removed \in {removal[e], "failed", "verified"}
      /\ removed # removal[e] => e \in Portable!owned
      /\ removed = "verified" => e \notin target'
  BY <1>1, Zenon DEF Tended
<1>3. Tracked /\ verdict = "candidate" /\ removal[e] # "verified"
  <2>1. Tracked /\ Placed  BY Zenon DEF Held
  <2>2. verdict = "candidate"  BY <1>2, <2>1 DEF Placed
  <2>. QED  BY <1>1, <2>1, <2>2, ListAt, Zenon DEF Tended
<1>4. removal'[e] = removed /\ \A x \in Own \ {e} : removal'[x] = removal[x]
  BY <1>2, <1>3 DEF Tracked
<1>5. removed # removal[e] => removal[e] # "unowned" /\ removed # "unowned"
  BY <1>2 DEF Portable!owned
<1>6. Portable!owned' = Portable!owned  BY <1>4, <1>5 DEF Portable!owned
<1>7. Left' \subseteq Left  BY <1>2 DEF Left
<1>8. CASE removed = "verified"
  <2>1. e \in Portable!owned \ Left'  BY <1>2, <1>3, <1>8 DEF Left
  <2>2. VerifiedGone' = VerifiedGone \cup {e}  BY <1>4, <1>8 DEF VerifiedGone
  <2>. QED  BY <1>2, <1>3, <1>6, <1>7, <2>1, <2>2, Zenon
<1>9. CASE removed # "verified"
  <2>1. VerifiedGone' = VerifiedGone  BY <1>3, <1>4, <1>9 DEF VerifiedGone
  <2>. QED  BY <1>2, <1>3, <1>6, <1>7, <2>1, Zenon
<1>. QED  BY <1>8, <1>9

(* A verdict after the cleanup: nothing owned is unaccounted for unless    *)
(* there was a failure, and what a passing test created is gone.           *)
LEMMA VerdictJudges ==
  ASSUME Held, Portable!Judge
  PROVE  /\ verdict = "candidate"
         /\ verdict' \in {"passed", "failed", "cleanup_failed"}
         /\ verdict' = "passed" => Left = {} /\ Portable!owned # {} /\ Portable!owned = VerifiedGone
         /\ Portable!owned # VerifiedGone => verdict' = "cleanup_failed"
         /\ Left' = Left /\ Portable!owned' = Portable!owned /\ VerifiedGone' = VerifiedGone
<1>1. /\ testPc = "judge" \/ (testPc = "cleanup" /\ at > Len(test.cleanup))
      /\ verdict' = Portable!Outcome /\ target' = target /\ removal' = removal
  BY Zenon DEF Portable!Judge, Portable!ownership
<1>2. Placed /\ Tracked /\ Owning  BY Zenon DEF Held
<1>3. testPc = "cleanup" /\ at > Len(test.cleanup) /\ verdict = "candidate"
  <2>1. testPc # "judge"  BY <1>2 DEF Placed
  <2>2. testPc = "cleanup" /\ at > Len(test.cleanup)  BY <1>1, <2>1, Zenon
  <2>3. verdict = "candidate"  BY <1>2, <2>2 DEF Placed
  <2>. QED  BY <2>2, <2>3
<1>4. Cleaned  BY <1>3, Zenon DEF Held
<1>5. \A i \in DOMAIN test.cleanup : i < at
  <2>1. DOMAIN test.cleanup = 1 .. Len(test.cleanup) /\ Len(test.cleanup) \in Nat  BY Planned, Zenon
  <2>2. \A n, k \in Nat : k > n => \A i \in 1 .. n : i < k  OBVIOUS
  <2>3. at \in Nat  BY <1>2, Zenon DEF Placed
  <2>. QED  BY <1>3, <2>1, <2>2, <2>3, Zenon
<1>6. ~ failures => Portable!owned = VerifiedGone
  <2>. SUFFICES ASSUME ~ failures, NEW e \in Own
                PROVE  removal[e] # "unowned" <=> removal[e] = "verified"
    BY Zenon DEF Portable!owned, VerifiedGone
  <2>1. ASSUME removal[e] # "unowned" PROVE removal[e] = "verified"
    <3>1. PICK i \in DOMAIN test.cleanup : test.cleanup[i] = e
      BY <1>2, <2>1, Zenon DEF Owning, Lists
    <3>2. e \in Portable!owned  BY <2>1, Zenon DEF Portable!owned
    <3>. QED  BY <1>4, <1>5, <3>1, <3>2, Zenon DEF Cleaned
  <2>2. "verified" # "unowned"  OBVIOUS
  <2>. QED  BY <2>1, <2>2, Zenon
<1>7. verdict' \in {"passed", "failed", "cleanup_failed"}
  BY <1>1, Zenon DEF Portable!Outcome
<1>8. Portable!owned # VerifiedGone => verdict' = "cleanup_failed"
  BY <1>1, <1>6, Zenon DEF Portable!Outcome
<1>9. verdict' = "passed" => Left = {} /\ Portable!owned # {} /\ Portable!owned = VerifiedGone
  <2>. SUFFICES ASSUME verdict' = "passed"
                PROVE  Left = {} /\ Portable!owned # {} /\ Portable!owned = VerifiedGone
    OBVIOUS
  <2>1. "cleanup_failed" # "passed" /\ "failed" # "passed"  OBVIOUS
  <2>2. ~ failures /\ ~ workflowErr /\ Portable!owned # {}
    BY <1>1, <2>1, Zenon DEF Portable!Outcome
  <2>3. Portable!owned = VerifiedGone  BY <1>6, <2>2, Zenon
  <2>4. target \cap Own \subseteq VerifiedGone  BY <1>4, <2>2, <2>3, Zenon DEF Cleaned
  <2>5. \A e \in VerifiedGone : e \notin target  BY <1>2 DEF Owning, VerifiedGone
  <2>6. Left = {}  BY <2>4, <2>5 DEF Left
  <2>. QED  BY <2>2, <2>3, <2>6, Zenon
<1>10. Left' = Left /\ Portable!owned' = Portable!owned /\ VerifiedGone' = VerifiedGone
  BY <1>1, Zenon DEF Left, Portable!owned, VerifiedGone
<1>. QED  BY <1>3, <1>7, <1>8, <1>9, <1>10, Zenon

LEMMA StepKeepsContract ==
  Held /\ [Portable!Next]_testVars => [Portable!Contract!Next]_(Portable!Contract!vars)
<1>. SUFFICES ASSUME Held, [Portable!Next]_testVars
              PROVE  Portable!Contract!Next \/ UNCHANGED Portable!Contract!vars
  OBVIOUS
<1>0. UNCHANGED contractVars => UNCHANGED Portable!Contract!vars
  BY Zenon DEF contractVars, Left, VerifiedGone, Portable!Contract!vars
<1>1. CASE UNCHANGED testVars
  <2>1. UNCHANGED contractVars
    BY <1>1, Zenon DEF testVars, contractVars, Left, VerifiedGone, Portable!owned
  <2>. QED  BY <1>0, <2>1, Zenon
<1>2. CASE Portable!Next
  <2>1. CASE Attempts
    <3>1. Portable!Contract!Work
      <4>1. Left' \subseteq Own /\ Portable!owned' \subseteq Own  BY DEF Left, Portable!owned
      <4>. QED
        BY <2>1, <4>1, AttemptWorks, Zenon
        DEF Portable!Contract!Work, Portable!Contract!Running, Left, VerifiedGone
    <3>. QED  BY <3>1, Zenon DEF Portable!Contract!Next
  <2>2. CASE Tending
    <3>1. Portable!Contract!Remove
      BY <2>2, TendingRemoves, Zenon
      DEF Portable!Contract!Remove, Portable!Contract!Running, Left, VerifiedGone
    <3>. QED  BY <3>1, Zenon DEF Portable!Contract!Next
  <2>3. CASE Portable!Judge
    <3>1. Portable!Contract!Judge
      <4>1. verdict' \in {"passed", "failed", "cleanup_failed", "blocked", "unresolved"}
            /\ verdict' \notin {"blocked", "unresolved"}
        BY <2>3, VerdictJudges
      <4>. QED
        BY <2>3, <4>1, VerdictJudges, Zenon DEF Portable!Contract!Judge, Left, VerifiedGone
    <3>. QED  BY <3>1, Zenon DEF Portable!Contract!Next
  <2>4. CASE Portable!Decline
    <3>1. /\ testPc = "begin" /\ verdict' \in {"blocked", "failed", "unresolved"}
          /\ target' = target /\ removal' = removal
      BY <2>4, Zenon DEF Portable!Decline, Portable!ownership
    <3>2. Starting /\ Placed  BY <3>1, Zenon DEF Held
    <3>3. Left = {} /\ Portable!owned = {} /\ VerifiedGone = {} /\ verdict = "candidate"
      BY <3>1, <3>2 DEF Starting, Placed, Left, VerifiedGone, Portable!owned
    <3>4. Left' = Left /\ Portable!owned' = Portable!owned /\ VerifiedGone' = VerifiedGone
      BY <3>1, Zenon DEF Left, Portable!owned, VerifiedGone
    <3>5. verdict' \in {"passed", "failed", "cleanup_failed", "blocked", "unresolved"}
          /\ verdict' # "passed"
      BY <3>1
    <3>6. Portable!Contract!Judge
      BY <3>3, <3>4, <3>5, Zenon DEF Portable!Contract!Judge, Left, VerifiedGone
    <3>. QED  BY <3>6, Zenon DEF Portable!Contract!Next
  <2>5. CASE Portable!Begin \/ Portable!EndOfSteps
    <3>1. target' = target /\ removal' = removal /\ verdict' = verdict
      BY <2>5, Zenon DEF Portable!Begin, Portable!EndOfSteps, Portable!ownership, Portable!result
    <3>2. UNCHANGED contractVars
      BY <3>1, Zenon DEF contractVars, Left, VerifiedGone, Portable!owned
    <3>. QED  BY <1>0, <3>2, Zenon
  <2>. QED  BY <1>2, <2>1, <2>2, <2>3, <2>4, <2>5, Moves, Zenon
<1>. QED  BY <1>1, <1>2, Zenon

(* The interpreter of a portable test keeps the contract of a mutating     *)
(* test, for every set of tests as the generator writes them.              *)
THEOREM PortableImplementsOwnedTest == MCSpec => PortableContract
<1>1. MCInit => Held /\ Portable!Contract!Init
  BY HeldInit, ContractStart, Zenon DEF MCInit
<1>2. [MCNext]_<<scene, vars, testVars, serverVars, reportVars>> => [Portable!Next]_testVars
  BY Zenon DEF MCNext
<1>3. Held /\ [MCNext]_<<scene, vars, testVars, serverVars, reportVars>> => Held'
  BY <1>2, HeldStep, Zenon
<1>4. Held /\ [MCNext]_<<scene, vars, testVars, serverVars, reportVars>>
        => [Portable!Contract!Next]_(Portable!Contract!vars)
  BY <1>2, StepKeepsContract, Zenon
<1>. QED
  BY <1>1, <1>3, <1>4, PTL
  DEF MCSpec, PortableContract, Portable!OwnedContract, Portable!Contract!Spec

-----------------------------------------------------------------------------
(* The report of a pack's executions.                                      *)
(* What the report rests on: every result is one of a test that ran, the   *)
(* first execution holds all tests of the pack, and of the executions that *)
(* hold a test there is a last.                                            *)
Outcomes == UNION {[held -> Shown!Ran] : held \in SUBSET ProposedTests}
Executions == [results : Outcomes, selected : BOOLEAN]

Kept ==
  /\ tests \subseteq ProposedTests /\ exit \in {0, 1}
  /\ history \in Seq(Executions) /\ Len(history) > 0
  /\ \A i \in 1 .. Len(history) : DOMAIN history[i].results \subseteq tests

LastHeld ==
  \A t \in tests : \E i \in Shown!Holding(t) : \A k \in Shown!Holding(t) : k <= i

(* The exit code is the last execution's, which held all tests unless one  *)
(* was selected.                                                           *)
Concluded ==
  Len(history) > 1 =>
    /\ exit = Shown!ExecutionExitCode(Shown!Latest)
    /\ ~ Shown!Latest.selected => DOMAIN Shown!Latest.results = tests

Told == Kept /\ LastHeld /\ Concluded

-----------------------------------------------------------------------------
(* PortableReport brings its own copy of the module on finite sets.        *)
LEMMA SameFinite == \A S : Shown!IsFiniteSet(S) <=> IsFiniteSet(S)
BY DEF Shown!IsFiniteSet, IsFiniteSet

LEMMA SameCardinality == \A S : Shown!Cardinality(S) = Cardinality(S)
BY Zenon DEF Shown!Cardinality, Cardinality

LEMMA ResultOf ==
  ASSUME NEW execution \in Executions
  PROVE  /\ DOMAIN execution.results \subseteq ProposedTests
         /\ \A t \in DOMAIN execution.results : execution.results[t] \in Shown!Ran
         /\ execution.selected \in BOOLEAN
<1>1. PICK held \in SUBSET ProposedTests : execution.results \in [held -> Shown!Ran]
  BY DEF Executions, Outcomes
<1>. QED  BY <1>1 DEF Executions

LEMMA MakeExecution ==
  ASSUME NEW held \in SUBSET ProposedTests, NEW results \in [held -> Shown!Ran],
         NEW selected \in BOOLEAN
  PROVE  [results |-> results, selected |-> selected] \in Executions
<1>1. results \in Outcomes  BY Zenon DEF Outcomes
<1>. QED  BY <1>1 DEF Executions

(* The status of a test is one of the executions that hold it. *)
LEMMA RowsRan ==
  ASSUME Told
  PROVE  \A t \in tests : /\ Shown!Rows[t] = Shown!LatestResult(t)
                          /\ Shown!Rows[t] \in Shown!Ran
<1>. SUFFICES ASSUME NEW t \in tests
              PROVE  /\ Shown!Rows[t] = Shown!LatestResult(t)
                     /\ Shown!LatestResult(t) \in Shown!Ran
  BY Zenon
<1>1. Shown!Rows[t] = Shown!LatestResult(t)  BY DEF Shown!Rows
<1>2. PICK i \in Shown!Holding(t) : \A k \in Shown!Holding(t) : k <= i
  BY Zenon DEF Told, LastHeld
<1>. DEFINE last == CHOOSE n \in Shown!Holding(t) : \A k \in Shown!Holding(t) : k <= n
<1>3. last \in Shown!Holding(t)  BY <1>2, Zenon
<1>4. last \in 1 .. Len(history) /\ t \in DOMAIN history[last].results
  BY <1>3 DEF Shown!Holding, Told, Kept
<1>5. Shown!LatestResult(t) = history[last].results[t]
  BY <1>3, Zenon DEF Shown!LatestResult
<1>6. history[last] \in Executions  BY <1>4 DEF Told, Kept
<1>7. history[last].results[t] \in Shown!Ran  BY <1>4, <1>6, ResultOf, Zenon
<1>. QED  BY <1>1, <1>5, <1>7, Zenon

(* After a run of all tests the rows are its results. *)
LEMMA RowsOfRun ==
  ASSUME Told, Len(history) > 1, ~ Shown!Latest.selected
  PROVE  \A t \in tests : Shown!Rows[t] = Shown!Latest.results[t]
<1>. SUFFICES ASSUME NEW t \in tests
              PROVE  Shown!LatestResult(t) = Shown!Latest.results[t]
  BY RowsRan, Zenon
<1>1. t \in DOMAIN history[Len(history)].results
  BY Zenon DEF Told, Concluded, Shown!Latest
<1>2. Len(history) \in Shown!Holding(t)
  BY <1>1 DEF Shown!Holding, Told, Kept
<1>3. Shown!Holding(t) \subseteq 1 .. Len(history)  BY DEF Shown!Holding, Told, Kept
<1>. DEFINE last == CHOOSE n \in Shown!Holding(t) : \A k \in Shown!Holding(t) : k <= n
<1>4. Len(history) \in Nat  BY DEF Told, Kept
<1>5. \A k \in Shown!Holding(t) : k <= Len(history)  BY <1>3, <1>4
<1>6. last \in Shown!Holding(t) /\ \A k \in Shown!Holding(t) : k <= last
  BY <1>2, <1>5, Zenon
<1>7. last = Len(history)  
  <2>1. Len(history) <= last  BY <1>2, <1>6, Zenon
  <2>2. last \in 1 .. Len(history)  BY <1>3, <1>6, Zenon
  <2>. QED  BY <2>1, <2>2, <1>4
<1>8. Shown!LatestResult(t) = history[last].results[t]
  BY <1>2, Zenon DEF Shown!LatestResult
<1>. QED  BY <1>7, <1>8, Zenon DEF Shown!Latest

(* A status is counted if and only if a test shows it. *)
LEMMA Counted ==
  ASSUME NEW results, IsFiniteSet(DOMAIN results), NEW s \in Shown!Statuses
  PROVE  LET n == Shown!summarize(results)[s]
         IN  n \in Nat /\ (n > 0 <=> \E t \in DOMAIN results : results[t] = s)
<1>. DEFINE of == {t \in DOMAIN results : results[t] = s}
<1>1. IsFiniteSet(of)
  <2>1. of \in SUBSET DOMAIN results  OBVIOUS
  <2>. QED  BY <2>1, FS_Subset, Zenon
<1>2. Cardinality(of) \in Nat  BY <1>1, FS_CardinalityType
<1>3. Cardinality(of) = 0 <=> of = {}  BY <1>1, FS_EmptySet
<1>. DEFINE counts == [kind \in Shown!Statuses |-> Cardinality({t \in DOMAIN results : results[t] = kind})]
<1>4. Shown!summarize(results)[s] = Cardinality(of)
  <2>1. Shown!summarize(results) = counts
    BY SameCardinality, Zenon DEF Shown!summarize
  <2>2. counts[s] = Cardinality(of)  BY Zenon
  <2>. QED  BY <2>1, <2>2, Zenon
<1>. QED  BY <1>2, <1>3, <1>4

(* The overall status is the gravest there is. *)
LEMMA Gravest ==
  ASSUME NEW results, IsFiniteSet(DOMAIN results),
         \A t \in DOMAIN results : results[t] \in Shown!Ran
  PROVE  LET overall == Shown!overallStatus(Shown!summarize(results))
         IN  IF DOMAIN results = {} THEN overall = "not_run"
             ELSE /\ \E t \in DOMAIN results : results[t] = overall
                  /\ \A t \in DOMAIN results : Shown!Gravity[results[t]] <= Shown!Gravity[overall]
<1>. DEFINE summary == Shown!summarize(results)
            shows(s) == \E t \in DOMAIN results : results[t] = s
            seen == {i \in DOMAIN Shown!GravestFirst : summary[Shown!GravestFirst[i]] > 0}
            first == CHOOSE i \in seen : \A k \in seen : i <= k
            overall == Shown!overallStatus(summary)
<1>1. DOMAIN Shown!GravestFirst = 1 .. 4  BY DEF Shown!GravestFirst
<1>2. /\ Shown!GravestFirst[1] = "cleanup_failed" /\ Shown!GravestFirst[2] = "failed"
      /\ Shown!GravestFirst[3] = "unresolved" /\ Shown!GravestFirst[4] = "blocked"
  BY DEF Shown!GravestFirst
<1>3. \A s \in Shown!Statuses : summary[s] \in Nat /\ (summary[s] > 0 <=> shows(s))
  BY Counted, Zenon
<1>4. \A t \in DOMAIN results :
         results[t] \in {"passed", "failed", "blocked", "cleanup_failed", "unresolved"}
  BY DEF Shown!Ran, Shown!Statuses
<1>5. /\ 1 \in seen <=> shows("cleanup_failed")
      /\ 2 \in seen <=> shows("failed")
      /\ 3 \in seen <=> shows("unresolved")
      /\ 4 \in seen <=> shows("blocked")
  <2>1. \A i \in 1 .. 4 : i \in seen <=> summary[Shown!GravestFirst[i]] > 0  BY <1>1
  <2>2. \A s \in {"cleanup_failed", "failed", "unresolved", "blocked"} :
           summary[s] > 0 <=> shows(s)
    BY <1>3 DEF Shown!Statuses
  <2>. HIDE DEF seen, shows, summary
  <2>. QED  BY <1>2, <2>1, <2>2
<1>6. seen \subseteq 1 .. 4  BY <1>1
<1>7. overall = IF seen # {} THEN Shown!GravestFirst[first]
                ELSE IF summary["passed"] > 0 /\ summary["not_run"] = 0 THEN "passed"
                ELSE "not_run"
  BY Zenon DEF Shown!overallStatus
<1>8. seen # {} => first \in seen /\ \A k \in seen : first <= k
  <2>. SUFFICES ASSUME seen # {} PROVE \E i \in seen : \A k \in seen : i <= k
    BY Zenon
  <2>. HIDE DEF seen
  <2>1. CASE 1 \in seen  BY <1>6, <2>1
  <2>2. CASE 1 \notin seen /\ 2 \in seen
    <3>. \A k \in seen : 2 <= k  BY <1>6, <2>2
    <3>. QED  BY <2>2
  <2>3. CASE 1 \notin seen /\ 2 \notin seen /\ 3 \in seen
    <3>. \A k \in seen : 3 <= k  BY <1>6, <2>3
    <3>. QED  BY <2>3
  <2>4. CASE 1 \notin seen /\ 2 \notin seen /\ 3 \notin seen
    <3>. \A k \in seen : k = 4  BY <1>6, <2>4
    <3>. QED  OBVIOUS
  <2>. QED  BY <2>1, <2>2, <2>3, <2>4
<1>9. Shown!Gravity = [cleanup_failed |-> 5, failed |-> 4, unresolved |-> 3, blocked |-> 2,
                       not_run |-> 1, passed |-> 0]
  BY DEF Shown!Gravity
<1>10. ~ shows("not_run")  BY <1>4
<1>11. summary["not_run"] = 0 /\ (summary["passed"] > 0 <=> shows("passed"))
  <2>1. "passed" \in Shown!Statuses /\ "not_run" \in Shown!Statuses  BY DEF Shown!Statuses
  <2>. HIDE DEF summary, shows
  <2>. QED  BY <1>3, <1>10, <2>1
<1>. HIDE DEF seen, first, summary, overall
<1>12. CASE seen = {}
  <2>1. \A t \in DOMAIN results : results[t] = "passed"  BY <1>4, <1>5, <1>12
  <2>2. overall = IF shows("passed") THEN "passed" ELSE "not_run"
    BY <1>7, <1>11, <1>12, Zenon
  <2>3. CASE DOMAIN results = {}
    <3>1. overall = "not_run"  BY <2>2, <2>3
    <3>. QED  BY <2>3, <3>1 DEF overall, summary
  <2>4. CASE DOMAIN results # {}
    <3>1. overall = "passed"  BY <2>1, <2>2, <2>4
    <3>2. \A t \in DOMAIN results : Shown!Gravity[results[t]] <= Shown!Gravity[overall]
      BY <2>1, <3>1, <1>9
    <3>3. \E t \in DOMAIN results : results[t] = overall  BY <2>1, <2>4, <3>1
    <3>. QED  BY <2>4, <3>2, <3>3 DEF overall, summary
  <2>. QED  BY <2>3, <2>4
<1>13. CASE seen # {}
  <2>1. first \in seen /\ (\A k \in seen : first <= k) /\ first \in 1 .. 4
        /\ overall = Shown!GravestFirst[first]
    BY <1>6, <1>7, <1>8, <1>13
  <2>2. shows(overall)  BY <2>1, <1>2, <1>5
  <2>3. \A t \in DOMAIN results : Shown!Gravity[results[t]] <= Shown!Gravity[overall]
    <3>. SUFFICES ASSUME NEW t \in DOMAIN results
                  PROVE  Shown!Gravity[results[t]] <= Shown!Gravity[overall]
      OBVIOUS
    <3>1. /\ results[t] = "cleanup_failed" => 1 \in seen
          /\ results[t] = "failed" => 2 \in seen
          /\ results[t] = "unresolved" => 3 \in seen
          /\ results[t] = "blocked" => 4 \in seen
      BY <1>5
    <3>2. results[t] \in {"passed", "failed", "blocked", "cleanup_failed", "unresolved"}
      BY <1>4
    <3>. HIDE DEF shows
    <3>. QED  BY <3>1, <3>2, <2>1, <1>2, <1>9
  <2>. QED  BY <2>2, <2>3 DEF overall, summary
<1>. QED  BY <1>12, <1>13

-----------------------------------------------------------------------------
LEMMA ToldInit == TestsAssumption /\ Shown!Init => Told
<1>. SUFFICES ASSUME Shown!Init PROVE Told
  OBVIOUS
<1>1. PICK verified \in SUBSET ProposedTests, tried \in SUBSET ProposedTests :
      \E outcome \in [tried -> Shown!Ran] :
        /\ tests = Shown!unionTests(verified, outcome)
        /\ history = <<Shown!convertExecution(verified, outcome, tests)>>
        /\ exit = 0
  BY Zenon DEF Shown!Init
<1>2. PICK outcome \in [tried -> Shown!Ran] :
        /\ tests = Shown!unionTests(verified, outcome)
        /\ history = <<Shown!convertExecution(verified, outcome, tests)>>
        /\ exit = 0
  BY <1>1, Zenon
<1>3. tests = verified \cup tried  BY <1>2 DEF Shown!unionTests
<1>. DEFINE results == [t \in tests |-> IF t \in DOMAIN outcome THEN outcome[t]
                                       ELSE IF t \in verified THEN "passed" ELSE "not_run"]
            execution == [results |-> results, selected |-> FALSE]
<1>4. Shown!convertExecution(verified, outcome, tests) = execution
  BY Zenon DEF Shown!convertExecution
<1>5. results \in [tests -> Shown!Ran]  BY <1>3 DEF Shown!Ran, Shown!Statuses
<1>6. tests \in SUBSET ProposedTests  BY <1>3
<1>7. execution \in Executions
  <2>. HIDE DEF results
  <2>. QED  BY <1>5, <1>6, MakeExecution
<1>8. execution.results = results  OBVIOUS
<1>9. DOMAIN results = tests  BY <1>5
<1>. HIDE DEF execution, results
<1>10. history = <<execution>>  BY <1>2, <1>4
<1>11. Kept  BY <1>2, <1>6, <1>7, <1>8, <1>9, <1>10 DEF Kept
<1>12. LastHeld
  <2>1. Len(history) = 1 /\ history[1] = execution /\ DOMAIN history = {1}  BY <1>10
  <2>2. \A t \in tests : Shown!Holding(t) = {1}
    BY <2>1, <1>8, <1>9 DEF Shown!Holding
  <2>. QED  BY <2>2 DEF LastHeld
<1>13. Concluded  BY <1>10 DEF Concluded
<1>. QED  BY <1>11, <1>12, <1>13 DEF Told

LEMMA ToldStep == Told /\ [Shown!Next]_reportVars => Told'
<1>. SUFFICES ASSUME Told, [Shown!Next]_reportVars PROVE Told'
  OBVIOUS
<1>1. CASE UNCHANGED reportVars
  <2>1. tests' = tests /\ history' = history /\ exit' = exit  BY <1>1 DEF reportVars
  <2>. QED
    BY <2>1, Zenon DEF Told, Kept, LastHeld, Concluded, Shown!Holding, Shown!Latest
<1>2. CASE Shown!Next
  <2>1. PICK chosen \in {tests} \cup {{t} : t \in tests}, alone \in BOOLEAN :
        /\ alone => Cardinality(chosen) = 1
        /\ ~ alone => chosen = tests
        /\ \E results \in [chosen -> Shown!Ran] :
             LET execution == [results |-> results, selected |-> alone]
             IN /\ history' = Append(history, execution)
                /\ exit' = Shown!ExecutionExitCode(execution)
    BY <1>2, SameCardinality, Zenon DEF Shown!Next, Shown!RunPack
  <2>2. PICK results \in [chosen -> Shown!Ran] :
          /\ history' = Append(history, [results |-> results, selected |-> alone])
          /\ exit' = Shown!ExecutionExitCode([results |-> results, selected |-> alone])
    BY <2>1, Zenon
  <2>3. tests' = tests  BY <1>2, Zenon DEF Shown!Next, Shown!RunPack
  <2>4. chosen \subseteq tests  BY <2>1
  <2>5. PICK execution : execution = [results |-> results, selected |-> alone]  OBVIOUS
  <2>6. execution \in Executions
    BY <2>4, <2>5, MakeExecution DEF Told, Kept
  <2>7. DOMAIN execution.results = chosen /\ execution.selected = alone  BY <2>5
  <2>8. history' = Append(history, execution) /\ exit' = Shown!ExecutionExitCode(execution)
    BY <2>2, <2>5, Zenon
  <2>9. history \in Seq(Executions) /\ Len(history) \in Nat /\ Len(history) > 0
    BY DEF Told, Kept
  <2>10. /\ history' \in Seq(Executions)
         /\ Len(history') = Len(history) + 1
         /\ history'[Len(history')] = execution
         /\ \A i \in 1 .. Len(history) : history'[i] = history[i]
         /\ DOMAIN history = 1 .. Len(history) /\ DOMAIN history' = 1 .. (Len(history) + 1)
    BY <2>6, <2>8, <2>9
  <2>11. Kept'
    <3>1. exit' \in {0, 1}  BY <2>8 DEF Shown!ExecutionExitCode
    <3>2. \A i \in 1 .. Len(history') : DOMAIN history'[i].results \subseteq tests'
      <4>. SUFFICES ASSUME NEW i \in 1 .. Len(history')
                    PROVE  DOMAIN history'[i].results \subseteq tests'
        OBVIOUS
      <4>1. CASE i = Len(history')  BY <4>1, <2>3, <2>4, <2>7, <2>10
      <4>2. CASE i # Len(history')
        <5>1. i \in 1 .. Len(history)  BY <4>2, <2>9, <2>10
        <5>2. history'[i] = history[i]  BY <5>1, <2>10
        <5>. QED  BY <5>1, <5>2, <2>3 DEF Told, Kept
      <4>. QED  BY <4>1, <4>2
    <3>. QED  BY <2>3, <2>9, <2>10, <3>1, <3>2 DEF Told, Kept
  <2>12. LastHeld'
    <3>. SUFFICES ASSUME NEW t \in tests
                  PROVE  \E i \in Shown!Holding(t)' : \A k \in Shown!Holding(t)' : k <= i
      BY <2>3, Zenon DEF LastHeld
    <3>1. Shown!Holding(t)' = Shown!Holding(t) \cup (IF t \in chosen THEN {Len(history) + 1} ELSE {})
      <4>1. \A i \in 1 .. Len(history) :
               t \in DOMAIN history'[i].results <=> t \in DOMAIN history[i].results
        BY <2>10
      <4>2. t \in DOMAIN history'[Len(history) + 1].results <=> t \in chosen
        BY <2>7, <2>10
      <4>. QED  BY <4>1, <4>2, <2>9, <2>10 DEF Shown!Holding
    <3>2. Shown!Holding(t) \subseteq 1 .. Len(history)  BY <2>10 DEF Shown!Holding
    <3>3. PICK i \in Shown!Holding(t) : \A k \in Shown!Holding(t) : k <= i
      BY Zenon DEF Told, LastHeld
    <3>4. CASE t \in chosen
      <4>1. \A k \in Shown!Holding(t)' : k <= Len(history) + 1
        BY <3>1, <3>2, <3>4, <2>9
      <4>. QED  BY <3>1, <3>4, <4>1
    <3>5. CASE t \notin chosen
      <4>1. Shown!Holding(t)' = Shown!Holding(t)  BY <3>1, <3>5
      <4>. QED  BY <3>3, <4>1, Zenon
    <3>. QED  BY <3>4, <3>5
  <2>13. Concluded'
    <3>1. Shown!Latest' = execution  BY <2>10, Zenon DEF Shown!Latest
    <3>2. exit' = Shown!ExecutionExitCode(Shown!Latest)'
      BY <2>8, <3>1, Zenon DEF Shown!ExecutionExitCode
    <3>3. ~ Shown!Latest'.selected => DOMAIN Shown!Latest'.results = tests'
      BY <2>1, <2>3, <2>7, <3>1
    <3>. QED  BY <3>2, <3>3, Zenon DEF Concluded
  <2>. QED  BY <2>11, <2>12, <2>13 DEF Told
<1>. QED  BY <1>1, <1>2

(* What the page says follows from what it rests on. *)
LEMMA ReportFollows == Told /\ TestsAssumption => Shown!ReportAgrees
<1>. SUFFICES ASSUME Told, TestsAssumption PROVE Shown!ReportAgrees
  OBVIOUS
<1>1. IsFiniteSet(ProposedTests) /\ ProposedChanging \subseteq ProposedTests
  BY SameFinite DEF TestsAssumption, Shown!ReportAssumption
<1>2. tests \subseteq ProposedTests /\ exit \in {0, 1}  BY DEF Told, Kept
<1>3. IsFiniteSet(tests)
  <2>1. tests \in SUBSET ProposedTests  BY <1>2
  <2>. QED  BY <1>1, <2>1, FS_Subset, Zenon
<1>4. \A t \in tests : Shown!Rows[t] \in Shown!Ran  BY RowsRan, Zenon
<1>5. DOMAIN Shown!Rows = tests  BY DEF Shown!Rows
<1>6. /\ DOMAIN history = 1 .. Len(history) /\ Len(history) \in Nat /\ Len(history) > 0
      /\ \A i \in 1 .. Len(history) : history[i] \in Executions
  BY DEF Told, Kept
<1>7. Shown!TypeOK
  <2>1. \A i \in DOMAIN history :
          /\ DOMAIN history[i].results \subseteq tests
          /\ \A t \in DOMAIN history[i].results : history[i].results[t] \in Shown!Statuses
    <3>. SUFFICES ASSUME NEW i \in 1 .. Len(history)
                  PROVE  /\ DOMAIN history[i].results \subseteq tests
                         /\ \A t \in DOMAIN history[i].results :
                              history[i].results[t] \in Shown!Statuses
      BY <1>6, Zenon
    <3>1. history[i] \in Executions  BY <1>6, Zenon
    <3>2. \A t \in DOMAIN history[i].results : history[i].results[t] \in Shown!Ran
      BY <3>1, ResultOf, Zenon
    <3>3. DOMAIN history[i].results \subseteq tests  BY Zenon DEF Told, Kept
    <3>. QED  BY <3>2, <3>3 DEF Shown!Ran
  <2>2. \A t \in tests : Shown!Rows[t] # "not_run"  BY <1>4 DEF Shown!Ran
  <2>. QED  BY <1>2, <2>1, <2>2, Zenon DEF Shown!TypeOK
<1>8. IF tests = {} THEN Shown!Overall = "not_run"
      ELSE /\ \E t \in tests : Shown!Rows[t] = Shown!Overall
           /\ \A t \in tests : Shown!Gravity[Shown!Rows[t]] <= Shown!Gravity[Shown!Overall]
  <2>1. PICK rows : rows = Shown!Rows  OBVIOUS
  <2>2. IsFiniteSet(DOMAIN rows) /\ DOMAIN rows = tests
        /\ \A t \in DOMAIN rows : rows[t] \in Shown!Ran
    BY <1>3, <1>4, <1>5, <2>1, Zenon
  <2>3. Shown!Overall = Shown!overallStatus(Shown!summarize(rows))
    BY <2>1, Zenon DEF Shown!Overall
  <2>4. IF DOMAIN rows = {} THEN Shown!Overall = "not_run"
        ELSE /\ \E t \in DOMAIN rows : rows[t] = Shown!Overall
             /\ \A t \in DOMAIN rows : Shown!Gravity[rows[t]] <= Shown!Gravity[Shown!Overall]
    BY <2>2, <2>3, Gravest, Zenon
  <2>. QED  BY <2>1, <2>2, <2>4, Zenon
<1>9. Shown!OverallIsGravest  BY <1>8, Zenon DEF Shown!OverallIsGravest
<1>10. PICK latest : latest = Shown!Latest  OBVIOUS
<1>11. latest \in Executions  BY <1>6, <1>10 DEF Shown!Latest
<1>12. /\ DOMAIN latest.results \subseteq ProposedTests
       /\ \A t \in DOMAIN latest.results :
            latest.results[t] \in {"passed", "failed", "blocked", "cleanup_failed", "unresolved"}
       /\ latest.selected \in BOOLEAN
  BY <1>11, ResultOf DEF Shown!Ran, Shown!Statuses
<1>. DEFINE fails(t) == \/ latest.results[t] \in {"failed", "cleanup_failed", "unresolved"}
                        \/ /\ latest.results[t] = "blocked"
                           /\ latest.selected \/ t \notin ProposedChanging
<1>13. Len(history) > 1 =>
         exit = IF \E t \in DOMAIN latest.results : fails(t) THEN 1 ELSE 0
  BY <1>10, Zenon DEF Told, Concluded, Shown!ExecutionExitCode
<1>14. Len(history) > 1 =>
         (exit = 0 <=> \A t \in DOMAIN latest.results : ~ fails(t))
  <2>. HIDE DEF fails
  <2>. QED  BY <1>13
<1>15. Shown!ExitFollowsReadme
  <2>. DEFINE of(kind) == {latest.results[t] : t \in DOMAIN latest.results \cap kind}
              mayBlock == IF latest.selected THEN {} ELSE {"blocked"}
  <2>1. (\A t \in DOMAIN latest.results : ~ fails(t))
          <=> /\ \A t \in DOMAIN latest.results :
                    t \notin ProposedChanging => latest.results[t] = "passed"
              /\ \A t \in DOMAIN latest.results :
                    t \in ProposedChanging => latest.results[t] \in {"passed"} \cup mayBlock
    BY <1>12
  <2>2. of(ProposedTests \ ProposedChanging) \subseteq {"passed"}
          <=> \A t \in DOMAIN latest.results :
                t \notin ProposedChanging => latest.results[t] = "passed"
    BY <1>12
  <2>3. of(ProposedChanging) \subseteq {"passed"} \cup mayBlock
          <=> \A t \in DOMAIN latest.results :
                t \in ProposedChanging => latest.results[t] \in {"passed"} \cup mayBlock
    BY <1>12
  <2>4. Len(history) > 1 =>
          (exit = 0 <=> /\ of(ProposedTests \ ProposedChanging) \subseteq {"passed"}
                        /\ of(ProposedChanging) \subseteq {"passed"} \cup mayBlock)
    <3>. HIDE DEF of, mayBlock, fails
    <3>. QED  BY <1>14, <2>1, <2>2, <2>3, Zenon
  <2>. QED  BY <2>4, <1>10, Zenon DEF Shown!ExitFollowsReadme
<1>16. Shown!ExitAgreesWithReport
  <2>. SUFFICES ASSUME Len(history) > 1, ~ Shown!Latest.selected
                PROVE  /\ exit = 0 => Shown!Overall \in {"passed", "blocked", "not_run"}
                       /\ exit = 1 => Shown!Overall \notin {"passed", "not_run"}
    BY Zenon DEF Shown!ExitAgreesWithReport
  <2>1. DOMAIN latest.results = tests
    BY <1>10, Zenon DEF Told, Concluded
  <2>2. \A t \in tests : Shown!Rows[t] = latest.results[t]
    BY <1>10, RowsOfRun, Zenon
  <2>3. Shown!Gravity = [cleanup_failed |-> 5, failed |-> 4, unresolved |-> 3, blocked |-> 2,
                         not_run |-> 1, passed |-> 0]
    BY DEF Shown!Gravity
  <2>4. CASE exit = 0
    <3>1. \A t \in tests : latest.results[t] \in {"passed", "blocked"}
      BY <1>12, <1>14, <2>1, <2>4
    <3>2. CASE tests = {}  BY <1>8, <2>4, <3>2
    <3>3. CASE tests # {}
      <4>1. PICK t \in tests : Shown!Rows[t] = Shown!Overall  BY <1>8, <3>3, Zenon
      <4>2. Shown!Overall \in {"passed", "blocked"}  BY <3>1, <4>1, <2>2, Zenon
      <4>. QED  BY <2>4, <4>2
    <3>. QED  BY <3>2, <3>3
  <2>5. CASE exit = 1
    <3>1. PICK t \in tests : fails(t)
      <4>. HIDE DEF fails
      <4>. QED  BY <1>14, <2>1, <2>5
    <3>2. latest.results[t] \in {"failed", "cleanup_failed", "unresolved", "blocked"}
      BY <3>1
    <3>3. Shown!Gravity[latest.results[t]] > 1  BY <2>3, <3>2
    <3>4. Shown!Gravity[latest.results[t]] <= Shown!Gravity[Shown!Overall]
      <4>1. tests # {}  BY <3>1
      <4>2. \A o \in tests : Shown!Gravity[Shown!Rows[o]] <= Shown!Gravity[Shown!Overall]
        BY <1>8, <4>1, Zenon
      <4>3. Shown!Rows[t] = latest.results[t]  BY <2>2, Zenon
      <4>. QED  BY <4>2, <4>3, Zenon
    <3>5. SUFFICES ASSUME Shown!Overall \in {"passed", "not_run"} PROVE FALSE
      BY <2>5
    <3>6. Shown!Gravity[Shown!Overall] \in {0, 1}  BY <2>3, <3>5
    <3>7. Shown!Gravity[latest.results[t]] \in 2 .. 5  BY <2>3, <3>2
    <3>. QED  BY <3>4, <3>6, <3>7
  <2>. QED  BY <1>2, <2>4, <2>5
<1>. QED  BY <1>7, <1>9, <1>15, <1>16, Zenon DEF Shown!ReportAgrees

(* The page, the status in its heading and the exit code tell one story,   *)
(* for every pack and every sequence of runs of it.                        *)
THEOREM ReportTellsOneStory == MCSpec => []ReportAgrees
<1>. DEFINE Inv == scene = "report" => Told
<1>1. MCInit => Inv
  BY ToldInit, TestsAssumption, Zenon DEF MCInit
<1>2. Inv /\ [MCNext]_<<scene, vars, testVars, serverVars, reportVars>> => Inv'
  <2>. SUFFICES ASSUME Inv, [MCNext]_<<scene, vars, testVars, serverVars, reportVars>>,
                       scene' = "report"
                PROVE  Told'
    OBVIOUS
  <2>1. scene = "report" /\ [Shown!Next]_reportVars
    BY Zenon DEF MCNext
  <2>. QED  BY <2>1, ToldStep, Zenon
<1>3. Inv => ReportAgrees  BY ReportFollows, TestsAssumption, Zenon DEF ReportAgrees
<1>. QED  BY <1>1, <1>2, <1>3, PTL DEF MCSpec

-----------------------------------------------------------------------------
(* What the server says and does agrees with the disk, whatever it is      *)
(* asked for, and wherever it is killed (Server.run, run.Load, Export).    *)
THEOREM ServerIsTruthful == MCSpec => []ServerTruthful
<1>1. Server!ServerAssumption  BY TestsAssumption
<1>2. MCInit => Server!Init  BY Zenon DEF MCInit
<1>3. ASSUME [MCNext]_<<scene, vars, testVars, serverVars, reportVars>>
      PROVE  [Server!Next]_Server!vars
  <2>1. UNCHANGED serverVars => UNCHANGED Server!vars
    BY Zenon DEF serverVars, Server!vars, Server!disk
  <2>2. Server!Next \/ UNCHANGED serverVars  BY <1>3, Zenon DEF MCNext
  <2>. QED  BY <2>1, <2>2, Zenon
<1>4. Server!Spec => []Server!ServerTruthful  BY <1>1, Server!ServerTellsTheTruth, Zenon
<1>5. Server!ServerTruthful => ServerTruthful  BY Zenon DEF ServerTruthful
<1>. QED  BY <1>2, <1>3, <1>4, <1>5, PTL DEF MCSpec, Server!Spec
=============================================================================
