--------------------------- MODULE MCVerification ----------------------------
(* One instance for what is done with a running target: the verification    *)
(* of interfaces, the second factor of its login, the Core Tests selected   *)
(* from it, and the plan of an owned-object workflow.  The machines share   *)
(* no variable, so a behaviour moves one of them and leaves the others in   *)
(* their initial states.                                                    *)
EXTENDS RuntimeVerifier, TLC

CONSTANTS
  secret, plain, redacted, none, module, list, open,
  CodePeriod, CodeMargin, CodeDelay, CodeOversleep     (* of SecondFactor   *)

VARIABLES
  scene,                   (* the machine that moves                        *)
  (* of SecondFactor *)
  signals, supported, seed, valid, native, clock, factorPc, code, registered, submissions,
  factorStatus, codeSent,
  (* of CoreSelection *)
  model, world, execution, target, selectionPc, candidates, results,
  (* of LifecyclePlan *)
  graph, plan, bindings, owned, step, stopped

factorVars ==
  <<signals, supported, seed, valid, native, clock, factorPc, code, registered, submissions,
    factorStatus, codeSent>>
selectionVars == <<model, world, execution, target, selectionPc, candidates, results>>
planVars      == <<graph, plan, bindings, owned, step, stopped>>

-----------------------------------------------------------------------------

Page(words, route, access) ==
  [type |-> "web_page", method |-> "GET", words |-> words, route |-> route,
   access |-> access]

Home     == Page({"home"}, "/", "unknown")
Login    == Page({"login"}, "/login", "not_required")
Private  == Page({"listing"}, "/list", "required")
Behind   == Page({"login", "reading"}, "/enter", "required")
Item(a)  == Page({}, "/item/{id}", a)
Form     == [type |-> "form_action", method |-> "POST", words |-> {"login"},
             route |-> "/login", access |-> "not_required"]
Endpoint == [type |-> "api_endpoint", method |-> "GET", words |-> {"reading"},
             route |-> "/api", access |-> "unknown"]

MCApplications ==
  {<<Home, Login, Private>>, <<Item("unknown"), Form, Private>>,
   <<Endpoint, Behind, Item("required")>>, <<Item("unknown"), Item("required"), Login>>}

(* Not predicted; without an identity; with a password; with a code too.    *)
MCSetups ==
  {[predicted |-> s[1], identity |-> s[2], totp |-> s[3]] :
     s \in {<<FALSE, TRUE, FALSE>>, <<TRUE, TRUE, FALSE>>, <<TRUE, TRUE, TRUE>>}}

(* A module over an action with two interfaces and one with one of them.    *)
MCParent == [f \in {module, list, open} |-> IF f = module THEN none ELSE module]
MCDirect == [f \in {module, list, open} |->
               IF f = list THEN {1, 3} ELSE IF f = open THEN {3} ELSE {}]

-----------------------------------------------------------------------------
Factor == INSTANCE SecondFactor WITH
  Period <- CodePeriod, Margin <- CodeMargin,
  MaxDelay <- CodeDelay, MaxOversleep <- CodeOversleep,
  now <- clock, pc <- factorPc, status <- factorStatus, attempted <- codeSent

(* No page answers 403, every page has a title, no address has a query.     *)
SelectionCase == INSTANCE SelectionCases WITH
  Denials <- FALSE, Untitled <- FALSE, Queries <- {None}

Selection == INSTANCE CoreSelection WITH
  Applications <- SelectionCase!MCApplications, Worlds <- SelectionCase!MCWorlds,
  Setups <- SelectionCase!MCSetups, LoginRoutes <- SelectionCase!MCLoginRoutes,
  ParamRoutes <- SelectionCase!MCParamRoutes, Recorded <- SelectionCase!MCRecorded,
  Secrets <- SelectionCase!MCSecrets, MaxTests <- 4, MaxChanges <- 1,
  app <- model, setup <- execution, now <- target, pc <- selectionPc

(* Parameters are spelled with a suffix (task_id).                          *)
PlanCase == INSTANCE PlanCases WITH Spellings <- {"_id"}, Trusted <- 100

Plans == INSTANCE LifecyclePlan WITH
  Applications <- PlanCase!MCApplications, app <- graph, at <- step, failed <- stopped

ASSUME TargetAssumption == Factor!TimingAssumption /\ Selection!SelectionAssumption

-----------------------------------------------------------------------------
(* A machine that does not move starts in one of its initial states.        *)
VerifierIdle ==
  /\ item = <<Home, Login, Private>>
  /\ setup = [predicted |-> FALSE, identity |-> TRUE, totp |-> FALSE]
FactorIdle ==
  /\ signals = {} /\ supported = FALSE /\ seed = "none" /\ valid = FALSE /\ native = FALSE
  /\ clock = Factor!Ticks
SelectionIdle ==
  /\ model = SelectionCase!Empty /\ execution = SelectionCase!All
  /\ world = CHOOSE w \in SelectionCase!WorldsOf(model) : TRUE
PlanIdle == graph = PlanCase!Application(0, {}, {<<"step", "task">>})

MCInit ==
  /\ scene \in {"verifier", "second factor", "selection", "plan"}
  /\ scene = "verifier" \/ VerifierIdle
  /\ scene = "second factor" \/ FactorIdle
  /\ scene = "selection" \/ SelectionIdle
  /\ scene = "plan" \/ PlanIdle
  /\ Init /\ Factor!Init /\ Selection!Init /\ Plans!Init

MCNext ==
  \/ scene = "verifier" /\ Next /\ UNCHANGED <<scene, factorVars, selectionVars, planVars>>
  \/ scene = "second factor" /\ Factor!Next /\ UNCHANGED <<scene, vars, selectionVars, planVars>>
  \/ scene = "selection" /\ Selection!Next /\ UNCHANGED <<scene, vars, factorVars, planVars>>
  \/ scene = "plan" /\ Plans!Next /\ UNCHANGED <<scene, vars, factorVars, selectionVars>>

MCSpec == MCInit /\ [][MCNext]_<<scene, vars, factorVars, selectionVars, planVars>>

CodeSound      == scene = "second factor" => Factor!CodeSound
SelectionSound == scene = "selection" => Selection!SelectionSound
ReplaySound    == scene = "selection" => Selection!ReplaySound
TestsReplay    == scene = "selection" => Selection!TestsReplay
PlanSound      == scene = "plan" => Plans!PlanSound
=============================================================================
