---------------------------- MODULE LifecyclePlan ----------------------------
(***************************************************************************)
(* The plan of an owned-object workflow: a parent and a child entity, and  *)
(* for each step the interface that carries it out, chosen among those the *)
(* features name; and the execution of the plan as far as the identifiers  *)
(* go that its routes need.  The pages behave: an object is created where  *)
(* its form is opened, and is gone once its removal is confirmed           *)
(* (OwnedLifecycle has the pages that do not).                             *)
(*                                                                         *)
(* Features and interfaces are numbered in the order of their IDs.  A      *)
(* route is the sequence of its parameters, each the entity it is named    *)
(* after and how the name is spelled ({task}, {task_id}), and whether it   *)
(* ends in one.                                                            *)
(***************************************************************************)
EXTENDS Integers, Sequences, FiniteSets, TLC

CONSTANTS
  Applications,  (* records [interfaces, actions, hasMany, belongsTo], the *)
                 (* pairs of hasMany in the order of their tests' IDs       *)
  None

VARIABLES app, plan, bindings, owned, at, failed

vars == <<app, plan, bindings, owned, at, failed>>

-----------------------------------------------------------------------------
Interface(n) == CHOOSE it \in app.interfaces : it.id = n
browserRoute(it) == it.type \in {"web_page", "form_action"} /\ it.route # None

routeParameterForEntity(it, e) ==
  LET named == {i \in DOMAIN it.route.parameters : it.route.parameters[i][1] = e}
  IN IF named = {} THEN None
     ELSE it.route.parameters[CHOOSE i \in named : \A k \in named : i <= k]
OnlyFor_NotAlone(it, e) ==                                     (* mutant *)
  it.route # None /\ routeParameterForEntity(it, e) # None
OnlyFor(it, e) ==
  it.route # None /\ Len(it.route.parameters) = 1 /\ routeParameterForEntity(it, e) # None

(* What a step is about, the words its feature is found by, and what its   *)
(* interface must be.                                                      *)
Roles == {"parentCreate", "parentView", "childCreate", "childView",
          "childEdit", "childUpdate", "childRemove", "parentRemove"}
EntitiesOf(role, parent, child) ==
  CASE role \in {"parentCreate", "parentView", "parentRemove"} -> {parent}
    [] role = "childCreate" -> {parent, child}
    [] OTHER -> {child}
Terms(role) ==
  CASE role \in {"parentCreate", "childCreate"} -> {"create"}
    [] role = "parentView"  -> {"view", "show", "overview"}
    [] role = "childView"   -> {"view", "show", "details"}
    [] role = "childEdit"   -> {"edit"}
    [] role = "childUpdate" -> {"update", "save"}
    [] OTHER                -> {"remove", "delete"}
Accepts(role, it, parent, child) ==
  CASE role = "parentCreate" -> browserRoute(it) /\ it.route.parameters = <<>>
    [] role = "parentView"   -> it.type = "web_page" /\ OnlyFor(it, parent) /\ it.route.last
    [] role = "childView"    -> it.type = "web_page" /\ OnlyFor(it, child) /\ it.route.last
    [] role = "childEdit"    -> it.type = "web_page" /\ OnlyFor(it, child)
    [] role \in {"childCreate", "parentRemove"} -> browserRoute(it) /\ OnlyFor(it, parent)
    [] OTHER                 -> browserRoute(it) /\ OnlyFor(it, child)

(* chooseWorkflowBinding *)
Score(f, it, about, terms) ==
  f.confidence + it.confidence
  + (IF it.type = "form_action" THEN 10 ELSE 0)
  + (IF it.space \in about THEN 30 ELSE 0)
  + (IF it.space \in about /\ it.called \in terms THEN 50 ELSE 0)
  + (IF it.entities = about THEN 20 ELSE 0)
Choices(role, parent, child) ==
  LET about == EntitiesOf(role, parent, child) IN
  {[feature |-> fn[1].id, interface |-> fn[2],
    score |-> Score(fn[1], Interface(fn[2]), about, Terms(role))] :
   fn \in {g \in app.actions \X {it.id : it \in app.interfaces} :
             /\ about \subseteq g[1].entities /\ g[1].words \cap Terms(role) # {}
             /\ g[2] \in g[1].interfaces /\ Accepts(role, Interface(g[2]), parent, child)}}
Preferred(b, c) ==
  \/ b.score > c.score
  \/ b.score = c.score /\ (b.feature < c.feature
                           \/ (b.feature = c.feature /\ b.interface <= c.interface))
chooseWorkflowBinding(role, parent, child) ==
  LET choices == Choices(role, parent, child)
  IN CHOOSE b \in choices : \A c \in choices : Preferred(b, c)

(* PlanOwnedLifecycle *)
Planned(parent, child) ==
  /\ <<child, parent>> \in app.belongsTo
  /\ \A role \in Roles : Choices(role, parent, child) # {}
Centrality(e) ==
  Cardinality({it \in app.interfaces : e \in it.entities})
  + Cardinality({f \in app.actions : e \in f.entities})
PlanFor(parent, child) ==
  LET chosen == [role \in Roles |-> chooseWorkflowBinding(role, parent, child)]
  IN [parent |-> parent, child |-> child,
      interfaces |-> [role \in Roles |-> chosen[role].interface],
      parameter |->
        (parent :> routeParameterForEntity(Interface(chosen["parentView"].interface), parent))
        @@ (child :> routeParameterForEntity(Interface(chosen["childView"].interface), child)),
      score |-> chosen["parentCreate"].score + chosen["childCreate"].score
                + chosen["childUpdate"].score + Centrality(parent) + Centrality(child)]
PlanOwnedLifecycle ==
  LET planned == {i \in DOMAIN app.hasMany : Planned(app.hasMany[i][1], app.hasMany[i][2])}
      plans   == [i \in planned |-> PlanFor(app.hasMany[i][1], app.hasMany[i][2])]
      best    == {i \in planned : \A k \in planned : plans[k].score <= plans[i].score}
  IN IF planned = {} THEN None ELSE plans[CHOOSE i \in best : \A k \in best : i <= k]

-----------------------------------------------------------------------------
(* runOwnedWorkflow, cleanupOwnedWorkflow: the routes in the order they    *)
(* are opened.                                                             *)
Workflow == <<"parentCreate", "childCreate", "childEdit">>
Cleanup  == <<"childRemove", "childView", "parentRemove", "parentView">>
Opened   == Workflow \o Cleanup

resolveBoundURL(role) ==
  LET parameters == Interface(plan.interfaces[role]).route.parameters
  IN \A i \in DOMAIN parameters : parameters[i] \in bindings

Subject(role) ==
  IF role \in {"parentCreate", "parentRemove", "parentView"} THEN plan.parent ELSE plan.child

Init ==
  /\ app \in Applications
  /\ plan = None /\ bindings = {} /\ owned = {} /\ at = 0 /\ failed = {}

Plan ==
  /\ at = 0
  /\ plan' = PlanOwnedLifecycle
  /\ at' = IF PlanOwnedLifecycle = None THEN Len(Opened) + 1 ELSE 1
  /\ UNCHANGED <<app, bindings, owned, failed>>

(* A route that needs an unproven binding ends the workflow.               *)
Stop ==
  /\ failed' = failed \cup {Opened[at]} /\ at' = 4
  /\ UNCHANGED <<bindings, owned>>

Create ==
  /\ at \in 1..2
  /\ IF resolveBoundURL(Opened[at])
     THEN /\ owned' = owned \cup {Subject(Opened[at])}
          /\ bindings' = bindings \cup {plan.parameter[Subject(Opened[at])]}
          /\ at' = at + 1
          /\ UNCHANGED failed
     ELSE Stop
  /\ UNCHANGED <<app, plan>>

Edit ==
  /\ at = 3
  /\ IF resolveBoundURL("childEdit")
     THEN at' = at + 1 /\ UNCHANGED <<bindings, owned, failed>>
     ELSE Stop
  /\ UNCHANGED <<app, plan>>

(* And leaves an object behind where it ends the cleanup of one.           *)
CleanUp ==
  /\ at \in {4, 6}
  /\ LET remove == Opened[at]
         e      == Subject(remove)
     IN IF e \in owned /\ resolveBoundURL(remove)
        THEN /\ owned' = owned \ {e}
             /\ failed' = IF resolveBoundURL(Opened[at + 1]) THEN failed
                          ELSE failed \cup {Opened[at + 1]}
        ELSE /\ failed' = IF e \in owned THEN failed \cup {remove} ELSE failed
             /\ UNCHANGED owned
  /\ at' = at + 2
  /\ UNCHANGED <<app, plan, bindings>>

Done == at = Len(Opened) + 1 /\ UNCHANGED vars

Next == Plan \/ Create \/ Edit \/ CleanUp \/ Done

Spec == Init /\ [][Next]_vars

-----------------------------------------------------------------------------
(* Every variable keeps its shape; what is owned has its identifier.       *)
TypeOK ==
  /\ at \in 0..(Len(Opened) + 1) /\ failed \subseteq Roles
  /\ plan = None => owned = {} /\ bindings = {}
  /\ plan # None => \A e \in owned : plan.parameter[e] \in bindings

(* "complete browser lifecycle": every route of a plan can be opened when  *)
(* its turn comes; none needs an identifier the steps before it did not    *)
(* capture.                                                                *)
PlanBindable == failed = {}

(* "owned cleanup": the plan leaves nothing of its own behind.             *)
NothingLeft == at = Len(Opened) + 1 => owned = {}

(* Where an interface outside the namespaces of a step's entities was      *)
(* chosen, those inside that the analysis trusts as much.                  *)
PassedOver(role) ==
  LET about  == EntitiesOf(role, plan.parent, plan.child)
      choice == chooseWorkflowBinding(role, plan.parent, plan.child)
      chosen == Interface(choice.interface)
      owner  == CHOOSE f \in app.actions : f.id = choice.feature
  IN {it \in app.interfaces :
        /\ it.space \in about /\ chosen.space \notin about
        /\ Accepts(role, it, plan.parent, plan.child)
        /\ \E f \in app.actions :
             /\ about \subseteq f.entities /\ f.words \cap Terms(role) # {}
             /\ it.id \in f.interfaces
             /\ f.confidence + it.confidence >= owner.confidence + chosen.confidence}

(* "Prefer an entity's own canonical namespace over a related page that    *)
(* happens to mention the entity at the same confidence": only a form is   *)
(* chosen before it, and never before the interface called after the step  *)
(* (task.remove).                                                          *)
NamespacePreferred ==
  plan # None =>
    \A role \in Roles : \A it \in PassedOver(role) :
      /\ Interface(plan.interfaces[role]).type = "form_action"
      /\ it.called \notin Terms(role)

(* A plan can be carried out, cleans up what it creates, and prefers the   *)
(* entity's own interfaces.                                                *)
PlanSound == TypeOK /\ PlanBindable /\ NothingLeft /\ NamespacePreferred
=============================================================================
