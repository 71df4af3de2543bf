---------------------------- MODULE ContextCases ----------------------------
(* Findings that StageContext is checked with.  The Surface stage finds a   *)
(* mix of interfaces, or one interface of any type with any locator its     *)
(* validation accepts (SurfaceFindings!validateLocator).                    *)
EXTENDS FeatureTree

Rules == INSTANCE SurfaceFindings WITH
  Rank <- << >>, Entities <- {}, Roles <- {}, Permissions <- {}, Libraries <- {},
  EvidenceIDs <- {}, Certain <- 1, Naming <- << >>

Required == [authentication |-> "required", roles |-> {"admin"}, permissions |-> {"edit"}]
Guarded  == [authentication |-> "required", roles |-> {"admin"}, permissions |-> {}]
MCAccessOrder == <<Required, Guarded>>

MCByteOrder ==
  <<"a", "api.rpc", "task.list", "task.save", "web.root">>
    \o <<"api_endpoint", "cli_command", "event_consumer", "form_action", "other",
         "scheduled_job", "script", "web_page", "websocket", "worker">>

Locator(fields) == [f \in DOMAIN Rules!NoLocator |-> IF f \in fields THEN f ELSE ""]

Interface(id, type, locator, access, evidence) ==
  [id |-> id, type |-> type, locator |-> locator, access |-> access,
   entities |-> {}, evidence |-> evidence]

Page(id, access) == Interface(id, "web_page", Locator({"path"}), access, <<"ev1">>)

Mixed ==
  <<Page("web.root", NoAccess), Page("task.list", Guarded),
    Interface("api.rpc", "api_endpoint", Locator({"protocol", "transport_path"}), Required, <<"ev1">>),
    Interface("task.save", "form_action", Locator({"path", "method"}), Required, <<"ev1">>)>>

AnyOne ==
  {<<Interface("a", type, Locator(fields), NoAccess, << >>)>> :
     type \in Rules!interfaceTypes, fields \in SUBSET DOMAIN Rules!NoLocator}

Surface(interfaces, integrations) ==
  [interfaces |-> interfaces, integrations |-> integrations, relationships |-> {}]

MCSurfaces ==
  {Surface(s, {}) : s \in {t \in AnyOne : Rules!validateLocator(t[1].type, t[1].locator)}}
    \cup {Surface(<< >>, {}), Surface(Mixed, {[id |-> "smtp"]}),
          Surface(SubSeq(Mixed, 1, 3), {[id |-> "smtp"], [id |-> "db"]})}

MCFindings ==
  [s \in {"architecture", "authentication", "authorization", "entities", "surface", "features"} |->
     CASE s = "architecture" ->
            {[languages |-> {[name |-> "PHP"]}, frameworks |-> {[name |-> "own"]},
              style |-> "mvc", entrypoints |-> {"index.php"}]}
       [] s = "authentication" ->
            {[present |-> TRUE, mechanisms |-> {[id |-> "web", type |-> "form", login |-> {"/login"}]}]}
       [] s = "authorization" ->
            {[present |-> FALSE, model |-> "", roles |-> {}, permissions |-> {}],
             [present |-> TRUE, model |-> "rbac",
              roles |-> {[id |-> "admin", evidence |-> <<"ev2", "ev3">>]},
              permissions |-> {[id |-> "edit", evidence |-> <<"ev3">>]}]}
       [] s = "entities" ->
            {{}, {[id |-> "task", evidence |-> <<"ev4">>], [id |-> "user", evidence |-> << >>]}}
       [] s = "surface"  -> MCSurfaces
       [] s = "features" -> {{}}]
=============================================================================
