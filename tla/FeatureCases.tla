---------------------------- MODULE FeatureCases ----------------------------
(* The findings and answers that FeatureExpansion is checked with.          *)
EXTENDS FeatureTree

NoLocator ==
  [path |-> "", method |-> "", command |-> "", schedule |-> "", event |-> "",
   protocol |-> "", method_name |-> "", transport_path |-> ""]

Interface(id, type, locator, access, entities) ==
  [id |-> id, type |-> type, locator |-> locator, access |-> access, entities |-> entities]

Restricted == [authentication |-> "required", roles |-> {"admin"}, permissions |-> {"edit"}]

MCPrior ==
  [authorization |-> [roles |-> {[id |-> "admin"], [id |-> "guest"]},
                      permissions |-> {[id |-> "edit"]}],
   entities |-> {[id |-> "task"], [id |-> "user"]},
   evidence |-> {"ev1"},
   surface  |->
     [interfaces |->
        {Interface("task.list", "web_page", [NoLocator EXCEPT !.path = "/t"], NoAccess, {"task"}),
         Interface("task.save", "form_action", [NoLocator EXCEPT !.path = "/t/s"], Restricted, {}),
         Interface("api.rpc", "api_endpoint",
                   [NoLocator EXCEPT !.protocol = "jsonrpc", !.transport_path = "/rpc"],
                   NoAccess, {}),
         Interface("web.root", "web_page", [NoLocator EXCEPT !.path = "/"], NoAccess, {}),
         Interface("mailer", "worker", [NoLocator EXCEPT !.event = "mail"], NoAccess, {"user"})},
      relationships |-> {[from |-> "task.save", to |-> "", integration |-> "smtp"],
                         [from |-> "web.root", to |-> "task.list", integration |-> ""]},
      (* An integration may have the ID of an interface.                    *)
      integrations  |-> {[id |-> "smtp"], [id |-> "web.root"]}]]

Node(id, type, interfaces) ==
  [id |-> id, type |-> type, complete |-> TRUE, roles |-> {}, permissions |-> {},
   entities |-> {}, interfaces |-> interfaces, evidence |-> {"ev1"}]

Module(id, interfaces) == Node(id, "module", interfaces)

Projects == <<"projects">>
Members  == <<"projects", "members">>
Modules  == <<"modules">>
MCByteOrder == <<Modules, Projects, Members>>

Line(nodes) == [p \in {<<i>> : i \in DOMAIN nodes} |-> nodes[p[1]]]

Concrete == {"task.list", "task.save", "mailer"}

MCModuleAnswers ==
  { Line(<<Module(Projects, {"Task.List", "api.rpc"})>>),
    Line(<<Module(Members, {"task.save"}), Module(Projects, {"task.list", "task.save"})>>),
    Line(<<Module(Members, {"task.save"}), Module(Modules, Concrete),
           Module(Projects, {"task.list", "task.save"})>>),
    Line(<<Module(Projects, {"task.save"}), Module(Modules, {"task.list", "api.rpc"})>>),
    Line(<<Module(Projects, {"task.list", "task.save"}), Module(Modules, Concrete)>>),
    Line(<<Module(Projects, Concrete \cup {"api.rpc"})>>),
    (* not accepted: *)
    Line(<<Module(Projects, {"api.rpc"})>>),
    Line(<<Module(Projects, {"task.list"}), Module(Projects, {"task.save"})>>),
    Line(<<Module(Projects, {"task.list", "web.root"})>>),
    Line(<<Module(Projects, {"task.list", "task.none"})>>),
    Line(<<Module(<<"module", "projects">>, {"task.list"})>>),
    Line(<<Module(Projects, {"task.list"})>>)
      @@ (<<1, 1>> :> Node(Members, "feature", {})),
    << >> }

Sub(id, s) == Append(id, s)

MCExpansions ==
  [id \in {Projects, Members, Modules} |->
    { << >>,
      Line(<<Node(Sub(id, "list"), "action", {"Task.List"})>>),
      Line(<<Node(Sub(id, "edit"), "action", {})>>),
      Line(<<Node(Sub(id, "members"), "feature", {})>>)
        @@ (<<1, 1>> :> Node(Sub(Sub(id, "members"), "add"), "action", {"task.save"})),
      (* not accepted: *)
      Line(<<Node(Sub(id, "members"), "action", {})>>)
        @@ (<<1, 1>> :> Node(Sub(Sub(id, "members"), "add"), "action", {})),
      Line(<<Node(Sub(id, "list"), "module", {})>>),
      Line(<<Node(<<"other", "list">>, "action", {})>>) }]
=============================================================================
