---------------------------- MODULE SurfaceCases ----------------------------
(* The answers of Surface tasks that SurfaceMerge is checked with.          *)
EXTENDS SurfaceFindings

Sure(e)     == [confidence |-> 2, evidence |-> e]
Source      == [path |-> "routes.php", symbol |-> Empty]
OtherSource == [path |-> "Tasks.php", symbol |-> Empty]
Route       == [path |-> "/task", source |-> "routes.php", controller |-> "Tasks"]

Access(kind, roles) ==
  [authentication |-> kind, roles |-> roles, permissions |-> {},
   confidence |-> IF kind = "unknown" THEN 0 ELSE 1,
   evidence |-> IF kind = "unknown" THEN {} ELSE {"ev1"}]

Page(id, source) ==
  [id |-> id, type |-> "web_page", name |-> 1, description |-> {"p"},
   locator |-> [NoLocator EXCEPT !.path = "/task"], access |-> NoAccess,
   entities |-> {"task"}, sources |-> {source}, support |-> Sure({"ev1"})]

Endpoint(locator, access, evidence) ==
  [id |-> "api.task", type |-> "api_endpoint", name |-> 2, description |-> {evidence},
   locator |-> locator, access |-> access, entities |-> {},
   sources |-> {Source}, support |-> Sure({evidence})]

Handler(symbol, interfaces) ==
  [id |-> "handler.task", type |-> "method", name |-> 2, path |-> "Tasks.php",
   symbol |-> symbol, interfaces |-> interfaces, support |-> Sure({"ev2"})]

Link(type, from, to, integration) ==
  [type |-> type, from |-> from, to |-> to, integration |-> integration,
   description |-> {"p"}, support |-> Sure({"ev1"})]

Database(name, authentication, credential) ==
  [id |-> "db", type |-> "database", name |-> name, description |-> {"p"},
   locator |-> [NoIntegrationLocator EXCEPT !.name = "main"],
   authentication |-> authentication, credential |-> credential,
   entities |-> {}, sources |-> {Source}, support |-> Sure({"ev1"})]

Answer(interfaces, integrations, handlers, relationships) ==
  [interfaces |-> interfaces, integrations |-> integrations,
   handlers |-> handlers, relationships |-> relationships]

(* Two pages at the route's path, one of them registered by another file;  *)
(* the handler is named with and without its class.                        *)
WebAnswers ==
  { Answer(<<Page("web.task", Source), Page("web.task", OtherSource)>>, <<>>,
           <<Handler(<<"Tasks", "show">>, {"web.task"})>>, <<>>),
    Answer(<<Page("web.board", Source), Page("web.task", OtherSource)>>, <<>>,
           <<Handler(<<"Tasks", "show">>, {"web.task"})>>,
           <<Link("navigation", "web.board", "web.task", Empty)>>),
    Answer(<<Page("web.board", OtherSource), Page("web.task", Source)>>, <<>>,
           <<Handler(<<"Tasks", "show">>, {"web.board"})>>, <<>>),
    Answer(<<Page("web.task", Source)>>, <<>>, <<>>, <<>>) }

Rpc    == [NoLocator EXCEPT !.path = "/rpc", !.protocol = "jsonrpc"]
RpcMethod == [Rpc EXCEPT !.method_name = "getTask", !.transport_path = "/rpc"]
Method == [NoLocator EXCEPT !.path = "/rpc", !.method_name = "getTask"]

ApiAnswers ==
  { Answer(<<Endpoint(Rpc, Access("unknown", {}), "ev1")>>, <<>>, <<>>, <<>>),
    Answer(<<Endpoint(Method, Access("required", {"admin"}), "ev2")>>, <<>>,
           <<Handler(<<"show">>, {"api.task"})>>,
           <<Link("api_call", "web.board", "api.task", Empty)>>),
    Answer(<<Endpoint(Method, Access("not_required", {}), "ev1")>>, <<>>,
           <<Handler(<<"App", "Tasks", "show">>, {"api.task"})>>, <<>>),
    Answer(<<Endpoint(RpcMethod, Access("unknown", {}), "ev1")>>, <<>>,
           <<Handler(<<>>, {"api.task", "web.task"})>>, <<>>),
    Answer(<<>>, <<>>, <<Handler(<<"hide">>, {"web.task"})>>, <<>>),
    Answer(<<>>, <<>>, <<>>, <<>>) }

(* A library of the application, a database, and one whose entries agree   *)
(* only one by one.                                                        *)
IntegrationAnswers ==
  { Answer(<<>>, <<Database(1, "none", Empty)>>, <<>>, <<>>),
    Answer(<<>>, <<Database(2, "unknown", "KEY"), Database(2, "basic", Empty)>>, <<>>,
           <<Link("integration_call", "api.task", Empty, "db")>>),
    Answer(<<>>, <<Database(2, "unknown", "KEY"), Database(2, "none", Empty)>>, <<>>,
           <<>>),
    Answer(<<>>, <<Database(2, "none", Empty)>>, <<>>,
           <<Link("integration_call", "web.task", Empty, "db")>>) }

MCAnswers ==
  [c \in {"web", "api", "integrations"} |->
     CASE c = "web" -> WebAnswers [] c = "api" -> ApiAnswers
       [] c = "integrations" -> IntegrationAnswers]

MCTasks ==
  << [category |-> "web", routes |-> {Route}],
     [category |-> "api", routes |-> {}], [category |-> "api", routes |-> {}],
     [category |-> "integrations", routes |-> {}] >>
=============================================================================
