--------------------------- MODULE SelectionCases ----------------------------
(* Applications and targets for CoreSelection.                              *)
EXTENDS Naturals, InterfaceRules, TLC

CONSTANTS
  Denials,    (* may a page answer 403 to an anonymous visitor?             *)
  Untitled,   (* may pages have no title?                                   *)
  Queries     (* the queries of the login page's address                    *)

MCLoginRoutes == {"/login"}
MCParamRoutes == {"/item/{id}"}
MCSecrets     == {"alice"}

Page(words, route, access, entities) ==
  [type |-> "web_page", method |-> "GET", words |-> words, route |-> route,
   access |-> access, entities |-> entities]
Mutation(type, route) ==
  [type |-> type, method |-> "POST", words |-> {"mutating"}, route |-> route,
   access |-> "required", entities |-> {"task"}]
Node(id, type, interfaces, entities, verbs) ==
  [id |-> id, type |-> type, interfaces |-> interfaces, entities |-> entities,
   verbs |-> verbs, auth |-> "required"]

Login == Page({"login"}, "/login", "not_required", {})
Board == Page({}, "/board", "required", {"task"})
List  == Page({"listing"}, "/list", "unknown", {"task"})
Item  == Page({}, "/item/{id}", "unknown", {})
Account == Page({"login"}, "/account", "required", {})
Users   == Page({}, "/users", "required", {"task"})

(* A central entity, changed through a form, through the API, or both; an  *)
(* action that only reads; a route with a parameter; and an action whose   *)
(* ID is the one of a candidate.                                           *)
Tasks ==
  [interfaces |-> <<Login, Board, List, Mutation("form_action", "/task"),
                    Mutation("api_endpoint", None)>>,
   nodes |-> {Node(<<4, "">>, "action", {4, 5}, {"task"}, {"create"}),
              Node(<<2, "">>, "action", {2, 3}, {}, {}),
              Node(<<5, "">>, "action", {5}, {"task"}, {"delete"}),
              Node(<<1, "">>, "module", {1}, {}, {})},
   entities |-> {"task"}, mentions |-> [e \in {"task"} |-> 1000]]
Library ==
  [interfaces |-> <<Account, Users, Item, Mutation("form_action", "/task")>>,
   nodes |-> {Node(<<2, "authenticated">>, "action", {4}, {}, {"update"})},
   entities |-> {"task"}, mentions |-> [e \in {"task"} |-> 0]]
Empty ==
  [interfaces |-> <<Mutation("api_endpoint", None)>>,
   nodes |-> {Node(<<1, "">>, "action", {1}, {}, {"add"})},
   entities |-> {"task"}, mentions |-> [e \in {"task"} |-> 0]]

MCApplications == {Tasks, Library, Empty}

-----------------------------------------------------------------------------
View(http, at, form, title) == [http |-> http, at |-> at, form |-> form, title |-> title]
Both(anonymous, session) == [unauthenticated |-> anonymous, authenticated |-> session]

LoginPage(q, form) == View("ok", <<"/login", q>>, form, <<>>)
Own(it, title) ==
  View("ok", <<it.route, IF it.route \in MCParamRoutes THEN "7" ELSE None>>, FALSE, title)

TitleOf(it) == IF it.route = "/list" THEN <<"alice", "s", "list">> ELSE <<it.route, "alice">>

(* A page is its own, walled, moved, gone, denied, or its own with a form  *)
(* of a user name and a password (to create a user).                       *)
PageOf(it, q, form, kind) ==
  LET own   == Own(it, IF Untitled THEN <<>> ELSE TitleOf(it))
      moved == View("ok", <<"/home", None>>, FALSE, IF Untitled THEN <<>> ELSE <<"home">>)
      gone  == View("missing", own.at, FALSE, <<>>)
      login == LoginPage(q, form)
  IN IF it.route = "/login"
     THEN Both(IF kind = "own" THEN login ELSE [login EXCEPT !.http = "none"], own)
     ELSE CASE kind = "own"    -> Both(own, own)
            [] kind = "walled" -> Both(login, own)
            [] kind = "asks"   -> Both(login, [own EXCEPT !.form = TRUE])
            [] kind = "moved"  -> Both(login, moved)
            [] kind = "gone"   -> Both(gone, [own EXCEPT !.http = "error"])
            [] kind = "denied" -> Both([own EXCEPT !.http = "denied"], own)
Kinds(it) ==
  IF it.type # "web_page" THEN {"gone"}
  ELSE IF it.route = "/login" THEN {"own", "walled"}
  ELSE {"own", "walled", "moved", "gone"} \cup (IF Denials THEN {"denied"} ELSE {})
       \cup (IF it.route = "/users" THEN {"asks"} ELSE {})
AllKinds == {"own", "walled", "asks", "moved", "gone", "denied"}

(* The login page has a form, or none that could be found and submitted.   *)
Entries(q) ==
  {[form |-> TRUE, login |-> <<"/login", q>>, outcome |-> o] :
     o \in {"works", "form stays", "challenge"}}
  \cup {[form |-> FALSE, login |-> <<None, None>>, outcome |-> "form stays"]}

WorldsOf(a) ==
  LET its   == a.interfaces
      known == \E n \in DOMAIN its : "login" \in its[n].words
      bound == IF \E n \in DOMAIN its : its[n].route \in MCParamRoutes THEN {None, "7"} ELSE {None}
      kinds == {k \in [DOMAIN its -> AllKinds] : \A n \in DOMAIN its : k[n] \in Kinds(its[n])}
  IN UNION {{[pages |-> [n \in DOMAIN its |-> PageOf(its[n], q, e.form, k[n])], bound |-> b,
              outcome |-> e.outcome, login |-> IF known THEN e.login ELSE <<None, None>>] :
             k \in kinds, b \in bound, e \in Entries(q)} : q \in Queries}
MCWorlds ==
  (Tasks :> WorldsOf(Tasks)) @@ (Library :> WorldsOf(Library)) @@ (Empty :> WorldsOf(Empty))

All == [credentials |-> TRUE, totp |-> TRUE, mutations |-> TRUE, browser |-> TRUE]
MCSetups ==
  {All} \cup {[All EXCEPT !.credentials = FALSE], [All EXCEPT !.totp = FALSE],
              [All EXCEPT !.mutations = FALSE], [All EXCEPT !.browser = FALSE]}

(* (Redactor).URL encodes a query anew, in the order of its keys, and      *)
(* replaces the values of the sensitive ones.                              *)
MCRecorded == [q \in {None, "7", "next=/", "token=1"} |->
                 CASE q = "token=1" -> "token=redacted" [] q = "next=/" -> "next=%2F"
                   [] OTHER -> q]
=============================================================================
