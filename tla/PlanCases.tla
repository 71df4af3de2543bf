------------------------------ MODULE PlanCases ------------------------------
(* Applications for LifecyclePlan: projects have tasks and tasks have       *)
(* steps; to the interfaces of the one lifecycle that is complete come some *)
(* that compete with them, and one of them may be missing.                  *)
EXTENDS Naturals, Sequences, InterfaceRules

CONSTANTS
  Spellings,  (* of the parameters' names                                   *)
  Trusted     (* the confidence of the competing interfaces                 *)

Route(parameters, last) == [parameters |-> parameters, last |-> last]
It(id, type, route, entities, space, called, confidence) ==
  [id |-> id, type |-> type, route |-> route, entities |-> entities,
   space |-> space, called |-> called, confidence |-> confidence]
Feature(id, entities, words, interfaces) ==
  [id |-> id, entities |-> entities, words |-> words, interfaces |-> interfaces,
   confidence |-> 100]

Project == <<"project", "_id">>
Task    == <<"task", "_id">>

Base ==
  {It(1, "web_page", Route(<<>>, FALSE), {"project", "user"}, "project", None, 100),
   It(2, "web_page", Route(<<Project>>, TRUE), {"project"}, "project", "view", 100),
   It(3, "web_page", Route(<<Project>>, FALSE), {"project", "task"}, "project", None, 100),
   It(4, "web_page", Route(<<Task>>, TRUE), {"task"}, "task", "show", 100),
   It(5, "web_page", Route(<<Task>>, FALSE), {"task"}, "task", "edit", 100),
   It(6, "form_action", Route(<<Task>>, FALSE), {"task"}, "task", "update", 100),
   It(7, "web_page", Route(<<Task>>, FALSE), {"task", "user"}, "task", None, 100),
   It(8, "form_action", Route(<<Project>>, FALSE), {"project"}, "project", "remove", 100)}
Actions ==
  {Feature(20, {"project"}, {"create"}, {1}), Feature(21, {"project"}, {"view"}, {2}),
   Feature(22, {"project", "task"}, {"create"}, {3}), Feature(23, {"task"}, {"show"}, {4, 5}),
   Feature(24, {"task"}, {"edit"}, {5, 6}), Feature(25, {"task"}, {"update"}, {6}),
   Feature(26, {"task"}, {"remove"}, {7, 5}), Feature(27, {"project"}, {"remove", "edit"}, {8})}

(* Competing: a form elsewhere that creates the project, or removes it; a  *)
(* page of the task below its project, or below a comment; the removal of  *)
(* the task from a list, or on a page of a comment; and an action of the   *)
(* API.                                                                    *)
Competing ==
  {<<It(30, "form_action", Route(<<>>, FALSE), {"project"}, None, None, Trusted),
     Feature(10, {"project"}, {"create"}, {30})>>}
  \cup {<<It(31, "form_action", Route(<<<<"project", s>>>>, FALSE), {"project"}, None, "remove", Trusted + 90),
           Feature(11, {"project"}, {"delete"}, {31})>> : s \in Spellings}
  \cup {<<It(32, "web_page", Route(<<Project, Task>>, TRUE), {"task"}, "task", "details", Trusted + 50),
           Feature(12, {"task"}, {"details", "edit"}, {32})>>,
         <<It(33, "web_page", Route(<<<<"comment", "_id">>, Task>>, FALSE), {"task"}, "task", "edit", Trusted + 50),
           Feature(13, {"task"}, {"edit", "save"}, {33})>>,
         <<It(34, "form_action", Route(<<Task>>, FALSE), {"task"}, None, "remove", Trusted),
           Feature(14, {"task", "project"}, {"remove"}, {34})>>,
         <<It(36, "web_page", Route(<<Task>>, FALSE), {"task"}, None, "remove", Trusted),
           Feature(16, {"task"}, {"remove"}, {36})>>,
         <<It(37, "form_action", Route(<<Project, <<"comment", "_id">>>>, FALSE), {"project"}, "project", "delete", Trusted + 50),
           Feature(17, {"project"}, {"delete"}, {37})>>,
         <<It(35, "api_endpoint", None, {"task"}, "task", "update", Trusted),
           Feature(15, {"task"}, {"update"}, {35})>>}

Application(missing, competing, owner) ==
  [interfaces |-> {it \in Base : it.id # missing} \cup {c[1] : c \in competing},
   actions    |-> Actions \cup {c[2] : c \in competing},
   hasMany    |-> <<<<"project", "task">>, <<"task", "step">>>>,
   belongsTo  |-> owner]
MCApplications ==
  {Application(m, c, {<<"task", "project">>}) : m \in 0..8, c \in SUBSET Competing}
  \cup {Application(0, {}, {<<"step", "task">>})}
=============================================================================
