----------------------------- MODULE FeatureTree -----------------------------
(***************************************************************************)
(* The feature tree: what its nodes may be and refer to, what an answer of *)
(* the module discovery or of the expansion of a module must satisfy, the  *)
(* context an expansion is given, and the counts reported of a tree.       *)
(*                                                                         *)
(* A forest is a function from positions to nodes: <<i>> is the i-th tree  *)
(* and Append(p, j) the j-th child of the node at p.  An ID is the         *)
(* sequence of its segments.  A node's name, description, access value,    *)
(* source paths and confidence are one flag, "complete".                   *)
(***************************************************************************)
EXTENDS Naturals, FiniteSets, SequencesExt

CONSTANTS
  RootNames,  (* the interface IDs that end in ".root"                     *)
  LowerCase   (* strings.ToLower: [interface IDs as answered -> strings]   *)

IDs(items)     == {item.id : item \in items}
Parent(p)      == SubSeq(p, 1, Len(p) - 1)
Children(f, p) == {q \in DOMAIN f : Len(q) = Len(p) + 1 /\ Parent(q) = p}
Top(f)         == {p \in DOMAIN f : Len(p) = 1}

-----------------------------------------------------------------------------
(* Interfaces.  An absent field of a locator is "", an absent access       *)
(* record NoAccess.                                                        *)

NoAccess == [authentication |-> "", roles |-> {}, permissions |-> {}]

IsRootInterface(item) ==
  \/ item.id \in RootNames
  \/ /\ item.type = "api_endpoint" /\ item.locator.method_name = ""
     /\ item.locator.protocol # ""
     /\ item.locator.transport_path # "" \/ item.locator.path # ""

operationTypes ==
  {"web_page", "form_action", "api_endpoint", "websocket", "cli_command",
   "scheduled_job", "worker", "event_consumer", "script"}

IsOperationCapableInterface(item) ==
  ~ IsRootInterface(item) /\ item.type \in operationTypes

ConcreteCandidateInterfaceIDs(surface) ==
  IDs({item \in surface.interfaces : IsOperationCapableInterface(item)})

referencesFromFindings(prior) ==
  [roles        |-> IDs(prior.authorization.roles),
   permissions  |-> IDs(prior.authorization.permissions),
   entities     |-> IDs(prior.entities),
   interfaces   |-> IDs(prior.surface.interfaces),
   integrations |-> IDs(prior.surface.integrations),
   evidence     |-> prior.evidence]

-----------------------------------------------------------------------------
(* Nodes *)

nodeTypes == {"module", "feature", "action"}

(* An answered interface ID that differs in case from one canonical ID     *)
(* becomes that ID.                                                        *)
Canonical(id, known) ==
  LET matches == {c \in known : LowerCase[c] = LowerCase[id]}
  IN  IF id \notin known /\ Cardinality(matches) = 1
      THEN CHOOSE c \in matches : TRUE ELSE id

normalizeCanonicalInterfaceReferences(f, known) ==
  [p \in DOMAIN f |->
     [f[p] EXCEPT !.interfaces = {Canonical(id, known) : id \in @}]]

References(node, refs) ==
  /\ node.roles \subseteq refs.roles /\ node.permissions \subseteq refs.permissions
  /\ node.entities \subseteq refs.entities
  /\ node.interfaces \subseteq refs.interfaces \ refs.integrations
  /\ node.evidence # {} /\ node.evidence \subseteq refs.evidence

Within_Any(f, p, top) == TRUE   (* mutant *)
Within(f, p, top) ==
  LET parent == IF Len(p) = 1 THEN top ELSE f[Parent(p)].id
  IN  parent = << >> \/ IsStrictPrefix(parent, f[p].id)

validateNode(f, p, top, refs) ==
  /\ Within(f, p, top)
  /\ f[p].type \in nodeTypes /\ f[p].complete
  /\ f[p].type = "action" => Children(f, p) = {}
  /\ References(f[p], refs)

(* validateNode of every tree, with the IDs seen so far carried along.     *)
Unique(f, top) ==
  /\ \A p, q \in DOMAIN f : f[p].id = f[q].id => p = q
  /\ \A p \in DOMAIN f : f[p].id # top

validForest(f, top, refs) ==
  Unique(f, top) /\ \A p \in DOMAIN f : validateNode(f, p, top, refs)

validateResultWithReferences(f, refs) == validForest(f, << >>, refs)

-----------------------------------------------------------------------------
(* The tasks of the coordinator *)

genericPrefix(id) == id[1] \in nodeTypes /\ Len(id) > 1

(* A module is assigned interfaces, a concrete one among them if there are *)
(* any.                                                                    *)
Assigned(node, candidates) ==
  /\ node.interfaces # {}
  /\ candidates # {} => node.interfaces \cap candidates # {}

validateModuleCanonicalReferences(f, refs) ==
  \A p \in Top(f) :
    /\ f[p].entities \subseteq refs.entities /\ f[p].interfaces \subseteq refs.interfaces
    /\ f[p].roles \subseteq refs.roles /\ f[p].permissions \subseteq refs.permissions

moduleDiscoveryAccepts(f, refs, candidates) ==
  /\ validateModuleCanonicalReferences(f, refs)
  /\ validateResultWithReferences(f, refs)
  /\ candidates # {} => f # << >>
  /\ DOMAIN f = Top(f)
  /\ \A p \in DOMAIN f :
       /\ f[p].type = "module" /\ ~ genericPrefix(f[p].id)
       /\ Assigned(f[p], candidates)

validateExpansionChildren(f, module) ==
  \A p \in DOMAIN f :
    f[p].type # "module" /\ f[p].interfaces \subseteq module.interfaces

Actions(f) == {p \in DOMAIN f : f[p].type = "action"}

moduleExpansionAccepts(module, f, refs, candidates) ==
  /\ validForest(f, module.id, refs)
  /\ validateExpansionChildren(f, module)
  /\ module.interfaces \cap candidates # {} => Actions(f) # {}

(* The tree: every module with the children its expansion returned.        *)
mergeResults(modules, expansion) ==
  [p \in DOMAIN modules \cup
         UNION {{<<i>> \o q : q \in DOMAIN expansion[modules[<<i>>].id]} :
                i \in {r[1] : r \in DOMAIN modules}} |->
     IF Len(p) = 1 THEN modules[p] ELSE expansion[modules[<<p[1]>>].id][Tail(p)]]

-----------------------------------------------------------------------------
(* The context of an expansion *)

nonEmpty(s) == SelectSeq(s, LAMBDA v : v # "")

compactLocator(item) ==
  LET l == item.locator
  IN  IF l.method_name # "" THEN <<l.method_name>>
      ELSE nonEmpty(<<l.protocol, l.method, l.path, l.command, l.schedule,
                      l.event, l.transport_path>>)

Selected(items, ids) == {item \in items : item.id \in ids}

Concerned(items)      == UNION {item.entities : item \in items}
Granted(items, field) == UNION {item.access[field] : item \in items}

buildModuleContext(module, prior) ==
  LET interfaces == Selected(prior.surface.interfaces, module.interfaces)
      relationships == {r \in prior.surface.relationships :
                          r.from \in module.interfaces \/ r.to \in module.interfaces}
  IN  [module        |-> module,
       interfaces    |-> interfaces,
       entities      |-> Selected(prior.entities,
                           module.entities \cup Concerned(interfaces)),
       roles         |-> Selected(prior.authorization.roles,
                           module.roles \cup Granted(interfaces, "roles")),
       permissions   |-> Selected(prior.authorization.permissions,
                           module.permissions \cup Granted(interfaces, "permissions")),
       relationships |-> relationships,
       integrations  |-> Selected(prior.surface.integrations,
                                  {r.integration : r \in relationships})]

(* The size of a context, an entry counted as one.                         *)
contextSize(context) ==
  Cardinality(context.interfaces) + Cardinality(context.entities)
  + Cardinality(context.roles) + Cardinality(context.permissions)
  + Cardinality(context.relationships) + Cardinality(context.integrations)

-----------------------------------------------------------------------------
(* The counts of a tree *)

CountInterfaceMappings(f, surface) ==
  LET roots    == IDs({item \in surface.interfaces : IsRootInterface(item)})
      unmapped == {p \in Actions(f) : f[p].interfaces = {}}
      rootOnly == {p \in Actions(f) \ unmapped : f[p].interfaces \subseteq roots}
  IN  [unmapped |-> Cardinality(unmapped), rootOnly |-> Cardinality(rootOnly),
       concrete |-> Cardinality(Actions(f) \ (unmapped \cup rootOnly))]

CountConcreteInterfaceCoverage(f, surface) ==
  LET candidates == ConcreteCandidateInterfaceIDs(surface)
      referenced == candidates \cap UNION {f[p].interfaces : p \in DOMAIN f}
  IN  [candidates |-> Cardinality(candidates), referenced |-> Cardinality(referenced)]

assignedConcreteInterfaces(modules, surface) ==
  ConcreteCandidateInterfaceIDs(surface)
    \cap UNION {modules[p].interfaces : p \in DOMAIN modules}
=============================================================================
