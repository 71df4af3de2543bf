-------------------------- MODULE SurfaceFindings --------------------------
(***************************************************************************)
(* Technical Surface findings: the rules a set of findings is validated    *)
(* by, and the merge of findings of several tasks into one set.            *)
(*                                                                         *)
(* An answer holds four sequences of items; merged findings hold each item *)
(* once, under its identity.  Lists that the code keeps sorted are sets.   *)
(* A name is a number, 0 when it is missing, in the order preferredLabel   *)
(* prefers them; a description is the set of its paragraphs; a symbol is   *)
(* the sequence of its segments, <<"Tasks", "list">> for Tasks\list.       *)
(***************************************************************************)
EXTENDS Integers, Sequences, FiniteSets, SequencesExt, TLC

CONSTANTS
  Rank,            (* [IDs that match semanticIDPattern -> Nat], their     *)
                   (* alphabetical order                                   *)
  Entities, Roles, Permissions,   (* the IDs of the findings before        *)
  Libraries,       (* names that identify a library of the application     *)
  EvidenceIDs,     (* the evidence of the run                              *)
  Certain,         (* confidence 1; a confidence is a fraction of it       *)
  Naming           (* [controllers -> sets of the names that contain them] *)

Empty       == ""
SemanticIDs == DOMAIN Rank
Most(a, b) == IF a >= b THEN a ELSE b

interfaceTypes ==
  {"web_page", "api_endpoint", "cli_command", "form_action", "websocket",
   "scheduled_job", "worker", "event_consumer", "script", "other"}
handlerTypes ==
  {"controller", "handler", "command_handler", "function", "method", "script",
   "worker", "other"}
integrationTypes ==
  {"http_api", "database", "object_storage", "cache", "message_broker", "email",
   "filesystem", "external_process", "other"}
integrationAuthenticationTypes ==
  {"none", "bearer", "basic", "api_key", "oauth", "certificate", "custom", "unknown"}
relationshipTypes ==
  {"navigation", "redirect", "form_submit", "api_call", "command_flow",
   "event_flow", "integration_call", "other"}
authenticationAccessValues == {"required", "not_required", "unknown"}

-----------------------------------------------------------------------------
(* Items. *)
NoLocator ==
  [path |-> Empty, method |-> Empty, command |-> Empty, schedule |-> Empty,
   event |-> Empty, protocol |-> Empty, method_name |-> Empty,
   transport_path |-> Empty]

NoIntegrationLocator ==
  [base_url |-> Empty, path |-> Empty, method |-> Empty, name |-> Empty,
   command |-> Empty]

(* Access is optional: an interface without it has this one. *)
NoAccess ==
  [authentication |-> "absent", roles |-> {}, permissions |-> {},
   confidence |-> 0, evidence |-> {}]

NoFindings ==
  [interfaces |-> << >>, integrations |-> << >>, handlers |-> << >>,
   relationships |-> << >>]

(* A relationship has no ID: it is known by what it connects. *)
ID(item) == item.id
relationshipIdentityKey(r) == <<r.type, r.from, r.to, r.integration>>

-----------------------------------------------------------------------------
(* Two values of one field: the empty one gives way to the other. *)
SameIdentity(left, right) == left = Empty \/ right = Empty \/ left = right

mergeIdentityString(left, right) == IF left = Empty THEN right ELSE left

SameFields(left, right) ==
  \A f \in DOMAIN left : SameIdentity(left[f], right[f])

mergeLocator(left, right) ==
  [f \in DOMAIN left |-> mergeIdentityString(left[f], right[f])]

(* An unknown kind of authentication gives way to a known one. *)
SameAuthentication(left, right) == left = right \/ "unknown" \in {left, right}

mergeAuthentication(left, right) == IF left = "unknown" THEN right ELSE left

Absent(access) == access.authentication = "absent"

SameAccess(left, right) ==
  Absent(left) \/ Absent(right)
  \/ SameAuthentication(left.authentication, right.authentication)

mergeAccess(left, right) ==
  IF Absent(left) THEN right
  ELSE IF Absent(right) THEN left
  ELSE [authentication |-> mergeAuthentication(left.authentication,
                                               right.authentication),
        roles          |-> left.roles \cup right.roles,
        permissions    |-> left.permissions \cup right.permissions,
        confidence     |-> Most(left.confidence, right.confidence),
        evidence       |-> left.evidence \cup right.evidence]

(* What every kind of item has. *)
Support(left, right) ==
  [confidence |-> Most(left.confidence, right.confidence),
   evidence   |-> left.evidence \cup right.evidence]

SameInterface(left, right) ==
  /\ left.type = right.type
  /\ SameFields(left.locator, right.locator)
  /\ SameAccess(left.access, right.access)

mergeInterface(left, right) ==
  [id |-> left.id, type |-> left.type,
   name        |-> Most(left.name, right.name),
   description |-> left.description \cup right.description,
   locator     |-> mergeLocator(left.locator, right.locator),
   access      |-> mergeAccess(left.access, right.access),
   entities    |-> left.entities \cup right.entities,
   sources     |-> left.sources \cup right.sources,
   support     |-> Support(left.support, right.support)]

SameIntegration(left, right) ==
  /\ left.type = right.type
  /\ SameFields(left.locator, right.locator)
  /\ SameAuthentication(left.authentication, right.authentication)
  /\ SameIdentity(left.credential, right.credential)

mergeIntegration(left, right) ==
  [id |-> left.id, type |-> left.type,
   name           |-> Most(left.name, right.name),
   description    |-> left.description \cup right.description,
   locator        |-> mergeLocator(left.locator, right.locator),
   authentication |-> mergeAuthentication(left.authentication, right.authentication),
   credential     |-> mergeIdentityString(left.credential, right.credential),
   entities       |-> left.entities \cup right.entities,
   sources        |-> left.sources \cup right.sources,
   support        |-> Support(left.support, right.support)]

(* A symbol may be given with or without its qualifiers. *)
Qualifies(long, short) ==
  Len(long) >= Len(short)
  /\ SubSeq(long, Len(long) - Len(short) + 1, Len(long)) = short

SameSymbol(left, right) == Qualifies(left, right) \/ Qualifies(right, left)

mergeHandlerSymbol_Left(left, right) == left              (* mutant *)
mergeHandlerSymbol(left, right) == IF Qualifies(left, right) THEN left ELSE right

SameHandler(left, right) ==
  /\ left.type = right.type
  /\ SameIdentity(left.path, right.path)
  /\ SameSymbol(left.symbol, right.symbol)

mergeHandler(left, right) ==
  [id |-> left.id, type |-> left.type,
   name       |-> Most(left.name, right.name),
   path       |-> mergeIdentityString(left.path, right.path),
   symbol     |-> mergeHandlerSymbol(left.symbol, right.symbol),
   interfaces |-> left.interfaces \cup right.interfaces,
   support    |-> Support(left.support, right.support)]

SameRelationship(left, right) == TRUE

mergeRelationship(left, right) ==
  [left EXCEPT !.description = @ \cup right.description,
               !.support     = Support(@, right.support)]

-----------------------------------------------------------------------------
(* The items of a sequence merged one after another into those of `start'; *)
(* `ok' tells that none of them conflicts.                                 *)
MergedItems(start, items, Key(_), Same(_, _), Merge(_, _)) ==
  LET before[n \in 0..Len(items)] ==
        IF n = 0 THEN [ok |-> TRUE, items |-> start]
        ELSE LET sum  == before[n - 1]
                 item == items[n]
                 k    == Key(item)
             IN  IF k \notin DOMAIN sum.items
                 THEN [sum EXCEPT !.items = (k :> item) @@ @]
                 ELSE [ok    |-> sum.ok /\ Same(sum.items[k], item),
                       items |-> [sum.items EXCEPT ![k] = Merge(@, item)]]
  IN  before[Len(items)]

mergeFindings(start, answer) ==
  LET i == MergedItems(start.interfaces, answer.interfaces, ID,
                       SameInterface, mergeInterface)
      g == MergedItems(start.integrations, answer.integrations, ID,
                       SameIntegration, mergeIntegration)
      h == MergedItems(start.handlers, answer.handlers, ID,
                       SameHandler, mergeHandler)
      r == MergedItems(start.relationships, answer.relationships,
                       relationshipIdentityKey, SameRelationship, mergeRelationship)
  IN  [ok       |-> i.ok /\ g.ok /\ h.ok,
       findings |-> [interfaces |-> i.items, integrations |-> g.items,
                     handlers |-> h.items, relationships |-> r.items]]

(* mergeCategoryFindings of the answers of several tasks, in their order. *)
mergeCategoryFindings(answers) ==
  LET upTo[n \in 0..Len(answers)] ==
        IF n = 0 THEN [ok |-> TRUE, findings |-> NoFindings]
        ELSE LET next == mergeFindings(upTo[n - 1].findings, answers[n])
             IN  [next EXCEPT !.ok = @ /\ upTo[n - 1].ok]
  IN  upTo[Len(answers)]

(* An answer as its task hands it on: its own duplicates are merged. *)
Items(f) == {f[k] : k \in DOMAIN f}
Listed(f) == SetToSeq(Items(f))
Normalized(answer) ==
  LET f == mergeFindings(NoFindings, answer).findings
  IN  [k \in DOMAIN f |-> Listed(f[k])]

-----------------------------------------------------------------------------
(* Validation. *)
ValidEvidence(support) ==
  /\ support.confidence \in 0..Certain
  /\ support.confidence > 0 => support.evidence # {}
  /\ support.evidence \subseteq EvidenceIDs

Supported(support) == support.confidence > 0 /\ ValidEvidence(support)

Described(item) == item.name # 0 /\ item.description # {}
Sourced(item)   == item.sources # {} /\ \A s \in item.sources : s.path # Empty

(* Locator fields of which an interface of a type needs one. *)
Needed(type) ==
  CASE type \in {"web_page", "form_action", "websocket"} -> {"path"}
    [] type = "cli_command"    -> {"command"}
    [] type = "event_consumer" -> {"event"}
    [] type = "scheduled_job"  -> {"schedule", "command"}
    [] type = "worker"         -> {"event", "command"}
    [] type = "script"         -> {"path", "command"}
    [] OTHER                   ->
         {"path", "command", "schedule", "event", "method_name", "transport_path"}

HasOne(locator, fields) == \E f \in fields : locator[f] # Empty

(* A method of a JSON-RPC transport needs the transport's path. *)
ValidEndpoint(locator) ==
  IF locator.protocol # "jsonrpc" THEN locator.path # Empty
  ELSE IF locator.method_name # Empty THEN locator.transport_path # Empty
  ELSE HasOne(locator, {"transport_path", "path"})

validateLocator(type, locator) ==
  /\ HasOne(locator, Needed("other"))
  /\ HasOne(locator, Needed(type))
  /\ type = "api_endpoint" => ValidEndpoint(locator)

validateIntegrationLocator(type, locator) ==
  /\ HasOne(locator, {"base_url", "path", "name", "command"})
  /\ type = "http_api" => HasOne(locator, {"base_url", "path"})
  /\ type = "filesystem" => locator.path # Empty
  /\ type = "external_process" => locator.command # Empty

validateAccess(access) ==
  /\ access.authentication \in authenticationAccessValues
  /\ IF access.authentication = "unknown"
     THEN access.roles = {} /\ access.permissions = {}
     ELSE access.confidence # 0
  /\ ValidEvidence(access)
  /\ access.roles \subseteq Roles /\ access.permissions \subseteq Permissions

ValidInterface(item) ==
  /\ item.id \in SemanticIDs /\ item.type \in interfaceTypes
  /\ Described(item) /\ Sourced(item) /\ Supported(item.support)
  /\ validateLocator(item.type, item.locator)
  /\ item.entities \subseteq Entities
  /\ Absent(item.access) \/ validateAccess(item.access)

isInternalLibraryIntegration(item) ==
  /\ item.type = "database" /\ item.name \in Libraries
  /\ ~ HasOne(item.locator, {"base_url", "path", "command"})

ValidIntegration(item) ==
  /\ item.id \in SemanticIDs /\ item.type \in integrationTypes
  /\ Described(item) /\ Sourced(item) /\ Supported(item.support)
  /\ ~ isInternalLibraryIntegration(item)
  /\ validateIntegrationLocator(item.type, item.locator)
  /\ item.authentication \in integrationAuthenticationTypes
  /\ item.authentication = "none" => item.credential = Empty
  /\ item.entities \subseteq Entities

ValidHandler(item, interfaces) ==
  /\ item.id \in SemanticIDs /\ item.type \in handlerTypes
  /\ item.name # 0 /\ item.path # Empty
  /\ item.interfaces # {} /\ item.interfaces \subseteq interfaces
  /\ Supported(item.support)

ValidRelationship(item, interfaces, integrations) ==
  /\ item.type \in relationshipTypes
  /\ item.from \in interfaces
  /\ IF item.type = "integration_call"
     THEN item.to = Empty /\ item.integration \in integrations
     ELSE item.integration = Empty /\ item.to \in interfaces
  /\ item.description # {} /\ Supported(item.support)

(* What may be referred to: what these findings or earlier ones declare. *)
withSurface(f, prior) ==
  [interfaces   |-> DOMAIN f.interfaces \cup DOMAIN prior.interfaces,
   integrations |-> DOMAIN f.integrations \cup DOMAIN prior.integrations]

validateResultWithReferences_OwnOnly(f, prior) ==         (* mutant *)
  /\ \A i \in Items(f.interfaces) : ValidInterface(i)
  /\ \A g \in Items(f.integrations) : ValidIntegration(g)
validateResultWithReferences(f, prior) ==
  LET known == withSurface(f, prior)
  IN  /\ \A i \in Items(f.interfaces) : ValidInterface(i)
      /\ \A g \in Items(f.integrations) : ValidIntegration(g)
      /\ \A h \in Items(f.handlers) : ValidHandler(h, known.interfaces)
      /\ \A r \in Items(f.relationships) :
           ValidRelationship(r, known.interfaces, known.integrations)

-----------------------------------------------------------------------------
(* What a category may report. *)
allowed ==
  [web        |-> {"web_page", "form_action"},
   api        |-> {"api_endpoint", "websocket"},
   cli        |-> {"cli_command", "script"},
   background |-> {"scheduled_job", "worker", "event_consumer"}]

InScope(category, f) ==
  IF category = "integrations"
  THEN /\ DOMAIN f.interfaces = {} /\ DOMAIN f.handlers = {}
       /\ \A r \in Items(f.relationships) : r.type = "integration_call"
  ELSE /\ DOMAIN f.integrations = {}
       /\ \A i \in Items(f.interfaces) : i.type \in allowed[category]
       /\ \A r \in Items(f.relationships) : r.type # "integration_call"

validateCategoryResult(category, answer, prior) ==
  LET own == mergeFindings(NoFindings, answer)
  IN  /\ own.ok
      /\ validateResultWithReferences(own.findings, prior)
      /\ InScope(category, own.findings)

(* The interfaces of a category, as its coverage counts them. *)
categoryCounts(f, category) ==
  IF category = "integrations" THEN Cardinality(DOMAIN f.integrations)
  ELSE Cardinality({i \in Items(f.interfaces) : i.type \in allowed[category]})

-----------------------------------------------------------------------------
(* Every route a Web task asks for has an interface with its path and its  *)
(* registration file, and a handler named after its controller.            *)
HandledBy(handlers, id, route) ==
  \E h \in Items(handlers) :
    /\ id \in h.interfaces
    /\ h.name \in Naming[route.controller]
       \/ route.controller \in {h.symbol[k] : k \in DOMAIN h.symbol}

AtPath(f, route) == {i \in Items(f.interfaces) : i.locator.path = route.path}
Registered(i, route) == \E s \in i.sources : s.path = route.source

(* The interfaces are gone through in the order of their IDs.  Once one of *)
(* them is registered, `covered' stays set: the handler may be that of any *)
(* interface after it.                                                     *)
validateWebCandidateCoverage(f, routes) ==
  \A route \in routes : \E i, k \in AtPath(f, route) :
    /\ Registered(i, route) /\ Rank[i.id] <= Rank[k.id]
    /\ HandledBy(f.handlers, k.id, route)
=============================================================================
