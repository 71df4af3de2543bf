---------------------------- MODULE StageContext ----------------------------
(***************************************************************************)
(* The context each stage of a discovery is given of the stages before it: *)
(* a projection of their findings, whole or not at all.  The interfaces of *)
(* the Feature context are a table, concrete ones first, whose types and   *)
(* access records are named by profiles.                                   *)
(*                                                                         *)
(* Findings keep what the projections read.  A list whose order no         *)
(* projection depends on is a set; a name is part of an item's ID.         *)
(***************************************************************************)
EXTENDS FeatureTree

CONSTANTS
  Findings,    (* [stages -> what each may find, given what was found]     *)
  ByteOrder,   (* sort.Strings: interface IDs and types in their order     *)
  AccessOrder, (* the same for access records, written as JSON             *)
  MaxContext   (* maxProjectedContextBytes, in entries                     *)

VARIABLES
  found,       (* [stages completed -> findings]                           *)
  context,     (* the context of the running stage; << >> before it        *)
  tooLarge     (* the run failed: a context is over its limit              *)

vars == <<found, context, tooLarge>>

Stages == <<"architecture", "authentication", "authorization", "entities",
            "surface", "features">>
stage  == Stages[Cardinality(DOMAIN found) + 1]

Place(order, x)  == CHOOSE i \in DOMAIN order : order[i] = x
Sorted(S, order) == SetToSortSeq(S, LAMBDA a, b : Place(order, a) < Place(order, b))
First(s)   == IF s = << >> THEN {} ELSE {s[1]}
Listed(s)  == {s[i] : i \in DOMAIN s}

-----------------------------------------------------------------------------
(* Views of the findings *)

technologyNames(technologies) == {t.name : t \in technologies}

projectArchitecture(f) ==
  [languages |-> technologyNames(f.languages), frameworks |-> technologyNames(f.frameworks),
   style |-> f.style, entrypoints |-> f.entrypoints]

projectAuthentication(f) ==
  [present |-> f.present,
   mechanisms |-> {[id |-> x.id, type |-> x.type, login |-> x.login] : x \in f.mechanisms}]

projectAuthorization(f) ==
  [present |-> f.present, model |-> f.model,
   roles |-> {[id |-> r.id] : r \in f.roles},
   permissions |-> {[id |-> p.id] : p \in f.permissions}]

firstEvidenceID(item) == [id |-> item.id, evidence |-> First(item.evidence)]

projectFeatureAuthorization(f) ==
  [present |-> f.present, model |-> f.model,
   roles |-> {firstEvidenceID(r) : r \in f.roles},
   permissions |-> {firstEvidenceID(p) : p \in f.permissions}]

projectFeatureEntities(f) == {firstEvidenceID(e) : e \in f}

-----------------------------------------------------------------------------
(* The table of interfaces *)

joinNonEmpty(values) == nonEmpty(values)

compactInterfaceLocator_NoEvent(item) ==   (* mutant *)
  nonEmpty(<<item.locator.path, item.locator.command, item.locator.method_name>>)
compactInterfaceLocator(item) ==
  LET l == item.locator
      Shown ==
        CASE item.type \in {"web_page", "form_action"}   -> <<l.method, l.path>>
          [] item.type = "cli_command"                   -> <<l.command>>
          [] item.type = "scheduled_job"                 -> <<l.schedule, l.command>>
          [] item.type \in {"worker", "event_consumer"}  -> <<l.event, l.command>>
          [] item.type = "script"                        -> <<l.command, l.path>>
          [] item.type = "websocket"                     -> <<l.protocol, l.path>>
          [] item.type = "api_endpoint" ->
               <<l.protocol, l.method, l.path, l.transport_path>>
          [] OTHER -> <<l.method, l.path, l.command, l.schedule, l.event,
                        l.protocol, l.transport_path>>
  IN  IF l.method_name # "" THEN <<l.method_name>> ELSE joinNonEmpty(Shown)

(* Profiles: the values in use, numbered in their order. *)
featureAccessKey(access) == access

projectFeatureTypeProfiles(interfaces)   == 
  Sorted({i.type : i \in Listed(interfaces)}, ByteOrder)
projectFeatureAccessProfiles(interfaces) ==
  Sorted({featureAccessKey(i.access) : i \in {j \in Listed(interfaces) : j.access # NoAccess}},
         AccessOrder)
Profile(profiles, value) == CHOOSE n \in DOMAIN profiles : profiles[n] = value

Row(item, types, accesses) ==
  [id |-> item.id, type |-> Profile(types, item.type),
   locator |-> compactInterfaceLocator(item),
   access |-> IF item.access = NoAccess THEN 0
              ELSE Profile(accesses, featureAccessKey(item.access))]

(* Concrete interfaces before roots, each in the order of their IDs.       *)
InOrder(interfaces) ==
  SetToSortSeq(Listed(interfaces),
    LAMBDA a, b : IF IsRootInterface(a) # IsRootInterface(b) THEN IsRootInterface(b)
                  ELSE Place(ByteOrder, a.id) < Place(ByteOrder, b.id))

projectFeatureSurface(f) ==
  LET types    == projectFeatureTypeProfiles(f.interfaces)
      accesses == projectFeatureAccessProfiles(f.interfaces)
      ordered  == InOrder(f.interfaces)
      roots    == SelectSeq(ordered, IsRootInterface)
  IN  [types |-> types, accesses |-> accesses,
       rows  |-> [n \in DOMAIN ordered |-> Row(ordered[n], types, accesses)],
       roots |-> [n \in DOMAIN roots |-> roots[n].id],
       integrations |-> {[id |-> i.id] : i \in f.integrations}]

-----------------------------------------------------------------------------
(* The context of each stage *)

buildAuthenticationContext(f) ==
  [architecture |-> projectArchitecture(f["architecture"])]

buildAuthorizationContext(f) ==
  [architecture   |-> projectArchitecture(f["architecture"]),
   authentication |-> projectAuthentication(f["authentication"])]

buildEntitiesContext(f) ==
  [architecture   |-> projectArchitecture(f["architecture"]),
   authentication |-> [present |-> f["authentication"].present, mechanisms |-> {}],
   authorization  |-> projectAuthorization(f["authorization"])]

buildSurfaceContext(f) ==
  [architecture   |-> projectArchitecture(f["architecture"]),
   authentication |-> projectAuthentication(f["authentication"]),
   authorization  |-> projectAuthorization(f["authorization"]),
   entities       |-> {[id |-> e.id] : e \in f["entities"]}]

buildFeatureContext(f) ==
  [architecture   |-> [projectArchitecture(f["architecture"]) EXCEPT !.entrypoints = {}],
   authentication |-> projectAuthentication(f["authentication"]),
   authorization  |-> projectFeatureAuthorization(f["authorization"]),
   entities       |-> projectFeatureEntities(f["entities"]),
   surface        |-> projectFeatureSurface(f["surface"])]

Context(s, f) ==
  CASE s = "authentication" -> buildAuthenticationContext(f)
    [] s = "authorization"  -> buildAuthorizationContext(f)
    [] s = "entities"       -> buildEntitiesContext(f)
    [] s = "surface"        -> buildSurfaceContext(f)
    [] s = "features"       -> buildFeatureContext(f)

(* The entries of a context. *)
ArchitectureSize(v) ==
  Cardinality(v.languages) + Cardinality(v.frameworks) + Cardinality(v.entrypoints)
SurfaceSize(v) ==
  Len(v.types) + Len(v.accesses) + Len(v.rows) + Len(v.roots) + Cardinality(v.integrations)
SizeOf(c, field) ==
  IF field \notin DOMAIN c THEN 0
  ELSE CASE field = "architecture"   -> ArchitectureSize(c.architecture)
         [] field = "authentication" -> Cardinality(c.authentication.mechanisms)
         [] field = "authorization"  -> Cardinality(c.authorization.roles)
                                          + Cardinality(c.authorization.permissions)
         [] field = "entities"       -> Cardinality(c.entities)
         [] field = "surface"        -> SurfaceSize(c.surface)
Size(c) ==
  SizeOf(c, "architecture") + SizeOf(c, "authentication") + SizeOf(c, "authorization")
  + SizeOf(c, "entities") + SizeOf(c, "surface")

-----------------------------------------------------------------------------
Init == found = << >> /\ context = << >> /\ tooLarge = FALSE

(* marshalContextProjection: the architecture stage has no context. *)
Project ==
  /\ ~ tooLarge /\ DOMAIN found # {} /\ DOMAIN found # Listed(Stages) /\ context = << >>
  /\ LET c == Context(stage, found)
     IN  IF Size(c) > MaxContext
         THEN tooLarge' = TRUE /\ UNCHANGED context
         ELSE context' = c /\ UNCHANGED tooLarge
  /\ UNCHANGED found

Investigate ==
  /\ DOMAIN found # Listed(Stages) /\ (DOMAIN found # {} => context # << >>)
  /\ \E f \in Findings[stage] : found' = (stage :> f) @@ found
  /\ context' = << >> /\ UNCHANGED tooLarge

Next == Project \/ Investigate

Spec == Init /\ [][Next]_vars

-----------------------------------------------------------------------------
At(s) == context # << >> /\ stage = s

(* Stages complete in their order, and a context fits.                     *)
TypeOK ==
  /\ \E n \in 0..Len(Stages) : DOMAIN found = {Stages[i] : i \in 1..n}
  /\ tooLarge \in BOOLEAN /\ tooLarge => context = << >>
  /\ context # << >> => Size(context) <= MaxContext

(* A stage is shown every ID its answer may refer to: what its validation  *)
(* accepts as a reference to earlier findings is what the context lists.   *)
refs ==
  referencesFromFindings(
    [authorization |-> found["authorization"], entities |-> found["entities"],
     surface |-> [found["surface"] EXCEPT !.interfaces = Listed(@)], evidence |-> {}])
ShownIsAccepted ==
  /\ At("surface") =>
       /\ IDs(context.authorization.roles) = IDs(found["authorization"].roles)
       /\ IDs(context.authorization.permissions) = IDs(found["authorization"].permissions)
       /\ IDs(context.entities) = IDs(found["entities"])
  /\ At("features") =>
       /\ IDs(context.authorization.roles) = refs.roles
       /\ IDs(context.authorization.permissions) = refs.permissions
       /\ IDs(context.entities) = refs.entities
       /\ IDs(Listed(context.surface.rows)) = refs.interfaces
       /\ IDs(context.surface.integrations) = refs.integrations

(* The table is complete: each row gives back the type and the access of   *)
(* its interface, and says where it is.                                    *)
RowsDecode ==
  At("features") =>
    LET view == context.surface
    IN  \A item \in Listed(found["surface"].interfaces) : \E n \in DOMAIN view.rows :
          /\ view.rows[n].id = item.id
          /\ view.types[view.rows[n].type] = item.type
          /\ item.access = IF view.rows[n].access = 0 THEN NoAccess
                           ELSE view.accesses[view.rows[n].access]
          /\ view.rows[n].locator # << >>

(* The roots are the end of the table: no candidate for a module comes     *)
(* after a root.                                                           *)
RootsLast ==
  At("features") =>
    LET view == context.surface
        rows == [n \in DOMAIN view.rows |-> view.rows[n].id]
        item(n) == CHOOSE i \in Listed(found["surface"].interfaces) : i.id = rows[n]
    IN  /\ IsSuffix(view.roots, rows)
        /\ \A n \in 1..(Len(rows) - Len(view.roots)) : ~ IsRootInterface(item(n))

(* The context is a function of the findings, not of the order in which    *)
(* the Surface tasks happened to list them: checkpoints that compare its   *)
(* hash survive a resume.                                                  *)
Permuted(s) ==
  {[i \in DOMAIN s |-> s[p[i]]] :
     p \in {q \in [DOMAIN s -> DOMAIN s] : \A i, j \in DOMAIN s : q[i] = q[j] => i = j}}
OrderIrrelevant ==
  At("features") =>
    \A s \in Permuted(found["surface"].interfaces) :
      projectFeatureSurface([found["surface"] EXCEPT !.interfaces = s]) = context.surface

(* What can be cited is shown: every role, permission and entity in the    *)
(* Feature context that has evidence comes with an evidence ID of its own. *)
NamedItemsCite ==
  At("features") =>
    /\ \A e \in found["entities"] : e.evidence # << >> =>
         \E v \in context.entities : v.id = e.id /\ v.evidence \cap Listed(e.evidence) # {}
    /\ \A r \in found["authorization"].roles : r.evidence # << >> =>
         \E v \in context.authorization.roles :
           v.id = r.id /\ v.evidence \cap Listed(r.evidence) # {}

(* The context says all that a stage needs of the earlier ones, and the    *)
(* same whenever it is projected.                                          *)
ContextFaithful ==
  TypeOK /\ ShownIsAccepted /\ RowsDecode /\ RootsLast /\ OrderIrrelevant /\ NamedItemsCite

(* The instructions of the stage say that each interface's evidence value  *)
(* leads to the evidence ID to cite.                                       *)
Citable(c) ==
  UNION {v.evidence : v \in c.entities \cup c.authorization.roles \cup c.authorization.permissions}
InterfacesCite ==
  At("features") =>
    \A item \in Listed(found["surface"].interfaces) :
      item.evidence # << >> => Listed(item.evidence) \cap Citable(context) # {}

(* The instructions of the Surface stage tell the transport of an API from *)
(* its callable operations: an operation of a REST API has a method and a  *)
(* path, and is no root.                                                   *)
OperationsAreNoRoots ==
  At("features") =>
    \A item \in Listed(found["surface"].interfaces) :
      /\ item.type = "api_endpoint" /\ item.locator.protocol # "jsonrpc"
      /\ item.locator.method # "" /\ item.locator.path # ""
      => item.id \notin Listed(context.surface.roots)
=============================================================================
