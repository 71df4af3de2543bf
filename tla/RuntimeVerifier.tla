--------------------------- MODULE RuntimeVerifier --------------------------
(***************************************************************************)
(* runtimeverify.Verify: the interfaces a source run found are visited in  *)
(* a browser, first anonymously and, behind a login that works, once more  *)
(* with its session; what was seen is rolled up to features.               *)
(*                                                                         *)
(* A page is reduced to what the verifier concludes from it.  A URL is a   *)
(* route with the value of its parameter.  Each evidence record is a write *)
(* of its own that may fail; an observation keeps whether it cites any.    *)
(* Browser sessions, console messages and the texts of reasons are left    *)
(* out.  Interfaces are numbered in the order of their IDs.                *)
(***************************************************************************)
EXTENDS Naturals, Sequences, FiniteSets, InterfaceRules

CONSTANTS
  Interfaces,      (* the interfaces of the application, a set of numbers  *)
  Applications,    (* functions from Interfaces to the interfaces' records *)
  Setups,          (* what is predicted, and what the identity can supply  *)
  ParamRoutes,     (* the routes with a parameter                          *)
  Values,          (* values of a parameter in the links of the target     *)
  Secret,          (* a value that is a secret of the configured identity  *)
  Redacted,        (* what is written in its place                         *)
  Features, Parent, DirectInterfaces,  (* the feature tree; None: a root   *)
  MaxInterfaces

ASSUME VerifierAssumption ==
  /\ Interfaces \subseteq Nat /\ IsFiniteSet(Interfaces) /\ MaxInterfaces \in Nat \ {0}
  /\ Redacted \notin Values /\ None \notin Values \cup {Redacted}
  /\ Parent \in [Features -> Features \cup {None}]
  /\ DirectInterfaces \in [Features -> SUBSET Interfaces]
  /\ Setups \subseteq [predicted : BOOLEAN, identity : BOOLEAN, totp : BOOLEAN]

VARIABLES
  item,                (* item[i]: the interface i of the application      *)
  setup,               (* [predicted, identity, totp]: does the source     *)
                       (* model predict authentication, is there an        *)
                       (* identity, and has it a seed for codes?           *)
  pc,
  links, seen,         (* DiscoveryState: redacted links; history: the     *)
                       (* links as the pages had them                      *)
  loginForm, tried,    (* a login form was found; candidates navigated to  *)
  attempted, deferred, (* interfaces visited; to be visited with a session *)
  visited,             (* history: URLs navigated to                       *)
  lost,                (* history: was an evidence record lost?            *)
  runtime,             (* the Runtime record                               *)
  artifacts,           (* the files written of it                          *)
  returned             (* of Verify: nothing yet, ok or error              *)

progress == <<links, seen, loginForm, tried, attempted, deferred, visited>>
vars == <<item, setup, pc, progress, lost, runtime, artifacts, returned>>

-----------------------------------------------------------------------------
Priority(it) ==
  IF "home" \in it.words THEN 0
  ELSE IF "health" \in it.words THEN 1
  ELSE IF it.access = "not_required" THEN 2
  ELSE IF "listing" \in it.words THEN 3 ELSE 4

Url(route) == <<route, None>>
Required(i) == item[i].access = "required"

(* Login pages, by their names; those with a parameter are not resolved.   *)
LoginURLs ==
  {Url(item[i].route) : i \in {j \in Interfaces :
     /\ item[j].type \in {"web_page", "form_action"} /\ "login" \in item[j].words
     /\ item[j].route \notin ParamRoutes \cup {None}}}

Safe == {i \in Interfaces : Navigable(item[i])}

(* Interfaces without a parameter come first, then by priority and ID.     *)
HasParameter(i) == item[i].route \in ParamRoutes
Rank(i) ==
  <<IF HasParameter(i) THEN 1 ELSE 0, Priority(item[i]), i>>
Before(i, j) ==
  \E k \in 1..3 : Rank(i)[k] < Rank(j)[k] /\ \A l \in 1..(k-1) : Rank(i)[l] = Rank(j)[l]
First(S) == CHOOSE i \in S : \A j \in S \ {i} : Before(i, j)

-----------------------------------------------------------------------------
(* Pages of the target.                                                    *)
TargetLinks == {<<r, v>> : r \in ParamRoutes, v \in Values}

Pages(url) ==
  [http : {"ok"}, at : {url} \cup LoginURLs, form : BOOLEAN,
   links : SUBSET TargetLinks, flawed : {FALSE}]
  \cup [http : {"ok"}, at : {url}, form : {FALSE}, links : {{}}, flawed : {TRUE}]
  \cup [http : {"missing", "denied", "failing"}, at : {url}, form : {FALSE},
        links : {{}}, flawed : {FALSE}]

Redact(url) == IF url[2] = Secret THEN <<url[1], Redacted>> ELSE url

Observe(page) ==
  /\ links' = links \cup {Redact(u) : u \in page.links}
  /\ seen' = seen \cup page.links

(* recordPageEvidence: every failed observation of the browser is recorded *)
(* and becomes part of the run; the first record that is lost ends it.     *)
Records(page) ==
  {[written |-> TRUE, flawed |-> page.flawed]}
  \cup [written : {FALSE}, flawed : {FALSE, page.flawed}]

-----------------------------------------------------------------------------
NoRuntime ==
  [status |-> "running", failure |-> FALSE, reachable |-> FALSE, flawed |-> FALSE,
   authentication |-> [status |-> "not_attempted", cites |-> FALSE],
   interfaces |-> <<>>, features |-> [f \in Features |-> "none"]]

Init ==
  /\ item \in Applications /\ setup \in Setups
  /\ pc = "start"
  /\ links = {} /\ seen = {} /\ loginForm = FALSE /\ tried = {}
  /\ attempted = {} /\ deferred = {} /\ visited = {}
  /\ lost = FALSE /\ runtime = NoRuntime /\ artifacts = {} /\ returned = ""

Observation(i, state, status, cites) ==
  [interface |-> i, state |-> state, status |-> status, cites |-> cites]

NotAttempted(S) ==
  LET inOrder == CHOOSE s \in [1..Cardinality(S) -> S] :
                   \A j, k \in DOMAIN s : j < k => s[j] < s[k]
  IN [k \in DOMAIN inOrder |-> Observation(inOrder[k], "not_attempted", "not_attempted", TRUE)]

(* MarkFailure; Verify defers it for every error while it still runs.      *)
Failed(r) ==
  [r EXCEPT !.status = IF r.reachable THEN "partial" ELSE "failed", !.failure = TRUE]

Abort(r) ==
  /\ runtime' = IF r.status = "running" THEN Failed(r) ELSE r
  /\ returned' = "error" /\ pc' = "returned"

-----------------------------------------------------------------------------
(* FeatureCoverage: a feature stands for its own interfaces; without any,  *)
(* and unless it is an action, for those of its children.  A leaf of the   *)
(* tree stands for an action.                                              *)
Children(f) == {c \in Features : Parent[c] = f}

Covered[f \in Features] ==
  IF DirectInterfaces[f] # {} THEN DirectInterfaces[f]
  ELSE UNION {Covered[c] : c \in Children(f)}

Statuses(observations, S) ==
  {observations[k].status : k \in {j \in DOMAIN observations : observations[j].interface \in S}}

FeatureStatus(f, observations) ==
  LET verified == {i \in Covered[f] : "verified" \in Statuses(observations, {i})}
      all      == Statuses(observations, Covered[f])
  IN IF Covered[f] # {} /\ verified = Covered[f] THEN "verified"
     ELSE IF verified # {} THEN "partially_verified"
     ELSE IF all \cap {"not_found", "runtime_error", "contradicted"} # {} THEN "contradicted"
     ELSE IF all \cap {"auth_required", "redirected"} # {} THEN "unverified"
     ELSE "not_attempted"

WithFeatures(r) ==
  [r EXCEPT !.features = [f \in Features |-> FeatureStatus(f, r.interfaces)]]

(* ValidateRuntime: every observation cites evidence, and there is one for *)
(* each interface and browser state at most.                               *)
Valid(r) ==
  /\ r.authentication.cites
  /\ \A k \in DOMAIN r.interfaces :
       /\ r.interfaces[k].cites
       /\ \A l \in 1..(k-1) : \/ r.interfaces[l].interface # r.interfaces[k].interface
                              \/ r.interfaces[l].state # r.interfaces[k].state

-----------------------------------------------------------------------------
(* The browser does not start (verify.go): nothing is attempted.           *)
BrowserFails ==
  /\ pc = "start"
  /\ \/ /\ lost' = TRUE /\ UNCHANGED runtime
     \/ /\ UNCHANGED lost
        /\ runtime' = WithFeatures(
             [Failed(runtime) EXCEPT !.authentication.cites = TRUE,
                                     !.interfaces = NotAttempted(Interfaces)])
  /\ returned' = "error" /\ pc' = "returned"
  /\ UNCHANGED <<item, setup, artifacts, progress>>

(* The application does not answer: the overlay still lists every          *)
(* interface.  Evidence lost on the way ends Verify at that point.         *)
Unreachable ==
  /\ pc = "start"
  /\ \/ /\ lost' = TRUE
        /\ \E S \in SUBSET Interfaces :
             /\ S # Interfaces /\ \A i \in S, j \in Interfaces \ S : i < j
             /\ Abort([runtime EXCEPT !.interfaces = NotAttempted(S)])
     \/ /\ UNCHANGED lost
        /\ Abort(WithFeatures(
             [Failed(runtime) EXCEPT !.authentication.cites = TRUE,
                                     !.interfaces = NotAttempted(Interfaces)]))
  /\ UNCHANGED <<item, setup, artifacts, progress>>

(* The base page; a server error does not stop the verification.           *)
Base == "/"
OpenBasePage ==
  /\ pc = "start"
  /\ \E page \in Pages(Url(Base)) : \E r \in Records(page) :
       \/ /\ ~ r.written
          /\ lost' = TRUE /\ Abort([runtime EXCEPT !.flawed = r.flawed])
          /\ UNCHANGED progress
       \/ /\ r.written
          /\ UNCHANGED <<lost, returned>>
          /\ Observe(page)
          /\ visited' = visited \cup {Url(Base)}
          /\ loginForm' = page.form
          /\ runtime' = [runtime EXCEPT !.reachable = page.http # "failing",
                                        !.flawed = r.flawed]
          /\ pc' = "skip"
          /\ UNCHANGED <<tried, attempted, deferred>>
  /\ UNCHANGED <<item, setup, artifacts>>

(* Interfaces without an observation of their own are recorded as not      *)
(* attempted, in order; evidence lost on the way ends Verify.              *)
Record_Silent(S, next) == pc' = next /\ UNCHANGED <<lost, returned, runtime>>   (* mutant *)
Record(S, next) ==
  \/ /\ UNCHANGED <<lost, returned>>
     /\ runtime' = [runtime EXCEPT !.interfaces = @ \o NotAttempted(S)]
     /\ pc' = next
  \/ /\ lost' = TRUE
     /\ \E T \in SUBSET S :
          /\ T # S /\ \A i \in T, j \in S \ T : i < j
          /\ Abort([runtime EXCEPT !.interfaces = @ \o NotAttempted(T)])

SkipOthers ==
  /\ pc = "skip"
  /\ Record(Interfaces \ Safe, "visit")
  /\ UNCHANGED <<item, setup, artifacts, progress>>

(* verifyInterface: one navigation, in the given browser state.  A route   *)
(* with a parameter goes to the first link seen that matches it.           *)
Destinations(i) ==
  IF HasParameter(i) THEN {u \in links : u[1] = item[i].route}
  ELSE {Url(item[i].route)}

Report(o, flawed) ==
  runtime' = [runtime EXCEPT !.interfaces = Append(@, o), !.flawed = @ \/ flawed]

Visit(i, state) ==
  \/ /\ Destinations(i) = {}
     /\ \E written \in BOOLEAN :
          /\ lost' = (lost \/ ~ written)
          /\ Report(Observation(i, state, "requires_runtime_binding", written), FALSE)
     /\ UNCHANGED <<links, seen, visited>>
  \/ \E url \in Destinations(i) :
       /\ visited' = visited \cup {url}
       /\ \/ \E written \in BOOLEAN :
               /\ lost' = (lost \/ ~ written)
               /\ Report(Observation(i, state, "runtime_error", written), FALSE)
               /\ UNCHANGED <<links, seen>>
          \/ \E page \in Pages(url) : \E r \in Records(page) :
               \/ /\ ~ r.written
                  /\ lost' = TRUE
                  /\ \E bound \in {FALSE, HasParameter(i)} :
                       Report(Observation(i, state, "runtime_error", bound), r.flawed)
                  /\ UNCHANGED <<links, seen>>
               \/ /\ r.written
                  /\ lost' \in {lost, lost \/ HasParameter(i)}
                  /\ Observe(page)
                  /\ Report(Observation(i, state, PageStatus(item[i], state, url, page, LoginURLs), TRUE),
                            r.flawed)

LastStatus == runtime'.interfaces[Len(runtime'.interfaces)].status

AtLimit == Cardinality(attempted) >= MaxInterfaces

Deferred(i, status) == Required(i) \/ status = "auth_required"

VisitNext ==
  /\ pc = "visit" /\ ~ AtLimit /\ Safe \ attempted # {}
  /\ LET i == First(Safe \ attempted) IN
       /\ Visit(i, "unauthenticated")
       /\ attempted' = attempted \cup {i}
       /\ deferred' = IF Deferred(i, LastStatus) THEN deferred \cup {i} ELSE deferred
  /\ UNCHANGED <<item, setup, artifacts, pc, loginForm, tried, returned>>

(* The rest is over the limit and recorded as not attempted.               *)
RecordRest ==
  /\ pc = "visit" /\ (AtLimit \/ Safe \ attempted = {})
  /\ Record(Safe \ attempted, "login")
  /\ UNCHANGED <<item, setup, artifacts, progress>>

-----------------------------------------------------------------------------
(* verifyAuthentication.  Its evidence is not essential to go on, but an   *)
(* observation that cites none does not validate.                          *)
Authenticated(status, cites, flawed) ==
  /\ runtime' = [runtime EXCEPT !.authentication = [status |-> status, cites |-> cites],
                                !.flawed = @ \/ flawed]
  /\ pc' = IF status = "verified" THEN "revisit" ELSE "roll up"

Assertion(status) ==
  \E written \in BOOLEAN :
    /\ lost' = (lost \/ ~ written)
    /\ Authenticated(status, written \/ runtime.authentication.cites, FALSE)

NoLogin ==
  /\ pc = "login"
  /\ \/ ~ setup.predicted \/ ~ setup.identity
     \/ ~ loginForm /\ LoginURLs \ tried = {}
  /\ Assertion("not_attempted")
  /\ UNCHANGED <<item, setup, artifacts, progress, returned>>

(* Candidates for the login page are opened until one has a login form.    *)
FindLogin ==
  /\ pc = "login" /\ setup.predicted /\ setup.identity /\ ~ loginForm
  /\ \E url \in LoginURLs \ tried :
       /\ tried' = tried \cup {url} /\ visited' = visited \cup {url}
       /\ \/ UNCHANGED <<links, seen, loginForm, lost, runtime, pc>>
          \/ \E page \in Pages(url) : \E r \in Records(page) :
               \/ /\ ~ r.written
                  /\ lost' = TRUE
                  /\ Authenticated("runtime_error", runtime.authentication.cites, r.flawed)
                  /\ UNCHANGED <<links, seen, loginForm>>
               \/ /\ r.written
                  /\ Observe(page)
                  /\ loginForm' = page.form
                  /\ runtime' = [runtime EXCEPT !.authentication.cites = TRUE,
                                                !.flawed = @ \/ r.flawed]
                  /\ UNCHANGED <<lost, pc>>
  /\ UNCHANGED <<item, setup, artifacts, attempted, deferred, returned>>

(* What the pages after the submission show: a challenge for a second      *)
(* factor that succeeds, fails or cannot be met; a login form that is      *)
(* gone, or not; a session; an observation of the cookies that failed.     *)
LoginStatus(outcome) ==
  IF outcome.second \in {"none", "verified"}
  THEN IF ~ outcome.form /\ outcome.session THEN "verified"
       ELSE IF ~ outcome.form /\ outcome.flawed THEN "unknown" ELSE "unverified"
  ELSE IF outcome.second = "blocked" THEN "blocked" ELSE "unverified"

Outcomes ==
  {o \in [second : {"none", "verified", "failed", "blocked"}, form : BOOLEAN,
          session : BOOLEAN, flawed : BOOLEAN, links : {{}, TargetLinks}] :
     /\ o.second = "blocked" => ~ setup.totp
     /\ o.second \in {"verified", "failed"} => setup.totp}

SubmitLogin ==
  /\ pc = "login" /\ setup.predicted /\ setup.identity /\ loginForm
  /\ \/ /\ lost' = TRUE                        (* of the detected form *)
        /\ Authenticated("runtime_error", runtime.authentication.cites, FALSE)
        /\ UNCHANGED <<links, seen>>
     \/ /\ lost' \in {lost, TRUE}
        /\ Authenticated("runtime_error", TRUE, FALSE)
        /\ UNCHANGED <<links, seen>>
     \/ \E o \in Outcomes :
          /\ lost' \in {lost, lost \/ o.second = "failed"}
          /\ Observe(o)
          /\ Authenticated(LoginStatus(o), TRUE, o.flawed)
  /\ UNCHANGED <<item, setup, artifacts, loginForm, tried, attempted, deferred, visited,
                 returned>>

(* With a session, the interfaces deferred are visited once more.          *)
RevisitState == "authenticated"

Revisit ==
  /\ pc = "revisit" /\ deferred # {}
  /\ LET i == First(deferred) IN
       /\ Visit(i, RevisitState)
       /\ deferred' = deferred \ {i}
  /\ UNCHANGED <<item, setup, artifacts, pc, loginForm, tried, attempted, returned>>

(* The status of the run, which its own validation may still turn down.    *)
RunStatus(r) ==
  IF r.authentication.status = "blocked" \/ r.flawed THEN "partial" ELSE "completed"

RollUp ==
  /\ pc = "roll up" \/ (pc = "revisit" /\ deferred = {})
  /\ LET r == WithFeatures([runtime EXCEPT !.status = RunStatus(runtime)]) IN
       IF Valid(r)
       THEN /\ runtime' = r
            /\ returned' = "ok" /\ pc' = "returned"
       ELSE Abort(Failed(r))
  /\ UNCHANGED <<item, setup, artifacts, progress, lost>>

(* The command marks an error of Verify that Verify did not. *)
Finished(r) == IF r.status = "running" THEN Failed(r) ELSE r

(* Session.Write: runtime.json, then the report; either may fail.  Without *)
(* a browser and the evidence for that, nothing is written.                *)
WriteArtifacts ==
  /\ pc = "returned" /\ ~ (runtime = NoRuntime /\ lost)
  /\ pc' = "ended"
  /\ runtime' = Finished(runtime)
  /\ artifacts' \in {{}, {"runtime.json"}, {"runtime.json", "runtime.md"}}
  /\ UNCHANGED <<item, setup, progress, lost, returned>>

Next ==
  \/ BrowserFails \/ Unreachable \/ OpenBasePage \/ SkipOthers
  \/ VisitNext \/ RecordRest
  \/ NoLogin \/ FindLogin \/ SubmitLogin \/ Revisit
  \/ RollUp \/ WriteArtifacts

Spec == Init /\ [][Next]_vars
-----------------------------------------------------------------------------
Observations == {runtime.interfaces[k] : k \in DOMAIN runtime.interfaces}

(* Every variable keeps its shape: an observation is of a known interface, *)
(* and an interface deferred was attempted.                                *)
TypeOK ==
  /\ item \in Applications /\ setup \in Setups
  /\ pc \in {"start", "skip", "visit", "login", "revisit", "roll up", "returned", "ended"}
  /\ links \subseteq {Redact(u) : u \in TargetLinks} /\ seen \subseteq TargetLinks
  /\ loginForm \in BOOLEAN /\ tried \subseteq LoginURLs /\ lost \in BOOLEAN
  /\ deferred \subseteq attempted /\ attempted \subseteq Safe
  /\ runtime.status \in {"running", "completed", "partial", "failed"}
  /\ \A o \in Observations :
       /\ o.interface \in Interfaces
       /\ o.state \in {"not_attempted", "unauthenticated", "authenticated"}
  /\ (returned # "") <=> (pc \in {"returned", "ended"})
  /\ artifacts \subseteq {"runtime.json", "runtime.md"}
  /\ returned # "" => runtime.status # "running" \/ runtime = NoRuntime

(* A verification that returns without an error has an observation for     *)
(* every interface: what was skipped for its kind or cut off by the limit  *)
(* is reported, not absent; and nothing but safe interfaces was tried.     *)
AccountedFor ==
  returned = "ok" =>
    \A i \in Interfaces :
      \E o \in Observations : o.interface = i /\ (i \notin Safe => o.state = "not_attempted")

(* The second, authenticated visits do not take more interfaces than the   *)
(* limit of --max-interfaces.                                              *)
WithinLimit ==
  Cardinality({o.interface : o \in {p \in Observations : p.state # "not_attempted"}})
    <= MaxInterfaces

(* Where login works, a wall met anonymously is not the last word on any   *)
(* interface, whether or not the source predicted the wall.                *)
WallsRevisited ==
  returned = "ok" /\ runtime.authentication.status = "verified" =>
    \A o \in Observations :
      o.state = "unauthenticated" /\ o.status = "auth_required"
        => \E p \in Observations : p.interface = o.interface /\ p.state = "authenticated"

(* Once the application answered, Verify fails only for lost evidence: its *)
(* own validation never turns down what it observed.                       *)
FailsOnlyOnLoss == returned = "error" /\ visited # {} => lost

(* A run is only called completed when each of its observations rests on   *)
(* evidence, none of the browser's failed, and login was not blocked.      *)
CompletedIsClean ==
  runtime.status = "completed" =>
    /\ returned = "ok" /\ ~ runtime.failure /\ ~ runtime.flawed
    /\ runtime.authentication.cites /\ runtime.authentication.status # "blocked"
    /\ \A o \in Observations : o.cites

(* What the source says needs authentication is never verified by a visit  *)
(* without it, wherever the visit was redirected.                          *)
VerifiedMeansAllowed ==
  \A o \in Observations :
    o.state = "unauthenticated" /\ o.status = "verified" => ~ Required(o.interface)

(* A feature that stands for its children is verified only with all of     *)
(* them that have anything to verify.                                      *)
VerifiedDownward ==
  \A f \in Features :
    runtime.features[f] = "verified" /\ DirectInterfaces[f] = {} =>
      \A c \in Children(f) : runtime.features[c] = "verified" \/ Covered[c] = {}

(* Nothing goes missing: each interface is reported, within the limit, and *)
(* again with the session where a wall was met; only lost evidence is a    *)
(* reason to fail.                                                         *)
AllAccounted == TypeOK /\ AccountedFor /\ WithinLimit /\ WallsRevisited /\ FailsOnlyOnLoss

(* The evidence for a route with a parameter says "Bound route parameters  *)
(* from an observed same-origin link" (verifier.go): the URL visited was   *)
(* linked on some page.                                                    *)
BoundToSeenLink == \A url \in visited : url[2] = None \/ url \in seen

(* What is called verified or completed was seen, at an address the        *)
(* application gave, with the access the source asks for.                  *)
VerifiedSound ==
  CompletedIsClean /\ VerifiedMeansAllowed /\ VerifiedDownward /\ BoundToSeenLink
=============================================================================
