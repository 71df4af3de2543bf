---------------------------- MODULE CoreSelection ----------------------------
(***************************************************************************)
(* Core test generation: candidates are selected from the application      *)
(* model and what runtime verification observed, and executed against the  *)
(* target, which may have changed since.                                   *)
(*                                                                         *)
(* Interfaces are numbered in the order of their IDs; a candidate's ID is  *)
(* the number it is named after with a suffix.  A URL is a route with its  *)
(* query, or the value of its parameter; a title is a sequence of words.   *)
(* A world is what the target's pages are: for an anonymous visitor and    *)
(* with a session.  Names, descriptions, selection reasons and evidence    *)
(* are left out.                                                           *)
(***************************************************************************)
EXTENDS Naturals, Sequences, FiniteSets, SequencesExt, InterfaceRules

CONSTANTS
  Applications,  (* records [interfaces, nodes, entities, mentions]; the   *)
                 (* last: how often the rest of the model names an entity  *)
  Worlds,        (* records [pages, bound, login, outcome], by application *)
  Setups,        (* records [credentials, totp, mutations, browser]        *)
  LoginRoutes, ParamRoutes,
  Recorded,      (* (Redactor).URL: queries as artifacts show them         *)
  Redacted,      (* what a secret word of a title is replaced by           *)
  Secrets,       (* those words                                            *)
  MaxTests,      (* testing.max_core_tests                                 *)
  MaxChanges     (* bound on the interfaces whose pages change             *)

SelectionAssumption ==
  /\ MaxTests \in Nat \ {0} /\ MaxChanges \in Nat /\ Redacted \notin Secrets
  /\ Recorded[None] = None

VARIABLES
  app, world,    (* at verification                                        *)
  setup, now,    (* at the execution                                       *)
  pc,
  candidates,    (* selected, in order                                     *)
  results        (* their status, so far                                   *)

vars == <<app, world, setup, now, pc, candidates, results>>

-----------------------------------------------------------------------------
(* What runtime.json holds.                                                *)
Items == app.interfaces
Recording(url)  == <<url[1], Recorded[url[2]]>>
Display(title)  == [i \in DOMAIN title |-> IF title[i] \in Secrets THEN Redacted ELSE title[i]]

Address(n) ==
  <<Items[n].route, IF Items[n].route \in ParamRoutes THEN world.bound ELSE None>>
LoginSurface(url) == url[1] \in LoginRoutes
Logins(url, page) == {u \in {url, page.at} : LoginSurface(u)}

StatusIn(w, n, state) ==
  LET page == w.pages[n][state]
  IN IF page.http = "error" THEN "runtime_error"
     ELSE PageStatus(Items[n], state, Address(n), page, Logins(Address(n), page))

Verified == world.outcome = "works" \/ (world.outcome = "challenge" /\ setup.totp)
Reachable(n) ==
  /\ Navigable(Items[n])
  /\ Items[n].route \in ParamRoutes => world.bound # None
Observed(n, state) ==
  /\ Reachable(n)
  /\ state = "authenticated" =>
       /\ Verified
       /\ Items[n].access = "required" \/ StatusIn(world, n, "unauthenticated") = "auth_required"
HasObservation(n, state, status) ==
  Observed(n, state) /\ StatusIn(world, n, state) = status

-----------------------------------------------------------------------------
(* Centrality: how often interfaces and features name an entity.           *)
centrality(e) ==
  app.mentions[e] + Cardinality({n \in DOMAIN Items : e \in Items[n].entities})
                  + Cardinality({f \in app.nodes : e \in f.entities})

centralityScore_Unbounded(ids) == MapThenSumSet(centrality, ids) \div 2   (* mutant *)
centralityScore(ids) ==
  LET score == MapThenSumSet(centrality, ids) \div 2
  IN IF score > 160 THEN 160 ELSE score

(* GroundSafeString: a title that was redacted is compared by the text     *)
(* before the first marker, or by its longest fragment.                    *)
Fragments(title) ==
  {r \in (DOMAIN title) \X (DOMAIN title) :
     /\ r[1] <= r[2] /\ \A k \in r[1]..r[2] : title[k] # Redacted
     /\ r[1] = 1 \/ title[r[1] - 1] = Redacted
     /\ r[2] = Len(title) \/ title[r[2] + 1] = Redacted}
GroundSafeString_Literal(title) ==                             (* mutant *)
  IF title = <<>> THEN {} ELSE {<<"exact", title>>}
GroundSafeString(title) ==
  LET fragments == Fragments(title)
      leading   == {r \in fragments : r[1] = 1}
      longest   == {r \in fragments : \A s \in fragments : s[2] - s[1] <= r[2] - r[1]}
      best      == IF leading # {} THEN leading
                   ELSE {r \in longest : \A s \in longest : r[1] <= s[1]}
      match(r)  == IF r = <<1, Len(title)>> THEN "exact" ELSE IF r[1] = 1 THEN "prefix" ELSE "contains"
  IN {<<match(r), SubSeq(title, r[1], r[2])>> : r \in best}

-----------------------------------------------------------------------------
(* Candidates *)
Referring(n) == {f \in app.nodes : n \in f.interfaces}
Test(id, auth, interfaces, nodes, entities, steps, assertions, score) ==
  [id |-> id, mutating |-> FALSE, auth |-> auth, interfaces |-> interfaces,
   features |-> {f.id : f \in nodes},
   entities |-> entities \cup UNION {f.entities : f \in nodes},
   steps |-> steps, assertions |-> assertions, cleanup |-> {}, score |-> score]

Visit(n) == <<<<"navigate", n>>, <<"observe", 0>>>>
Shows(n, state) ==
  LET page == world.pages[n][state]
  IN {<<"http_status", h>> : h \in {page.http} \ {"none"}}
     \cup {<<"page_title", g>> : g \in GroundSafeString(Display(page.title))}

readCandidate(n, suffix, auth, assertions, score) ==
  Test(<<n, suffix>>, auth, {n}, Referring(n), Items[n].entities, Visit(n), assertions, score)

LoginURL == Recording(world.login)
canonicalLogin ==
  {n \in DOMAIN Items :
     /\ Items[n].type = "web_page" /\ "login" \in Items[n].words
     /\ world.login # <<None, None>> => LoginURL = <<Items[n].route, None>>}
LoginInterface == {n \in canonicalLogin : \A k \in canonicalLogin : n <= k}

LoginTests ==
  {readCandidate(n, "public", "unauthenticated",
                 Shows(n, "unauthenticated") \cup {<<"not_authenticated", 0>>}, 1000)
     : n \in {k \in LoginInterface : HasObservation(k, "unauthenticated", "verified")}}
  \cup
  {Test(<<n, "success">>, "authenticated", {n}, Referring(n), {}, <<<<"observe", 0>>>>,
        {<<"authenticated", 0>>}, 990)
     : n \in {k \in LoginInterface : Verified}}

SafeItems == {n \in DOMAIN Items : Classify(Items[n]) = "safe"}
ViewTests ==
  {readCandidate(n, "authenticated", "authenticated",
                 Shows(n, "authenticated") \cup {<<"authenticated", 0>>},
                 800 + centralityScore(Items[n].entities))
     : n \in {k \in SafeItems : HasObservation(k, "authenticated", "verified")}}

Wall(n) ==
  {<<"not_authenticated", 0>>,
   <<"url_matches", Recording(world.pages[n]["unauthenticated"].at)>>}
BoundaryTests ==
  {readCandidate(n, "access_control", "unauthenticated", Wall(n),
                 900 + centralityScore(Items[n].entities))
     : n \in {k \in SafeItems : HasObservation(k, "unauthenticated", "auth_required")}}

VerbScore(f) ==
  IF "create" \in f.verbs THEN 100 ELSE IF "add" \in f.verbs THEN 80
  ELSE IF "update" \in f.verbs THEN 70 ELSE IF "delete" \in f.verbs THEN 40 ELSE 0
Mutating(f) == {n \in f.interfaces : Classify(Items[n]) = "mutating"}
Forms(f)    == {n \in Mutating(f) : Items[n].type = "form_action" /\ Items[n].route # None}
Least(S)    == CHOOSE n \in S : \A k \in S : n <= k

ActionTests ==
  {LET entities == f.entities \cup UNION {Items[n].entities : n \in Mutating(f)}
       bonus    == 5 * (Cardinality(Mutating(f)) - 1)
   IN [Test(f.id, f.auth, Mutating(f), {f}, entities,
            <<<<"submit", Least(Forms(f))>>, <<"observe", 0>>>>, {<<"entity_visible", f.id>>},
            450 + centralityScore(entities) + VerbScore(f) + IF bonus > 20 THEN 20 ELSE bonus)
       EXCEPT !.mutating = TRUE, !.cleanup = {"created"}]
   : f \in {g \in app.nodes : g.type = "action" /\ Forms(g) # {}}}

IDEndings == <<"", "access_control", "authenticated", "public", "success">>
EndingRank(id) == CHOOSE i \in DOMAIN IDEndings : IDEndings[i] = id[2]
IDBefore(a, b) == a[1] < b[1] \/ (a[1] = b[1] /\ EndingRank(a) < EndingRank(b))
Before(c, d) == c.score > d.score \/ (c.score = d.score /\ IDBefore(c.id, d.id))

(* One boundary stands for all; an action takes the place of a candidate   *)
(* of the same ID.                                                         *)
Proposed ==
  LET first == {c \in BoundaryTests : \A d \in BoundaryTests \ {c} : Before(c, d)}
      reads == LoginTests \cup ViewTests \cup first
  IN ActionTests \cup {c \in reads : c.id \notin {a.id : a \in ActionTests}}

(* ValidateTest *)
Valid(c) ==
  /\ c.interfaces # {} /\ c.interfaces \subseteq DOMAIN Items
  /\ c.features \subseteq {f.id : f \in app.nodes} /\ c.entities \subseteq app.entities
  /\ \A i \in DOMAIN c.steps :
       c.steps[i][1] \in {"navigate", "submit"} => c.steps[i][2] \in DOMAIN Items
  /\ \A a \in c.assertions :
       /\ a[1] = "http_status" => a[2] # "none"
       /\ a[1] = "page_title"  => a[2][2] # <<>>
       /\ a[1] = "url_matches" => a[2] # <<None, None>>
  /\ c.mutating => c.cleanup # {}

sortCandidates(S) ==
  [i \in 1..Cardinality(S) |-> CHOOSE c \in S : Cardinality({d \in S : Before(d, c)}) = i - 1]

Cut(s) == SubSeq(s, 1, IF Len(s) > MaxTests THEN MaxTests ELSE Len(s))

-----------------------------------------------------------------------------
(* Execution *)
Authenticates ==
  CASE now.outcome = "works" /\ world.login # <<None, None>> -> "ok"
    [] now.outcome = "challenge" /\ world.login # <<None, None>> ->
         IF setup.totp THEN "ok" ELSE "blocked"
    [] OTHER -> "failed"

Matches(g, title) ==
  CASE g[1] = "exact"  -> g[2] = title
    [] g[1] = "prefix" -> IsPrefix(g[2], title)
    [] OTHER           -> \E i, j \in DOMAIN title : SubSeq(title, i, j) = g[2]

Holds(a, page, session) ==
  CASE a[1] = "http_status"       -> page.http = a[2]
    [] a[1] = "page_title"        -> Matches(a[2], page.title)
    [] a[1] = "url_matches"       -> page.at = a[2]
    [] a[1] = "authenticated"     -> session /\ ~ page.form
    [] a[1] = "not_authenticated" -> page.form
    [] OTHER                      -> FALSE

AfterLogin == [http |-> "ok", at |-> <<None, None>>, form |-> FALSE, title |-> <<>>]

Outcome(c) ==
  LET session == c.auth = "authenticated"
      visited == c.steps[1][1] = "navigate"
      n       == c.steps[1][2]
      page    == IF visited
                 THEN now.pages[n][IF session THEN "authenticated" ELSE "unauthenticated"]
                 ELSE AfterLogin
  IN IF ~ Valid(c) THEN "unresolved"
     ELSE IF c.mutating /\ ~ setup.mutations THEN "blocked"
     ELSE IF session /\ ~ setup.credentials THEN "blocked"
     ELSE IF c.mutating THEN "unresolved"
     ELSE IF ~ setup.browser THEN "failed"
     ELSE IF session /\ Authenticates # "ok" THEN Authenticates
     ELSE IF visited /\ Items[n].route \in ParamRoutes THEN "unresolved"
     ELSE IF page.http = "error" THEN "failed"
     ELSE IF \A a \in c.assertions : Holds(a, page, session) THEN "passed" ELSE "failed"

-----------------------------------------------------------------------------
Init ==
  /\ app \in Applications /\ world \in Worlds[app] /\ setup \in Setups
  /\ now = world /\ pc = "verified" /\ candidates = <<>> /\ results = <<>>

(* What the target has become when the candidates are executed.            *)
Later ==
  {w \in Worlds[app] :
     Cardinality({n \in DOMAIN Items : w.pages[n] # world.pages[n]}) <= MaxChanges}

(* One invalid candidate refuses the selection, and an empty one too.      *)
Select ==
  /\ pc = "verified"
  /\ LET proposed == Proposed
     IN IF proposed # {} /\ \A c \in proposed : Valid(c)
        THEN /\ candidates' = Cut(sortCandidates(proposed))
             /\ now' \in Later
             /\ pc' = "selected"
        ELSE /\ pc' = "refused" /\ UNCHANGED <<candidates, now>>
  /\ UNCHANGED <<app, world, setup, results>>

Execute ==
  /\ pc = "selected" /\ Len(results) < Len(candidates)
  /\ results' = Append(results, Outcome(candidates[Len(results) + 1]))
  /\ UNCHANGED <<app, world, setup, now, pc, candidates>>

Done ==
  /\ pc = "refused" \/ (pc = "selected" /\ Len(results) = Len(candidates))
  /\ UNCHANGED vars

Next == Select \/ Execute \/ Done

Spec == Init /\ [][Next]_vars

-----------------------------------------------------------------------------
Executed == DOMAIN results

(* Every variable keeps its shape; no two candidates share an ID.          *)
TypeOK ==
  /\ DOMAIN now.pages = DOMAIN Items
  /\ pc \in {"verified", "selected", "refused"}
  /\ Len(results) <= Len(candidates) /\ Len(candidates) <= MaxTests
  /\ \A i \in Executed : results[i] \in {"passed", "failed", "blocked", "unresolved"}
  /\ \A i, j \in DOMAIN candidates : candidates[i].id = candidates[j].id => i = j

(* Nothing that was observed makes the selection as a whole be refused:    *)
(* each candidate is valid, so it is refused only for want of any.         *)
NeverRefused == pc = "refused" => Proposed = {}

(* "Centrality is intentionally bounded below the read-only candidate      *)
(* band": a limit on the tests never drops a read-only one for one that    *)
(* changes data, however central its entities are.                         *)
ReadOnlyFirst ==
  \A i, j \in DOMAIN candidates : candidates[i].mutating /\ i < j => candidates[j].mutating

(* Where the login worked and its page is known, testing the login is      *)
(* among the first three candidates: no limit of three or more drops it.   *)
LoginTested ==
  pc = "selected" /\ MaxTests >= 3 /\ Verified /\ LoginInterface # {} =>
    \E i \in DOMAIN candidates : i <= 3 /\ candidates[i].id[2] = "success"

(* A selection is refused or cut only for what the code says: for want of  *)
(* candidates, and from its end, where the tests that change data are.     *)
SelectionSound == TypeOK /\ NeverRefused /\ ReadOnlyFirst /\ LoginTested

(* No page seen with a session holds a login form, and the login page that *)
(* visitors are sent to does: what an assertion about the session goes by. *)
FormsTell ==
  \A n \in DOMAIN Items :
    /\ ~ world.pages[n].authenticated.form
    /\ LoginSurface(world.pages[n].unauthenticated.at) => world.pages[n].unauthenticated.form

(* "Verify the canonical read-only interface behaves as observed during    *)
(* onboarding": against a target that did not change, no test fails.       *)
TestsReplay ==
  now = world /\ setup.browser => \A i \in Executed : results[i] # "failed"

(* It is so only of a target whose forms tell whether there is a session.  *)
ReplayPasses == FormsTell => TestsReplay

(* And one that passes says what verification would say again: of the      *)
(* interface it visits, the same status as then.                           *)
PassedAgrees ==
  \A i \in Executed :
    results[i] = "passed" /\ candidates[i].steps[1][1] = "navigate" =>
      LET n     == candidates[i].steps[1][2]
          state == candidates[i].auth
      IN StatusIn(now, n, state) = StatusIn(world, n, state)

(* A test fails only if the target changed or its forms do not tell, and   *)
(* passes only if what it is about did not change.                         *)
ReplaySound == ReplayPasses /\ PassedAgrees
=============================================================================
