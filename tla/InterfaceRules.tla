--------------------------- MODULE InterfaceRules ---------------------------
(***************************************************************************)
(* The rules of runtime verification that core test generation shares:     *)
(* which interfaces are safe to visit, and what a visit says of one.       *)
(*                                                                         *)
(* An interface is a record of its type, the groups of words its name and  *)
(* description contain, its method, route and access.  A URL is a route    *)
(* with the value of its parameter; a page is where the visit ended, the   *)
(* class of its HTTP status, and whether it holds a login form.            *)
(***************************************************************************)
CONSTANT None  (* no route, no parameter *)

Classify(it) ==
  IF it.type = "form_action" \/ "mutating" \in it.words
     \/ it.method \in {"POST", "PUT", "PATCH", "DELETE"}
     \/ it.type \in {"scheduled_job", "worker", "event_consumer"}
  THEN "mutating"
  ELSE IF \/ it.type = "web_page" /\ it.method \in {"", "GET", "HEAD"}
          \/ it.type = "api_endpoint" /\ it.method \in {"GET", "HEAD"} /\ it.route # None
          \/ it.type \notin {"cli_command", "script"} /\ "reading" \in it.words
  THEN "safe" ELSE "unknown"

Navigable(it) ==
  /\ Classify(it) = "safe" /\ it.route # None
  /\ \/ it.type = "web_page"
     \/ it.type = "api_endpoint" /\ it.method \in {"GET", "HEAD"}

(* classifyInterfacePage, for a visit to url with or without a session. *)
PageStatus_WallsFirst(it, state, url, page, logins) ==         (* mutant *)
  IF page.at \in logins THEN "verified" ELSE "contradicted"
PageStatus(it, state, url, page, logins) ==
  LET asked  == url \in logins
      ended  == page.at \in logins
      anonymous == state = "unauthenticated"
      public    == it.access = "not_required"
      required  == it.access = "required"
  IN CASE page.http = "missing" -> "not_found"
       [] page.http = "denied"  -> IF public THEN "contradicted" ELSE "auth_required"
       [] page.http = "failing" -> "runtime_error"
       [] OTHER ->
          IF anonymous /\ ~ asked /\ ended /\ url # page.at
          THEN IF public THEN "contradicted" ELSE "auth_required"
          ELSE IF anonymous /\ asked /\ ended
          THEN IF required THEN "contradicted" ELSE "verified"
          ELSE IF anonymous /\ page.form /\ ~ public THEN "unknown"
          ELSE IF anonymous /\ required THEN "contradicted"
          ELSE IF url # page.at THEN "redirected" ELSE "verified"
=============================================================================
