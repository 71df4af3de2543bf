---------------------------- MODULE SecondFactor ----------------------------
(***************************************************************************)
(* authn.CompleteSecondFactor: after the password was accepted, decide     *)
(* whether the page asks for a one-time code, generate one that will still *)
(* be valid when the server checks it, and submit it once.                 *)
(*                                                                         *)
(* Time advances in ticks of half a second, so that a second the code      *)
(* rounds down to is distinguished from the instant itself.  A code is the *)
(* number of the period it was generated in.  Clocks are synchronous.      *)
(***************************************************************************)
EXTENDS Naturals

CONSTANTS
  Period,      (* of the code, in seconds; 0 was replaced by 30            *)
  Margin,      (* BoundaryMargin, in seconds                               *)
  MaxDelay,    (* bound on the ticks from generation to the server's check *)
  MaxOversleep (* bound on the ticks a sleep takes too long                *)

TimingAssumption ==
  /\ Period \in Nat \ {0} /\ Margin \in Nat \ {0}
  /\ MaxDelay \in Nat /\ MaxOversleep \in Nat
  /\ MaxDelay <= 2 * Margin
  /\ MaxOversleep + MaxDelay + 2 <= 2 * Period

Ticks == 2 * Period

(* The signals DetectTOTPChallenge weighs: of the field itself, of its     *)
(* form, of the page, and those that rule a challenge out.                 *)
Signals ==
  {"autocomplete", "field name", "label", "form text", "page text", "named code",
   "two factor text", "another purpose", "password field", "no selector"}

VARIABLES
  signals, supported,  (* what the page shows; does the source know TOTP?  *)
  seed,                (* none, unset in the environment, or set           *)
  valid,               (* are seed, digits and algorithm usable?           *)
  native,              (* can the browser submit a code?                   *)
  now, pc,
  code,                (* the period of the code; 0 before there is one    *)
  registered,          (* secrets known to the redactor                    *)
  submissions,
  status, attempted    (* of SecondFactorResult                            *)

setting == <<signals, supported, seed, valid, native>>
vars == <<setting, now, pc, code, registered, submissions, status, attempted>>

Score(shown, known) ==
  LET points(signal, n) == IF signal \in shown THEN n ELSE 0
      base == points("autocomplete", 7) + points("field name", 5) + points("label", 5)
              + points("form text", 4) + points("page text", 3)
              + (IF known /\ {"named code", "two factor text"} \subseteq shown THEN 5 ELSE 0)
  IN IF known /\ base >= 4 THEN base + 1 ELSE base

Detected(shown, known) ==
  /\ shown \cap {"another purpose", "password field", "no selector"} = {}
  /\ Score(shown, known) >= 5

-----------------------------------------------------------------------------
Init ==
  /\ signals \in SUBSET Signals /\ supported \in BOOLEAN
  /\ seed \in {"none", "unset", "set"} /\ valid \in BOOLEAN /\ native \in BOOLEAN
  /\ now \in Ticks .. (2 * Ticks - 1)
  /\ pc = "detect" /\ code = 0 /\ registered = {} /\ submissions = 0
  /\ status = "not_required" /\ attempted = FALSE

Finish(s) ==
  /\ status' = s /\ pc' = "done"

Detect ==
  /\ pc = "detect"
  /\ \/ /\ ~ Detected(signals, supported)
        /\ Finish("not_required") /\ UNCHANGED registered
     \/ /\ Detected(signals, supported) /\ seed # "set"
        /\ Finish("blocked") /\ UNCHANGED registered
     \/ /\ Detected(signals, supported) /\ seed = "set"
        /\ status' = "required" /\ pc' = "wait"
        /\ registered' = {"seed"}
  /\ UNCHANGED <<setting, now, code, submissions, attempted>>

(* Seconds left of the period; too few are slept through.  The sleep may   *)
(* take longer than asked, or be interrupted.                              *)
Unix == now \div 2
Remaining == Period - (Unix % Period)

TooLate_Strict == Remaining < Margin                           (* mutant *)
TooLate == Remaining <= Margin

Wait ==
  /\ pc = "wait" /\ TooLate
  /\ \/ /\ Finish("failed") /\ UNCHANGED now
     \/ /\ \E late \in 0..MaxOversleep : now' = now + 2 * Remaining + late
        /\ pc' = "generate" /\ UNCHANGED status
  /\ UNCHANGED <<setting, code, registered, submissions, attempted>>

NoWait ==
  /\ pc = "wait" /\ ~ TooLate /\ pc' = "generate"
  /\ UNCHANGED <<setting, now, code, registered, submissions, status, attempted>>

Secrets == {"seed", "code"}

GenerateCode == Unix \div Period

Generate ==
  /\ pc = "generate"
  /\ \/ ~ valid /\ Finish("failed") /\ UNCHANGED <<code, registered, attempted>>
     \/ /\ valid
        /\ code' = GenerateCode
        /\ registered' = Secrets
        /\ \/ ~ native /\ Finish("unknown") /\ UNCHANGED attempted
           \/ /\ native
              /\ attempted' = TRUE /\ pc' = "submit" /\ UNCHANGED status
  /\ UNCHANGED <<setting, now, submissions>>

(* The server checks the code a little later; the page that comes back may *)
(* be another challenge, and counts as a session only with more to show    *)
(* for it than a cookie.                                                   *)
Answers == [error : BOOLEAN, challenge : BOOLEAN, indicator : BOOLEAN,
            cookie : BOOLEAN, moved : BOOLEAN, refused : BOOLEAN]

ShowsSession(page) ==
  page.indicator \/ (page.cookie /\ page.moved /\ ~ page.refused)

AfterRefusal == "done"

Submit ==
  /\ pc = "submit"
  /\ \E delay \in 0..MaxDelay : now' = now + delay
  /\ submissions' = submissions + 1
  /\ \E page \in Answers :
       IF page.error \/ page.challenge \/ ~ ShowsSession(page)
       THEN status' = "failed" /\ pc' = AfterRefusal
       ELSE Finish("verified")
  /\ UNCHANGED <<setting, code, registered, attempted>>

Next == Detect \/ Wait \/ NoWait \/ Generate \/ Submit

Spec == Init /\ [][Next]_vars

-----------------------------------------------------------------------------
(* Every variable keeps its shape; a result is reported as attempted only  *)
(* once there is a code, and nothing is verified unattempted.              *)
TypeOK ==
  /\ signals \subseteq Signals /\ seed \in {"none", "unset", "set"}
  /\ supported \in BOOLEAN /\ valid \in BOOLEAN /\ native \in BOOLEAN
  /\ now \in Nat /\ code \in Nat /\ registered \subseteq Secrets
  /\ pc \in {"detect", "wait", "generate", "submit", "done"}
  /\ status \in {"not_required", "required", "blocked", "failed", "unknown", "verified"}
  /\ attempted \in BOOLEAN
  /\ attempted => code # 0 /\ native
  /\ status = "verified" => attempted

(* The server gets the code within the period it was generated for, for    *)
(* any delay up to the margin and at whichever instant the login finished. *)
FreshCode == submissions > 0 => code = (now \div 2) \div Period

(* A code is submitted once: a second try could lock the account, and the  *)
(* same code would be refused as a replay.                                 *)
OneSubmission == submissions <= 1

(* totp.go: "Source support is a useful signal but is never treated as     *)
(* proof": a code is asked for only where the field or its form says so.   *)
ChallengeOnPage ==
  status # "not_required" =>
    signals \cap {"autocomplete", "field name", "label", "form text", "named code"} # {}

(* The redactor knows the code before anything about its submission can be *)
(* written down.                                                           *)
RegisteredFirst == attempted => registered = {"seed", "code"}

(* A code is submitted only where it is asked for, once, known to the      *)
(* redactor, and while it is valid.                                        *)
CodeSound == TypeOK /\ ChallengeOnPage /\ OneSubmission /\ RegisteredFirst /\ FreshCode
=============================================================================
