------------------------------ MODULE OwnedTest -----------------------------
(***************************************************************************)
(* What a test that changes data promises, whoever executes it: the        *)
(* workflow of the core tests and the interpreter of a portable pack both  *)
(* implement this.  It says nothing of how objects are found or deleted.   *)
(***************************************************************************)
CONSTANT Own       (* the objects a test may create *)

VARIABLES
  duty,      (* is the test to clean up after itself?                      *)
  left,      (* objects of the test that are in the target                 *)
  claimed,   (* objects the test has established to be its own             *)
  cleaned,   (* those whose deletion it has verified                       *)
  verdict    (* "candidate" until the test is over                         *)

vars == <<duty, left, claimed, cleaned, verdict>>

Init ==
  /\ duty \in BOOLEAN
  /\ left = {} /\ claimed = {} /\ cleaned = {} /\ verdict = "candidate"

Running == verdict = "candidate" /\ UNCHANGED <<duty, verdict>>

(* The target changes; an object verified gone does not come back, and     *)
(* nothing is created any more once the cleanup has begun.                 *)
Work ==
  /\ Running /\ cleaned = {} /\ UNCHANGED cleaned
  /\ left' \subseteq Own /\ left \subseteq left'
  /\ claimed \subseteq claimed' /\ claimed' \subseteq Own
  /\ \A c, d \in claimed' \ claimed : c = d

Remove ==
  /\ Running /\ UNCHANGED claimed
  /\ left' \subseteq left
  /\ \/ UNCHANGED cleaned
     \/ \E e \in claimed \ left' : cleaned' = cleaned \cup {e}

(* A test passes if nothing is left of what it created; what it claimed    *)
(* and has not verified gone is a failure of the cleanup, not merely of    *)
(* the test, whether or not it is left.                                    *)
Judge ==
  /\ verdict = "candidate"
  /\ verdict' \in {"passed", "failed", "cleanup_failed", "blocked", "unresolved"}
  /\ verdict' = "passed" => left = {} /\ claimed # {} /\ claimed = cleaned
  /\ duty /\ claimed # cleaned => verdict' = "cleanup_failed"
  /\ verdict' \in {"blocked", "unresolved"} => left = {}
  /\ UNCHANGED <<duty, left, claimed, cleaned>>

Next == Work \/ Remove \/ Judge

Spec == Init /\ [][Next]_vars
=============================================================================
