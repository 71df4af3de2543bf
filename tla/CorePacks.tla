------------------------------ MODULE CorePacks ------------------------------
(***************************************************************************)
(* The Core Test packs of a discovery run: sessions of `test core`, which  *)
(* may overlap, be killed or fail to write, each seeded with the tests of  *)
(* the best pack it finds; and what the export of a pack makes of it.      *)
(*                                                                         *)
(* Sessions and completed runtime verifications are numbered in the order  *)
(* they began.  A pack is a set of tests, each with the session whose      *)
(* execution it last passed: the one whose evidence it cites.  The files   *)
(* are written whole or not at all; what a session writes is fixed once    *)
(* its candidates were executed.  Left out is the report in Markdown, a    *)
(* view of the execution that nothing reads.                               *)
(***************************************************************************)
EXTENDS Naturals, Sequences, FiniteSets

CONSTANTS
  Tests,
  Pathless,     (* those that name an interface without a path: an action   *)
                (* of the API; all of them are mutating                     *)
  MaxSessions, MaxLive, MaxRuntimes  (* bounds: sessions in all and at      *)
                                     (* once, verifications                 *)

PacksAssumption ==
  /\ IsFiniteSet(Tests) /\ Pathless \subseteq Tests
  /\ {MaxSessions, MaxLive} \subseteq Nat /\ MaxRuntimes \in Nat \ {0}

VARIABLES
  runtimes,   (* completed verifications so far                            *)
  sessions,   (* in the order they began                                   *)
  overlapped  (* history: did one session begin while another went on?     *)

vars == <<runtimes, sessions, overlapped>>

Ids == DOMAIN sessions
Files == {"pack", "execution", "baseline"}
TestsOf(pack) == {t[1] : t \in pack}

-----------------------------------------------------------------------------
(* LoadBestVerifiedPack: of this runtime, the most tests, then the newest. *)
Better(i, k) ==
  LET size(n) == Cardinality(sessions[n].pack)
  IN size(i) > size(k) \/ (size(i) = size(k) /\ i >= k)
Packs(runtime) ==
  {i \in Ids : "pack" \in sessions[i].files /\ sessions[i].runtime = runtime}
LoadBestVerifiedPack(runtime) ==
  IF Packs(runtime) = {} THEN {}
  ELSE sessions[CHOOSE i \in Packs(runtime) : \A k \in Packs(runtime) : Better(i, k)].pack

Running(i) == sessions[i].pc \in {"executing", "writing"}

NewSession_Unseeded(runtime, candidates) ==                    (* mutant *)
  [pc |-> "executing", runtime |-> runtime, candidates |-> candidates,
   pack |-> {}, results |-> <<>>, files |-> {}]
NewSession(runtime, candidates) ==
  [pc |-> "executing", runtime |-> runtime, candidates |-> candidates,
   pack |-> LoadBestVerifiedPack(runtime), results |-> <<>>, files |-> {}]

Outcomes(t) == IF t \in Pathless THEN {"blocked", "unresolved"} ELSE {"passed", "failed"}

Completed(i, results) ==
  LET passed == {t \in DOMAIN results : results[t] = "passed"}
  IN {t \in sessions[i].pack : t[1] \notin passed} \cup {<<t, i>> : t \in passed}

Order_BaselineFirst(i) == <<"baseline", "pack", "execution">>     (* mutant *)
Order(i) ==
  <<"pack", "execution">> \o IF sessions[i].pack = {} THEN <<>> ELSE <<"baseline">>
Written(i, files) == Cardinality(files) = Len(Order(i))

-----------------------------------------------------------------------------
Init ==
  /\ runtimes = 1 /\ sessions = <<>> /\ overlapped = FALSE

(* The target is verified again.                                           *)
Verify ==
  /\ runtimes < MaxRuntimes
  /\ runtimes' = runtimes + 1
  /\ UNCHANGED <<sessions, overlapped>>

(* With the latest runtime, or the one --runtime names; with all           *)
(* candidates, or the one --test names.                                    *)
Start ==
  /\ Len(sessions) < MaxSessions /\ Cardinality({i \in Ids : Running(i)}) < MaxLive
  /\ \E runtime \in 1..runtimes, candidates \in {Tests} \cup {{t} : t \in Tests} :
       sessions' = Append(sessions, NewSession(runtime, candidates))
  /\ overlapped' = (overlapped \/ \E i \in Ids : Running(i))
  /\ UNCHANGED runtimes

Complete(i) ==
  /\ sessions[i].pc = "executing"
  /\ \E results \in [sessions[i].candidates -> UNION {Outcomes(t) : t \in Tests}] :
       /\ \A t \in sessions[i].candidates : results[t] \in Outcomes(t)
       /\ sessions' = [sessions EXCEPT ![i] =
                         [@ EXCEPT !.results = results, !.pack = Completed(i, results),
                                   !.pc = "writing"]]
  /\ UNCHANGED <<runtimes, overlapped>>

Write(i) ==
  /\ sessions[i].pc = "writing"
  /\ LET files == sessions[i].files \cup {Order(i)[Cardinality(sessions[i].files) + 1]}
     IN sessions' = [sessions EXCEPT ![i] =
          [@ EXCEPT !.files = files, !.pc = IF Written(i, files) THEN "written" ELSE "writing"]]
  /\ UNCHANGED <<runtimes, overlapped>>

(* A write or the validation before it fails, or the process is killed.    *)
(* One that wrote no file leaves nothing that another could read.          *)
Left(session) ==
  IF session.files = {}
  THEN [session EXCEPT !.candidates = {}, !.runtime = 1, !.pack = {}, !.results = <<>>]
  ELSE session

End(i) ==
  /\ Running(i)
  /\ sessions' = [sessions EXCEPT ![i] = [Left(@) EXCEPT !.pc = "ended"]]
  /\ UNCHANGED <<runtimes, overlapped>>

Next ==
  \/ Verify \/ Start
  \/ \E i \in Ids : Complete(i) \/ Write(i) \/ End(i)

Spec == Init /\ [][Next]_vars

-----------------------------------------------------------------------------
(* Export, which only reads: of a pack with its execution, the tests of    *)
(* both, provided each converts; their results as the onboarding report    *)
(* has them, and the session whose evidence each cites.                    *)
Union(i)    == TestsOf(sessions[i].pack) \cup DOMAIN sessions[i].results
Converts(i) == Union(i) \cap Pathless = {}
Exports     == {i \in Ids : {"pack", "execution"} \subseteq sessions[i].files /\ Converts(i)}

Onboarding(i) ==
  [t \in Union(i) |-> IF t \in DOMAIN sessions[i].results THEN sessions[i].results[t] ELSE "passed"]
Cited(i) ==
  [t \in Union(i) |-> IF t \in DOMAIN sessions[i].results THEN i
                      ELSE CHOOSE k \in Ids : <<t, k>> \in sessions[i].pack]

-----------------------------------------------------------------------------
OnDisk(i) == "pack" \in sessions[i].files
Passed(runtime) ==
  {t \in Tests : \E i \in Ids : sessions[i].runtime = runtime
                   /\ t \in DOMAIN sessions[i].results /\ sessions[i].results[t] = "passed"}

(* Every variable keeps its shape; no pack holds a test twice.             *)
TypeOK ==
  /\ runtimes \in 1..MaxRuntimes /\ Len(sessions) <= MaxSessions
  /\ \A i \in Ids :
       /\ sessions[i].runtime \in 1..runtimes /\ sessions[i].files \subseteq Files
       /\ sessions[i].pack \subseteq Tests \X Ids
       /\ \A s, t \in sessions[i].pack : s[1] = t[1] => s = t
       /\ sessions[i].results = <<>> \/ DOMAIN sessions[i].results = sessions[i].candidates

(* "failed candidate was promoted into verified pack": what a pack on disk *)
(* or an onboarding report calls passed did pass in an execution against   *)
(* the same verified runtime.                                              *)
OnlyVerified ==
  /\ \A i \in Ids : OnDisk(i) => TestsOf(sessions[i].pack) \subseteq Passed(sessions[i].runtime)
  /\ \A i \in Exports : \A t \in Union(i) :
       Onboarding(i)[t] = "passed" => t \in Passed(sessions[i].runtime)

(* "baseline did not retain prior verified test": as long as one session   *)
(* follows another, what any pack of a runtime holds its best one holds,   *)
(* whatever sessions were killed or could not write.                       *)
NothingForgotten ==
  ~ overlapped =>
    \A i \in Ids : OnDisk(i) =>
      TestsOf(sessions[i].pack) \subseteq TestsOf(LoadBestVerifiedPack(sessions[i].runtime))

(* Whenever it stops: a baseline names the tests of the pack beside it,    *)
(* which are not none, and its execution is there too.      *)
BaselineBacked ==
  \A i \in Ids :
    "baseline" \in sessions[i].files => sessions[i].files = Files /\ sessions[i].pack # {}

(* A bundle does not call passed what the execution of the very pack it    *)
(* was made of saw fail, although the pack keeps such a test.              *)
FailureShown ==
  \A i \in Exports : \A t \in DOMAIN sessions[i].results :
    sessions[i].results[t] # "passed" => Onboarding(i)[t] # "passed"

(* What a pack, a baseline and an exported bundle claim was executed,      *)
(* whichever session wrote them and wherever it was stopped.               *)
PacksSound == TypeOK /\ OnlyVerified /\ BaselineBacked /\ FailureShown

(* "Export a portable standalone Core Test bundle": the pack a session     *)
(* wrote can be exported.                                                  *)
Exportable == \A i \in Ids : sessions[i].pc = "written" => Converts(i)

(* "This directory is self-contained": the evidence its onboarding report  *)
(* cites is that of the session whose evidence was copied.                 *)
SelfContained == \A i \in Exports : \A t \in Union(i) : Cited(i)[t] = i
=============================================================================
