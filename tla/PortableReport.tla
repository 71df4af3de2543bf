--------------------------- MODULE PortableReport ---------------------------
(***************************************************************************)
(* What a portable pack tells of its tests: the history begins with the    *)
(* execution that verified them, converted when the pack was exported, and *)
(* grows by an execution per run.  The status of a test is the one of the  *)
(* last execution that held it; the summary, the overall status and the    *)
(* exit code of the command are computed from statuses.                    *)
(***************************************************************************)
EXTENDS Naturals, Sequences, FiniteSets

CONSTANTS
  Candidates,      (* the tests that were ever proposed for the pack       *)
  Mutating,        (* those that change data                               *)
  MaxRuns          (* bound on the executions after the export             *)

ReportAssumption ==
  Mutating \subseteq Candidates /\ IsFiniteSet(Candidates) /\ MaxRuns \in Nat

Statuses == {"passed", "failed", "blocked", "cleanup_failed", "unresolved", "not_run"}
Ran == Statuses \ {"not_run"}

VARIABLES
  tests,           (* the tests of the pack                                *)
  history,         (* executions: [results, selected] records              *)
  exit             (* of the last "runner test"; 0 at first                *)

vars == <<tests, history, exit>>

-----------------------------------------------------------------------------
(* unionTests and convertExecution: all that was verified or had a result; *)
(* a verified test without a result had passed.                            *)
unionTests(verified, outcome) == verified \cup DOMAIN outcome

convertExecution(verified, outcome, pack) ==
  [results  |-> [t \in pack |-> IF t \in DOMAIN outcome THEN outcome[t]
                                ELSE IF t \in verified THEN "passed" ELSE "not_run"],
   selected |-> FALSE]

(* LatestResults: later executions overwrite earlier ones. *)
Holding(t) == {i \in DOMAIN history : t \in DOMAIN history[i].results}
LatestResult(t) ==
  IF Holding(t) = {} THEN "not_run"
  ELSE history[CHOOSE i \in Holding(t) : \A k \in Holding(t) : k <= i].results[t]

(* summarize, over the results of a function from tests to statuses. *)
summarize(results) ==
  [s \in Statuses |-> Cardinality({t \in DOMAIN results : results[t] = s})]

GravestFirst == <<"cleanup_failed", "failed", "unresolved", "blocked">>

overallStatus(summary) ==
  LET seen == {i \in DOMAIN GravestFirst : summary[GravestFirst[i]] > 0}
  IN IF seen # {} THEN GravestFirst[CHOOSE i \in seen : \A k \in seen : i <= k]
     ELSE IF summary["passed"] > 0 /\ summary["not_run"] = 0 THEN "passed"
     ELSE "not_run"

(* reportView: a row for each test of the pack, and the overall status. *)
Rows == [t \in tests |-> LatestResult(t)]
Overall == overallStatus(summarize(Rows))

(* ExecutionExitCode: what a pipeline that runs the command sees. *)
ExecutionExitCode_FailedOnly(execution) ==                     (* mutant *)
  IF \E t \in DOMAIN execution.results : execution.results[t] = "failed" THEN 1 ELSE 0
ExecutionExitCode(execution) ==
  IF \E t \in DOMAIN execution.results :
       \/ execution.results[t] \in {"failed", "cleanup_failed", "unresolved"}
       \/ execution.results[t] = "blocked" /\ (execution.selected \/ t \notin Mutating)
  THEN 1 ELSE 0

-----------------------------------------------------------------------------
Init ==
  \E verified \in SUBSET Candidates, tried \in SUBSET Candidates :
  \E outcome \in [tried -> Ran] :
    /\ tests = unionTests(verified, outcome)
    /\ history = <<convertExecution(verified, outcome, tests)>>
    /\ exit = 0

(* runner test, of all tests or of one that was selected. *)
RunPack ==
  /\ Len(history) <= MaxRuns
  /\ \E chosen \in {tests} \cup {{t} : t \in tests}, alone \in BOOLEAN :
       /\ alone => Cardinality(chosen) = 1
       /\ ~ alone => chosen = tests
       /\ \E results \in [chosen -> Ran] :
            LET execution == [results |-> results, selected |-> alone]
            IN /\ history' = Append(history, execution)
               /\ exit' = ExecutionExitCode(execution)
  /\ UNCHANGED tests

Next == RunPack

Spec == Init /\ [][Next]_vars

-----------------------------------------------------------------------------
Latest == history[Len(history)]

(* Every variable keeps its shape; the pack holds every test its first     *)
(* execution has a result for, and each later one runs tests of the pack.  *)
TypeOK ==
  /\ tests \subseteq Candidates /\ exit \in {0, 1}
  /\ \A i \in DOMAIN history :
       /\ DOMAIN history[i].results \subseteq tests
       /\ \A t \in DOMAIN history[i].results : history[i].results[t] \in Statuses
  /\ \A t \in tests : Rows[t] # "not_run"

(* The overall status is the gravest of those shown: data left behind in   *)
(* the target outweighs a failure, which outweighs what was not decided.   *)
Gravity ==
  [cleanup_failed |-> 5, failed |-> 4, unresolved |-> 3, blocked |-> 2, not_run |-> 1,
   passed |-> 0]
OverallIsGravest ==
  IF tests = {} THEN Overall = "not_run"
  ELSE /\ \E t \in tests : Rows[t] = Overall
       /\ \A t \in tests : Gravity[Rows[t]] <= Gravity[Overall]

(* The README of a pack: when all tests are run, blocked mutating tests do *)
(* not fail an otherwise passing run; an explicitly selected blocked test  *)
(* does.                                                                   *)
ExitFollowsReadme ==
  LET of(kind) == {Latest.results[t] : t \in DOMAIN Latest.results \cap kind}
      mayBlock == IF Latest.selected THEN {} ELSE {"blocked"}
  IN Len(history) > 1 =>
       (exit = 0 <=> /\ of(Candidates \ Mutating) \subseteq {"passed"}
                     /\ of(Mutating) \subseteq {"passed"} \cup mayBlock)

(* The exit code and the page agree about a run of all tests: a run that   *)
(* passes the pipeline is not reported as failed, nor the other way round. *)
ExitAgreesWithReport ==
  Len(history) > 1 /\ ~ Latest.selected =>
    /\ exit = 0 => Overall \in {"passed", "blocked", "not_run"}
    /\ exit = 1 => Overall \notin {"passed", "not_run"}

(* The page, the status in its heading and the exit code tell one story.   *)
ReportAgrees == TypeOK /\ OverallIsGravest /\ ExitFollowsReadme /\ ExitAgreesWithReport
=============================================================================
