---------------------------- MODULE MCOwnedTests ----------------------------
(* One instance for the tests that change a target: the executor of owned   *)
(* workflows, the portable runner's, the server that starts the latter, and *)
(* the report of what they did.  The machines share no variable, so a       *)
(* behaviour moves one of them and leaves the others in their initial       *)
(* states.                                                                  *)
EXTENDS OwnedLifecycle

CONSTANTS
  updated, PortableTests,                  (* of PortableMutation           *)
  PackTests, ChangingTests, all,           (* of PortableServer             *)
  JobLimit, KillLimit,
  ProposedTests, ProposedChanging, RunLimit    (* of PortableReport         *)

VARIABLES
  scene,                   (* the machine that moves                        *)
  (* of PortableMutation *)
  test, testPc, target, at, page, pending, filled, captured, removal, workflowErr, failures,
  verdict, confirmed,
  (* of PortableServer *)
  pack, executionFile, evidenceFile, report, server, cli, job, completedAt, clock, kills,
  overlap,
  (* of PortableReport *)
  tests, history, exit

testVars   == <<test, testPc, target, at, page, pending, filled, captured, removal,
                workflowErr, failures, verdict, confirmed>>
serverVars == <<pack, executionFile, evidenceFile, report, server, cli, job, completedAt,
                clock, kills, overlap>>
reportVars == <<tests, history, exit>>

PortableCase == INSTANCE PortableCases WITH parent <- Parent, child <- Child
GeneratedTests == PortableCase!MCTests

Portable == INSTANCE PortableMutation WITH
  Tests <- PortableTests,
  pc <- testPc, exists <- target, bindings <- captured, cleanup <- removal,
  status <- verdict, deleted <- confirmed

Server == INSTANCE PortableServerProofs WITH
  Tests <- PackTests, Mutating <- ChangingTests, All <- all,
  MaxJobs <- JobLimit, MaxKills <- KillLimit

Shown == INSTANCE PortableReport WITH
  Candidates <- ProposedTests, Mutating <- ProposedChanging, MaxRuns <- RunLimit

ASSUME TestsAssumption ==
  Portable!PortableAssumption /\ Server!ServerAssumption /\ Shown!ReportAssumption

-----------------------------------------------------------------------------
(* A machine that does not move starts in one of its initial states.        *)
TestIdle   == test = CHOOSE t \in PortableTests : TRUE
ReportIdle == tests = {} /\ history = <<[results |-> <<>>, selected |-> FALSE]>> /\ exit = 0

MCInit ==
  /\ scene \in {"lifecycle", "portable", "server", "report"}
  /\ scene = "lifecycle" \/ always = TRUE
  /\ scene = "portable" \/ TestIdle
  /\ Init /\ Portable!Init /\ Server!Init
  /\ IF scene = "report" THEN Shown!Init ELSE ReportIdle

MCNext ==
  \/ scene = "lifecycle" /\ Next /\ UNCHANGED <<scene, testVars, serverVars, reportVars>>
  \/ scene = "portable" /\ Portable!Next /\ UNCHANGED <<scene, vars, serverVars, reportVars>>
  \/ scene = "server" /\ Server!Next /\ UNCHANGED <<scene, vars, testVars, reportVars>>
  \/ scene = "report" /\ Shown!Next /\ UNCHANGED <<scene, vars, testVars, serverVars>>

(* The fairness of PortableServer's FairSpec. *)
MCSpec ==
  /\ MCInit /\ [][MCNext]_<<scene, vars, testVars, serverVars, reportVars>>
  /\ \A j \in Server!Jobs : WF_serverVars(Server!Save(j))

ServerTruthful   == scene = "server" => Server!ServerTruthful
ReportAgrees     == scene = "report" => Shown!ReportAgrees
PortableContract == Portable!OwnedContract
RunEnds          == Server!RunEnds
=============================================================================
