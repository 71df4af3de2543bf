--------------------------- MODULE PortableServer ---------------------------
(***************************************************************************)
(* A portable test pack on disk, and the processes that use it: the export *)
(* that writes it, a server that runs tests at the request of a browser,   *)
(* and any number of "test" commands.  Each loads the history once, when   *)
(* it starts.  A run of tests is a job; its process may be killed anywhere.*)
(*                                                                         *)
(* Jobs are numbered in the order they start; the order in which they      *)
(* complete is told by the clock.  Any write may fail.                     *)
(***************************************************************************)
EXTENDS Naturals, Sequences, FiniteSets, SequencesExt

CONSTANTS
  Tests, Mutating,     (* the tests of the pack; those that change data    *)
  All,                 (* no selection: all eligible tests                 *)
  MaxJobs, MaxKills    (* bounds on the jobs and the kills                 *)

ServerAssumption ==
  /\ Mutating \subseteq Tests /\ IsFiniteSet(Tests) /\ All \notin Tests
  /\ MaxJobs \in Nat /\ MaxKills \in Nat

Jobs == 1..MaxJobs

VARIABLES
  pack,            (* the files of the export that are written             *)
  executionFile,   (* the jobs whose execution.json is on disk             *)
  evidenceFile,    (* evidence.jsonl of a job: "absent", "whole" or "torn" *)
  report,          (* the jobs the report at the root tells of             *)
  server,          (* [up, mutations, running, lastErr, history]           *)
  cli,             (* cli[j]: the history the test command of j loaded     *)
  job,             (* job[j]: what a run is doing                          *)
  completedAt,     (* of a job; 0 before it completes                      *)
  clock, kills,
  (* history *)
  overlap          (* did a process start while another was there?         *)

disk == <<executionFile, evidenceFile, report>>
vars == <<pack, disk, server, cli, job, completedAt, clock, kills, overlap>>

NoJob == [state |-> "none", owner |-> "none", selected |-> All, confirmed |-> FALSE,
          mutations |-> FALSE, kept |-> TRUE, changed |-> {}, failed |-> FALSE]
Active == {j \in Jobs : job[j].state \notin {"none", "ended", "killed"}}
Started == Cardinality({j \in Jobs : job[j].state # "none"})
Owned(by) == {j \in Active : job[j].owner = by}
CliUp == Owned("cli") # {}

-----------------------------------------------------------------------------
(* Export: the definitions and the runner come first, the execution that   *)
(* verified them next, and the lock that makes the pack loadable last.     *)
ExportOrder == <<"testpack", "tests", "runner", "onboarding", "lock">>

Init ==
  /\ pack = {}
  /\ executionFile = {} /\ evidenceFile = [j \in Jobs |-> "absent"] /\ report = {}
  /\ server = [up |-> FALSE, mutations |-> FALSE, running |-> FALSE, lastErr |-> FALSE,
               history |-> <<>>]
  /\ cli = [j \in Jobs |-> <<>>]
  /\ job = [j \in Jobs |-> NoJob]
  /\ completedAt = [j \in Jobs |-> 0] /\ clock = 1 /\ kills = 0 /\ overlap = FALSE

(* An export that fails stays as it is: it refuses a directory in use. *)
Export ==
  /\ Cardinality(pack) < Len(ExportOrder)
  /\ pack' = pack \cup {ExportOrder[Cardinality(pack) + 1]}
  /\ UNCHANGED <<disk, server, cli, job, completedAt, clock, kills, overlap>>

(* Load: the lock names every file, the evidence of all runs is readable,  *)
(* and the history is what execution.json files there are, by completion.  *)
Loadable ==
  /\ "lock" \in pack
  /\ \A j \in Jobs : evidenceFile[j] # "torn"

LoadHistory ==
  CHOOSE s \in [1 .. Cardinality(executionFile) -> executionFile] :
    \A i, k \in DOMAIN s : i < k => completedAt[s[i]] < completedAt[s[k]]

Serve ==
  /\ ~ server.up /\ Loadable
  /\ \E allowed \in BOOLEAN :
       server' = [up |-> TRUE, mutations |-> allowed, running |-> FALSE, lastErr |-> FALSE,
                  history |-> LoadHistory]
  /\ overlap' = (overlap \/ CliUp)
  /\ UNCHANGED <<pack, disk, cli, job, completedAt, clock, kills>>

(* A job is kept if its output goes to the runs directory of the pack,     *)
(* where LoadHistory finds it: always, but for a --output of the command.  *)
Start(by, selected, confirmed, mutations, kept) ==
  /\ Started < MaxJobs
  /\ job' = [job EXCEPT ![Started + 1] =
       [state |-> "testing", owner |-> by, selected |-> selected, confirmed |-> confirmed,
        mutations |-> mutations, kept |-> kept, changed |-> {}, failed |-> FALSE]]
  /\ UNCHANGED <<pack, disk, completedAt, clock, kills>>

(* Server.run: a request for a test that changes data needs the server to  *)
(* allow it and the confirmation page to be answered; Run All never        *)
(* changes data.  One run at a time.                                       *)
Accepts(selected, confirmed) ==
  selected \in Mutating => server.mutations /\ confirmed

Busy == server.running

AllowedFor(selected) == selected # All /\ server.mutations

Run ==
  /\ server.up /\ ~ Busy
  /\ \E selected \in Tests \cup {All} :
     \E confirmed \in {FALSE} \cup {selected \in Mutating} :
       /\ Accepts(selected, confirmed)
       /\ Start("server", selected, confirmed, AllowedFor(selected), TRUE)
  /\ server' = [server EXCEPT !.running = TRUE, !.lastErr = FALSE]
  /\ UNCHANGED <<cli, overlap>>

(* runner test: a process of its own, which loads the history it reports.  *)
(* Which tests it selects makes no difference here.  Nothing stops a       *)
(* second one.                                                             *)
Test ==
  /\ Loadable
  /\ \E mutations, kept \in BOOLEAN : Start("cli", All, TRUE, mutations, kept)
  /\ cli' = [cli EXCEPT ![Started + 1] = LoadHistory]
  /\ overlap' = (overlap \/ server.up \/ CliUp)
  /\ UNCHANGED server

-----------------------------------------------------------------------------
(* Runner.Run: the selected tests one after the other.  A test that may    *)
(* not change data is blocked; one that may can be blocked or fail too.    *)
SelectedTests(j) == IF job[j].selected = All THEN Tests ELSE {job[j].selected}

Become(j, s) == job' = [job EXCEPT ![j].state = s]

RunTests(j) ==
  /\ job[j].state = "testing"
  /\ \E tests \in SUBSET (SelectedTests(j) \cap Mutating) :
       /\ tests # {} => job[j].mutations
       /\ job' = [job EXCEPT ![j].state = "execution", ![j].changed = tests]
  /\ completedAt' = [completedAt EXCEPT ![j] = clock] /\ clock' = clock + 1
  /\ UNCHANGED <<pack, disk, server, cli, kills, overlap>>

(* A target or a test that is refused leaves no execution.                 *)
RefuseTests(j) ==
  /\ job[j].state = "testing"
  /\ job' = [job EXCEPT ![j].state = "done", ![j].failed = TRUE]
  /\ UNCHANGED <<pack, disk, server, cli, completedAt, clock, kills, overlap>>

(* Each file in turn; an error skips the rest.                             *)
WriteFails(j) ==
  /\ job[j].state \in {"execution", "evidence", "reports"}
  /\ job' = [job EXCEPT ![j].state = "done", ![j].failed = TRUE]
  /\ UNCHANGED <<pack, disk, server, cli, completedAt, clock, kills, overlap>>

WriteExecution(j) ==
  /\ job[j].state = "execution" /\ Become(j, "evidence")
  /\ executionFile' = executionFile \cup {i \in {j} : job[i].kept}
  /\ UNCHANGED <<pack, evidenceFile, report, server, cli, completedAt, clock, kills,
                 overlap>>

WriteEvidence(j) ==
  /\ job[j].state = "evidence" /\ Become(j, "reports")
  /\ evidenceFile' = [evidenceFile EXCEPT ![j] = IF job[j].kept THEN "whole" ELSE @]
  /\ UNCHANGED <<pack, executionFile, report, server, cli, completedAt, clock, kills,
                 overlap>>

(* What the process loaded and did before, and this execution. *)
Updated_OwnOnly(j) == {j}                                      (* mutant *)
Updated(j) ==
  {j} \cup ToSet(IF job[j].owner = "server" THEN server.history ELSE cli[j])

WriteReports(j) ==
  /\ job[j].state = "reports" /\ Become(j, "done")
  /\ report' = Updated(j)
  /\ UNCHANGED <<pack, executionFile, evidenceFile, server, cli, completedAt, clock,
                 kills, overlap>>

(* The server's goroutine adds the execution, if there is one, to what it  *)
(* shows, also after an error.                                             *)
StillRunning_AfterError(j) == job[j].failed                    (* mutant *)
StillRunning(j) == FALSE

Finish(j) ==
  /\ job[j].state = "done" /\ Become(j, "ended")
  /\ server' = IF job[j].owner = "cli" THEN server
               ELSE [server EXCEPT !.running = StillRunning(j), !.lastErr = job[j].failed,
                                   !.history = IF completedAt[j] = 0 THEN @ ELSE Append(@, j)]
  /\ UNCHANGED <<pack, disk, cli, completedAt, clock, kills, overlap>>

(* AtomicWrite: a process that is killed leaves a file as it was. *)
TornBy(j) == evidenceFile[j]

Killed(js) ==
  /\ kills < MaxKills /\ kills' = kills + 1
  /\ job' = [j \in Jobs |-> IF j \in js THEN [job[j] EXCEPT !.state = "killed"] ELSE job[j]]
  /\ evidenceFile' = [j \in Jobs |-> IF j \in js THEN TornBy(j) ELSE evidenceFile[j]]
  /\ UNCHANGED <<pack, executionFile, report, cli, completedAt, clock, overlap>>

KillServer ==
  /\ server.up /\ Killed(Owned("server"))
  /\ server' = [server EXCEPT !.up = FALSE, !.running = FALSE]

KillTest(j) == j \in Owned("cli") /\ Killed({j}) /\ UNCHANGED server

(* What a job does with the browser, and what it does after that.          *)
Browse(j) == RunTests(j) \/ RefuseTests(j)

Save(j) ==
  \/ WriteFails(j) \/ WriteExecution(j) \/ WriteEvidence(j) \/ WriteReports(j) \/ Finish(j)

Next ==
  \/ Export \/ Serve \/ Run \/ Test
  \/ \E j \in Jobs : Browse(j) \/ Save(j) \/ KillTest(j)
  \/ KillServer

Spec == Init /\ [][Next]_vars

(* A process that has only files to write is scheduled.  Nothing is        *)
(* assumed of the browser: the runner gives its steps no time limit, and a *)
(* page may never answer.                                                  *)
FairSpec == Spec /\ \A j \in Jobs : WF_vars(Save(j))

-----------------------------------------------------------------------------
States == {"none", "testing", "execution", "evidence", "reports", "done",
           "ended", "killed"}

(* Every variable keeps its shape; a job that reached the disk completed. *)
TypeOK ==
  /\ pack \subseteq ToSet(ExportOrder)
  /\ executionFile \subseteq Jobs /\ report \subseteq Jobs
  /\ evidenceFile \in [Jobs -> {"absent", "whole"}]
  /\ server \in [up : BOOLEAN, mutations : BOOLEAN, running : BOOLEAN, lastErr : BOOLEAN,
                 history : Seq(Jobs)]
  /\ cli \in [Jobs -> Seq(Jobs)]
  /\ job \in [Jobs -> [state : States, owner : {"none", "server", "cli"},
                       selected : Tests \cup {All}, confirmed : BOOLEAN,
                       mutations : BOOLEAN, kept : BOOLEAN,
                       changed : SUBSET Mutating, failed : BOOLEAN]]
  /\ completedAt \in [Jobs -> Nat] /\ clock \in Nat /\ kills \in 0..MaxKills
  /\ \A j \in executionFile : completedAt[j] # 0

(* The pages say that a run is active exactly while one is: none is        *)
(* hidden, and none that ended, with or without an error, blocks the next. *)
RunningIsTold ==
  /\ server.running <=> Owned("server") # {}
  /\ server.running => server.up

(* A restart shows what was shown: the history a process keeps in memory   *)
(* is in the order a reload would give it, but for what failed to be saved.*)
Precedes(s, i, j) == \E m, n \in DOMAIN s : m < n /\ s[m] = i /\ s[n] = j
RestartAgrees ==
  server.up =>
    \A i, j \in executionFile \cap ToSet(server.history) :
      /\ i \in ToSet(LoadHistory)
      /\ Precedes(server.history, i, j) <=> Precedes(LoadHistory, i, j)

(* "Run All Eligible" remains read-only, and a test that changes data runs *)
(* only from a request of its own, confirmed, and with mutations allowed.  *)
ConfirmedOnly ==
  \A j \in Jobs : job[j].owner = "server" /\ job[j].changed # {} =>
    /\ job[j].changed = {job[j].selected}
    /\ job[j].confirmed /\ job[j].mutations

(* The report at the root tells of every execution that ended without an   *)
(* error and is kept in the runs directory, unless two processes ran side  *)
(* by side: neither would know of what the other had run since it loaded   *)
(* the history.                                                            *)
ReportComplete ==
  ~ overlap =>
    \A j \in Jobs : job[j].state = "ended" /\ ~ job[j].failed /\ job[j].kept => j \in report

(* The same for every directory the command can be given: an execution     *)
(* that the report told of stays in it.                                    *)
ReportWhole ==
  ~ overlap => \A j \in Jobs : job[j].state = "ended" /\ ~ job[j].failed => j \in report

(* The pack can be opened again after any kill, and not before the export  *)
(* is complete.                                                            *)
Reopens ==
  /\ ToSet(ExportOrder) = pack => Loadable
  /\ server.up \/ CliUp => ToSet(ExportOrder) = pack

(* What the server says and what it does agree with the disk, before and   *)
(* after a restart.                                                        *)
ServerTruthful ==
  TypeOK /\ RunningIsTold /\ RestartAgrees /\ ConfirmedOnly /\ ReportComplete /\ Reopens

(* Once the browser is done, with or without an error, and whatever then   *)
(* fails to be written, the server is free again.                          *)
Browsed == \E j \in Owned("server") : job[j].state # "testing"
RunEnds == Browsed ~> ~ server.running
=============================================================================
