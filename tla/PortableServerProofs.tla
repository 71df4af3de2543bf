------------------------ MODULE PortableServerProofs ------------------------
(***************************************************************************)
(* That the server of a portable pack tells the truth, for every pack, any *)
(* number of jobs and any number of kills.                                 *)
(*                                                                         *)
(* The invariant (Inv) numbers the jobs in the order they start, says when *)
(* each part of a job is on disk (Recorded), that the server runs one job  *)
(* at a time (OneEach), that its history is in the order of completion and *)
(* its job completes after all of it (Ordered), and that unless processes  *)
(* run side by side there is one job at a time and a process knows of all  *)
(* that ended without an error (Informed).  The history a process loads is *)
(* a CHOICE of a list in the order of completion: that there is one, and   *)
(* that it leaves no job out, rests on OrderExists and OrderListsAll.      *)
(***************************************************************************)
EXTENDS PortableServer, FiniteSetTheorems, TLAPS

(* A job whose tests are over, unless it was killed.                       *)
Beyond == {"execution", "evidence", "reports", "done", "ended"}

(* The jobs that started are the first ones.                               *)
Numbered == \E n \in 0 .. MaxJobs : {j \in Jobs : job[j].state # "none"} = 1 .. n

(* What is written of a job, and when it completed.                        *)
Fresh(j) ==
  job[j].state \in {"none", "testing"} =>
    /\ completedAt[j] = 0 /\ j \notin executionFile
    /\ job[j].changed = {} /\ ~ job[j].failed
Recorded(j) ==
  /\ j \in executionFile => completedAt[j] > 0
  /\ job[j].state \in {"execution", "evidence", "reports"} =>
       ~ job[j].failed /\ completedAt[j] > 0
  /\ job[j].state \in {"evidence", "reports"} /\ job[j].kept => j \in executionFile
  /\ job[j].state \in {"done", "ended"} /\ ~ job[j].failed /\ job[j].kept => j \in executionFile
Progress ==
  /\ clock > 0
  /\ \A j \in Jobs : Fresh(j) /\ Recorded(j) /\ completedAt[j] < clock
  /\ \A i, j \in Jobs : completedAt[i] = completedAt[j] => i = j \/ completedAt[i] = 0

(* What a job of the server may change was asked for and confirmed.        *)
Asked ==
  \A j \in Jobs :
    /\ job[j].owner = "server" /\ job[j].mutations =>
         job[j].selected # All /\ (job[j].selected \in Mutating => job[j].confirmed)
    /\ job[j].changed # {} =>
         job[j].mutations /\ job[j].changed \subseteq SelectedTests(j) \cap Mutating

(* The server runs one job at a time, and tells of it.                     *)
OneEach ==
  /\ \A i, j \in Owned("server") : i = j
  /\ \A j \in Active : job[j].owner \in {"server", "cli"}
  /\ server.running <=> Owned("server") # {}
  /\ server.running => server.up

(* The server's history is in the order of completion; its job is later.   *)
Ordered ==
  server.up =>
    LET h == server.history IN
    /\ \A a \in DOMAIN h : completedAt[h[a]] > 0
    /\ \A a, b \in DOMAIN h : a < b => completedAt[h[a]] < completedAt[h[b]]
    /\ \A j \in Owned("server") : completedAt[j] # 0 =>
         \A a \in DOMAIN h : completedAt[h[a]] < completedAt[j]

(* Unless they overlap, a process knows of all that ended without an error.*)
EndedWell == {j \in Jobs : job[j].state = "ended" /\ ~ job[j].failed /\ job[j].kept}
Told ==
  \A j \in Jobs : job[j].state \in {"done", "ended"} /\ ~ job[j].failed /\ job[j].kept =>
    j \in report
Informed ==
  ~ overlap =>
    /\ \A i, j \in Active : i = j
    /\ server.up => ~ CliUp /\ EndedWell \subseteq ToSet(server.history)
    /\ \A j \in Owned("cli") : EndedWell \subseteq ToSet(cli[j])
    /\ Told

(* The export goes in its order, and nothing runs before its end.          *)
Exported ==
  /\ \E n \in 0 .. 5 : pack = {ExportOrder[i] : i \in 1 .. n}
  /\ server.up \/ CliUp => "lock" \in pack

(* The types, in parts.                                                    *)
JobRecords ==
  [state : States, owner : {"none", "server", "cli"}, selected : Tests \cup {All},
   confirmed : BOOLEAN, mutations : BOOLEAN, kept : BOOLEAN, changed : SUBSET Mutating,
   failed : BOOLEAN]
ServerRecords ==
  [up : BOOLEAN, mutations : BOOLEAN, running : BOOLEAN, lastErr : BOOLEAN, history : Seq(Jobs)]
Files ==
  /\ pack \subseteq ToSet(ExportOrder)
  /\ executionFile \subseteq Jobs /\ report \subseteq Jobs
  /\ evidenceFile \in [Jobs -> {"absent", "whole"}]
Processes ==
  server \in ServerRecords /\ cli \in [Jobs -> Seq(Jobs)] /\ job \in [Jobs -> JobRecords]
Counters == completedAt \in [Jobs -> Nat] /\ clock \in Nat /\ kills \in 0 .. MaxKills

Inv ==
  /\ Files /\ Processes /\ Counters
  /\ Numbered /\ Progress /\ Asked /\ OneEach /\ Ordered /\ Informed /\ Exported

-----------------------------------------------------------------------------
(* Finitely many jobs can be listed in the order they completed,           *)
InOrder(s, c) == \A i, k \in DOMAIN s : i < k => c[s[i]] < c[s[k]]

LEMMA OrderExists ==
  ASSUME NEW S, IsFiniteSet(S), NEW c,
         \A x \in S : c[x] \in Nat, \A x, y \in S : c[x] = c[y] => x = y
  PROVE  \E s \in [1 .. Cardinality(S) -> S] : InOrder(s, c)
<1>. DEFINE n == Cardinality(S)
            Until(x) == {y \in S : c[y] <= c[x]}
            r == [x \in S |-> Cardinality(Until(x))]
<1>1. n \in Nat /\ IsFiniteSet(1 .. n) /\ Cardinality(1 .. n) = n
  BY FS_CardinalityType, FS_Interval
<1>2. ASSUME NEW x \in S
      PROVE  r[x] \in 1 .. n /\ IsFiniteSet(Until(x))
  <2>1. IsFiniteSet(Until(x)) /\ Cardinality(Until(x)) <= n /\ x \in Until(x)
    <3>1. Until(x) \in SUBSET S  OBVIOUS
    <3>2. x \in Until(x)  OBVIOUS
    <3>. QED  BY <3>1, <3>2, FS_Subset
  <2>2. Cardinality(Until(x)) \in Nat /\ Cardinality(Until(x)) # 0
    BY <2>1, FS_CardinalityType, FS_EmptySet
  <2>3. r[x] = Cardinality(Until(x))  OBVIOUS
  <2>. HIDE DEF r, Until, n
  <2>. QED  BY <1>1, <2>1, <2>2, <2>3
<1>3. ASSUME NEW x \in S, NEW y \in S, c[x] < c[y]
      PROVE  r[x] < r[y]
  <2>1. Until(x) \in SUBSET Until(y) /\ y \in Until(y) /\ y \notin Until(x)
    <3>1. \A z \in S : c[z] <= c[x] => c[z] <= c[y]  BY <1>3
    <3>2. c[y] <= c[y] /\ ~ (c[y] <= c[x])  BY <1>3
    <3>. QED  BY <3>1, <3>2
  <2>2. Cardinality(Until(x)) <= Cardinality(Until(y)) /\ Cardinality(Until(x)) # Cardinality(Until(y))
    BY <1>2, <2>1, FS_Subset
  <2>3. r[x] = Cardinality(Until(x)) /\ r[y] = Cardinality(Until(y))  OBVIOUS
  <2>4. r[x] \in 1 .. n /\ r[y] \in 1 .. n  BY <1>2, Zenon
  <2>. HIDE DEF r, Until, n
  <2>. QED  BY <1>1, <2>2, <2>3, <2>4
<1>. HIDE DEF n, r
<1>4. r \in Injection(S, 1 .. n)
  <2>1. r \in [S -> 1 .. n]  BY <1>2 DEF r
  <2>2. \A x, y \in S : r[x] = r[y] => x = y
    <3>. SUFFICES ASSUME NEW x \in S, NEW y \in S, x # y PROVE r[x] # r[y]
      OBVIOUS
    <3>1. r[x] \in 1 .. n /\ r[y] \in 1 .. n  BY <1>2, Zenon
    <3>2. c[x] < c[y] \/ c[y] < c[x]
      <4>1. c[x] # c[y] /\ c[x] \in Nat /\ c[y] \in Nat  OBVIOUS
      <4>. QED  BY <4>1
    <3>3. r[x] < r[y] \/ r[y] < r[x]  BY <1>3, <3>2, Zenon
    <3>. QED  BY <1>1, <3>1, <3>3
  <2>. QED  BY <2>1, <2>2 DEF Injection, IsInjective
<1>5. r \in Surjection(S, 1 .. n)  BY <1>1, <1>4, FS_Injection DEF n
<1>. DEFINE s == [k \in 1 .. n |-> CHOOSE x \in S : r[x] = k]
<1>6. \A k \in 1 .. n : s[k] \in S /\ r[s[k]] = k  BY <1>5 DEF Surjection
<1>7. s \in [1 .. n -> S] /\ DOMAIN s = 1 .. n  BY <1>6
<1>. HIDE DEF s
<1>8. ASSUME NEW i \in 1 .. n, NEW k \in 1 .. n, i < k
      PROVE  c[s[i]] < c[s[k]]
  <2>1. s[i] \in S /\ s[k] \in S /\ r[s[i]] = i /\ r[s[k]] = k  BY <1>6, Zenon
  <2>2. ~ (k < i) /\ i # k  BY <1>1, <1>8
  <2>3. ~ (c[s[k]] < c[s[i]])  BY <1>3, <2>1, <2>2, Zenon
  <2>4. c[s[k]] # c[s[i]]  BY <2>1, <2>2, Zenon
  <2>5. c[s[i]] \in Nat /\ c[s[k]] \in Nat  BY <2>1
  <2>. QED  BY <2>3, <2>4, <2>5
<1>. QED  BY <1>7, <1>8 DEF InOrder, n

(* and such a list leaves none of them out. *)
LEMMA OrderListsAll ==
  ASSUME NEW S, IsFiniteSet(S), NEW c, \A x \in S : c[x] \in Nat,
         NEW s \in [1 .. Cardinality(S) -> S], InOrder(s, c)
  PROVE  \A x \in S : \E k \in DOMAIN s : s[k] = x
<1>. DEFINE n == Cardinality(S)
<1>1. n \in Nat /\ IsFiniteSet(1 .. n) /\ Cardinality(1 .. n) = n
  BY FS_CardinalityType, FS_Interval
<1>2. \A i, k \in 1 .. n : s[i] = s[k] => i = k
  <2>. SUFFICES ASSUME NEW i \in 1 .. n, NEW k \in 1 .. n, i # k PROVE s[i] # s[k]
    OBVIOUS
  <2>1. i < k \/ k < i  BY <1>1
  <2>2. c[s[i]] < c[s[k]] \/ c[s[k]] < c[s[i]]  BY <2>1 DEF InOrder
  <2>3. c[s[i]] \in Nat /\ c[s[k]] \in Nat  OBVIOUS
  <2>. QED  BY <2>2, <2>3
<1>3. s \in Injection(1 .. n, S)  BY <1>2 DEF Injection, IsInjective
<1>4. s \in Surjection(1 .. n, S)  BY <1>1, <1>3, FS_Injection
<1>. QED  BY <1>4 DEF Surjection

LEMMA JobsFinite ==
  ASSUME ServerAssumption PROVE MaxJobs \in Nat /\ IsFiniteSet(Jobs)
BY FS_Interval DEF ServerAssumption, Jobs

(* The history that is read back lists what is on disk, in that order.     *)
LEMMA History ==
  ASSUME ServerAssumption, Inv
  PROVE  /\ LoadHistory \in Seq(Jobs)
         /\ ToSet(LoadHistory) = executionFile
         /\ InOrder(LoadHistory, completedAt)
<1>1. executionFile \subseteq Jobs /\ completedAt \in [Jobs -> Nat]
  BY Zenon DEF Inv, Files, Counters
<1>2. IsFiniteSet(executionFile) /\ Cardinality(executionFile) \in Nat
  <2>1. executionFile \in SUBSET Jobs  BY <1>1
  <2>. QED  BY <2>1, JobsFinite, FS_Subset, FS_CardinalityType, Zenon
<1>3. \A j \in executionFile : completedAt[j] \in Nat  BY <1>1
<1>4. \A i, j \in executionFile : completedAt[i] = completedAt[j] => i = j
  <2>. SUFFICES ASSUME NEW i \in executionFile, NEW j \in executionFile,
                       completedAt[i] = completedAt[j]
                PROVE  i = j
    BY Zenon
  <2>1. i \in Jobs /\ j \in Jobs  BY <1>1
  <2>2. completedAt[i] > 0  BY <2>1, Zenon DEF Inv, Progress, Recorded
  <2>3. completedAt[i] # 0  BY <2>1, <2>2, <1>1
  <2>. QED  BY <2>1, <2>3, Zenon DEF Inv, Progress
<1>. DEFINE sorted(s) == \A i, k \in DOMAIN s : i < k => completedAt[s[i]] < completedAt[s[k]]
            listings == [1 .. Cardinality(executionFile) -> executionFile]
<1>5. \E s \in listings : sorted(s)
  BY <1>2, <1>3, <1>4, OrderExists, Zenon DEF InOrder
<1>6. LoadHistory = CHOOSE s \in listings : sorted(s)  BY Zenon DEF LoadHistory
<1>. HIDE DEF sorted
<1>7. LoadHistory \in listings /\ sorted(LoadHistory)
  <2>. HIDE DEF listings
  <2>. QED  BY <1>5, <1>6, Zenon
<1>. USE DEF sorted
<1>8. InOrder(LoadHistory, completedAt)  BY <1>7, Zenon DEF InOrder
<1>9. LoadHistory \in Seq(executionFile) /\ DOMAIN LoadHistory = 1 .. Cardinality(executionFile)
  BY <1>2, <1>7
<1>10. LoadHistory \in Seq(Jobs)  BY <1>1, <1>9
<1>11. \A x \in executionFile : \E k \in DOMAIN LoadHistory : LoadHistory[k] = x
  <2>. DEFINE s == LoadHistory
  <2>1. s \in [1 .. Cardinality(executionFile) -> executionFile] /\ InOrder(s, completedAt)
    BY <1>7, <1>8
  <2>. HIDE DEF s, listings, sorted
  <2>2. \A x \in executionFile : \E k \in DOMAIN s : s[k] = x
    BY <1>2, <1>3, <2>1, OrderListsAll
  <2>. QED  BY <2>2, Zenon DEF s
<1>12. \A k \in DOMAIN LoadHistory : LoadHistory[k] \in executionFile  BY <1>7
<1>13. ToSet(LoadHistory) = executionFile  BY <1>11, <1>12 DEF ToSet
<1>. QED  BY <1>8, <1>10, <1>13

(* The export has written its first files. *)
LEMMA ExportFacts ==
  /\ Len(ExportOrder) = 5 /\ DOMAIN ExportOrder = 1 .. 5
  /\ \A i, k \in 1 .. 5 : ExportOrder[i] = ExportOrder[k] => i = k
  /\ ExportOrder[5] = "lock"
<1>1. Len(ExportOrder) = 5 /\ DOMAIN ExportOrder = 1 .. 5  BY DEF ExportOrder
<1>2. /\ ExportOrder[1] = "testpack" /\ ExportOrder[2] = "tests" /\ ExportOrder[3] = "runner"
      /\ ExportOrder[4] = "onboarding" /\ ExportOrder[5] = "lock"
  BY DEF ExportOrder
<1>. QED  BY <1>1, <1>2

LEMMA FirstFiles ==
  ASSUME NEW n \in 0 .. 5
  PROVE  /\ Cardinality({ExportOrder[i] : i \in 1 .. n}) = n
         /\ "lock" \in {ExportOrder[i] : i \in 1 .. n} <=> n = 5
         /\ {ExportOrder[i] : i \in 1 .. n} = ToSet(ExportOrder) <=> n = 5
         /\ {ExportOrder[i] : i \in 1 .. n} \subseteq ToSet(ExportOrder)
<1>. DEFINE F == {ExportOrder[i] : i \in 1 .. n}
            f == [i \in 1 .. n |-> ExportOrder[i]]
<1>1. \A i \in 1 .. n : i \in 1 .. 5  OBVIOUS
<1>2. "lock" \in F <=> n = 5
  <2>1. n = 5 => "lock" \in F  BY ExportFacts
  <2>2. \A i \in 1 .. n : ExportOrder[i] = "lock" => i = 5  BY <1>1, ExportFacts
  <2>3. \A i \in 1 .. n : i = 5 => n = 5  OBVIOUS
  <2>. QED  BY <2>1, <2>2, <2>3
<1>3. ToSet(ExportOrder) = {ExportOrder[i] : i \in 1 .. 5}  BY ExportFacts, Zenon DEF ToSet
<1>4. F \subseteq ToSet(ExportOrder)
  <2>. HIDE DEF F
  <2>1. \A x \in F : \E i \in 1 .. 5 : x = ExportOrder[i]  BY <1>1, Zenon DEF F
  <2>. QED  BY <1>3, <2>1
<1>5. F = ToSet(ExportOrder) <=> n = 5
  <2>1. n = 5 => F = ToSet(ExportOrder)  BY <1>3, Zenon
  <2>2. "lock" \in ToSet(ExportOrder)
    <3>1. 5 \in 1 .. 5  OBVIOUS
    <3>2. ExportOrder[5] \in {ExportOrder[i] : i \in 1 .. 5}  BY <3>1, Zenon
    <3>. QED  BY <1>3, <3>2, ExportFacts, Zenon
  <2>. QED  BY <1>2, <2>1, <2>2, Zenon
<1>6. Cardinality(F) = n
  <2>1. f \in Surjection(1 .. n, F)  BY DEF Surjection
  <2>2. f \in Injection(1 .. n, F)
    <3>1. \A i, k \in 1 .. n : f[i] = f[k] => i = k  BY <1>1, ExportFacts
    <3>. QED  BY <3>1 DEF Injection, IsInjective
  <2>. HIDE DEF F, f
  <2>3. IsFiniteSet(1 .. n) /\ Cardinality(1 .. n) = n
    <3>1. 1 \in Int /\ n \in Int /\ (IF 1 > n THEN 0 ELSE n - 1 + 1) = n  OBVIOUS
    <3>. QED  BY <3>1, FS_Interval, Zenon
  <2>4. Cardinality(F) = Cardinality(1 .. n)
    <3>1. Cardinality(F) = Cardinality(1 .. n) <=> f \in Injection(1 .. n, F)
      BY <2>1, <2>3, FS_Surjection, Zenon
    <3>. QED  BY <2>2, <3>1, Zenon
  <2>. QED  BY <2>3, <2>4, Zenon
<1>. QED  BY <1>2, <1>4, <1>5, <1>6

-----------------------------------------------------------------------------
(* One job goes on to another state.                                       *)
Moves(j, s) ==
  /\ job' \in [Jobs -> JobRecords]
  /\ \A i \in Jobs : i # j => job'[i] = job[i]
  /\ job'[j].state = s /\ job'[j].owner = job[j].owner
  /\ job'[j].selected = job[j].selected /\ job'[j].confirmed = job[j].confirmed
  /\ job'[j].mutations = job[j].mutations /\ job'[j].kept = job[j].kept

LEMMA Moved ==
  ASSUME Inv, NEW j \in Jobs, NEW q \in JobRecords, job' = [job EXCEPT ![j] = q],
         q.owner = job[j].owner, q.selected = job[j].selected, q.confirmed = job[j].confirmed,
         q.mutations = job[j].mutations, q.kept = job[j].kept
  PROVE  Moves(j, q.state) /\ job'[j] = q
<1>1. job \in [Jobs -> JobRecords]  BY Zenon DEF Inv, Processes
<1>2. job' \in [Jobs -> JobRecords] /\ job'[j] = q /\ \A i \in Jobs : i # j => job'[i] = job[i]
  BY <1>1, Zenon
<1>. QED  BY <1>2, Zenon DEF Moves

(* A state of its own is all that changes in most steps.                   *)
LEMMA MovedOn ==
  ASSUME Inv, NEW j \in Jobs, NEW s \in States, job' = [job EXCEPT ![j].state = s]
  PROVE  /\ Moves(j, s) /\ job'[j].state = s
         /\ job'[j].changed = job[j].changed /\ job'[j].failed = job[j].failed
<1>1. job[j] \in JobRecords  BY Zenon DEF Inv, Processes
<1>. DEFINE q == [job[j] EXCEPT !.state = s]
<1>2. /\ q \in JobRecords /\ q.state = s /\ q.changed = job[j].changed /\ q.failed = job[j].failed
      /\ q.owner = job[j].owner /\ q.selected = job[j].selected /\ q.confirmed = job[j].confirmed
      /\ q.mutations = job[j].mutations /\ q.kept = job[j].kept
  BY <1>1 DEF JobRecords
<1>3. job' = [job EXCEPT ![j] = q]  OBVIOUS
<1>. HIDE DEF q
<1>4. Moves(j, q.state) /\ job'[j] = q  BY <1>2, <1>3, Moved, Zenon
<1>. QED  BY <1>2, <1>4, Zenon

(* A job that goes on and does not end is active as it was.                *)
LEMMA StillActive ==
  ASSUME NEW j \in Active, NEW s \in {"testing", "execution", "evidence", "reports", "done"},
         Moves(j, s)
  PROVE  /\ Active' = Active /\ \A i \in Active : job'[i].owner = job[i].owner
         /\ Owned("server")' = Owned("server") /\ Owned("cli")' = Owned("cli")
<1>1. Active' = Active  BY DEF Active, Moves
<1>2. \A i \in Active : job'[i].owner = job[i].owner  BY DEF Active, Moves
<1>. QED  BY <1>1, <1>2, Zenon DEF Owned

(* The numbering of the jobs does not change with what they do.            *)
LEMMA StillNumbered ==
  ASSUME Numbered, NEW j \in Active, NEW s, s # "none", Moves(j, s)
  PROVE  Numbered'
<1>1. {i \in Jobs : job'[i].state # "none"} = {i \in Jobs : job[i].state # "none"}
  BY DEF Active, Moves
<1>. QED  BY <1>1, Zenon DEF Numbered

(* A job that goes on, with the processes and the pack as they are.        *)
LEMMA GoesOn ==
  ASSUME Inv, NEW j \in Active, Moves(j, job'[j].state),
         job'[j].state \in {"testing", "execution", "evidence", "reports", "done"},
         UNCHANGED <<pack, server, cli>>
  PROVE  Processes' /\ Numbered' /\ OneEach' /\ Exported'
<1>1. /\ Active' = Active /\ \A i \in Active : job'[i].owner = job[i].owner
      /\ Owned("server")' = Owned("server") /\ Owned("cli")' = Owned("cli")
  BY StillActive, Zenon
<1>2. Processes'  BY DEF Inv, Processes, Moves
<1>3. Numbered'
  <2>1. job'[j].state # "none"  OBVIOUS
  <2>. QED  BY <2>1, StillNumbered, Zenon DEF Inv
<1>4. OneEach'  BY <1>1 DEF Inv, OneEach
<1>5. Exported'  BY <1>1, Zenon DEF Inv, Exported, CliUp
<1>. QED  BY <1>2, <1>3, <1>4, <1>5

(* Its tests were asked for as they are.                                   *)
LEMMA StillAsked ==
  ASSUME Inv, NEW j \in Active, Moves(j, job'[j].state), job'[j].changed = job[j].changed
  PROVE  Asked'
<1>1. \A i \in Jobs :
        /\ job'[i].owner = job[i].owner /\ job'[i].mutations = job[i].mutations
        /\ job'[i].selected = job[i].selected /\ job'[i].confirmed = job[i].confirmed
        /\ job'[i].changed = job[i].changed
  BY DEF Moves
<1>. QED  BY <1>1, Zenon DEF Inv, Asked, SelectedTests

(* and the order of completion, too, when the clock stands.                *)
LEMMA StillOrdered ==
  ASSUME Inv, NEW j \in Active, Moves(j, job'[j].state),
         job'[j].state \in {"execution", "evidence", "reports", "done"},
         UNCHANGED <<server, completedAt>>
  PROVE  Ordered'
<1>1. Owned("server")' = Owned("server")  BY StillActive, Zenon
<1>. QED  BY <1>1, Zenon DEF Inv, Ordered

(* A process knows what it knew while no job ends.                         *)
LEMMA StillInformed ==
  ASSUME Inv, NEW j \in Active, Moves(j, job'[j].state),
         job'[j].state \in {"execution", "evidence", "reports", "done"},
         job'[j].state = "done" => job'[j].failed,
         UNCHANGED <<server, cli, report, overlap>>
  PROVE  Informed'
<1>1. Owned("cli")' = Owned("cli") /\ Active' = Active  BY StillActive, Zenon
<1>2. EndedWell' = EndedWell  BY DEF EndedWell, Moves, Active
<1>3. \A i \in Jobs : job'[i].state \in {"done", "ended"} /\ ~ job'[i].failed
                    => job[i].state \in {"done", "ended"} /\ ~ job[i].failed
  BY DEF Moves, Active
<1>4. \A i \in Jobs : job'[i].kept = job[i].kept  BY Zenon DEF Moves
<1>5. Told => Told'  BY <1>3, <1>4, Zenon DEF Told
<1>. QED  BY <1>1, <1>2, <1>5, Zenon DEF Inv, Informed, CliUp

(* Nor does what is known of the others change.                            *)
LEMMA StillRecorded ==
  ASSUME Inv, NEW j \in Active, Moves(j, job'[j].state),
         job'[j].state \in Beyond, Recorded(j)',
         executionFile' \ {j} = executionFile \ {j}, UNCHANGED <<completedAt, clock>>
  PROVE  Progress'
<1>1. ASSUME NEW i \in Jobs PROVE Fresh(i)' /\ Recorded(i)'
  <2>1. CASE i # j
    <3>1. job'[i] = job[i] /\ (i \in executionFile' <=> i \in executionFile)
      BY <2>1, Zenon DEF Moves
    <3>2. Fresh(i) /\ Recorded(i)  BY Zenon DEF Inv, Progress
    <3>. QED  BY <3>1, <3>2, Zenon DEF Fresh, Recorded
  <2>2. CASE i = j
    <3>1. job'[j].state \notin {"none", "testing"}  BY DEF Beyond
    <3>. QED  BY <2>2, <3>1, Zenon DEF Fresh
  <2>. QED  BY <2>1, <2>2, Zenon
<1>. QED  BY <1>1, Zenon DEF Inv, Progress

LEMMA ArithLess == \A a, b \in Nat : a < b => a < b + 1 /\ b # a  OBVIOUS
LEMMA ArithNext == \A a \in Nat : a > 0 => a + 1 \in Nat /\ a + 1 > 0 /\ a < a + 1 /\ a # 0  OBVIOUS

-----------------------------------------------------------------------------
LEMMA RunTestsKeeps ==
  ASSUME Inv, NEW j \in Jobs, RunTests(j)
  PROVE  Inv'
<1>1. j \in Active /\ job[j].state = "testing"  BY DEF RunTests, Active
<1>2. PICK tests \in SUBSET (SelectedTests(j) \cap Mutating) :
        /\ tests # {} => job[j].mutations
        /\ job' = [job EXCEPT ![j].state = "execution", ![j].changed = tests]
  BY Zenon DEF RunTests
<1>3. /\ completedAt' = [completedAt EXCEPT ![j] = clock] /\ clock' = clock + 1
      /\ UNCHANGED <<pack, executionFile, evidenceFile, report, server, cli, kills, overlap>>
  BY Zenon DEF RunTests, disk
<1>4. job \in [Jobs -> JobRecords] /\ completedAt \in [Jobs -> Nat] /\ clock \in Nat
  BY Zenon DEF Inv, Processes, Counters
<1>5. /\ Moves(j, "execution") /\ job'[j].state = "execution" /\ job'[j].changed = tests
      /\ job'[j].failed = job[j].failed
  <2>. DEFINE q == [job[j] EXCEPT !.state = "execution", !.changed = tests]
  <2>1. job[j] \in JobRecords /\ tests \in SUBSET Mutating  BY <1>4, Zenon
  <2>2. /\ q \in JobRecords /\ q.state = "execution" /\ q.changed = tests
        /\ q.failed = job[j].failed /\ q.owner = job[j].owner /\ q.selected = job[j].selected
        /\ q.confirmed = job[j].confirmed /\ q.mutations = job[j].mutations
        /\ q.kept = job[j].kept
    BY <2>1 DEF JobRecords, States
  <2>3. job' = [job EXCEPT ![j] = q]  BY <1>2, <1>4
  <2>. HIDE DEF q
  <2>4. Moves(j, q.state) /\ job'[j] = q  BY <2>2, <2>3, Moved, Zenon
  <2>. QED  BY <2>2, <2>4, Zenon
<1>6. Moves(j, job'[j].state)  BY <1>5, Zenon
<1>7. Processes' /\ Numbered' /\ OneEach' /\ Exported'
  <2>1. UNCHANGED <<pack, server, cli>>  BY <1>3
  <2>. QED  BY <1>1, <1>5, <1>6, <2>1, GoesOn
<1>8. Files'  BY <1>3, Zenon DEF Inv, Files
<1>9. clock > 0 /\ clock' \in Nat /\ clock' > 0 /\ clock < clock' /\ clock # 0
  <2>1. clock > 0  BY Zenon DEF Inv, Progress
  <2>. QED  BY <1>3, <1>4, <2>1, ArithNext, Zenon
<1>10. /\ completedAt' \in [Jobs -> Nat] /\ completedAt'[j] = clock
       /\ \A i \in Jobs : i # j => completedAt'[i] = completedAt[i]
  BY <1>3, <1>4
<1>11. Counters'  BY <1>3, <1>9, <1>10, Zenon DEF Inv, Counters
<1>12. completedAt[j] = 0 /\ ~ job[j].failed /\ j \notin executionFile
  BY <1>1, Zenon DEF Inv, Progress, Fresh
<1>13. Progress'
  <2>1. \A i \in Jobs : completedAt[i] < clock  BY Zenon DEF Inv, Progress
  <2>2. \A i \in Jobs : completedAt'[i] < clock'
    <3>. SUFFICES ASSUME NEW i \in Jobs PROVE completedAt'[i] < clock'  OBVIOUS
    <3>1. CASE i = j  BY <1>9, <1>10, <3>1, Zenon
    <3>2. CASE i # j
      <4>1. completedAt[i] \in Nat  BY <1>4, Zenon
      <4>. QED  BY <1>3, <1>4, <1>10, <2>1, <3>2, <4>1, ArithLess, Zenon
    <3>. QED  BY <3>1, <3>2, Zenon
  <2>3. \A i \in Jobs : i # j => clock # completedAt'[i]
    <3>. SUFFICES ASSUME NEW i \in Jobs, i # j PROVE clock # completedAt'[i]  OBVIOUS
    <3>1. completedAt[i] \in Nat  BY <1>4, Zenon
    <3>. QED  BY <1>4, <1>10, <2>1, <3>1, ArithLess, Zenon
  <2>4. \A i, k \in Jobs : completedAt'[i] = completedAt'[k] => i = k \/ completedAt'[i] = 0
    <3>. SUFFICES ASSUME NEW i \in Jobs, NEW k \in Jobs, completedAt'[i] = completedAt'[k],
                         i # k
                  PROVE  completedAt'[i] = 0
      BY Zenon
    <3>1. i # j /\ k # j  BY <1>10, <2>3, Zenon
    <3>. QED  BY <1>10, <3>1, Zenon DEF Inv, Progress
  <2>5. ASSUME NEW i \in Jobs PROVE Fresh(i)' /\ Recorded(i)'
    <3>1. CASE i # j
      <4>1. job'[i] = job[i] /\ completedAt'[i] = completedAt[i] /\ executionFile' = executionFile
        BY <1>3, <1>5, <1>10, <3>1, Zenon DEF Moves
      <4>2. Fresh(i) /\ Recorded(i)  BY Zenon DEF Inv, Progress
      <4>. QED  BY <4>1, <4>2, Zenon DEF Fresh, Recorded
    <3>2. CASE i = j
      <4>1. completedAt'[j] > 0  BY <1>9, <1>10, Zenon
      <4>2. ~ job'[j].failed  BY <1>5, <1>12, Zenon
      <4>3. j \notin executionFile'  BY <1>3, <1>12, Zenon
      <4>4. Fresh(j)'  BY <1>5 DEF Fresh
      <4>5. Recorded(j)'
        <5>1. job'[j].state \notin {"evidence", "reports"} /\ job'[j].state \notin {"done", "ended"}
          BY <1>5
        <5>. QED  BY <4>1, <4>2, <4>3, <5>1, Zenon DEF Recorded
      <4>. QED  BY <3>2, <4>4, <4>5, Zenon
    <3>. QED  BY <3>1, <3>2, Zenon
  <2>. QED  BY <1>9, <2>2, <2>4, <2>5, Zenon DEF Progress
<1>14. Asked'
  <2>. SUFFICES ASSUME NEW i \in Jobs
                PROVE  /\ job'[i].owner = "server" /\ job'[i].mutations =>
                            job'[i].selected # All /\ (job'[i].selected \in Mutating => job'[i].confirmed)
                       /\ job'[i].changed # {} =>
                            job'[i].mutations /\ job'[i].changed \subseteq SelectedTests(i)' \cap Mutating
    BY Zenon DEF Asked
  <2>1. CASE i # j
    <3>1. job'[i] = job[i]  BY <1>5, <2>1, Zenon DEF Moves
    <3>. QED  BY <3>1, Zenon DEF Inv, Asked, SelectedTests
  <2>2. CASE i = j
    <3>1. /\ job'[j].owner = job[j].owner /\ job'[j].mutations = job[j].mutations
          /\ job'[j].selected = job[j].selected /\ job'[j].confirmed = job[j].confirmed
      BY <1>5, Zenon DEF Moves
    <3>2. SelectedTests(j)' = SelectedTests(j)  BY <3>1, Zenon DEF SelectedTests
    <3>3. tests \subseteq SelectedTests(j) \cap Mutating  BY Zenon
    <3>. QED  BY <1>2, <1>5, <2>2, <3>1, <3>2, <3>3, Zenon DEF Inv, Asked
  <2>. QED  BY <2>1, <2>2, Zenon
<1>15. Ordered'
  <2>. DEFINE h == server.history
  <2>. SUFFICES ASSUME server.up
                PROVE  /\ \A a \in DOMAIN h : completedAt'[h[a]] > 0
                       /\ \A a, b \in DOMAIN h : a < b => completedAt'[h[a]] < completedAt'[h[b]]
                       /\ \A i \in Owned("server")' : completedAt'[i] # 0 =>
                            \A a \in DOMAIN h : completedAt'[h[a]] < completedAt'[i]
    BY <1>3, Zenon DEF Ordered
  <2>1. \A a \in DOMAIN h : h[a] \in Jobs
    <3>1. h \in Seq(Jobs)  BY DEF Inv, Processes, ServerRecords
    <3>. QED  BY <3>1
  <2>2. \A a \in DOMAIN h : completedAt[h[a]] > 0  BY Zenon DEF Inv, Ordered
  <2>3. ~ (0 > 0)  OBVIOUS
  <2>4. \A a \in DOMAIN h : h[a] # j  BY <1>12, <2>2, <2>3, Zenon
  <2>5. \A a \in DOMAIN h : completedAt'[h[a]] = completedAt[h[a]]  BY <1>10, <2>1, <2>4, Zenon
  <2>6. \A a, b \in DOMAIN h : a < b => completedAt[h[a]] < completedAt[h[b]]
    BY Zenon DEF Inv, Ordered
  <2>7. ASSUME NEW i \in Owned("server")', completedAt'[i] # 0, NEW a \in DOMAIN h
        PROVE  completedAt'[h[a]] < completedAt'[i]
    <3>1. Owned("server")' = Owned("server")  BY <1>1, <1>5, <1>6, StillActive
    <3>2. CASE i = j
      <4>1. completedAt[h[a]] < clock  BY <2>1, Zenon DEF Inv, Progress
      <4>. QED  BY <1>10, <2>5, <3>2, <4>1, Zenon
    <3>3. CASE i # j
      <4>1. i \in Jobs  BY <2>7, <3>1, Zenon DEF Owned, Active
      <4>2. completedAt[i] # 0  BY <1>10, <2>7, <3>3, <4>1, Zenon
      <4>3. completedAt[h[a]] < completedAt[i]  BY <2>7, <3>1, <4>2, Zenon DEF Inv, Ordered
      <4>. QED  BY <1>10, <2>5, <3>3, <4>1, <4>3, Zenon
    <3>. QED  BY <3>2, <3>3, Zenon
  <2>. QED  BY <2>2, <2>5, <2>6, <2>7, Zenon
<1>16. Informed'
  <2>1. UNCHANGED <<server, cli, report, overlap>>  BY <1>3
  <2>2. /\ job'[j].state \in {"execution", "evidence", "reports", "done"}
        /\ job'[j].state # "done"
    BY <1>5
  <2>. QED  BY <1>1, <1>6, <2>1, <2>2, StillInformed, Zenon
<1>. QED  BY <1>7, <1>8, <1>11, <1>13, <1>14, <1>15, <1>16 DEF Inv

(* Tests that are refused and a write that fails end a job in the same way.*)
LEMMA FailsKeeps ==
  ASSUME Inv, NEW j \in Jobs, RefuseTests(j) \/ WriteFails(j)
  PROVE  Inv'
<1>1. j \in Active /\ job[j].state \in {"testing", "execution", "evidence", "reports"}
  BY DEF RefuseTests, WriteFails, Active
<1>2. /\ job' = [job EXCEPT ![j].state = "done", ![j].failed = TRUE]
      /\ UNCHANGED <<pack, executionFile, evidenceFile, report, server, cli, completedAt, clock,
                     kills, overlap>>
  BY Zenon DEF RefuseTests, WriteFails, disk
<1>3. job \in [Jobs -> JobRecords]  BY Zenon DEF Inv, Processes
<1>4. Moves(j, "done") /\ job'[j].state = "done" /\ job'[j].failed /\ job'[j].changed = job[j].changed
  <2>. DEFINE q == [job[j] EXCEPT !.state = "done", !.failed = TRUE]
  <2>1. job[j] \in JobRecords  BY <1>3, Zenon
  <2>2. /\ q \in JobRecords /\ q.state = "done" /\ q.changed = job[j].changed
        /\ q.failed = TRUE /\ q.owner = job[j].owner /\ q.selected = job[j].selected
        /\ q.confirmed = job[j].confirmed /\ q.mutations = job[j].mutations
        /\ q.kept = job[j].kept
    BY <2>1 DEF JobRecords, States
  <2>3. job' = [job EXCEPT ![j] = q]  BY <1>2, <1>3
  <2>. HIDE DEF q
  <2>4. Moves(j, q.state) /\ job'[j] = q  BY <2>2, <2>3, Moved, Zenon
  <2>. QED  BY <2>2, <2>4, Zenon
<1>5. Moves(j, job'[j].state)  BY <1>4, Zenon
<1>6. Processes' /\ Numbered' /\ OneEach' /\ Exported'
  <2>1. UNCHANGED <<pack, server, cli>>  BY <1>2
  <2>. QED  BY <1>1, <1>4, <1>5, <2>1, GoesOn
<1>7. Files' /\ Counters'  BY <1>2, Zenon DEF Inv, Files, Counters
<1>8. Asked'  BY <1>1, <1>4, <1>5, StillAsked
<1>9. Progress'
  <2>1. job'[j].state \in Beyond  BY <1>4 DEF Beyond
  <2>2. j \in executionFile => completedAt[j] > 0  BY Zenon DEF Inv, Progress, Recorded
  <2>3. job'[j].state \notin {"execution", "evidence", "reports"}  BY <1>4
  <2>4. job'[j].state \notin {"evidence", "reports"}  BY <1>4
  <2>5. Recorded(j)'  BY <1>2, <1>4, <2>2, <2>3, <2>4, Zenon DEF Recorded
  <2>. QED  BY <1>1, <1>2, <1>5, <2>1, <2>5, StillRecorded, Zenon
<1>10. Ordered'
  <2>1. job'[j].state \in {"execution", "evidence", "reports", "done"}  BY <1>4
  <2>. QED  BY <1>1, <1>2, <1>5, <2>1, StillOrdered, Zenon
<1>11. Informed'
  <2>1. job'[j].state \in {"execution", "evidence", "reports", "done"}  BY <1>4
  <2>. QED  BY <1>1, <1>2, <1>4, <1>5, <2>1, StillInformed, Zenon
<1>. QED  BY <1>6, <1>7, <1>8, <1>9, <1>10, <1>11 DEF Inv

LEMMA WriteExecutionKeeps ==
  ASSUME Inv, NEW j \in Jobs, WriteExecution(j)
  PROVE  Inv'
<1>1. j \in Active /\ job[j].state = "execution"  BY DEF WriteExecution, Active
<1>2. /\ job' = [job EXCEPT ![j].state = "evidence"]
      /\ executionFile' = executionFile \cup {i \in {j} : job[i].kept}
      /\ UNCHANGED <<pack, evidenceFile, report, server, cli, completedAt, clock, kills, overlap>>
  BY Zenon DEF WriteExecution, Become
<1>3. job \in [Jobs -> JobRecords]  BY Zenon DEF Inv, Processes
<1>4. /\ Moves(j, "evidence") /\ job'[j].state = "evidence" /\ job'[j].failed = job[j].failed
      /\ job'[j].changed = job[j].changed
  <2>1. "evidence" \in States  BY DEF States
  <2>. QED  BY <1>2, <2>1, MovedOn, Zenon
<1>5. Moves(j, job'[j].state)  BY <1>4, Zenon
<1>6. Processes' /\ Numbered' /\ OneEach' /\ Exported'
  <2>1. UNCHANGED <<pack, server, cli>>  BY <1>2
  <2>. QED  BY <1>1, <1>4, <1>5, <2>1, GoesOn
<1>7. Files' /\ Counters'
  <2>1. executionFile' \subseteq Jobs  BY <1>2 DEF Inv, Files
  <2>. QED  BY <1>2, <2>1, Zenon DEF Inv, Files, Counters
<1>8. Asked'  BY <1>1, <1>4, <1>5, StillAsked
<1>9. Progress'
  <2>1. job'[j].state \in Beyond  BY <1>4 DEF Beyond
  <2>2. job[j].state \in {"execution", "evidence", "reports"}  BY <1>1
  <2>3. completedAt[j] > 0  BY <2>2, Zenon DEF Inv, Progress, Recorded
  <2>4. ~ job'[j].failed  BY <1>4, <2>2, Zenon DEF Inv, Progress, Recorded
  <2>5. /\ job'[j].kept => j \in executionFile'
        /\ executionFile' \ {j} = executionFile \ {j}
    <3>1. job'[j].kept = job[j].kept  BY <1>4, Zenon DEF Moves
    <3>. QED  BY <1>2, <3>1
  <2>6. Recorded(j)'  BY <1>2, <2>3, <2>4, <2>5, Zenon DEF Recorded
  <2>. QED  BY <1>1, <1>2, <1>5, <2>1, <2>5, <2>6, StillRecorded, Zenon
<1>10. Ordered'
  <2>1. job'[j].state \in {"execution", "evidence", "reports", "done"}  BY <1>4
  <2>. QED  BY <1>1, <1>2, <1>5, <2>1, StillOrdered, Zenon
<1>11. Informed'
  <2>1. /\ job'[j].state \in {"execution", "evidence", "reports", "done"}
        /\ job'[j].state # "done"
    BY <1>4
  <2>. QED  BY <1>1, <1>2, <1>5, <2>1, StillInformed, Zenon
<1>. QED  BY <1>6, <1>7, <1>8, <1>9, <1>10, <1>11 DEF Inv

LEMMA WriteEvidenceKeeps ==
  ASSUME Inv, NEW j \in Jobs, WriteEvidence(j)
  PROVE  Inv'
<1>1. j \in Active /\ job[j].state = "evidence"  BY DEF WriteEvidence, Active
<1>2. /\ job' = [job EXCEPT ![j].state = "reports"]
      /\ evidenceFile' = [evidenceFile EXCEPT ![j] = IF job[j].kept THEN "whole" ELSE @]
      /\ UNCHANGED <<pack, executionFile, report, server, cli, completedAt, clock, kills, overlap>>
  BY Zenon DEF WriteEvidence, Become
<1>3. job \in [Jobs -> JobRecords]  BY Zenon DEF Inv, Processes
<1>4. /\ Moves(j, "reports") /\ job'[j].state = "reports" /\ job'[j].failed = job[j].failed
      /\ job'[j].changed = job[j].changed
  <2>1. "reports" \in States  BY DEF States
  <2>. QED  BY <1>2, <2>1, MovedOn, Zenon
<1>5. Moves(j, job'[j].state)  BY <1>4, Zenon
<1>6. Processes' /\ Numbered' /\ OneEach' /\ Exported'
  <2>1. UNCHANGED <<pack, server, cli>>  BY <1>2
  <2>. QED  BY <1>1, <1>4, <1>5, <2>1, GoesOn
<1>7. Files' /\ Counters'
  <2>1. evidenceFile' \in [Jobs -> {"absent", "whole"}]  BY <1>2 DEF Inv, Files
  <2>. QED  BY <1>2, <2>1, Zenon DEF Inv, Files, Counters
<1>8. Asked'  BY <1>1, <1>4, <1>5, StillAsked
<1>9. Progress'
  <2>1. job'[j].state \in Beyond  BY <1>4 DEF Beyond
  <2>3. job[j].state \in {"execution", "evidence", "reports"} /\ job[j].state \in {"evidence", "reports"}
    BY <1>1
  <2>2. completedAt[j] > 0  BY <2>3, Zenon DEF Inv, Progress, Recorded
  <2>4. ~ job'[j].failed /\ (job'[j].kept => j \in executionFile')
    <3>1. job'[j].kept = job[j].kept  BY <1>4, Zenon DEF Moves
    <3>. QED  BY <1>2, <1>4, <2>3, <3>1, Zenon DEF Inv, Progress, Recorded
  <2>5. Recorded(j)'  BY <1>2, <2>2, <2>4, Zenon DEF Recorded
  <2>. QED  BY <1>1, <1>2, <1>5, <2>1, <2>5, StillRecorded, Zenon
<1>10. Ordered'
  <2>1. job'[j].state \in {"execution", "evidence", "reports", "done"}  BY <1>4
  <2>. QED  BY <1>1, <1>2, <1>5, <2>1, StillOrdered, Zenon
<1>11. Informed'
  <2>1. /\ job'[j].state \in {"execution", "evidence", "reports", "done"}
        /\ job'[j].state # "done"
    BY <1>4
  <2>. QED  BY <1>1, <1>2, <1>5, <2>1, StillInformed, Zenon
<1>. QED  BY <1>6, <1>7, <1>8, <1>9, <1>10, <1>11 DEF Inv

LEMMA WriteReportsKeeps ==
  ASSUME Inv, NEW j \in Jobs, WriteReports(j)
  PROVE  Inv'
<1>1. j \in Active /\ job[j].state = "reports"  BY DEF WriteReports, Active
<1>2. /\ job' = [job EXCEPT ![j].state = "done"] /\ report' = Updated(j)
      /\ UNCHANGED <<pack, executionFile, evidenceFile, server, cli, completedAt, clock, kills,
                     overlap>>
  BY Zenon DEF WriteReports, Become
<1>3. job \in [Jobs -> JobRecords] /\ server \in ServerRecords /\ cli \in [Jobs -> Seq(Jobs)]
  BY Zenon DEF Inv, Processes
<1>4. /\ Moves(j, "done") /\ job'[j].state = "done" /\ job'[j].failed = job[j].failed
      /\ job'[j].changed = job[j].changed
  <2>1. "done" \in States  BY DEF States
  <2>. QED  BY <1>2, <2>1, MovedOn, Zenon
<1>5. Moves(j, job'[j].state)  BY <1>4, Zenon
<1>6. Processes' /\ Numbered' /\ OneEach' /\ Exported'
  <2>1. UNCHANGED <<pack, server, cli>>  BY <1>2
  <2>. QED  BY <1>1, <1>4, <1>5, <2>1, GoesOn
<1>7. Files' /\ Counters'
  <2>1. server.history \in Seq(Jobs)  BY <1>3 DEF ServerRecords
  <2>2. ToSet(server.history) \subseteq Jobs /\ ToSet(cli[j]) \subseteq Jobs
    <3>1. cli[j] \in Seq(Jobs)  BY <1>3
    <3>. QED  BY <2>1, <3>1 DEF ToSet
  <2>3. report' \subseteq Jobs  BY <1>2, <2>2 DEF Updated
  <2>. QED  BY <1>2, <2>3, Zenon DEF Inv, Files, Counters
<1>8. Asked'  BY <1>1, <1>4, <1>5, StillAsked
<1>9. Progress'
  <2>1. job'[j].state \in Beyond  BY <1>4 DEF Beyond
  <2>2. job[j].state \in {"execution", "evidence", "reports"} /\ job[j].state \in {"evidence", "reports"}
    BY <1>1
  <2>3. completedAt[j] > 0  BY <2>2, Zenon DEF Inv, Progress, Recorded
  <2>4. job'[j].kept => j \in executionFile'
    <3>1. job'[j].kept = job[j].kept  BY <1>4, Zenon DEF Moves
    <3>. QED  BY <1>2, <2>2, <3>1, Zenon DEF Inv, Progress, Recorded
  <2>5. job'[j].state \notin {"execution", "evidence", "reports"}  BY <1>4
  <2>6. Recorded(j)'  BY <1>2, <2>3, <2>4, <2>5, Zenon DEF Recorded
  <2>. QED  BY <1>1, <1>2, <1>5, <2>1, <2>6, StillRecorded, Zenon
<1>10. Ordered'
  <2>1. job'[j].state \in {"execution", "evidence", "reports", "done"}  BY <1>4
  <2>. QED  BY <1>1, <1>2, <1>5, <2>1, StillOrdered, Zenon
<1>11. Informed'
  <2>. SUFFICES ASSUME ~ overlap
                PROVE  /\ \A i, k \in Active' : i = k
                       /\ server.up => ~ CliUp' /\ EndedWell' \subseteq ToSet(server.history)
                       /\ \A i \in Owned("cli")' : EndedWell' \subseteq ToSet(cli[i])
                       /\ Told'
    BY <1>2, Zenon DEF Informed
  <2>1. Owned("cli")' = Owned("cli") /\ Active' = Active
    <3>1. job'[j].state \in {"testing", "execution", "evidence", "reports", "done"}  BY <1>4
    <3>. QED  BY <1>1, <1>5, <3>1, StillActive, Zenon
  <2>2. CliUp' = CliUp  BY <2>1, Zenon DEF CliUp
  <2>3. EndedWell' = EndedWell  BY <1>1, <1>4 DEF EndedWell, Moves
  <2>4. \A i, k \in Active : i = k  BY Zenon DEF Inv, Informed
  <2>5. ASSUME NEW i \in Jobs, job'[i].state \in {"done", "ended"}, ~ job'[i].failed, job'[i].kept
        PROVE  i \in report'
    <3>1. CASE i = j  BY <1>2, <3>1 DEF Updated
    <3>2. CASE i # j
      <4>1. job'[i] = job[i]  BY <1>4, <3>2, Zenon DEF Moves
      <4>2. i \notin Active  BY <1>1, <2>4, <3>2, Zenon
      <4>3. job[i].state = "ended"  BY <2>5, <4>1, <4>2 DEF Active
      <4>4. i \in EndedWell  BY <2>5, <4>1, <4>3 DEF EndedWell
      <4>5. CASE job[j].owner = "server"
        <5>1. server.up  BY <1>1, <4>5 DEF Inv, OneEach, Owned
        <5>2. i \in ToSet(server.history)  BY <4>4, <5>1 DEF Inv, Informed
        <5>. QED  BY <1>2, <4>5, <5>2 DEF Updated
      <4>6. CASE job[j].owner # "server"
        <5>1. job[j].owner = "cli"  BY <1>1, <4>6 DEF Inv, OneEach
        <5>2. j \in Owned("cli")  BY <1>1, <5>1 DEF Owned
        <5>3. i \in ToSet(cli[j])  BY <4>4, <5>2 DEF Inv, Informed
        <5>. QED  BY <1>2, <4>6, <5>3 DEF Updated
      <4>. QED  BY <4>5, <4>6, Zenon
    <3>. QED  BY <3>1, <3>2, Zenon
  <2>6. Told'  BY <2>5, Zenon DEF Told
  <2>. QED  BY <2>1, <2>2, <2>3, <2>6, Zenon DEF Inv, Informed
<1>. QED  BY <1>6, <1>7, <1>8, <1>9, <1>10, <1>11 DEF Inv

LEMMA ToSetAppend ==
  ASSUME NEW S, NEW h \in Seq(S), NEW x \in S
  PROVE  ToSet(Append(h, x)) = ToSet(h) \cup {x}
<1>. DEFINE l == Append(h, x)
<1>1. /\ DOMAIN h = 1 .. Len(h) /\ DOMAIN l = 1 .. Len(h) + 1 /\ Len(h) \in Nat
      /\ \A a \in DOMAIN h : l[a] = h[a]
      /\ l[Len(h) + 1] = x
  OBVIOUS
<1>. HIDE DEF l
<1>2. /\ \A a \in DOMAIN l : a \in DOMAIN h \/ a = Len(h) + 1
      /\ \A a \in DOMAIN h : a \in DOMAIN l
      /\ Len(h) + 1 \in DOMAIN l
  BY <1>1
<1>. QED  BY <1>1, <1>2, Zenon DEF ToSet, l

LEMMA FinishKeeps ==
  ASSUME Inv, NEW j \in Jobs, Finish(j)
  PROVE  Inv'
<1>1. j \in Active /\ job[j].state = "done"  BY DEF Finish, Active
<1>2. /\ job' = [job EXCEPT ![j].state = "ended"]
      /\ UNCHANGED <<pack, executionFile, evidenceFile, report, cli, completedAt, clock, kills,
                     overlap>>
  BY Zenon DEF Finish, Become, disk
<1>3. job \in [Jobs -> JobRecords] /\ server \in ServerRecords
  BY Zenon DEF Inv, Processes
<1>4. /\ Moves(j, "ended") /\ job'[j].state = "ended" /\ job'[j].failed = job[j].failed
      /\ job'[j].changed = job[j].changed
  <2>1. "ended" \in States  BY DEF States
  <2>. QED  BY <1>2, <2>1, MovedOn, Zenon
<1>5. Moves(j, job'[j].state)  BY <1>4, Zenon
<1>6. job[j].owner \in {"server", "cli"}  BY <1>1, Zenon DEF Inv, OneEach
<1>7. Active' = Active \ {j} /\ \A i \in Active : job'[i].owner = job[i].owner
  BY <1>1, <1>4 DEF Active, Moves
<1>8. server.history \in Seq(Jobs)  BY <1>3 DEF ServerRecords
<1>9. /\ server'.up = server.up
      /\ job[j].owner = "cli" => server' = server
      /\ job[j].owner = "server" =>
           /\ ~ server'.running
           /\ server'.history = IF completedAt[j] = 0 THEN server.history
                                ELSE Append(server.history, j)
      /\ server' \in ServerRecords
  <2>1. CASE job[j].owner = "cli"  BY <1>3, <2>1 DEF Finish
  <2>2. CASE job[j].owner = "server"
    <3>. DEFINE h == IF completedAt[j] = 0 THEN server.history ELSE Append(server.history, j)
    <3>1. server' = [server EXCEPT !.running = FALSE, !.lastErr = job[j].failed, !.history = h]
      <4>1. server' = [server EXCEPT !.running = FALSE, !.lastErr = job[j].failed,
                         !.history = IF completedAt[j] = 0 THEN @ ELSE Append(@, j)]
        BY <2>2, Zenon DEF Finish, StillRunning
      <4>. QED  BY <4>1
    <3>2. job[j].failed \in BOOLEAN  BY <1>3 DEF JobRecords
    <3>3. h \in Seq(Jobs)
      <4>1. Append(server.history, j) \in Seq(Jobs)  BY <1>8
      <4>. QED  BY <1>8, <4>1, Zenon
    <3>. HIDE DEF h
    <3>4. /\ server'.up = server.up /\ server'.running = FALSE
          /\ server'.history = h /\ server' \in ServerRecords
      BY <1>3, <3>1, <3>2, <3>3 DEF ServerRecords
    <3>. QED  BY <2>2, <3>4, Zenon DEF h
  <2>. QED  BY <1>6, <2>1, <2>2
<1>10. Processes'  BY <1>2, <1>4, <1>9, Zenon DEF Inv, Processes, Moves
<1>11. Files' /\ Counters'  BY <1>2, Zenon DEF Inv, Files, Counters
<1>12. Numbered'
  <2>1. job'[j].state # "none"  BY <1>4
  <2>. QED  BY <1>1, <1>5, <2>1, StillNumbered, Zenon DEF Inv
<1>13. Asked'  BY <1>1, <1>4, <1>5, StillAsked
<1>14. Progress'
  <2>1. job'[j].state \in Beyond  BY <1>4 DEF Beyond
  <2>2. j \in executionFile => completedAt[j] > 0  BY Zenon DEF Inv, Progress, Recorded
  <2>3. job[j].state \in {"done", "ended"}  BY <1>1
  <2>4. job'[j].state \notin {"execution", "evidence", "reports"}
        /\ job'[j].state \notin {"evidence", "reports"}
    BY <1>4
  <2>5. ~ job'[j].failed /\ job'[j].kept => j \in executionFile'
    <3>1. job'[j].kept = job[j].kept  BY <1>4, Zenon DEF Moves
    <3>. QED  BY <1>2, <1>4, <2>3, <3>1, Zenon DEF Inv, Progress, Recorded
  <2>6. Recorded(j)'  BY <1>2, <2>2, <2>4, <2>5, Zenon DEF Recorded
  <2>. QED  BY <1>1, <1>2, <1>5, <2>1, <2>6, StillRecorded, Zenon
(* Whose job it was. *)
<1>15. /\ Owned("cli")' \subseteq Owned("cli")
       /\ job[j].owner = "cli" => Owned("server")' = Owned("server")
       /\ job[j].owner = "server" => Owned("server")' = {}
  <2>1. \A i : /\ i \in Owned("server")' <=> i \in Owned("server") /\ i # j
               /\ i \in Owned("cli")' <=> i \in Owned("cli") /\ i # j
    BY <1>7 DEF Owned
  <2>2. job[j].owner = "cli" => j \notin Owned("server")  BY DEF Owned
  <2>3. job[j].owner = "server" => j \in Owned("server")  BY <1>1 DEF Owned
  <2>4. \A i, k \in Owned("server") : i = k  BY Zenon DEF Inv, OneEach
  <2>. HIDE DEF Owned
  <2>. QED  BY <2>1, <2>2, <2>3, <2>4
<1>16. OneEach'
  <2>1. \A i, k \in Owned("server")' : i = k
    BY <1>6, <1>15, Zenon DEF Inv, OneEach
  <2>2. \A i \in Active' : job'[i].owner \in {"server", "cli"}
    BY <1>7, Zenon DEF Inv, OneEach
  <2>3. CASE job[j].owner = "cli"
    BY <1>9, <1>15, <2>1, <2>2, <2>3, Zenon DEF Inv, OneEach
  <2>4. CASE job[j].owner = "server"
    BY <1>9, <1>15, <2>1, <2>2, <2>4, Zenon DEF Inv, OneEach
  <2>. QED  BY <1>6, <2>3, <2>4
<1>17. Exported'
  <2>1. CliUp' => CliUp
    <3>. HIDE DEF Owned
    <3>. QED  BY <1>15 DEF CliUp
  <2>. QED  BY <1>2, <1>9, <2>1, Zenon DEF Inv, Exported
<1>18. Ordered'
  <2>1. CASE job[j].owner = "cli"
    BY <1>2, <1>9, <1>15, <2>1, Zenon DEF Inv, Ordered
  <2>2. CASE job[j].owner = "server" /\ completedAt[j] = 0
    BY <1>2, <1>9, <1>15, <2>2, Zenon DEF Inv, Ordered
  <2>3. CASE job[j].owner = "server" /\ completedAt[j] # 0
    <3>. DEFINE h == server.history
                l == server'.history
    <3>. SUFFICES ASSUME server.up
                  PROVE  /\ \A a \in DOMAIN l : completedAt[l[a]] > 0
                         /\ \A a, b \in DOMAIN l : a < b => completedAt[l[a]] < completedAt[l[b]]
      BY <1>2, <1>9, <1>15, <2>3, Zenon DEF Ordered
    <3>1. j \in Owned("server")  BY <1>1, <2>3 DEF Owned
    <3>2. \A a \in DOMAIN h : completedAt[h[a]] < completedAt[j]
      BY <2>3, <3>1, Zenon DEF Inv, Ordered
    <3>3. completedAt[j] > 0
      <4>1. completedAt[j] \in Nat  BY Zenon DEF Inv, Counters
      <4>. QED  BY <2>3, <4>1
    <3>4. l = Append(h, j)  BY <1>9, <2>3, Zenon
    <3>5. /\ \A a \in DOMAIN h : completedAt[h[a]] > 0
          /\ \A a, b \in DOMAIN h : a < b => completedAt[h[a]] < completedAt[h[b]]
      BY Zenon DEF Inv, Ordered
    <3>6. /\ DOMAIN h = 1 .. Len(h) /\ DOMAIN l = 1 .. Len(h) + 1 /\ Len(h) \in Nat
          /\ \A a \in DOMAIN h : l[a] = h[a]
          /\ l[Len(h) + 1] = j
      BY <1>8, <3>4
    <3>7. /\ \A a \in DOMAIN l : a \in DOMAIN h \/ a = Len(h) + 1
          /\ \A a, b \in DOMAIN l : a < b => a \in DOMAIN h
      <4>. HIDE DEF h, l
      <4>. QED  BY <3>6
    <3>. HIDE DEF h, l
    <3>8. \A a \in DOMAIN l : completedAt[l[a]] > 0  BY <3>3, <3>5, <3>6, <3>7, Zenon
    <3>9. ASSUME NEW a \in DOMAIN l, NEW b \in DOMAIN l, a < b
          PROVE  completedAt[l[a]] < completedAt[l[b]]
      <4>1. a \in DOMAIN h /\ l[a] = h[a]  BY <3>6, <3>7, <3>9, Zenon
      <4>2. CASE b \in DOMAIN h  BY <3>5, <3>6, <3>9, <4>1, <4>2, Zenon
      <4>3. CASE b = Len(h) + 1  BY <3>2, <3>6, <4>1, <4>3, Zenon
      <4>. QED  BY <3>7, <4>2, <4>3, Zenon
    <3>. QED  BY <3>8, <3>9, Zenon
  <2>. QED  BY <1>6, <2>1, <2>2, <2>3
<1>19. Informed'
  <2>. SUFFICES ASSUME ~ overlap
                PROVE  /\ \A i, k \in Active' : i = k
                       /\ server.up => ~ CliUp' /\ EndedWell' \subseteq ToSet(server'.history)
                       /\ \A i \in Owned("cli")' : EndedWell' \subseteq ToSet(cli[i])
                       /\ Told'
    BY <1>2, <1>9, Zenon DEF Informed
  <2>1. EndedWell' \subseteq EndedWell \cup {i \in {j} : job[i].kept /\ ~ job[i].failed}
    BY <1>4 DEF EndedWell, Moves
  <2>2. Active' = {}
    <3>1. \A i, k \in Active : i = k  BY Zenon DEF Inv, Informed
    <3>. HIDE DEF Active
    <3>. QED  BY <1>1, <1>7, <3>1
  <2>3. CliUp' = FALSE /\ Owned("cli")' = {}  BY <2>2 DEF CliUp, Owned
  <2>4. Told'
    <3>1. \A i \in Jobs : job'[i].state \in {"done", "ended"} => job[i].state \in {"done", "ended"}
      BY <1>1, <1>4 DEF Moves
    <3>2. \A i \in Jobs : job'[i].failed = job[i].failed /\ job'[i].kept = job[i].kept
      BY <1>4, Zenon DEF Moves
    <3>. QED  BY <1>2, <3>1, <3>2, Zenon DEF Inv, Informed, Told
  <2>5. ASSUME server.up PROVE EndedWell' \subseteq ToSet(server'.history)
    <3>1. ~ CliUp /\ EndedWell \subseteq ToSet(server.history)
      BY <2>5, Zenon DEF Inv, Informed
    <3>2. job[j].owner = "server"
      <4>1. job[j].owner = "cli" => j \in Owned("cli")  BY <1>1 DEF Owned
      <4>. QED  BY <1>6, <3>1, <4>1 DEF CliUp
    <3>3. CASE completedAt[j] # 0
      <4>1. server'.history = Append(server.history, j)  BY <1>9, <3>2, <3>3, Zenon
      <4>. DEFINE h == server.history
      <4>2. h \in Seq(Jobs)  BY <1>8
      <4>. HIDE DEF h
      <4>3. ToSet(Append(h, j)) = ToSet(h) \cup {j}  BY <4>2, ToSetAppend
      <4>4. ToSet(server'.history) = ToSet(server.history) \cup {j}  BY <4>1, <4>3, Zenon DEF h
      <4>. QED  BY <2>1, <3>1, <4>4
    <3>4. CASE completedAt[j] = 0
      <4>1. server'.history = server.history  BY <1>9, <3>2, <3>4, Zenon
      <4>2. j \notin executionFile
        <5>1. ~ (0 > 0)  OBVIOUS
        <5>. QED  BY <3>4, <5>1, Zenon DEF Inv, Progress, Recorded
      <4>3. ~ (job[j].kept /\ ~ job[j].failed)
        <5>1. job[j].state \in {"done", "ended"}  BY <1>1
        <5>. QED  BY <4>2, <5>1, Zenon DEF Inv, Progress, Recorded
      <4>. QED  BY <2>1, <3>1, <4>1, <4>3
    <3>. QED  BY <3>3, <3>4, Zenon
  <2>. QED  BY <2>2, <2>3, <2>4, <2>5, Zenon
<1>. QED  BY <1>10, <1>11, <1>12, <1>13, <1>14, <1>16, <1>17, <1>18, <1>19 DEF Inv

LEMMA ArithUp == \A n \in Nat : n < 5 => n + 1 \in 0 .. 5 /\ n + 1 \in 1 .. 5  OBVIOUS

LEMMA ExportKeeps ==
  ASSUME Inv, Export
  PROVE  Inv'
<1>1. UNCHANGED <<executionFile, evidenceFile, report, server, cli, job, completedAt, clock, kills,
                  overlap>>
  BY DEF Export, disk
<1>2. PICK n \in 0 .. 5 : pack = {ExportOrder[i] : i \in 1 .. n}  BY DEF Inv, Exported
<1>3. Cardinality(pack) = n  BY <1>2, FirstFiles, Zenon
<1>4. n < 5 /\ pack' = pack \cup {ExportOrder[n + 1]}
  <2>1. Cardinality(pack) < Len(ExportOrder) /\ pack' = pack \cup {ExportOrder[Cardinality(pack) + 1]}
    BY Zenon DEF Export
  <2>. QED  BY <1>3, <2>1, ExportFacts
<1>5. n + 1 \in 0 .. 5  BY <1>4
<1>6. pack' = {ExportOrder[i] : i \in 1 .. n + 1}
  <2>1. \A i : i \in 1 .. n + 1 <=> i \in 1 .. n \/ i = n + 1  OBVIOUS
  <2>. QED  BY <1>2, <1>4, <2>1, Zenon
<1>7. pack' \subseteq ToSet(ExportOrder)  BY <1>5, <1>6, FirstFiles, Zenon
<1>8. Exported'
  <2>1. "lock" \in pack => "lock" \in pack'  BY <1>4, Zenon
  <2>. QED  BY <1>1, <1>5, <1>6, <2>1, Zenon DEF Inv, Exported, CliUp, Owned, Active
<1>9. Files' /\ Processes' /\ Counters'
  BY <1>1, <1>7, Zenon DEF Inv, Files, Processes, Counters
<1>10. Numbered' /\ Progress'
  BY <1>1, Zenon DEF Inv, Numbered, Progress, Fresh, Recorded
<1>11. Asked'  BY <1>1, Zenon DEF Inv, Asked, SelectedTests
<1>12. OneEach' /\ Ordered'  BY <1>1, Zenon DEF Inv, OneEach, Ordered, Owned, Active
<1>13. Informed'  BY <1>1, Zenon DEF Inv, Informed, Told, EndedWell, CliUp, Owned, Active
<1>. QED  BY <1>8, <1>9, <1>10, <1>11, <1>12, <1>13 DEF Inv

LEMMA ServeKeeps ==
  ASSUME ServerAssumption, Inv, Serve
  PROVE  Inv'
<1>1. /\ ~ server.up /\ Loadable /\ overlap' = (overlap \/ CliUp)
      /\ UNCHANGED <<pack, executionFile, evidenceFile, report, cli, job, completedAt, clock, kills>>
  BY Zenon DEF Serve, disk
<1>2. PICK allowed \in BOOLEAN :
        server' = [up |-> TRUE, mutations |-> allowed, running |-> FALSE, lastErr |-> FALSE,
                   history |-> LoadHistory]
  BY Zenon DEF Serve
<1>3. /\ LoadHistory \in Seq(Jobs) /\ ToSet(LoadHistory) = executionFile
      /\ InOrder(LoadHistory, completedAt)
  BY History, Zenon
<1>4. server'.up /\ ~ server'.running /\ server'.history = LoadHistory /\ server' \in ServerRecords
  BY <1>2, <1>3 DEF ServerRecords
<1>5. /\ Active' = Active /\ Owned("server")' = Owned("server") /\ CliUp' = CliUp
      /\ EndedWell' = EndedWell
  BY <1>1, Zenon DEF Active, Owned, CliUp, EndedWell
<1>6. Owned("server") = {}  BY <1>1, Zenon DEF Inv, OneEach
<1>7. Files' /\ Processes' /\ Counters'
  BY <1>1, <1>4, Zenon DEF Inv, Files, Processes, Counters
<1>8. Numbered' /\ Progress'
  BY <1>1, Zenon DEF Inv, Numbered, Progress, Fresh, Recorded
<1>9. Asked'  BY <1>1, Zenon DEF Inv, Asked, SelectedTests
<1>10. OneEach'  BY <1>1, <1>4, <1>5, <1>6, Zenon DEF Inv, OneEach
<1>11. Ordered'
  <2>1. \A a \in DOMAIN LoadHistory : completedAt[LoadHistory[a]] > 0
    <3>1. \A a \in DOMAIN LoadHistory : LoadHistory[a] \in executionFile /\ LoadHistory[a] \in Jobs
      BY <1>3 DEF ToSet
    <3>. QED  BY <3>1, Zenon DEF Inv, Progress, Recorded
  <2>. QED  BY <1>1, <1>3, <1>4, <1>5, <1>6, <2>1, Zenon DEF Ordered, InOrder
<1>12. Informed'
  <2>1. EndedWell \subseteq executionFile
    <3>1. \A j \in EndedWell :
            j \in Jobs /\ job[j].state \in {"done", "ended"} /\ ~ job[j].failed /\ job[j].kept
      BY DEF EndedWell
    <3>. QED  BY <3>1, Zenon DEF Inv, Progress, Recorded
  <2>2. Told' <=> Told  BY <1>1, Zenon DEF Told
  <2>3. Owned("cli")' = Owned("cli")  BY <1>1, Zenon DEF Owned, Active
  <2>. QED  BY <1>1, <1>3, <1>4, <1>5, <2>1, <2>2, <2>3, Zenon DEF Inv, Informed
<1>13. Exported'  BY <1>1, Zenon DEF Inv, Exported, Loadable
<1>. QED  BY <1>7, <1>8, <1>9, <1>10, <1>11, <1>12, <1>13 DEF Inv

(* A job starts: the one after the last, which is fresh.                   *)
Begins(m, by) ==
  /\ m \in Jobs /\ job[m].state = "none"
  /\ job' \in [Jobs -> JobRecords]
  /\ \A i \in Jobs : i # m => job'[i] = job[i]
  /\ job'[m].state = "testing" /\ job'[m].owner = by
  /\ job'[m].changed = {} /\ ~ job'[m].failed

BegunAs(by, selected, confirm, mutations) ==
  \E m \in Jobs : /\ Begins(m, by) /\ job'[m].selected = selected
                  /\ job'[m].confirmed = confirm /\ job'[m].mutations = mutations

LEMMA StartBegins ==
  ASSUME ServerAssumption, Inv, NEW by \in {"server", "cli"}, NEW selected \in Tests \cup {All},
         NEW confirm \in BOOLEAN, NEW mutations \in BOOLEAN, NEW kept \in BOOLEAN,
         Start(by, selected, confirm, mutations, kept)
  PROVE  Numbered' /\ BegunAs(by, selected, confirm, mutations)
<1>1. MaxJobs \in Nat /\ job \in [Jobs -> JobRecords]
  BY JobsFinite, Zenon DEF Inv, Processes
<1>2. PICK n \in 0 .. MaxJobs : {j \in Jobs : job[j].state # "none"} = 1 .. n
  BY Zenon DEF Inv, Numbered
<1>3. n \in Nat /\ (IF 1 > n THEN 0 ELSE n - 1 + 1) = n /\ 1 \in Int /\ n \in Int  BY <1>1
<1>4. Started = n  BY <1>2, <1>3, FS_Interval, Zenon DEF Started
<1>5. Started < MaxJobs  BY Zenon DEF Start
<1>6. n + 1 \in Jobs /\ n + 1 \notin 1 .. n /\ n + 1 \in 0 .. MaxJobs
      /\ \A i : i \in 1 .. n + 1 <=> i \in 1 .. n \/ i = n + 1
  BY <1>1, <1>3, <1>4, <1>5 DEF Jobs
<1>. DEFINE m == n + 1
            new == [state |-> "testing", owner |-> by, selected |-> selected,
                    confirmed |-> confirm, mutations |-> mutations, kept |-> kept,
                    changed |-> {}, failed |-> FALSE]
<1>7. job' = [job EXCEPT ![m] = new]  BY <1>4, Zenon DEF Start
<1>8. new \in JobRecords  BY DEF JobRecords, States
<1>9. m \in Jobs /\ m \notin 1 .. n /\ \A i : i \in 1 .. m <=> i \in 1 .. n \/ i = m
  BY <1>6, Zenon
<1>10. m \in 0 .. MaxJobs  BY <1>6, Zenon
<1>11. /\ new.state = "testing" /\ new.owner = by /\ new.changed = {} /\ new.failed = FALSE
       /\ new.selected = selected /\ new.confirmed = confirm /\ new.mutations = mutations
  OBVIOUS
<1>. HIDE DEF m, new
<1>12. job' \in [Jobs -> JobRecords] /\ job'[m] = new /\ \A i \in Jobs : i # m => job'[i] = job[i]
  BY <1>1, <1>7, <1>8, <1>9
<1>13. job[m].state = "none"  BY <1>2, <1>9
<1>14. {j \in Jobs : job'[j].state # "none"} = 1 .. m
  <2>1. \A i \in Jobs : i # m => (job'[i].state # "none" <=> i \in 1 .. n)  BY <1>2, <1>12
  <2>2. job'[m].state # "none"  BY <1>11, <1>12
  <2>3. \A i \in 1 .. n : i \in Jobs  BY <1>2
  <2>. QED  BY <1>9, <2>1, <2>2, <2>3
<1>15. Numbered'  BY <1>10, <1>14, Zenon DEF Numbered
<1>16. Begins(m, by)  BY <1>9, <1>11, <1>12, <1>13, Zenon DEF Begins
<1>17. BegunAs(by, selected, confirm, mutations)
  BY <1>9, <1>11, <1>12, <1>16, Zenon DEF BegunAs
<1>. QED  BY <1>15, <1>17

(* What that leaves as it was.                                             *)
LEMMA BeginKeeps ==
  ASSUME Inv, NEW by \in {"server", "cli"}, NEW m \in Jobs, Begins(m, by),
         UNCHANGED <<executionFile, completedAt, clock>>
  PROVE  /\ Progress' /\ EndedWell' = EndedWell
         /\ m \notin Active /\ Active' = Active \cup {m}
         /\ \A i \in Active : job'[i] = job[i]
         /\ \A i \in Jobs : job'[i].state \in {"done", "ended"} => job'[i] = job[i]
         /\ completedAt[m] = 0 /\ (Told /\ UNCHANGED report => Told')
<1>1. Progress'
  <2>1. ASSUME NEW i \in Jobs PROVE Fresh(i)' /\ Recorded(i)'
    <3>1. CASE i # m
      <4>1. job'[i] = job[i]  BY <3>1, Zenon DEF Begins
      <4>. QED  BY <4>1, Zenon DEF Inv, Progress, Fresh, Recorded
    <3>2. CASE i = m
      <4>1. job[m].state \in {"none", "testing"}  BY DEF Begins
      <4>2. completedAt[m] = 0 /\ m \notin executionFile
        BY <4>1, Zenon DEF Inv, Progress, Fresh
      <4>3. /\ job'[m].state \notin Beyond /\ job'[m].state \notin {"execution", "evidence", "reports"}
            /\ job'[m].state \notin {"evidence", "reports"} /\ job'[m].state \notin {"done", "ended"}
        BY DEF Begins, Beyond
      <4>4. job'[m].changed = {} /\ ~ job'[m].failed  BY Zenon DEF Begins
      <4>. QED  BY <3>2, <4>2, <4>3, <4>4, Zenon DEF Fresh, Recorded
    <3>. QED  BY <3>1, <3>2, Zenon
  <2>. QED  BY <2>1, Zenon DEF Inv, Progress
<1>2. EndedWell' = EndedWell  BY DEF EndedWell, Begins
<1>3. m \notin Active /\ Active' = Active \cup {m}  BY DEF Active, Begins
<1>4. \A i \in Active : job'[i] = job[i]  BY <1>3, Zenon DEF Begins, Active
<1>5. \A i \in Jobs : job'[i].state \in {"done", "ended"} => job'[i] = job[i]  BY DEF Begins
<1>6. completedAt[m] = 0
  <2>1. job[m].state \in {"none", "testing"}  BY DEF Begins
  <2>. QED  BY <2>1, Zenon DEF Inv, Progress, Fresh
<1>7. Told /\ UNCHANGED report => Told'  BY <1>5, Zenon DEF Told
<1>. QED  BY <1>1, <1>2, <1>3, <1>4, <1>5, <1>6, <1>7

(* The new job was asked for and confirmed, if it may change data.         *)
LEMMA BeginAsked ==
  ASSUME Inv, NEW by \in {"server", "cli"}, NEW m \in Jobs, Begins(m, by),
         by = "server" /\ job'[m].mutations =>
           job'[m].selected # All /\ (job'[m].selected \in Mutating => job'[m].confirmed)
  PROVE  Asked'
<1>. SUFFICES ASSUME NEW i \in Jobs
              PROVE  /\ job'[i].owner = "server" /\ job'[i].mutations =>
                          job'[i].selected # All /\ (job'[i].selected \in Mutating => job'[i].confirmed)
                     /\ job'[i].changed # {} =>
                          job'[i].mutations /\ job'[i].changed \subseteq SelectedTests(i)' \cap Mutating
  BY Zenon DEF Asked
<1>1. CASE i # m
  <2>1. job'[i] = job[i]  BY <1>1, Zenon DEF Begins
  <2>. QED  BY <2>1, Zenon DEF Inv, Asked, SelectedTests
<1>2. CASE i = m
  <2>1. job'[m].owner = by /\ job'[m].changed = {}  BY Zenon DEF Begins
  <2>. QED  BY <1>2, <2>1, Zenon
<1>. QED  BY <1>1, <1>2, Zenon

LEMMA RunKeeps ==
  ASSUME ServerAssumption, Inv, Run
  PROVE  Inv'
<1>1. PICK selected \in Tests \cup {All} : \E confirm \in {FALSE} \cup {selected \in Mutating} :
        Accepts(selected, confirm) /\ Start("server", selected, confirm, AllowedFor(selected), TRUE)
  BY Zenon DEF Run
<1>2. PICK confirm \in {FALSE} \cup {selected \in Mutating} :
        Accepts(selected, confirm) /\ Start("server", selected, confirm, AllowedFor(selected), TRUE)
  BY <1>1, Zenon
<1>3. server \in ServerRecords  BY Zenon DEF Inv, Processes
<1>4. /\ server.up /\ ~ server.running
      /\ server' = [server EXCEPT !.running = TRUE, !.lastErr = FALSE]
      /\ UNCHANGED <<cli, overlap>>
  BY Zenon DEF Run, Busy
<1>5. UNCHANGED <<pack, executionFile, evidenceFile, report, completedAt, clock, kills>>
  BY <1>2, Zenon DEF Start, disk
<1>6. /\ server'.up /\ server'.running /\ server'.history = server.history
      /\ server' \in ServerRecords
  BY <1>3, <1>4 DEF ServerRecords
<1>7. confirm \in BOOLEAN /\ AllowedFor(selected) \in BOOLEAN  BY <1>2 DEF AllowedFor
<1>8. Numbered' /\ BegunAs("server", selected, confirm, AllowedFor(selected))
  <2>. DEFINE allowed == AllowedFor(selected)
  <2>1. allowed \in BOOLEAN /\ Start("server", selected, confirm, allowed, TRUE)
    BY <1>2, <1>7, Zenon
  <2>2. "server" \in {"server", "cli"} /\ TRUE \in BOOLEAN  OBVIOUS
  <2>. HIDE DEF allowed
  <2>3. Numbered' /\ BegunAs("server", selected, confirm, allowed)
    BY <1>7, <2>1, <2>2, StartBegins, Zenon
  <2>. QED  BY <2>3, Zenon DEF allowed
<1>9. PICK m \in Jobs : /\ Begins(m, "server") /\ job'[m].selected = selected
                        /\ job'[m].confirmed = confirm /\ job'[m].mutations = AllowedFor(selected)
  BY <1>8, Zenon DEF BegunAs
<1>10. /\ Progress' /\ EndedWell' = EndedWell
       /\ m \notin Active /\ Active' = Active \cup {m}
       /\ \A i \in Active : job'[i] = job[i]
       /\ completedAt[m] = 0 /\ (Told => Told')
  BY <1>5, <1>9, BeginKeeps, Zenon
<1>11. Files' /\ Counters'  BY <1>5, Zenon DEF Inv, Files, Counters
<1>12. Processes'  BY <1>4, <1>6, <1>9, Zenon DEF Inv, Processes, Begins
<1>13. Asked'
  <2>1. AllowedFor(selected) => selected # All  BY Zenon DEF AllowedFor
  <2>2. selected \in Mutating => confirm  BY <1>2, Zenon DEF Accepts
  <2>. QED  BY <1>9, <2>1, <2>2, BeginAsked, Zenon
<1>14. Owned("server") = {} /\ job'[m].owner = "server" /\ job'[m].state = "testing"
  BY <1>4, <1>9, Zenon DEF Inv, OneEach, Begins
<1>15. \A i \in Owned("server")' : i = m
  BY <1>10, <1>14 DEF Owned
<1>16. CliUp' = CliUp /\ Owned("cli")' = Owned("cli")
  <2>1. \A i : i \in Owned("cli")' <=> i \in Owned("cli")  BY <1>10, <1>14 DEF Owned
  <2>. QED  BY <2>1 DEF CliUp
<1>17. OneEach'
  <2>1. \A i, k \in Owned("server")' : i = k  BY <1>15, Zenon
  <2>2. \A i \in Active' : job'[i].owner \in {"server", "cli"}
    BY <1>10, <1>14 DEF Inv, OneEach
  <2>3. Owned("server")' # {}  BY <1>10, <1>14 DEF Owned
  <2>. QED  BY <1>6, <2>1, <2>2, <2>3, Zenon DEF OneEach
<1>18. Ordered'
  <2>1. \A i \in Owned("server")' : completedAt'[i] = 0  BY <1>5, <1>10, <1>15, Zenon
  <2>. QED  BY <1>4, <1>5, <1>6, <2>1, Zenon DEF Inv, Ordered
<1>19. Informed'
  <2>. SUFFICES ASSUME ~ overlap
                PROVE  /\ \A i, k \in Active' : i = k
                       /\ ~ CliUp /\ EndedWell \subseteq ToSet(server.history)
                       /\ \A i \in Owned("cli") : EndedWell \subseteq ToSet(cli[i])
                       /\ Told'
    BY <1>4, <1>6, <1>10, <1>16, Zenon DEF Informed
  <2>1. ~ CliUp  BY <1>4, Zenon DEF Inv, Informed
  <2>2. Active = {}
    <3>1. \A i \in Active : i \in Owned("cli") \/ i \in Owned("server")
      BY DEF Inv, OneEach, Owned
    <3>. QED  BY <1>14, <2>1, <3>1 DEF CliUp
  <2>3. \A i, k \in Active' : i = k
    <3>. HIDE DEF Active
    <3>. QED  BY <1>10, <2>2
  <2>. QED  BY <1>4, <1>10, <2>1, <2>3, Zenon DEF Inv, Informed
<1>20. Exported'  BY <1>4, <1>5, Zenon DEF Inv, Exported
<1>. QED  BY <1>8, <1>10, <1>11, <1>12, <1>13, <1>17, <1>18, <1>19, <1>20 DEF Inv

LEMMA TestKeeps ==
  ASSUME ServerAssumption, Inv, Test
  PROVE  Inv'
<1>1. PICK mutations \in BOOLEAN : \E kept \in BOOLEAN : Start("cli", All, TRUE, mutations, kept)
  BY Zenon DEF Test
<1>2. PICK kept \in BOOLEAN : Start("cli", All, TRUE, mutations, kept)  BY <1>1, Zenon
<1>3. /\ Loadable /\ cli' = [cli EXCEPT ![Started + 1] = LoadHistory]
      /\ overlap' = (overlap \/ server.up \/ CliUp) /\ server' = server
  BY Zenon DEF Test
<1>4. UNCHANGED <<pack, executionFile, evidenceFile, report, completedAt, clock, kills>>
  BY <1>2, Zenon DEF Start, disk
<1>5. Numbered' /\ BegunAs("cli", All, TRUE, mutations)
  <2>1. All \in Tests \cup {All} /\ TRUE \in BOOLEAN /\ "cli" \in {"server", "cli"}  OBVIOUS
  <2>. QED  BY <1>2, <2>1, StartBegins, Zenon
<1>6. PICK m \in Jobs : Begins(m, "cli")  BY <1>5, Zenon DEF BegunAs
<1>7. /\ Progress' /\ EndedWell' = EndedWell
      /\ m \notin Active /\ Active' = Active \cup {m}
      /\ \A i \in Active : job'[i] = job[i]
      /\ Told => Told'
  BY <1>4, <1>6, BeginKeeps, Zenon
<1>8. /\ LoadHistory \in Seq(Jobs) /\ ToSet(LoadHistory) = executionFile
  BY History, Zenon
(* The new job is the one whose history was loaded. *)
<1>9. /\ cli' \in [Jobs -> Seq(Jobs)] /\ cli'[m] = LoadHistory
  <2>1. cli \in [Jobs -> Seq(Jobs)] /\ job \in [Jobs -> JobRecords]
    BY Zenon DEF Inv, Processes
  <2>2. m = Started + 1
    <3>1. \A i \in Jobs : i # Started + 1 => job'[i] = job[i]
      <4>. DEFINE k == Started + 1
      <4>1. \E q : job' = [job EXCEPT ![k] = q]  BY <1>2, Zenon DEF Start
      <4>. HIDE DEF k
      <4>2. \A i \in Jobs : i # k => job'[i] = job[i]  BY <2>1, <4>1
      <4>. QED  BY <4>2 DEF k
    <3>2. job'[m] # job[m]  BY <1>6 DEF Begins
    <3>. QED  BY <3>1, <3>2, Zenon
  <2>. QED  BY <1>3, <1>8, <2>1, <2>2
<1>10. Files' /\ Counters'  BY <1>4, Zenon DEF Inv, Files, Counters
<1>11. Processes'  BY <1>3, <1>6, <1>9, Zenon DEF Inv, Processes, Begins
<1>12. Asked'
  <2>1. "cli" \in {"server", "cli"} /\ "cli" # "server"  OBVIOUS
  <2>. QED  BY <1>6, <2>1, BeginAsked, Zenon
<1>13. job'[m].owner = "cli" /\ m \in Jobs  BY <1>6, Zenon DEF Begins
<1>14. /\ Owned("server")' = Owned("server")
       /\ \A i : i \in Owned("cli")' <=> i \in Owned("cli") \/ i = m
  <2>1. \A i : i \in Owned("server")' <=> i \in Owned("server")  BY <1>7, <1>13 DEF Owned
  <2>2. \A i : i \in Owned("cli")' <=> i \in Owned("cli") \/ i = m  BY <1>7, <1>13 DEF Owned
  <2>. HIDE DEF Owned
  <2>. QED  BY <2>1, <2>2
<1>15. OneEach'
  <2>1. \A i \in Active' : job'[i].owner \in {"server", "cli"}
    BY <1>7, <1>13 DEF Inv, OneEach
  <2>. QED  BY <1>3, <1>14, <2>1, Zenon DEF Inv, OneEach
<1>16. Ordered'  BY <1>3, <1>4, <1>14, Zenon DEF Inv, Ordered
<1>17. Informed'
  <2>. SUFFICES ASSUME ~ overlap, ~ server.up, ~ CliUp
                PROVE  /\ \A i, k \in Active' : i = k
                       /\ \A i \in Owned("cli")' : EndedWell' \subseteq ToSet(cli'[i])
                       /\ Told'
    BY <1>3, Zenon DEF Informed
  <2>1. EndedWell \subseteq executionFile
    <3>1. \A j \in EndedWell :
            j \in Jobs /\ job[j].state \in {"done", "ended"} /\ ~ job[j].failed /\ job[j].kept
      BY DEF EndedWell
    <3>. QED  BY <3>1, Zenon DEF Inv, Progress, Recorded
  <2>2. Owned("cli") = {} /\ Owned("server") = {}  BY Zenon DEF Inv, OneEach, CliUp
  <2>3. Active = {}
    <3>1. \A i \in Active : i \in Owned("cli") \/ i \in Owned("server")
      BY DEF Inv, OneEach, Owned
    <3>. HIDE DEF Active, Owned
    <3>. QED  BY <2>2, <3>1
  <2>4. \A i, k \in Active' : i = k
    <3>. HIDE DEF Active
    <3>. QED  BY <1>7, <2>3
  <2>5. \A i \in Owned("cli")' : i = m
    <3>. HIDE DEF Owned
    <3>. QED  BY <1>14, <2>2
  <2>6. Told'  BY <1>7, Zenon DEF Inv, Informed
  <2>. QED  BY <1>7, <1>8, <1>9, <2>1, <2>4, <2>5, <2>6, Zenon
<1>18. Exported'  BY <1>3, <1>4, Zenon DEF Inv, Exported, Loadable
<1>. QED  BY <1>5, <1>7, <1>10, <1>11, <1>12, <1>15, <1>16, <1>17, <1>18 DEF Inv

LEMMA ArithKills == \A k, n \in Nat : k \in 0 .. n /\ k < n => k + 1 \in 0 .. n  OBVIOUS

(* What is killed stays as it was on disk.                                 *)
LEMMA KilledKeeps ==
  ASSUME ServerAssumption, Inv, NEW js \in SUBSET Active, Killed(js)
  PROVE  /\ Files' /\ Counters' /\ Numbered' /\ Progress' /\ Asked'
         /\ UNCHANGED <<pack, executionFile, report, cli, completedAt, overlap>>
         /\ job' \in [Jobs -> JobRecords]
         /\ Active' = Active \ js /\ \A i \in Jobs : job'[i].owner = job[i].owner
         /\ EndedWell' = EndedWell /\ (Told => Told')
<1>1. /\ kills < MaxKills /\ kills' = kills + 1
      /\ job' = [j \in Jobs |-> IF j \in js THEN [job[j] EXCEPT !.state = "killed"] ELSE job[j]]
      /\ UNCHANGED <<pack, executionFile, report, cli, completedAt, clock, overlap>>
  BY Zenon DEF Killed
<1>2. evidenceFile' = evidenceFile
  <2>1. evidenceFile \in [Jobs -> {"absent", "whole"}]  BY Zenon DEF Inv, Files
  <2>2. evidenceFile' = [j \in Jobs |-> evidenceFile[j]]  BY DEF Killed, TornBy
  <2>. QED  BY <2>1, <2>2
<1>3. job \in [Jobs -> JobRecords]  BY Zenon DEF Inv, Processes
<1>4. /\ job' \in [Jobs -> JobRecords]
      /\ \A i \in Jobs : i \notin js => job'[i] = job[i]
      /\ \A i \in js : i \in Jobs /\ job'[i].state = "killed"
      /\ \A i \in Jobs : /\ job'[i].owner = job[i].owner /\ job'[i].mutations = job[i].mutations
                         /\ job'[i].selected = job[i].selected /\ job'[i].confirmed = job[i].confirmed
                         /\ job'[i].changed = job[i].changed
  <2>1. js \subseteq Jobs  BY DEF Active
  <2>. QED  BY <1>1, <1>3, <2>1 DEF JobRecords, States
<1>5. Files'  BY <1>1, <1>2, Zenon DEF Inv, Files
<1>6. Counters'
  <2>1. MaxKills \in Nat /\ kills \in 0 .. MaxKills /\ kills \in Nat
    BY DEF ServerAssumption, Inv, Counters
  <2>2. kills' \in 0 .. MaxKills  BY <1>1, <2>1, ArithKills, Zenon
  <2>. QED  BY <1>1, <2>2, Zenon DEF Inv, Counters
<1>7. Active' = Active \ js  BY <1>4 DEF Active
<1>8. Numbered'
  <2>1. {i \in Jobs : job'[i].state # "none"} = {i \in Jobs : job[i].state # "none"}
    <3>1. \A i \in js : job[i].state # "none"  BY DEF Active
    <3>. QED  BY <1>4, <3>1
  <2>. QED  BY <2>1, Zenon DEF Inv, Numbered
<1>9. \A i \in Jobs : job'[i].state \in {"done", "ended"} => job'[i] = job[i]
  BY <1>4, Zenon
<1>10. Progress'
  <2>1. ASSUME NEW i \in Jobs PROVE Fresh(i)' /\ Recorded(i)'
    <3>1. CASE i \notin js
      <4>1. job'[i] = job[i]  BY <1>4, <3>1, Zenon
      <4>. QED  BY <1>1, <4>1, Zenon DEF Inv, Progress, Fresh, Recorded
    <3>2. CASE i \in js
      <4>1. job'[i].state = "killed"  BY <1>4, <3>2, Zenon
      <4>2. /\ job'[i].state \notin {"execution", "evidence", "reports"}
            /\ job'[i].state \notin {"evidence", "reports"} /\ job'[i].state \notin {"done", "ended"}
            /\ job'[i].state \notin {"none", "testing"}
        BY <4>1
      <4>. QED  BY <1>1, <4>2, Zenon DEF Inv, Progress, Fresh, Recorded
    <3>. QED  BY <3>1, <3>2, Zenon
  <2>. QED  BY <1>1, <2>1, Zenon DEF Inv, Progress
<1>11. Asked'  BY <1>4, Zenon DEF Inv, Asked, SelectedTests
<1>12. EndedWell' = EndedWell
  <2>1. \A i \in Jobs : job[i].state = "ended" => i \notin js  BY DEF Active
  <2>. QED  BY <1>4, <2>1 DEF EndedWell
<1>13. Told => Told'  BY <1>1, <1>9, Zenon DEF Told
<1>. QED  BY <1>1, <1>4, <1>5, <1>6, <1>7, <1>8, <1>10, <1>11, <1>12, <1>13

LEMMA KillServerKeeps ==
  ASSUME ServerAssumption, Inv, KillServer
  PROVE  Inv'
<1>. DEFINE js == Owned("server")
<1>1. js \in SUBSET Active /\ Killed(js)  BY DEF KillServer, Owned
<1>. HIDE DEF js
<1>2. /\ Files' /\ Counters' /\ Numbered' /\ Progress' /\ Asked'
      /\ UNCHANGED <<pack, executionFile, report, cli, completedAt, overlap>>
      /\ job' \in [Jobs -> JobRecords]
      /\ Active' = Active \ js /\ \A i \in Jobs : job'[i].owner = job[i].owner
      /\ EndedWell' = EndedWell /\ (Told => Told')
  BY <1>1, KilledKeeps, Zenon
<1>3. server' \in ServerRecords /\ ~ server'.up /\ ~ server'.running
  <2>1. server' = [server EXCEPT !.up = FALSE, !.running = FALSE] /\ server \in ServerRecords
    BY Zenon DEF KillServer, Inv, Processes
  <2>. QED  BY <2>1 DEF ServerRecords
<1>4. Owned("server")' = {} /\ Owned("cli")' = Owned("cli")
  <2>1. \A i \in Active : job'[i].owner = job[i].owner  BY <1>2 DEF Active
  <2>2. \A i \in Active' : i \in Active /\ i \notin Owned("server")  BY <1>2 DEF js
  <2>3. \A i \in Active' : job'[i].owner # "server"  BY <2>1, <2>2, Zenon DEF Owned
  <2>4. \A i : i \in Owned("cli")' <=> i \in Owned("cli")
    <3>1. \A i \in Owned("cli") : i \in Active /\ i \notin Owned("server")  BY DEF Owned
    <3>2. \A i \in Owned("cli") : i \in Active'  BY <1>2, <3>1 DEF js
    <3>. QED  BY <2>1, <2>2, <3>1, <3>2 DEF Owned
  <2>5. Owned("server")' = {}  BY <2>3 DEF Owned
  <2>. HIDE DEF Owned
  <2>. QED  BY <2>4, <2>5
<1>5. Processes'  BY <1>2, <1>3, Zenon DEF Inv, Processes
<1>6. OneEach'
  <2>1. \A i \in Active' : i \in Active /\ job'[i].owner = job[i].owner
    BY <1>2 DEF Active
  <2>. QED  BY <1>3, <1>4, <2>1, Zenon DEF Inv, OneEach
<1>7. Ordered'  BY <1>3, Zenon DEF Ordered
<1>8. Informed'
  <2>1. \A i \in Active' : i \in Active  BY <1>2
  <2>. QED  BY <1>2, <1>3, <1>4, <2>1, Zenon DEF Inv, Informed
<1>9. Exported'  BY <1>2, <1>3, <1>4, Zenon DEF Inv, Exported, CliUp
<1>. QED  BY <1>2, <1>5, <1>6, <1>7, <1>8, <1>9 DEF Inv

LEMMA KillTestKeeps ==
  ASSUME ServerAssumption, Inv, NEW j \in Jobs, KillTest(j)
  PROVE  Inv'
<1>1. {j} \in SUBSET Active /\ Killed({j}) /\ server' = server /\ j \in Owned("cli")
  BY DEF KillTest, Owned
<1>2. /\ Files' /\ Counters' /\ Numbered' /\ Progress' /\ Asked'
      /\ UNCHANGED <<pack, executionFile, report, cli, completedAt, overlap>>
      /\ job' \in [Jobs -> JobRecords]
      /\ Active' = Active \ {j} /\ \A i \in Jobs : job'[i].owner = job[i].owner
      /\ EndedWell' = EndedWell /\ (Told => Told')
  BY <1>1, KilledKeeps, Zenon
<1>3. \A i \in Active' : i \in Active /\ job'[i].owner = job[i].owner
  BY <1>2 DEF Active
<1>4. Owned("server")' = Owned("server") /\ \A i \in Owned("cli")' : i \in Owned("cli")
  <2>1. \A i \in Owned("server") : i \in Active' /\ job'[i].owner = job[i].owner
    <3>1. \A i \in Owned("server") : i \in Active /\ i # j  BY <1>1 DEF Owned
    <3>2. \A i \in Owned("server") : i \in Active'  BY <1>2, <3>1
    <3>. QED  BY <1>3, <3>2, Zenon
  <2>2. \A i : i \in Owned("server")' <=> i \in Owned("server")  BY <1>3, <2>1 DEF Owned
  <2>3. \A i \in Owned("cli")' : i \in Owned("cli")  BY <1>3 DEF Owned
  <2>. HIDE DEF Owned
  <2>. QED  BY <2>2, <2>3
<1>5. CliUp' => CliUp
  <2>. HIDE DEF Owned
  <2>. QED  BY <1>4 DEF CliUp
<1>6. Processes'  BY <1>1, <1>2, Zenon DEF Inv, Processes
<1>7. OneEach'  BY <1>1, <1>3, <1>4, Zenon DEF Inv, OneEach
<1>8. Ordered'  BY <1>1, <1>2, <1>4, Zenon DEF Inv, Ordered
<1>9. Informed'
  <2>1. \A i \in Active' : i \in Active  BY <1>2
  <2>. QED  BY <1>1, <1>2, <1>4, <1>5, <2>1, Zenon DEF Inv, Informed
<1>10. Exported'  BY <1>1, <1>2, <1>5, Zenon DEF Inv, Exported
<1>. QED  BY <1>2, <1>6, <1>7, <1>8, <1>9, <1>10 DEF Inv

-----------------------------------------------------------------------------
LEMMA ServerStarts ==
  ASSUME ServerAssumption, Init
  PROVE  Inv
<1>1. /\ pack = {} /\ executionFile = {} /\ evidenceFile = [j \in Jobs |-> "absent"]
      /\ report = {} /\ job = [j \in Jobs |-> NoJob] /\ completedAt = [j \in Jobs |-> 0]
      /\ clock = 1 /\ kills = 0 /\ cli = [j \in Jobs |-> <<>>]
      /\ server = [up |-> FALSE, mutations |-> FALSE, running |-> FALSE, lastErr |-> FALSE,
                   history |-> <<>>]
  BY Zenon DEF Init
<1>2. /\ \A j \in Jobs : job[j] = NoJob /\ completedAt[j] = 0
      /\ NoJob.state = "none" /\ NoJob.changed = {} /\ ~ NoJob.failed /\ ~ NoJob.mutations
      /\ NoJob.owner = "none" /\ NoJob \in JobRecords
  BY <1>1 DEF NoJob, JobRecords, States
<1>3. ~ server.up /\ ~ server.running /\ server \in ServerRecords
  BY <1>1 DEF ServerRecords
<1>4. Active = {} /\ Owned("server") = {} /\ Owned("cli") = {}
  BY <1>2 DEF Active, Owned
<1>5. Files  BY <1>1 DEF Files
<1>6. Processes  BY <1>1, <1>2, <1>3 DEF Processes
<1>7. Counters  BY <1>1 DEF ServerAssumption, Counters
<1>8. Numbered
  <2>1. {j \in Jobs : job[j].state # "none"} = {}  BY <1>2
  <2>2. 0 \in 0 .. MaxJobs /\ 1 .. 0 = {}  BY JobsFinite
  <2>. QED  BY <2>1, <2>2, Zenon DEF Numbered
<1>9. Progress
  <2>1. clock > 0 /\ 0 < clock  BY <1>1
  <2>2. ASSUME NEW j \in Jobs PROVE Fresh(j) /\ Recorded(j)
    <3>1. job[j].state = "none" /\ job[j].changed = {} /\ ~ job[j].failed
      BY <1>2, Zenon
    <3>2. /\ job[j].state \notin Beyond /\ job[j].state \notin {"execution", "evidence", "reports"}
          /\ job[j].state \notin {"evidence", "reports"} /\ job[j].state \notin {"done", "ended"}
      BY <3>1 DEF Beyond
    <3>3. completedAt[j] = 0 /\ j \notin executionFile  BY <1>1, <1>2, Zenon
    <3>. QED  BY <3>1, <3>2, <3>3, Zenon DEF Fresh, Recorded
  <2>. QED  BY <1>2, <2>1, <2>2, Zenon DEF Progress
<1>10. Asked  BY <1>2, Zenon DEF Asked
<1>11. OneEach /\ Ordered  BY <1>3, <1>4, Zenon DEF OneEach, Ordered
<1>12. Informed
  <2>1. \A j \in Jobs : job[j].state \notin {"done", "ended"}  BY <1>2
  <2>. QED  BY <1>3, <1>4, <2>1, Zenon DEF Informed, Told
<1>13. Exported
  <2>1. pack = {ExportOrder[i] : i \in 1 .. 0} /\ 0 \in 0 .. 5  BY <1>1
  <2>. QED  BY <1>3, <1>4, <2>1, Zenon DEF Exported, CliUp
<1>. QED  BY <1>5, <1>6, <1>7, <1>8, <1>9, <1>10, <1>11, <1>12, <1>13 DEF Inv

LEMMA ServerStutters ==
  ASSUME Inv, UNCHANGED vars
  PROVE  Inv'
<1>1. UNCHANGED <<pack, executionFile, evidenceFile, report, server, cli, job, completedAt, clock,
                  kills, overlap>>
  BY DEF vars, disk
<1>2. Files' /\ Processes' /\ Counters'
  BY <1>1, Zenon DEF Inv, Files, Processes, Counters
<1>3. Numbered' /\ Progress'
  BY <1>1, Zenon DEF Inv, Numbered, Progress, Fresh, Recorded
<1>4. Asked'  BY <1>1, Zenon DEF Inv, Asked, SelectedTests
<1>5. OneEach' /\ Ordered'  BY <1>1, Zenon DEF Inv, OneEach, Ordered, Owned, Active
<1>6. Informed' /\ Exported'
  BY <1>1, Zenon DEF Inv, Informed, Told, Exported, EndedWell, CliUp, Owned, Active
<1>. QED  BY <1>2, <1>3, <1>4, <1>5, <1>6 DEF Inv

LEMMA ServerKeeps ==
  ASSUME ServerAssumption, Inv, [Next]_vars
  PROVE  Inv'
<1>1. CASE Export  BY <1>1, ExportKeeps
<1>2. CASE Serve  BY <1>2, ServeKeeps
<1>3. CASE Run  BY <1>3, RunKeeps
<1>4. CASE Test  BY <1>4, TestKeeps
<1>5. ASSUME NEW j \in Jobs, Browse(j) \/ Save(j) \/ KillTest(j) PROVE Inv'
  BY <1>5, RunTestsKeeps, FailsKeeps, WriteExecutionKeeps, WriteEvidenceKeeps,
     WriteReportsKeeps, FinishKeeps, KillTestKeeps, Zenon DEF Browse, Save
<1>6. CASE KillServer  BY <1>6, KillServerKeeps
<1>7. CASE UNCHANGED vars  BY <1>7, ServerStutters
<1>. QED  BY <1>1, <1>2, <1>3, <1>4, <1>5, <1>6, <1>7, Zenon DEF Next

(* A list in the order of completion tells which of two jobs was earlier.  *)
LEMMA OrderTells ==
  ASSUME Inv, NEW s \in Seq(Jobs), InOrder(s, completedAt),
         NEW i \in ToSet(s), NEW j \in ToSet(s)
  PROVE  Precedes(s, i, j) <=> completedAt[i] < completedAt[j]
<1>1. PICK m \in DOMAIN s : s[m] = i  BY DEF ToSet
<1>2. PICK n \in DOMAIN s : s[n] = j  BY DEF ToSet
<1>3. m \in Nat /\ n \in Nat  OBVIOUS
<1>4. completedAt[i] \in Nat /\ completedAt[j] \in Nat
  <2>1. i \in Jobs /\ j \in Jobs  BY <1>1, <1>2
  <2>. QED  BY <2>1 DEF Inv, Counters
<1>5. Precedes(s, i, j) => completedAt[i] < completedAt[j]
  BY Zenon DEF Precedes, InOrder
<1>6. ASSUME completedAt[i] < completedAt[j] PROVE Precedes(s, i, j)
  <2>1. ~ (completedAt[j] < completedAt[i]) /\ completedAt[i] # completedAt[j]
    BY <1>4, <1>6
  <2>2. m # n  BY <1>1, <1>2, <2>1, Zenon
  <2>3. ~ (n < m)  BY <1>1, <1>2, <2>1, Zenon DEF InOrder
  <2>4. m < n  BY <1>3, <2>2, <2>3
  <2>. QED  BY <1>1, <1>2, <2>4, Zenon DEF Precedes
<1>. QED  BY <1>5, <1>6

LEMMA InvIsTruthful ==
  ASSUME ServerAssumption, Inv
  PROVE  ServerTruthful
<1>1. TypeOK
  <2>1. ASSUME NEW j \in executionFile PROVE completedAt[j] # 0
    <3>1. j \in Jobs  BY DEF Inv, Files
    <3>2. completedAt[j] > 0  BY <3>1, Zenon DEF Inv, Progress, Recorded
    <3>3. ~ (0 > 0)  OBVIOUS
    <3>. QED  BY <3>2, <3>3, Zenon
  <2>. QED  BY <2>1, Zenon DEF Inv, Files, Processes, Counters, TypeOK, ServerRecords, JobRecords
<1>2. RunningIsTold  BY Zenon DEF Inv, OneEach, RunningIsTold
<1>3. RestartAgrees
  <2>. SUFFICES ASSUME server.up, NEW i \in executionFile \cap ToSet(server.history),
                       NEW j \in executionFile \cap ToSet(server.history)
                PROVE  /\ i \in ToSet(LoadHistory)
                       /\ Precedes(server.history, i, j) <=> Precedes(LoadHistory, i, j)
    BY Zenon DEF RestartAgrees
  <2>1. /\ LoadHistory \in Seq(Jobs) /\ ToSet(LoadHistory) = executionFile
        /\ InOrder(LoadHistory, completedAt)
    BY History, Zenon
  <2>2. server.history \in Seq(Jobs)  BY DEF Inv, Processes, ServerRecords
  <2>3. InOrder(server.history, completedAt)  BY Zenon DEF Inv, Ordered, InOrder
  <2>4. i \in executionFile /\ j \in executionFile
        /\ i \in ToSet(server.history) /\ j \in ToSet(server.history)
    OBVIOUS
  <2>5. i \in ToSet(LoadHistory) /\ j \in ToSet(LoadHistory)  BY <2>1, <2>4, Zenon
  <2>6. Precedes(server.history, i, j) <=> completedAt[i] < completedAt[j]
    BY <2>2, <2>3, <2>4, OrderTells, Zenon
  <2>7. Precedes(LoadHistory, i, j) <=> completedAt[i] < completedAt[j]
    BY <2>1, <2>5, OrderTells, Zenon
  <2>. QED  BY <2>5, <2>6, <2>7
<1>4. ConfirmedOnly
  <2>. SUFFICES ASSUME NEW j \in Jobs, job[j].owner = "server", job[j].changed # {}
                PROVE  /\ job[j].changed = {job[j].selected}
                       /\ job[j].confirmed /\ job[j].mutations
    BY Zenon DEF ConfirmedOnly
  <2>1. job[j].mutations /\ job[j].changed \subseteq SelectedTests(j) \cap Mutating
    BY Zenon DEF Inv, Asked
  <2>2. job[j].selected # All /\ (job[j].selected \in Mutating => job[j].confirmed)
    BY <2>1, Zenon DEF Inv, Asked
  <2>3. SelectedTests(j) = {job[j].selected}  BY <2>2, Zenon DEF SelectedTests
  <2>4. job[j].changed = {job[j].selected} /\ job[j].selected \in Mutating  BY <2>1, <2>3
  <2>. QED  BY <2>1, <2>2, <2>4
<1>5. ReportComplete
  <2>1. \A j \in Jobs : job[j].state = "ended" => job[j].state \in {"done", "ended"}  OBVIOUS
  <2>. QED  BY <2>1, Zenon DEF Inv, Informed, Told, ReportComplete
<1>6. Reopens
  <2>1. PICK n \in 0 .. 5 : pack = {ExportOrder[i] : i \in 1 .. n}
    BY Zenon DEF Inv, Exported
  <2>2. /\ "lock" \in pack <=> n = 5
        /\ pack = ToSet(ExportOrder) <=> n = 5
    BY <2>1, FirstFiles, Zenon
  <2>3. \A j \in Jobs : evidenceFile[j] # "torn"  BY DEF Inv, Files
  <2>4. server.up \/ CliUp => "lock" \in pack  BY Zenon DEF Inv, Exported
  <2>. QED  BY <2>2, <2>3, <2>4, Zenon DEF Reopens, Loadable
<1>. QED  BY <1>1, <1>2, <1>3, <1>4, <1>5, <1>6 DEF ServerTruthful

(* What the server says and does agrees with the disk, at any time and     *)
(* after any kill: Server.run and Run, run.Load and export.                *)
THEOREM ServerTellsTheTruth ==
  ASSUME ServerAssumption
  PROVE  Spec => []ServerTruthful
<1>1. Init => Inv  BY ServerStarts
<1>2. Inv /\ [Next]_vars => Inv'  BY ServerKeeps
<1>3. Inv => ServerTruthful  BY InvIsTruthful
<1>. QED  BY <1>1, <1>2, <1>3, PTL DEF Spec
=============================================================================
