------------------------- MODULE EvidenceStoreProofs -------------------------
(***************************************************************************)
(* That no evidence a saved result cites is ever lost, for any number of   *)
(* records, drafts of one tool result, and failed processes; then that the *)
(* Core Test packs of a run claim what was executed and forget no test.    *)
(***************************************************************************)
EXTENDS MCRunFiles, FiniteSetTheorems, WellFoundedInduction, TLAPS

Lines == [id : 1..MaxRecords, part : Parts]
Working == pc \in {"work", "append"}

(* The type invariant, in parts.                                           *)
File ==
  /\ file \in Seq(Lines)
  /\ \A i, j \in DOMAIN file : file[i].id = file[j].id => i = j
  /\ \A i \in DOMAIN file : file[i].id < nextID
Control ==
  /\ pc \in {"new", "idle", "work", "append"}
  /\ outcome \in {"none", "failed", "undecodable"}
  /\ failures \in 0..MaxFailures
Counters ==
  /\ nextID \in 1..(MaxRecords + 1) /\ drafts \in 0..MaxBatch
  /\ nextID + drafts <= MaxRecords + 1

(* What keeps the evidence together: a result cites what some process      *)
(* wrote, and the process at work knows whatever stands in the file.       *)
Kept ==
  /\ saved \subseteq Loaded
  /\ Working => records = Loaded
  /\ pc \in {"new", "idle"} => records = {}
  /\ pc = "new" => file = <<>>

IInv == File /\ Control /\ Counters /\ Kept

-----------------------------------------------------------------------------
LEMMA LineType ==
  ASSUME File, NEW i \in DOMAIN file
  PROVE  file[i].id \in 1..MaxRecords
<1>1. file \in Seq(Lines) /\ i \in 1..Len(file)
  BY DEF File
<1>2. file[i] \in Lines
  BY <1>1
<1> QED
  BY <1>2 DEF Lines

(* A line appended to the file adds its record to what the next process    *)
(* loads, and takes nothing away.                                          *)
LEMMA AppendLoads ==
  ASSUME File, NEW line \in Lines, line.id = nextID, file' = Append(file, line),
         nextID' = nextID + 1, nextID \in Nat
  PROVE  File' /\ Loaded' = Loaded \cup {nextID}
<1>1. /\ file' \in Seq(Lines) /\ Len(file') = Len(file) + 1 /\ Len(file) \in Nat
      /\ \A i \in 1..Len(file) : file'[i] = file[i]
      /\ file'[Len(file) + 1] = line
      /\ DOMAIN file = 1..Len(file) /\ DOMAIN file' = 1..(Len(file) + 1)
  BY DEF File
<1>2. \A i \in DOMAIN file : file[i].id \in Nat
  BY LineType, EvidenceAssumption
<1>3. \A i \in DOMAIN file' : file'[i].id < nextID'
  BY <1>1, <1>2 DEF File
<1>4. \A i, j \in DOMAIN file' : file'[i].id = file'[j].id => i = j
  <2> SUFFICES ASSUME NEW i \in DOMAIN file', NEW j \in DOMAIN file',
                      file'[i].id = file'[j].id
               PROVE  i = j
    OBVIOUS
  <2>1. CASE i \in DOMAIN file /\ j \in DOMAIN file
    BY <1>1, <2>1 DEF File
  <2>2. CASE i \in DOMAIN file /\ j = Len(file) + 1
    <3>1. file[i].id < nextID /\ file[i].id = nextID
      BY <1>1, <2>2 DEF File
    <3> QED
      BY <1>2, <2>2, <3>1
  <2>3. CASE j \in DOMAIN file /\ i = Len(file) + 1
    <3>1. file[j].id < nextID /\ file[j].id = nextID
      BY <1>1, <2>3 DEF File
    <3> QED
      BY <1>2, <2>3, <3>1
  <2> QED
    BY <1>1, <2>1, <2>2, <2>3
<1>5. Loaded' = Loaded \cup {nextID}
  BY <1>1 DEF Loaded
<1> QED
  BY <1>1, <1>3, <1>4, <1>5 DEF File

LEMMA InitInv == Init => IInv
<1> SUFFICES ASSUME Init PROVE IInv
  OBVIOUS
<1>1. File /\ Loaded = {}
  BY DEF Init, File, Loaded
<1>2. Control /\ Counters
  BY EvidenceAssumption DEF Init, Control, Counters
<1> QED
  BY <1>1, <1>2 DEF Init, IInv, Kept, Working

(* A step that leaves the file alone leaves what a process would load.     *)
LEMMA SameFile ==
  ASSUME File, UNCHANGED <<file, nextID>>
  PROVE  File' /\ Loaded' = Loaded
BY DEF File, Loaded

LEMMA StepInv == IInv /\ [Next]_vars => IInv'
<1> SUFFICES ASSUME IInv, [Next]_vars PROVE IInv'
  OBVIOUS
<1> USE EvidenceAssumption
<1>1. CASE StartRun
  <2>1. File' /\ Loaded' = Loaded /\ Loaded = {}
    BY <1>1, SameFile DEF StartRun, IInv, Kept, Loaded
  <2>2. Control' /\ Counters'
    BY <1>1 DEF StartRun, IInv, Control, Counters
  <2> QED
    BY <1>1, <2>1, <2>2 DEF StartRun, IInv, Kept, Working
<1>2. CASE OpenStore
  <2>1. File' /\ Loaded' = Loaded
    BY <1>2, SameFile DEF OpenStore, IInv
  <2>2. Control' /\ Counters'
    BY <1>2 DEF OpenStore, IInv, Control, Counters
  <2> QED
    BY <1>2, <2>1, <2>2 DEF OpenStore, IInv, Kept, Working
<1>3. CASE RefuseStore
  <2>1. File' /\ Loaded' = Loaded
    BY <1>3, SameFile DEF RefuseStore, IInv
  <2>2. Control' /\ Counters'
    BY <1>3 DEF RefuseStore, IInv, Control, Counters
  <2> QED
    BY <1>3, <2>1, <2>2 DEF RefuseStore, IInv, Kept, Working
<1>4. CASE AddDrafts
  <2>1. File' /\ Loaded' = Loaded
    BY <1>4, SameFile DEF AddDrafts, IInv
  <2>2. PICK n \in 1..MaxBatch : nextID + n <= MaxRecords + 1 /\ drafts' = n
    BY <1>4 DEF AddDrafts
  <2>3. Control' /\ Counters'
    BY <1>4, <2>2 DEF AddDrafts, IInv, Control, Counters
  <2> QED
    BY <1>4, <2>1, <2>3 DEF AddDrafts, IInv, Kept, Working
<1>5. CASE WriteRecord
  <2>1. nextID \in 1..MaxRecords /\ nextID \in Nat
    BY <1>5 DEF WriteRecord, IInv, Counters
  <2>2. [id |-> nextID, part |-> "line"] \in Lines
    BY <2>1 DEF Lines, Parts
  <2>3. File' /\ Loaded' = Loaded \cup {nextID}
    BY <1>5, <2>1, <2>2, AppendLoads DEF WriteRecord, IInv
  <2>4. Control' /\ Counters'
    BY <1>5 DEF WriteRecord, IInv, Control, Counters
  <2> QED
    BY <1>5, <2>3, <2>4 DEF WriteRecord, IInv, Kept, Working
<1>6. CASE ReturnRecords
  <2>1. File' /\ Loaded' = Loaded
    BY <1>6, SameFile DEF ReturnRecords, IInv
  <2>2. Control' /\ Counters'
    BY <1>6 DEF ReturnRecords, IInv, Control, Counters
  <2> QED
    BY <1>6, <2>1, <2>2 DEF ReturnRecords, IInv, Kept, Working
<1>7. CASE WriteFails
  <2>1. nextID \in 1..MaxRecords /\ nextID \in Nat
    BY <1>7 DEF WriteFails, IInv, Counters
  <2>2. PICK part \in Parts \ {"line"} : file' = Append(file, [id |-> nextID, part |-> part])
    BY <1>7 DEF WriteFails
  <2>3. [id |-> nextID, part |-> part] \in Lines
    BY <2>1 DEF Lines
  <2>4. File' /\ Loaded' = Loaded \cup {nextID}
    BY <1>7, <2>1, <2>2, <2>3, AppendLoads DEF WriteFails, IInv
  <2>5. Control' /\ Counters'
    BY <1>7 DEF WriteFails, Stop, IInv, Control, Counters
  <2> QED
    BY <1>7, <2>4, <2>5 DEF WriteFails, Stop, IInv, Kept, Working
<1>8. CASE SaveResult
  <2>1. File' /\ Loaded' = Loaded
    BY <1>8, SameFile DEF SaveResult, IInv
  <2>2. Control' /\ Counters'
    BY <1>8 DEF SaveResult, IInv, Control, Counters
  <2> QED
    BY <1>8, <2>1, <2>2 DEF SaveResult, IInv, Kept, Working
<1>9. CASE Crash
  <2>1. File' /\ Loaded' = Loaded
    BY <1>9, SameFile DEF Crash, IInv
  <2>2. Control' /\ Counters'
    BY <1>9 DEF Crash, Stop, IInv, Control, Counters
  <2> QED
    BY <1>9, <2>1, <2>2 DEF Crash, Stop, IInv, Kept, Working
<1>10. CASE UNCHANGED vars
  <2>1. File' /\ Loaded' = Loaded
    BY <1>10, SameFile DEF vars, IInv
  <2> QED
    BY <1>10, <2>1 DEF vars, IInv, Control, Counters, Kept, Working
<1> QED
  BY <1>1, <1>2, <1>3, <1>4, <1>5, <1>6, <1>7, <1>8, <1>9, <1>10 DEF Next

LEMMA Invariance == Spec => []IInv
BY InitInv, StepInv, PTL DEF Spec

-----------------------------------------------------------------------------
(* Every variable keeps its shape; no ID is written twice, also not by a   *)
(* process that goes on after one whose write was cut (store.go, append).  *)
THEOREM TypeCorrect == Spec => []TypeOK
<1>1. ASSUME IInv PROVE TypeOK
  <2>1. Loaded \subseteq 1..MaxRecords
    BY <1>1, LineType DEF IInv, Loaded
  <2>2. saved \subseteq 1..MaxRecords /\ records \subseteq 1..MaxRecords
    BY <1>1, <2>1 DEF IInv, Control, Kept, Working
  <2> QED
    BY <1>1, <2>2 DEF IInv, File, Lines, Control, Counters, TypeOK
<1> QED
  BY Invariance, <1>1, PTL

(* A process at work knows each record that a saved result cites, whoever  *)
(* wrote it and however the processes before it ended (store.go,           *)
(* OpenStore).                                                             *)
THEOREM CitedIsKnown == Spec => []CitedEvidenceKnown
<1>1. IInv => CitedEvidenceKnown
  BY DEF IInv, Kept, Working, CitedEvidenceKnown
<1> QED
  BY Invariance, <1>1, PTL

(* What was written stays: no step takes a line out of the file or alters  *)
(* it, and what a result cites is among the lines (store.go, append).      *)
OnlyAppended ==
  [][/\ Len(file) <= Len(file')
     /\ \A i \in DOMAIN file : file'[i] = file[i]]_vars

THEOREM EvidenceOnlyGrows == Spec => OnlyAppended
<1>1. ASSUME IInv, [Next]_vars
      PROVE  [/\ Len(file) <= Len(file')
              /\ \A i \in DOMAIN file : file'[i] = file[i]]_vars
  <2>1. file \in Seq(Lines)
    BY <1>1 DEF IInv, File
  <2>2. file' = file \/ \E line : file' = Append(file, line)
    BY <1>1 DEF Next, StartRun, OpenStore, RefuseStore, AddDrafts, WriteRecord, ReturnRecords,
      WriteFails, SaveResult, Crash, vars
  <2>3. CASE file' = file
    BY <2>1, <2>3
  <2>4. CASE \E line : file' = Append(file, line)
    BY <2>1, <2>4
  <2> QED
    BY <2>2, <2>3, <2>4
<1> QED
  BY Invariance, <1>1, PTL DEF Spec, OnlyAppended

-----------------------------------------------------------------------------
(* The Core Test packs.  What a session is, and how far it has come: the   *)
(* files it wrote are the first of its order.                              *)
Verdicts ==
  {<<>>} \cup UNION {[c -> {"passed", "failed", "blocked", "unresolved"}] : c \in SUBSET Tests}
WrittenSets == {{}, {"pack"}, {"pack", "execution"}, Packs!Files}
SessionRecords ==
  [pc : {"executing", "writing", "written", "ended"}, runtime : Nat, candidates : SUBSET Tests,
   pack : SUBSET (Tests \X Nat), results : Verdicts, files : WrittenSets]

Single(pack) == \A a, b \in pack : a[1] = b[1] => a = b
Formed(s) ==
  /\ s.pc = "executing" => s.files = {} /\ s.results = <<>>
  /\ s.pc = "writing" =>
       s.files # Packs!Files /\ (s.pack = {} => s.files # {"pack", "execution"})
  /\ s.files = Packs!Files => s.pack # {}
  /\ s.results = <<>> \/ DOMAIN s.results = s.candidates
  /\ Single(s.pack)

Sessions ==
  /\ runtimes \in 1 .. MaxRuntimes /\ overlapped \in BOOLEAN
  /\ sessions \in Seq(SessionRecords) /\ Len(sessions) <= MaxSessions
  /\ \A i \in Packs!Ids : sessions[i].runtime \in 1 .. runtimes /\ Formed(sessions[i])

(* A test stands in a pack with a session that saw it pass, in the same    *)
(* runtime: the session of the pack itself, or one whose pack is on disk,  *)
(* so that nothing forgets its results.                                    *)
EarnedBy(a, k) ==
  /\ a[2] \in Packs!Ids /\ (a[2] = k \/ Packs!OnDisk(a[2]))
  /\ sessions[a[2]].runtime = sessions[k].runtime
  /\ a[1] \in DOMAIN sessions[a[2]].results /\ sessions[a[2]].results[a[1]] = "passed"
Earned == \A k \in Packs!Ids : \A a \in sessions[k].pack : EarnedBy(a, k)

(* As long as no session began beside another one, only the last may run,  *)
(* and a pack contains those of its runtime that are older.                *)
Follows(i, k) ==
  i < k /\ sessions[i].runtime = sessions[k].runtime /\ Packs!OnDisk(i)
  /\ (Packs!OnDisk(k) \/ Packs!Running(k))
Contains(k, i) == Packs!TestsOf(sessions[i].pack) \subseteq Packs!TestsOf(sessions[k].pack)
Chained ==
  ~ overlapped =>
    /\ \A i \in Packs!Ids : Packs!Running(i) => i = Len(sessions)
    /\ \A i, k \in Packs!Ids : Follows(i, k) => Contains(k, i)

PacksInv == Sessions /\ Earned /\ Chained

LEMMA PacksFacts ==
  /\ IsFiniteSet(Tests) /\ MaxSessions \in Nat /\ MaxLive \in Nat /\ MaxRuntimes \in Nat \ {0}
  /\ \A S : Packs!Cardinality(S) = Cardinality(S)
<1>1. \A S : Packs!Cardinality(S) = Cardinality(S)  BY Zenon DEF Packs!Cardinality, Cardinality
<1>2. Packs!IsFiniteSet(Tests) <=> IsFiniteSet(Tests)  BY Zenon DEF Packs!IsFiniteSet, IsFiniteSet
<1>3. /\ Packs!IsFiniteSet(Tests) /\ MaxRuntimes \in Nat \ {0}
      /\ {MaxSessions, MaxLive} \subseteq Nat
  BY RunFilesAssumption, Zenon DEF Packs!PacksAssumption
<1>. QED  BY <1>1, <1>2, <1>3

LEMMA NoResults == DOMAIN <<>> = {}
OBVIOUS

-----------------------------------------------------------------------------
(* A set of natural numbers has a least one, and a bounded one a greatest. *)
LEMMA LeastOf ==
  ASSUME NEW S \in SUBSET Nat, S # {}
  PROVE  \E n \in S : \A m \in S : n <= m
<1>1. PICK n \in S : \A m \in S : ~ (<<m, n>> \in OpToRel(<, Nat))
  BY NatLessThanWellFounded, WFMin
<1>2. \A m \in S : <<m, n>> \in Nat \X Nat
  OBVIOUS
<1>3. \A m \in S : ~ (m < n)
  BY <1>1, <1>2 DEF OpToRel
<1>. QED
  BY <1>3

LEMMA Greatest ==
  ASSUME NEW S \in SUBSET Nat, S # {}, NEW n \in Nat, \A m \in S : m <= n
  PROVE  \E g \in S : \A m \in S : m <= g
<1>. DEFINE P(b) == b \in Nat /\ \A m \in S : m <= b
<1>. DEFINE T == {b \in Nat : P(b)}
<1>1. n \in T  OBVIOUS
<1>2. PICK b \in T : \A c \in T : b <= c
  <2>1. T \in SUBSET Nat /\ T # {}  BY <1>1
  <2>. HIDE DEF T
  <2>. QED  BY <2>1, LeastOf
<1>3. b \in S
  <2>. SUFFICES ASSUME b \notin S PROVE FALSE  OBVIOUS
  <2>1. PICK m \in S : TRUE  OBVIOUS
  <2>2. m <= b /\ m # b /\ m \in Nat /\ b \in Nat  BY <1>2
  <2>3. b - 1 \in Nat /\ ~ (b <= b - 1)  BY <2>2
  <2>4. \A k \in S : k <= b - 1
    <3>. SUFFICES ASSUME NEW k \in S PROVE k <= b - 1  OBVIOUS
    <3>1. k <= b /\ k # b /\ k \in Nat  BY <1>2
    <3>. QED  BY <2>2, <3>1
  <2>5. b - 1 \in T  BY <2>3, <2>4
  <2>. QED  BY <1>2, <2>3, <2>5
<1>. QED  BY <1>2, <1>3

(* The pack of a session names some of the tests, each once, and there is  *)
(* a best one among those of a runtime.                                    *)
Size(i) == Cardinality(sessions[i].pack)

LEMMA SessionShape ==
  ASSUME Sessions, NEW i \in Packs!Ids
  PROVE  /\ sessions[i] \in SessionRecords /\ Formed(sessions[i])
         /\ sessions[i].runtime \in 1 .. runtimes
         /\ Packs!Ids = 1 .. Len(sessions) /\ Len(sessions) \in Nat /\ i \in Nat
BY DEF Sessions, Packs!Ids

(* A pack is no larger than one whose tests contain its own.               *)
LEMMA SmallerPack ==
  ASSUME NEW S \in SUBSET (Tests \X Nat), NEW T \in SUBSET (Tests \X Nat), Single(S), Single(T),
         IsFiniteSet(T), Packs!TestsOf(S) \subseteq Packs!TestsOf(T)
  PROVE  IsFiniteSet(S) /\ Cardinality(S) <= Cardinality(T)
<1>. DEFINE f == [a \in S |-> CHOOSE b \in T : b[1] = a[1]]
<1>1. ASSUME NEW a \in S PROVE f[a] \in T /\ f[a][1] = a[1]
  <2>1. a[1] \in Packs!TestsOf(T)  BY DEF Packs!TestsOf
  <2>2. \E b \in T : b[1] = a[1]  BY <2>1 DEF Packs!TestsOf
  <2>. QED  BY <2>2
<1>2. DOMAIN f = S /\ f = [a \in S |-> f[a]]  OBVIOUS
<1>. HIDE DEF f
<1>3. f \in [S -> T]  BY <1>1, <1>2
<1>4. \A a, b \in S : f[a] = f[b] => a = b  BY <1>1 DEF Single
<1>5. f \in Injection(S, T)  BY <1>2, <1>3, <1>4 DEF Injection, IsInjective
<1>6. /\ IsFiniteSet(S) /\ Cardinality(S) <= Cardinality(T)
  BY <1>5, FS_Injection
<1>. QED  BY <1>6

LEMMA PackSize ==
  ASSUME Sessions, NEW i \in Packs!Ids
  PROVE  /\ IsFiniteSet(sessions[i].pack) /\ Size(i) \in Nat /\ Size(i) <= Cardinality(Tests)
         /\ Cardinality(Tests) \in Nat
<1>. DEFINE T == Tests \X {0}
            S == sessions[i].pack
<1>1. S \in SUBSET (Tests \X Nat) /\ Single(S)
  BY SessionShape DEF SessionRecords, Formed
<1>2. T \in SUBSET (Tests \X Nat) /\ Single(T)  BY DEF Single
<1>3. Packs!TestsOf(S) \subseteq Packs!TestsOf(T)
  <2>1. Packs!TestsOf(S) \subseteq Tests  BY <1>1 DEF Packs!TestsOf
  <2>2. Tests \subseteq Packs!TestsOf(T)
    <3>. SUFFICES ASSUME NEW t \in Tests PROVE t \in Packs!TestsOf(T)  OBVIOUS
    <3>1. <<t, 0>> \in T /\ <<t, 0>>[1] = t  OBVIOUS
    <3>. HIDE DEF T
    <3>2. \E a \in T : t = a[1]  BY <3>1
    <3>. QED  BY <3>2, Zenon DEF Packs!TestsOf
  <2>. QED  BY <2>1, <2>2, Zenon
<1>4. IsFiniteSet(T) /\ Cardinality(T) = Cardinality(Tests) /\ Cardinality(Tests) \in Nat
  <2>1. IsFiniteSet(Tests) /\ IsFiniteSet({0}) /\ Cardinality({0}) = 1
    BY PacksFacts, FS_Singleton
  <2>2. Cardinality(Tests) \in Nat  BY <2>1, FS_CardinalityType
  <2>3. IsFiniteSet(T) /\ Cardinality(T) = Cardinality(Tests) * Cardinality({0})
    BY <2>1, FS_Product
  <2>. QED  BY <2>1, <2>2, <2>3
<1>. HIDE DEF T, S
<1>5. IsFiniteSet(S) /\ Cardinality(S) <= Cardinality(T)
  BY <1>1, <1>2, <1>3, <1>4, SmallerPack
<1>6. Cardinality(S) \in Nat  BY <1>5, FS_CardinalityType
<1>. QED  BY <1>4, <1>5, <1>6 DEF S, Size

LEMMA BetterIs ==
  ASSUME NEW i, NEW k
  PROVE  Packs!Better(i, k) <=> Size(i) > Size(k) \/ (Size(i) = Size(k) /\ i >= k)
BY PacksFacts, Zenon DEF Packs!Better, Size

LEMMA BestIsOne ==
  ASSUME Sessions, NEW r, Packs!Packs(r) # {}
  PROVE  \E b \in Packs!Packs(r) :
           /\ \A k \in Packs!Packs(r) : Packs!Better(b, k)
           /\ Packs!LoadBestVerifiedPack(r) = sessions[b].pack
<1>. DEFINE S == Packs!Packs(r)
            N == {Size(i) : i \in S}
<1>1. S \subseteq Packs!Ids  BY DEF Packs!Packs
<1>2. N \in SUBSET Nat /\ N # {} /\ \A m \in N : m <= Cardinality(Tests)
  BY <1>1, PackSize
<1>3. Cardinality(Tests) \in Nat  BY <1>1, PackSize
<1>4. PICK g \in N : \A m \in N : m <= g
  <2>. HIDE DEF N
  <2>. QED  BY <1>2, <1>3, Greatest
<1>. DEFINE M == {i \in S : Size(i) = g}
<1>5. M \in SUBSET Nat /\ M # {} /\ Len(sessions) \in Nat /\ \A m \in M : m <= Len(sessions)
  <2>1. \A i \in S : i \in Nat /\ i <= Len(sessions) /\ Len(sessions) \in Nat
    BY <1>1, SessionShape
  <2>2. M # {}  BY <1>4
  <2>3. S # {}  OBVIOUS
  <2>. QED  BY <2>1, <2>2, <2>3
<1>6. PICK b \in M : \A m \in M : m <= b
  <2>. HIDE DEF M
  <2>. QED  BY <1>5, Greatest
<1>7. ASSUME NEW k \in S PROVE Packs!Better(b, k)
  <2>1. Size(k) <= g /\ Size(b) = g /\ Size(k) \in Nat /\ g \in Nat  BY <1>2, <1>4
  <2>2. k \in Nat /\ b \in Nat /\ (Size(k) = g => k <= b)  BY <1>1, <1>6, SessionShape
  <2>3. Size(b) > Size(k) \/ (Size(b) = Size(k) /\ b >= k)  BY <2>1, <2>2
  <2>. QED  BY <2>3, BetterIs, Zenon
<1>8. b \in S  OBVIOUS
<1>. DEFINE c == CHOOSE i \in Packs!Packs(r) : \A k \in Packs!Packs(r) : Packs!Better(i, k)
<1>9. c \in Packs!Packs(r) /\ \A k \in Packs!Packs(r) : Packs!Better(c, k)
  BY <1>7, <1>8, Zenon
<1>10. Packs!LoadBestVerifiedPack(r) = sessions[c].pack
  BY Zenon DEF Packs!LoadBestVerifiedPack
<1>. HIDE DEF c
<1>. QED  BY <1>9, <1>10, Zenon

(* Where packs contain the older ones, the best one contains them all.     *)
LEMMA BestContains ==
  ASSUME Sessions, Chained, ~ overlapped, NEW i \in Packs!Ids, Packs!OnDisk(i),
         NEW r, r = sessions[i].runtime
  PROVE  Packs!TestsOf(sessions[i].pack) \subseteq Packs!TestsOf(Packs!LoadBestVerifiedPack(r))
<1>. DEFINE S == Packs!Packs(r)
<1>1. S \subseteq Packs!Ids /\ i \in S
      /\ \A k \in S : Packs!OnDisk(k) /\ sessions[k].runtime = r
  BY DEF Packs!Packs, Packs!OnDisk
<1>2. PICK b \in S : /\ \A k \in S : Packs!Better(b, k)
                     /\ Packs!LoadBestVerifiedPack(r) = sessions[b].pack
  <2>1. S # {}  BY <1>1
  <2>. QED  BY <2>1, BestIsOne
<1>3. PICK n \in S : \A k \in S : k <= n
  <2>1. S \in SUBSET Nat /\ S # {} /\ Len(sessions) \in Nat /\ \A m \in S : m <= Len(sessions)
    BY <1>1, SessionShape
  <2>. HIDE DEF S
  <2>. QED  BY <2>1, Greatest
<1>. HIDE DEF S
<1>4. ASSUME NEW k \in S PROVE Contains(n, k)
  <2>1. CASE k = n  BY <2>1 DEF Contains
  <2>2. CASE k # n
    <3>1. k \in Nat /\ n \in Nat /\ k <= n  BY <1>1, <1>3, SessionShape
    <3>2. k < n  BY <2>2, <3>1
    <3>3. Follows(k, n)  BY <1>1, <3>2, Zenon DEF Follows
    <3>. QED  BY <1>1, <3>3, Zenon DEF Chained
  <2>. QED  BY <2>1, <2>2
<1>5. b = n
  <2>1. b \in Packs!Ids /\ n \in Packs!Ids  BY <1>1
  <2>2. Size(b) <= Size(n)
    <3>1. /\ sessions[b].pack \in SUBSET (Tests \X Nat) /\ Single(sessions[b].pack)
          /\ sessions[n].pack \in SUBSET (Tests \X Nat) /\ Single(sessions[n].pack)
      BY <2>1, SessionShape DEF SessionRecords, Formed
    <3>2. IsFiniteSet(sessions[n].pack)  BY <2>1, PackSize
    <3>3. Packs!TestsOf(sessions[b].pack) \subseteq Packs!TestsOf(sessions[n].pack)
      BY <1>4, Zenon DEF Contains
    <3>. QED  BY <3>1, <3>2, <3>3, SmallerPack DEF Size
  <2>3. Size(b) > Size(n) \/ (Size(b) = Size(n) /\ b >= n)
    BY <1>2, BetterIs, Zenon
  <2>4. Size(b) \in Nat /\ Size(n) \in Nat /\ b \in Nat /\ n \in Nat /\ b <= n
    BY <1>1, <1>3, <2>1, PackSize, SessionShape
  <2>. QED  BY <2>2, <2>3, <2>4
<1>. QED  BY <1>1, <1>2, <1>4, <1>5, Zenon DEF Contains

-----------------------------------------------------------------------------
(* What a step does to the sequence of sessions.                           *)
LEMMA Replaced ==
  ASSUME Sessions, NEW i \in Packs!Ids, NEW q \in SessionRecords,
         sessions' = [sessions EXCEPT ![i] = q]
  PROVE  /\ sessions' \in Seq(SessionRecords) /\ Len(sessions') = Len(sessions)
         /\ Packs!Ids' = Packs!Ids /\ sessions'[i] = q
         /\ \A k \in Packs!Ids : k # i => sessions'[k] = sessions[k]
<1>1. sessions \in Seq(SessionRecords) /\ i \in DOMAIN sessions  BY DEF Sessions, Packs!Ids
<1>. HIDE DEF SessionRecords
<1>2. /\ sessions' \in Seq(SessionRecords) /\ Len(sessions') = Len(sessions)
      /\ DOMAIN sessions' = DOMAIN sessions /\ sessions'[i] = q
      /\ \A k \in DOMAIN sessions : k # i => sessions'[k] = sessions[k]
  BY <1>1
<1>. QED  BY <1>2, Zenon DEF Packs!Ids

LEMMA Added ==
  ASSUME Sessions, NEW q \in SessionRecords, sessions' = Append(sessions, q)
  PROVE  LET n == Len(sessions) + 1
         IN  /\ sessions' \in Seq(SessionRecords) /\ Len(sessions') = n
             /\ Packs!Ids' = Packs!Ids \cup {n} /\ n \notin Packs!Ids /\ sessions'[n] = q
             /\ \A k \in Packs!Ids : sessions'[k] = sessions[k] /\ k < n /\ k \in Nat
             /\ n \in Nat
<1>1. sessions \in Seq(SessionRecords)  BY DEF Sessions
<1>. HIDE DEF SessionRecords
<1>. QED  BY <1>1 DEF Packs!Ids

(* One session is changed without a change of its runtime, and either its  *)
(* results and its pack are kept or it had neither results nor files: what *)
(* the other packs took from sessions stays.                               *)
LEMMA OthersEarned ==
  ASSUME Sessions, Earned, NEW i \in Packs!Ids, NEW q \in SessionRecords,
         sessions' = [sessions EXCEPT ![i] = q],
         \/ /\ q.runtime = sessions[i].runtime /\ q.results = sessions[i].results
            /\ sessions[i].files \subseteq q.files
         \/ ~ Packs!OnDisk(i)
  PROVE  \A k \in Packs!Ids : k # i => \A a \in sessions'[k].pack : EarnedBy(a, k)'
<1>. SUFFICES ASSUME NEW k \in Packs!Ids, k # i, NEW a \in sessions'[k].pack
              PROVE  EarnedBy(a, k)'
  BY Zenon
<1>1. Packs!Ids' = Packs!Ids /\ sessions'[i] = q /\ sessions'[k] = sessions[k]
      /\ \A j \in Packs!Ids : j # i => sessions'[j] = sessions[j]
  BY Replaced, Zenon
<1>2. EarnedBy(a, k)  BY <1>1, Zenon DEF Earned
<1>. DEFINE j == a[2]
<1>3. CASE j # i
  <2>1. sessions'[j] = sessions[j] /\ j \in Packs!Ids  BY <1>1, <1>2, <1>3, Zenon DEF EarnedBy
  <2>. QED  BY <1>1, <1>2, <2>1, Zenon DEF EarnedBy, Packs!OnDisk
<1>4. CASE j = i
  <2>1. Packs!OnDisk(i)  BY <1>2, <1>4, Zenon DEF EarnedBy
  <2>2. q.runtime = sessions[i].runtime /\ q.results = sessions[i].results
        /\ "pack" \in q.files
    BY <2>1, Zenon DEF Packs!OnDisk
  <2>. QED  BY <1>1, <1>2, <1>4, <2>2, Zenon DEF EarnedBy, Packs!OnDisk
<1>. QED  BY <1>3, <1>4, Zenon

LEMMA SessionsKept ==
  ASSUME Sessions, NEW i \in Packs!Ids, NEW q \in SessionRecords,
         sessions' = [sessions EXCEPT ![i] = q], UNCHANGED <<runtimes, overlapped>>,
         q.runtime \in 1 .. runtimes, Formed(q)
  PROVE  Sessions'
<1>1. /\ sessions' \in Seq(SessionRecords) /\ Len(sessions') = Len(sessions)
      /\ Packs!Ids' = Packs!Ids /\ sessions'[i] = q
      /\ \A k \in Packs!Ids : k # i => sessions'[k] = sessions[k]
  BY Replaced, Zenon
<1>2. runtimes' = runtimes /\ overlapped' = overlapped  BY Zenon
<1>3. ASSUME NEW k \in Packs!Ids'
      PROVE  sessions'[k].runtime \in 1 .. runtimes' /\ Formed(sessions'[k])
  <2>1. CASE k = i  BY <1>1, <1>2, <2>1, Zenon
  <2>2. CASE k # i  BY <1>1, <1>2, <2>2, Zenon DEF Sessions
  <2>. QED  BY <2>1, <2>2, Zenon
<1>4. runtimes \in 1 .. MaxRuntimes /\ overlapped \in BOOLEAN /\ Len(sessions) <= MaxSessions
  BY Zenon DEF Sessions
<1>. QED  BY <1>1, <1>2, <1>3, <1>4, Zenon DEF Sessions

(* The packs stay a chain when the session that runs ends without a file,  *)
(* or keeps its runtime and the tests of its pack.                         *)
LEMMA ChainKept ==
  ASSUME Sessions, Chained, NEW i \in Packs!Ids, NEW q \in SessionRecords, Packs!Running(i),
         sessions' = [sessions EXCEPT ![i] = q], overlapped' = overlapped,
         \/ q.pc \notin {"executing", "writing"} /\ "pack" \notin q.files
         \/ /\ q.runtime = sessions[i].runtime
            /\ Packs!TestsOf(sessions[i].pack) \subseteq Packs!TestsOf(q.pack)
  PROVE  Chained'
<1>1. /\ Len(sessions') = Len(sessions) /\ Packs!Ids' = Packs!Ids /\ sessions'[i] = q
      /\ \A k \in Packs!Ids : k # i => sessions'[k] = sessions[k]
  BY Replaced, Zenon
<1>. SUFFICES ASSUME ~ overlapped
              PROVE  /\ \A k \in Packs!Ids : Packs!Running(k)' => k = Len(sessions)
                     /\ \A j, k \in Packs!Ids : Follows(j, k)' => Contains(k, j)'
  BY <1>1, Zenon DEF Chained
<1>2. i = Len(sessions)  BY Zenon DEF Chained
<1>3. ASSUME NEW k \in Packs!Ids, Packs!Running(k)' PROVE k = Len(sessions)
  <2>1. CASE k = i  BY <1>2, <2>1, Zenon
  <2>2. CASE k # i
    <3>1. Packs!Running(k)  BY <1>1, <1>3, <2>2, Zenon DEF Packs!Running
    <3>. QED  BY <3>1, Zenon DEF Chained
  <2>. QED  BY <2>1, <2>2, Zenon
<1>4. ASSUME NEW j \in Packs!Ids, NEW k \in Packs!Ids, Follows(j, k)' PROVE Contains(k, j)'
  <2>1. j # i /\ sessions'[j] = sessions[j]
    <3>1. j < k  BY <1>4, Zenon DEF Follows
    <3>2. k <= Len(sessions) /\ k \in Nat /\ j \in Nat /\ Len(sessions) \in Nat
      BY SessionShape
    <3>3. j # i  BY <1>2, <3>1, <3>2
    <3>. QED  BY <1>1, <3>3, Zenon
  <2>2. CASE k # i
    <3>1. sessions'[k] = sessions[k]  BY <1>1, <2>2, Zenon
    <3>2. Follows(j, k)
      BY <1>4, <2>1, <3>1, Zenon DEF Follows, Packs!OnDisk, Packs!Running
    <3>3. Contains(k, j)  BY <3>2, Zenon DEF Chained
    <3>. QED  BY <2>1, <3>1, <3>3, Zenon DEF Contains
  <2>3. CASE k = i
    <3>1. q.runtime = sessions[i].runtime
          /\ Packs!TestsOf(sessions[i].pack) \subseteq Packs!TestsOf(q.pack)
      <4>1. Packs!OnDisk(i)' \/ Packs!Running(i)'  BY <1>4, <2>3, Zenon DEF Follows
      <4>. QED  BY <1>1, <4>1, Zenon DEF Packs!OnDisk, Packs!Running
    <3>2. Follows(j, i)
      BY <1>1, <1>4, <2>1, <2>3, <3>1, Zenon DEF Follows, Packs!OnDisk
    <3>3. Packs!TestsOf(sessions[j].pack) \subseteq Packs!TestsOf(sessions[i].pack)
      BY <3>2, Zenon DEF Chained, Contains
    <3>4. Packs!TestsOf(sessions[j].pack) \subseteq Packs!TestsOf(q.pack)  BY <3>1, <3>3
    <3>. QED  BY <1>1, <2>1, <2>3, <3>4, Zenon DEF Contains
  <2>. QED  BY <2>2, <2>3, Zenon
<1>. QED  BY <1>3, <1>4, Zenon

(* The lemmas together, for a step of session i.                           *)
LEMMA ReplacedKeeps ==
  ASSUME PacksInv, NEW i \in Packs!Ids, NEW q \in SessionRecords, Packs!Running(i),
         sessions' = [sessions EXCEPT ![i] = q], UNCHANGED <<runtimes, overlapped>>,
         q.runtime \in 1 .. runtimes, Formed(q),
         \/ /\ q.runtime = sessions[i].runtime /\ q.results = sessions[i].results
            /\ sessions[i].files \subseteq q.files
         \/ ~ Packs!OnDisk(i),
         \/ q.pc \notin {"executing", "writing"} /\ "pack" \notin q.files
         \/ /\ q.runtime = sessions[i].runtime
            /\ Packs!TestsOf(sessions[i].pack) \subseteq Packs!TestsOf(q.pack),
         \A a \in q.pack : EarnedBy(a, i)'
  PROVE  PacksInv'
<1>1. Sessions /\ Earned /\ Chained  BY Zenon DEF PacksInv
<1>2. Sessions'  BY <1>1, SessionsKept, Zenon
<1>3. Earned'
  <2>1. \A k \in Packs!Ids : k # i => \A a \in sessions'[k].pack : EarnedBy(a, k)'
    BY <1>1, OthersEarned, Zenon
  <2>2. Packs!Ids' = Packs!Ids /\ sessions'[i] = q  BY <1>1, Replaced, Zenon
  <2>. QED  BY <2>1, <2>2, Zenon DEF Earned
<1>4. Chained'
  <2>1. overlapped' = overlapped  BY Zenon
  <2>. QED  BY <1>1, <2>1, ChainKept, Zenon
<1>. QED  BY <1>2, <1>3, <1>4, Zenon DEF PacksInv

-----------------------------------------------------------------------------
LEMMA PacksStart == Packs!Init => PacksInv
<1>. SUFFICES ASSUME Packs!Init PROVE PacksInv
  OBVIOUS
<1>1. runtimes = 1 /\ sessions = <<>> /\ overlapped = FALSE  BY Zenon DEF Packs!Init
<1>2. Packs!Ids = {}  BY <1>1 DEF Packs!Ids
<1>3. Sessions
  <2>1. sessions \in Seq(SessionRecords) /\ Len(sessions) = 0  BY <1>1
  <2>2. runtimes \in 1 .. MaxRuntimes /\ 0 <= MaxSessions  BY <1>1, PacksFacts
  <2>3. overlapped \in BOOLEAN  BY <1>1, Zenon
  <2>. QED  BY <1>2, <2>1, <2>2, <2>3, Zenon DEF Sessions
<1>4. Earned /\ Chained  BY <1>2, Zenon DEF Earned, Chained
<1>. QED  BY <1>3, <1>4, Zenon DEF PacksInv

LEMMA VerifyPacksKeeps == PacksInv /\ Packs!Verify => PacksInv'
<1>. SUFFICES ASSUME PacksInv, Packs!Verify PROVE PacksInv'
  OBVIOUS
<1>1. /\ runtimes < MaxRuntimes /\ runtimes' = runtimes + 1
      /\ sessions' = sessions /\ overlapped' = overlapped
  BY Zenon DEF Packs!Verify
<1>2. Sessions /\ Earned /\ Chained  BY Zenon DEF PacksInv
<1>3. Packs!Ids' = Packs!Ids  BY <1>1, Zenon DEF Packs!Ids
<1>4. runtimes' \in 1 .. MaxRuntimes /\ \A r \in 1 .. runtimes : r \in 1 .. runtimes'
  <2>1. runtimes \in 1 .. MaxRuntimes  BY <1>2, Zenon DEF Sessions
  <2>. QED  BY <1>1, <2>1, PacksFacts
<1>5. Sessions'  BY <1>1, <1>2, <1>3, <1>4, Zenon DEF Sessions
<1>6. Earned'  BY <1>1, <1>2, <1>3, Zenon DEF Earned, EarnedBy, Packs!OnDisk
<1>7. Chained'
  BY <1>1, <1>2, <1>3, Zenon DEF Chained, Follows, Contains, Packs!OnDisk, Packs!Running
<1>. QED  BY <1>5, <1>6, <1>7, Zenon DEF PacksInv

(* A session starts with the best pack there is, each test of which was    *)
(* earned by a session whose pack is on disk.                              *)
LEMMA SeedEarned ==
  ASSUME Sessions, Earned, NEW r
  PROVE  /\ Packs!LoadBestVerifiedPack(r) \in SUBSET (Tests \X Nat)
         /\ Single(Packs!LoadBestVerifiedPack(r))
         /\ \A a \in Packs!LoadBestVerifiedPack(r) :
              /\ a[2] \in Packs!Ids /\ Packs!OnDisk(a[2]) /\ sessions[a[2]].runtime = r
              /\ a[1] \in DOMAIN sessions[a[2]].results
              /\ sessions[a[2]].results[a[1]] = "passed"
<1>1. CASE Packs!Packs(r) = {}
  <2>1. Packs!LoadBestVerifiedPack(r) = {}  BY <1>1, Zenon DEF Packs!LoadBestVerifiedPack
  <2>. QED  BY <2>1 DEF Single
<1>2. CASE Packs!Packs(r) # {}
  <2>1. PICK b \in Packs!Packs(r) : Packs!LoadBestVerifiedPack(r) = sessions[b].pack
    BY <1>2, BestIsOne
  <2>2. b \in Packs!Ids /\ Packs!OnDisk(b) /\ sessions[b].runtime = r
    BY DEF Packs!Packs, Packs!OnDisk
  <2>3. sessions[b].pack \in SUBSET (Tests \X Nat) /\ Single(sessions[b].pack)
    BY <2>2, SessionShape DEF SessionRecords, Formed
  <2>4. ASSUME NEW a \in sessions[b].pack
        PROVE  /\ a[2] \in Packs!Ids /\ Packs!OnDisk(a[2]) /\ sessions[a[2]].runtime = r
               /\ a[1] \in DOMAIN sessions[a[2]].results
               /\ sessions[a[2]].results[a[1]] = "passed"
    <3>1. EarnedBy(a, b)  BY <2>2, Zenon DEF Earned
    <3>. QED  BY <2>2, <3>1, Zenon DEF EarnedBy
  <2>. QED  BY <2>1, <2>3, <2>4, Zenon
<1>. QED  BY <1>1, <1>2, Zenon

LEMMA StartPacksKeeps == PacksInv /\ Packs!Start => PacksInv'
<1>. SUFFICES ASSUME PacksInv, Packs!Start PROVE PacksInv'
  OBVIOUS
<1>1. PICK r \in 1 .. runtimes, cs \in {Tests} \cup {{t} : t \in Tests} :
        sessions' = Append(sessions, Packs!NewSession(r, cs))
  BY Zenon DEF Packs!Start
<1>2. /\ Len(sessions) < MaxSessions /\ runtimes' = runtimes
      /\ overlapped' = (overlapped \/ \E i \in Packs!Ids : Packs!Running(i))
  BY Zenon DEF Packs!Start
<1>3. Sessions /\ Earned /\ Chained  BY Zenon DEF PacksInv
<1>. DEFINE seed == Packs!LoadBestVerifiedPack(r)
            q == Packs!NewSession(r, cs)
            n == Len(sessions) + 1
<1>4. /\ seed \in SUBSET (Tests \X Nat) /\ Single(seed)
      /\ \A a \in seed : /\ a[2] \in Packs!Ids /\ Packs!OnDisk(a[2])
                         /\ sessions[a[2]].runtime = r
                         /\ a[1] \in DOMAIN sessions[a[2]].results
                         /\ sessions[a[2]].results[a[1]] = "passed"
  BY <1>3, SeedEarned, Zenon
<1>5. /\ q = [pc |-> "executing", runtime |-> r, candidates |-> cs, pack |-> seed,
              results |-> <<>>, files |-> {}]
  BY Zenon DEF Packs!NewSession
<1>. HIDE DEF seed, q
<1>6. /\ q.pc = "executing" /\ q.runtime = r /\ q.candidates = cs /\ q.pack = seed
      /\ q.results = <<>> /\ q.files = {}
  BY <1>5
<1>7. r \in Nat /\ runtimes \in 1 .. MaxRuntimes
  <2>1. runtimes \in 1 .. MaxRuntimes  BY <1>3, Zenon DEF Sessions
  <2>. QED  BY <2>1, PacksFacts
<1>8. q \in SessionRecords
  <2>1. cs \in SUBSET Tests  OBVIOUS
  <2>2. <<>> \in Verdicts  BY Zenon DEF Verdicts
  <2>3. {} \in WrittenSets  BY Zenon DEF WrittenSets
  <2>. QED  BY <1>4, <1>5, <1>7, <2>1, <2>2, <2>3 DEF SessionRecords
<1>9. Formed(q)
  <2>1. Packs!Files # {}  BY DEF Packs!Files
  <2>. QED  BY <1>4, <1>6, <2>1 DEF Formed
<1>10. /\ sessions' \in Seq(SessionRecords) /\ Len(sessions') = n
       /\ Packs!Ids' = Packs!Ids \cup {n} /\ n \notin Packs!Ids /\ sessions'[n] = q
       /\ \A k \in Packs!Ids : sessions'[k] = sessions[k] /\ k < n /\ k \in Nat
       /\ n \in Nat
  <2>1. sessions' = Append(sessions, q)  BY <1>1, Zenon DEF q
  <2>. QED  BY <1>3, <1>8, <2>1, Added
<1>11. n <= MaxSessions
  <2>1. sessions \in Seq(SessionRecords)  BY <1>3, Zenon DEF Sessions
  <2>2. Len(sessions) \in Nat  BY <2>1
  <2>. QED  BY <1>2, <2>2, PacksFacts
<1>. HIDE DEF n
<1>12. Sessions'
  <2>1. overlapped' \in BOOLEAN  BY <1>2, Zenon
  <2>2. ASSUME NEW k \in Packs!Ids'
        PROVE  sessions'[k].runtime \in 1 .. runtimes' /\ Formed(sessions'[k])
    BY <1>2, <1>3, <1>6, <1>9, <1>10, Zenon DEF Sessions
  <2>. QED  BY <1>2, <1>7, <1>10, <1>11, <2>1, <2>2, Zenon DEF Sessions
<1>13. Earned'
  <2>. SUFFICES ASSUME NEW k \in Packs!Ids', NEW a \in sessions'[k].pack PROVE EarnedBy(a, k)'
    BY Zenon DEF Earned
  <2>1. CASE k \in Packs!Ids
    <3>1. sessions'[k] = sessions[k]  BY <1>10, <2>1, Zenon
    <3>2. EarnedBy(a, k)  BY <1>3, <2>1, <3>1, Zenon DEF Earned
    <3>3. sessions'[a[2]] = sessions[a[2]] /\ a[2] \in Packs!Ids'
      BY <1>10, <3>2, Zenon DEF EarnedBy
    <3>. QED  BY <3>1, <3>2, <3>3, Zenon DEF EarnedBy, Packs!OnDisk
  <2>2. CASE k = n
    <3>1. a \in seed /\ sessions'[k].runtime = r  BY <1>6, <1>10, <2>2, Zenon
    <3>2. sessions'[a[2]] = sessions[a[2]] /\ a[2] \in Packs!Ids'
      BY <1>4, <1>10, <3>1, Zenon
    <3>. QED  BY <1>4, <3>1, <3>2, Zenon DEF EarnedBy, Packs!OnDisk
  <2>. QED  BY <1>10, <2>1, <2>2, Zenon
<1>14. Chained'
  <2>. SUFFICES ASSUME ~ overlapped'
                PROVE  /\ \A k \in Packs!Ids' : Packs!Running(k)' => k = n
                       /\ \A j, k \in Packs!Ids' : Follows(j, k)' => Contains(k, j)'
    BY <1>10, Zenon DEF Chained
  <2>1. ~ overlapped /\ \A k \in Packs!Ids : ~ Packs!Running(k)  BY <1>2, Zenon
  <2>2. ASSUME NEW k \in Packs!Ids', Packs!Running(k)' PROVE k = n
    BY <1>10, <2>1, <2>2, Zenon DEF Packs!Running
  <2>3. ASSUME NEW j \in Packs!Ids', NEW k \in Packs!Ids', Follows(j, k)' PROVE Contains(k, j)'
    <3>1. j \in Packs!Ids /\ sessions'[j] = sessions[j]
      <4>1. j < k  BY <2>3, Zenon DEF Follows
      <4>2. j # n
        <5>. SUFFICES ASSUME j = n PROVE FALSE  OBVIOUS
        <5>1. n < k /\ (k = n \/ (k < n /\ k \in Nat)) /\ n \in Nat  BY <1>10, <4>1
        <5>. QED  BY <5>1
      <4>. QED  BY <1>10, <4>2, Zenon
    <3>2. CASE k = n
      <4>1. Packs!OnDisk(j) /\ sessions[j].runtime = r
        BY <1>6, <1>10, <2>3, <3>1, <3>2, Zenon DEF Follows, Packs!OnDisk
      <4>2. Packs!TestsOf(sessions[j].pack) \subseteq Packs!TestsOf(seed)
        BY <1>3, <2>1, <3>1, <4>1, BestContains, Zenon DEF seed
      <4>. QED  BY <1>6, <1>10, <3>1, <3>2, <4>2, Zenon DEF Contains
    <3>3. CASE k \in Packs!Ids
      <4>1. sessions'[k] = sessions[k]  BY <1>10, <3>3, Zenon
      <4>2. Follows(j, k)
        BY <2>3, <3>1, <4>1, Zenon DEF Follows, Packs!OnDisk, Packs!Running
      <4>3. Contains(k, j)  BY <1>3, <2>1, <3>1, <3>3, <4>2, Zenon DEF Chained
      <4>. QED  BY <3>1, <4>1, <4>3, Zenon DEF Contains
    <3>. QED  BY <1>10, <3>2, <3>3, Zenon
  <2>. QED  BY <2>2, <2>3, Zenon
<1>. QED  BY <1>12, <1>13, <1>14, Zenon DEF PacksInv

LEMMA CompletePacksKeeps ==
  ASSUME PacksInv, NEW i \in Packs!Ids, Packs!Complete(i)
  PROVE  PacksInv'
<1>1. PICK results \in [sessions[i].candidates -> UNION {Packs!Outcomes(t) : t \in Tests}] :
        sessions' = [sessions EXCEPT ![i] =
                      [@ EXCEPT !.results = results, !.pack = Packs!Completed(i, results),
                                !.pc = "writing"]]
  BY Zenon DEF Packs!Complete
<1>2. sessions[i].pc = "executing" /\ UNCHANGED <<runtimes, overlapped>>
  BY Zenon DEF Packs!Complete
<1>3. Sessions /\ Earned /\ Chained  BY Zenon DEF PacksInv
<1>4. /\ sessions[i] \in SessionRecords /\ Formed(sessions[i])
      /\ sessions[i].runtime \in 1 .. runtimes /\ i \in Nat
  BY <1>3, SessionShape
<1>. DEFINE old == sessions[i]
            passed == {t \in DOMAIN results : results[t] = "passed"}
            pack == Packs!Completed(i, results)
            q == [old EXCEPT !.results = results, !.pack = pack, !.pc = "writing"]
<1>5. sessions' = [sessions EXCEPT ![i] = q]  BY <1>1, Zenon
<1>6. pack = {t \in old.pack : t[1] \notin passed} \cup {<<t, i>> : t \in passed}
  BY Zenon DEF Packs!Completed
<1>. HIDE DEF pack
<1>7. /\ q.results = results /\ q.pack = pack /\ q.pc = "writing" /\ q.files = old.files
      /\ q.runtime = old.runtime /\ q.candidates = old.candidates
      /\ results \in Verdicts /\ pack \in SUBSET (Tests \X Nat) => q \in SessionRecords
  BY <1>4 DEF SessionRecords
<1>8. /\ old.candidates \in SUBSET Tests /\ old.pack \in SUBSET (Tests \X Nat)
      /\ old.runtime \in Nat /\ old.files \in WrittenSets
      /\ old.files = {} /\ old.results = <<>> /\ Single(old.pack)
  BY <1>2, <1>4 DEF SessionRecords, Formed
<1>. HIDE DEF q, old
<1>9. results \in Verdicts /\ DOMAIN results = old.candidates
  <2>1. UNION {Packs!Outcomes(t) : t \in Tests} \subseteq {"passed", "failed", "blocked", "unresolved"}
    BY DEF Packs!Outcomes
  <2>2. results \in [old.candidates -> UNION {Packs!Outcomes(t) : t \in Tests}]  BY Zenon DEF old
  <2>3. /\ DOMAIN results = old.candidates
        /\ results \in [old.candidates -> {"passed", "failed", "blocked", "unresolved"}]
    BY <2>1, <2>2
  <2>. QED  BY <1>8, <2>3 DEF Verdicts
<1>10. passed \subseteq Tests  BY <1>8, <1>9
<1>11. pack \in SUBSET (Tests \X Nat) /\ Single(pack)
       /\ Packs!TestsOf(old.pack) \subseteq Packs!TestsOf(pack)
  <2>. HIDE DEF passed
  <2>1. pack \in SUBSET (Tests \X Nat)
    <3>1. \A t \in passed : <<t, i>> \in Tests \X Nat  BY <1>4, <1>10
    <3>. QED  BY <1>6, <1>8, <3>1
  <2>2. Single(pack)
    <3>. SUFFICES ASSUME NEW a \in pack, NEW b \in pack, a[1] = b[1] PROVE a = b
      BY Zenon DEF Single
    <3>1. ASSUME NEW c \in pack
          PROVE  (c \in old.pack /\ c[1] \notin passed) \/ (c[1] \in passed /\ c = <<c[1], i>>)
      BY <1>6
    <3>. QED  BY <1>8, <3>1, Zenon DEF Single
  <2>3. ASSUME NEW c \in old.pack PROVE \E a \in pack : c[1] = a[1]
    <3>1. CASE c[1] \in passed
      <4>1. <<c[1], i>> \in pack /\ <<c[1], i>>[1] = c[1]  BY <1>6, <3>1
      <4>. QED  BY <4>1, Zenon
    <3>2. CASE c[1] \notin passed
      <4>1. c \in pack  BY <1>6, <3>2
      <4>. QED  BY <4>1, Zenon
    <3>. QED  BY <3>1, <3>2, Zenon
  <2>. QED  BY <2>1, <2>2, <2>3, Zenon DEF Packs!TestsOf
<1>12. q \in SessionRecords  BY <1>7, <1>9, <1>11, Zenon
<1>13. Formed(q)
  <2>1. {} # Packs!Files /\ {} # {"pack", "execution"}  BY DEF Packs!Files
  <2>2. q.pc # "executing"  BY <1>7
  <2>. QED  BY <1>7, <1>8, <1>9, <1>11, <2>1, <2>2, Zenon DEF Formed
<1>14. /\ Packs!Ids' = Packs!Ids /\ sessions'[i] = q
       /\ \A k \in Packs!Ids : k # i => sessions'[k] = sessions[k]
  BY <1>3, <1>5, <1>12, Replaced, Zenon
<1>15. \A a \in q.pack : EarnedBy(a, i)'
  <2>. SUFFICES ASSUME NEW a \in pack PROVE EarnedBy(a, i)'  BY <1>7, Zenon
  <2>1. CASE a \in old.pack
    <3>1. EarnedBy(a, i)  BY <1>3, <2>1, Zenon DEF Earned, old
    <3>2. a[2] # i
      <4>. SUFFICES ASSUME a[2] = i PROVE FALSE  OBVIOUS
      <4>1. a[1] \in DOMAIN old.results  BY <3>1, Zenon DEF EarnedBy, old
      <4>. QED  BY <1>8, <4>1, NoResults
    <3>3. sessions'[a[2]] = sessions[a[2]]  BY <1>14, <3>1, <3>2, Zenon DEF EarnedBy
    <3>. QED  BY <1>7, <1>14, <3>1, <3>3, Zenon DEF EarnedBy, Packs!OnDisk, old
  <2>2. CASE a \notin old.pack
    <3>1. a[1] \in passed /\ a[2] = i  BY <1>6, <2>2
    <3>. QED  BY <1>7, <1>14, <3>1, Zenon DEF EarnedBy
  <2>. QED  BY <2>1, <2>2, Zenon
<1>16. ~ Packs!OnDisk(i) /\ Packs!Running(i)
  <2>1. "pack" \notin {} /\ "executing" \in {"executing", "writing"}  OBVIOUS
  <2>. QED  BY <1>2, <1>8, <2>1, Zenon DEF Packs!OnDisk, Packs!Running, old
<1>17. q.runtime = sessions[i].runtime
       /\ Packs!TestsOf(sessions[i].pack) \subseteq Packs!TestsOf(q.pack)
  BY <1>7, <1>11, Zenon DEF old
<1>. QED  BY <1>2, <1>4, <1>5, <1>12, <1>13, <1>15, <1>16, <1>17, ReplacedKeeps, Zenon

(* The files in the order in which they are written.                       *)
LEMMA OrderIs ==
  ASSUME NEW i
  PROVE  /\ Packs!Order(i)[1] = "pack" /\ Packs!Order(i)[2] = "execution"
         /\ sessions[i].pack = {} => Len(Packs!Order(i)) = 2
         /\ sessions[i].pack # {} => Len(Packs!Order(i)) = 3 /\ Packs!Order(i)[3] = "baseline"
<1>1. ASSUME NEW s, s = <<"pack", "execution">> \o <<>>
      PROVE  s[1] = "pack" /\ s[2] = "execution" /\ Len(s) = 2
  BY <1>1
<1>2. ASSUME NEW s, s = <<"pack", "execution">> \o <<"baseline">>
      PROVE  s[1] = "pack" /\ s[2] = "execution" /\ s[3] = "baseline" /\ Len(s) = 3
  BY <1>2
<1>3. CASE sessions[i].pack = {}
  <2>1. Packs!Order(i) = <<"pack", "execution">> \o <<>>  BY <1>3, Zenon DEF Packs!Order
  <2>. QED  BY <1>1, <1>3, <2>1, Zenon
<1>4. CASE sessions[i].pack # {}
  <2>1. Packs!Order(i) = <<"pack", "execution">> \o <<"baseline">>  BY <1>4, Zenon DEF Packs!Order
  <2>. QED  BY <1>2, <1>4, <2>1, Zenon
<1>. QED  BY <1>3, <1>4, Zenon

LEMMA FileCounts ==
  /\ Packs!Cardinality({}) = 0 /\ Packs!Cardinality({"pack"}) = 1
  /\ Packs!Cardinality({"pack", "execution"}) = 2 /\ Packs!Cardinality(Packs!Files) = 3
<1>1. "execution" \notin {"pack"} /\ "baseline" \notin {"pack", "execution"}  OBVIOUS
<1>2. {"pack", "execution"} = {"pack"} \cup {"execution"}  OBVIOUS
<1>3. Packs!Files = {"pack", "execution"} \cup {"baseline"}  BY DEF Packs!Files
<1>4. IsFiniteSet({"pack"}) /\ Cardinality({"pack"}) = 1  BY FS_Singleton, Zenon
<1>5. IsFiniteSet({"pack", "execution"}) /\ Cardinality({"pack", "execution"}) = 1 + 1
  BY <1>1, <1>2, <1>4, FS_AddElement, Zenon
<1>6. Cardinality(Packs!Files) = 1 + 1 + 1  BY <1>1, <1>3, <1>5, FS_AddElement, Zenon
<1>7. 1 + 1 = 2 /\ 1 + 1 + 1 = 3  OBVIOUS
<1>. QED  BY <1>4, <1>5, <1>6, <1>7, FS_EmptySet, PacksFacts, Zenon

(* The next file of a session, and when it was the last.                   *)
LEMMA WritesNext ==
  ASSUME NEW i, sessions[i] \in SessionRecords, Formed(sessions[i]), sessions[i].pc = "writing",
         NEW F, F = sessions[i].files
                    \cup {Packs!Order(i)[Packs!Cardinality(sessions[i].files) + 1]}
  PROVE  /\ sessions[i].files \subseteq F /\ F \in WrittenSets
         /\ Packs!Written(i, F) => F # {}
         /\ ~ Packs!Written(i, F) =>
              F # Packs!Files /\ (sessions[i].pack = {} => F # {"pack", "execution"})
         /\ F = Packs!Files => sessions[i].pack # {}
<1>. DEFINE out   == sessions[i].files
            pack  == sessions[i].pack
<1>1. /\ out \in WrittenSets /\ out # Packs!Files
      /\ pack = {} => out # {"pack", "execution"}
  BY DEF SessionRecords, Formed
<1>2. F = out \cup {Packs!Order(i)[Packs!Cardinality(out) + 1]}  BY Zenon
<1>3. Packs!Written(i, F) <=> Packs!Cardinality(F) = Len(Packs!Order(i))
  BY Zenon DEF Packs!Written
<1>4. 0 + 1 = 1 /\ 1 + 1 = 2 /\ 2 + 1 = 3 /\ 1 # 2 /\ 1 # 3 /\ 2 # 3  OBVIOUS
<1>5. /\ {} # {"pack"} /\ {"pack"} # {"pack", "execution"} /\ {"pack"} # Packs!Files
      /\ {"pack", "execution"} # Packs!Files /\ {"pack", "execution"} # {} /\ Packs!Files # {}
      /\ {"pack"} = {} \cup {"pack"}
      /\ {"pack", "execution"} = {"pack"} \cup {"execution"}
      /\ Packs!Files = {"pack", "execution"} \cup {"baseline"}
  BY DEF Packs!Files
<1>. HIDE DEF out, pack
<1>6. CASE out = {}
  <2>1. F = {"pack"}
    <3>1. Packs!Cardinality(out) + 1 = 1  BY <1>4, <1>6, FileCounts, Zenon
    <3>. QED  BY <1>2, <1>5, <1>6, <3>1, OrderIs, Zenon
  <2>2. ~ Packs!Written(i, F)
    BY <1>3, <1>4, <2>1, FileCounts, OrderIs, Zenon
  <2>. QED  BY <1>5, <1>6, <2>1, <2>2 DEF WrittenSets, out
<1>7. CASE out = {"pack"}
  <2>1. F = {"pack", "execution"}
    <3>1. Packs!Cardinality(out) + 1 = 2  BY <1>4, <1>7, FileCounts, Zenon
    <3>. QED  BY <1>2, <1>5, <1>7, <3>1, OrderIs, Zenon
  <2>2. Packs!Written(i, F) <=> pack = {}
    BY <1>3, <1>4, <2>1, FileCounts, OrderIs, Zenon DEF pack
  <2>. QED  BY <1>5, <1>7, <2>1, <2>2 DEF WrittenSets, out, pack
<1>8. CASE out = {"pack", "execution"}
  <2>1. pack # {}  BY <1>1, <1>8, Zenon
  <2>2. F = Packs!Files
    <3>1. Packs!Cardinality(out) + 1 = 3  BY <1>4, <1>8, FileCounts, Zenon
    <3>. QED  BY <1>2, <1>5, <1>8, <2>1, <3>1, OrderIs, Zenon DEF pack
  <2>3. Packs!Written(i, F)
    BY <1>3, <2>1, <2>2, FileCounts, OrderIs, Zenon DEF pack
  <2>. QED  BY <1>5, <1>8, <2>1, <2>2, <2>3 DEF WrittenSets, out, pack
<1>. QED  BY <1>1, <1>6, <1>7, <1>8 DEF WrittenSets

LEMMA WritePacksKeeps ==
  ASSUME PacksInv, NEW i \in Packs!Ids, Packs!Write(i)
  PROVE  PacksInv'
<1>. DEFINE old == sessions[i]
            F == old.files \cup {Packs!Order(i)[Packs!Cardinality(old.files) + 1]}
            q == [old EXCEPT !.files = F,
                             !.pc = IF Packs!Written(i, F) THEN "written" ELSE "writing"]
<1>1. sessions' = [sessions EXCEPT ![i] = q]  BY Zenon DEF Packs!Write
<1>2. old.pc = "writing" /\ UNCHANGED <<runtimes, overlapped>>  BY Zenon DEF Packs!Write
<1>3. Sessions /\ Earned /\ Chained  BY Zenon DEF PacksInv
<1>4. /\ old \in SessionRecords /\ Formed(old) /\ old.runtime \in 1 .. runtimes
  BY <1>3, SessionShape
<1>5. /\ old.files \subseteq F /\ F \in WrittenSets
      /\ Packs!Written(i, F) => F # {}
      /\ ~ Packs!Written(i, F) =>
           F # Packs!Files /\ (old.pack = {} => F # {"pack", "execution"})
      /\ F = Packs!Files => old.pack # {}
  <2>. HIDE DEF F
  <2>1. F = old.files \cup {Packs!Order(i)[Packs!Cardinality(old.files) + 1]}
    BY Zenon DEF F
  <2>. QED  BY <1>2, <1>4, <2>1, WritesNext
<1>. HIDE DEF F
<1>6. /\ q.pc = (IF Packs!Written(i, F) THEN "written" ELSE "writing")
      /\ q.files = F /\ q.runtime = old.runtime /\ q.candidates = old.candidates
      /\ q.pack = old.pack /\ q.results = old.results
      /\ q \in SessionRecords
  BY <1>2, <1>4, <1>5 DEF SessionRecords
<1>. HIDE DEF q, old
<1>7. Formed(q)
  <2>1. /\ old.results = <<>> \/ DOMAIN old.results = old.candidates
        /\ Single(old.pack)
    BY <1>4, Zenon DEF Formed
  <2>2. q.pc # "executing" /\ (q.pc = "writing" => ~ Packs!Written(i, F))
    BY <1>6
  <2>. QED  BY <1>5, <1>6, <2>1, <2>2, Zenon DEF Formed
<1>8. Packs!Running(i)
  <2>1. "writing" \in {"executing", "writing"}  OBVIOUS
  <2>. QED  BY <1>2, <2>1, Zenon DEF Packs!Running, old
<1>9. /\ Packs!Ids' = Packs!Ids /\ sessions'[i] = q
      /\ \A k \in Packs!Ids : k # i => sessions'[k] = sessions[k]
  BY <1>1, <1>3, <1>6, Replaced, Zenon
<1>10. \A a \in q.pack : EarnedBy(a, i)'
  <2>. SUFFICES ASSUME NEW a \in old.pack PROVE EarnedBy(a, i)'  BY <1>6, Zenon
  <2>1. EarnedBy(a, i)  BY <1>3, Zenon DEF Earned, old
  <2>2. CASE a[2] = i
    BY <1>6, <1>9, <2>1, <2>2, Zenon DEF EarnedBy, old
  <2>3. CASE a[2] # i
    <3>1. sessions'[a[2]] = sessions[a[2]]  BY <1>9, <2>1, <2>3, Zenon DEF EarnedBy
    <3>. QED  BY <1>6, <1>9, <2>1, <3>1, Zenon DEF EarnedBy, Packs!OnDisk, old
  <2>. QED  BY <2>2, <2>3, Zenon
<1>11. /\ q.runtime = sessions[i].runtime /\ q.results = sessions[i].results
       /\ sessions[i].files \subseteq q.files
       /\ Packs!TestsOf(sessions[i].pack) \subseteq Packs!TestsOf(q.pack)
  BY <1>5, <1>6 DEF old
<1>12. q.runtime \in 1 .. runtimes  BY <1>4, <1>6, Zenon
<1>. QED  BY <1>1, <1>2, <1>6, <1>7, <1>8, <1>10, <1>11, <1>12, ReplacedKeeps, Zenon

LEMMA EndPacksKeeps ==
  ASSUME PacksInv, NEW i \in Packs!Ids, Packs!End(i)
  PROVE  PacksInv'
<1>. DEFINE old == sessions[i]
            q == [Packs!Left(old) EXCEPT !.pc = "ended"]
<1>1. sessions' = [sessions EXCEPT ![i] = q]  BY Zenon DEF Packs!End
<1>2. Packs!Running(i) /\ UNCHANGED <<runtimes, overlapped>>  BY Zenon DEF Packs!End
<1>3. Sessions /\ Earned /\ Chained  BY Zenon DEF PacksInv
<1>4. /\ old \in SessionRecords /\ Formed(old) /\ old.runtime \in 1 .. runtimes
      /\ 1 \in 1 .. runtimes
  <2>1. old.runtime \in 1 .. runtimes /\ runtimes \in 1 .. MaxRuntimes
    BY <1>3, SessionShape DEF Sessions
  <2>2. 1 \in 1 .. runtimes  BY <2>1, PacksFacts
  <2>. QED  BY <1>3, <2>1, <2>2, SessionShape
<1>5. "ended" # "executing" /\ "ended" # "writing" /\ "ended" \notin {"executing", "writing"}
      /\ "pack" \notin {} /\ {} # Packs!Files
  BY DEF Packs!Files
<1>6. CASE old.files = {}
  <2>1. Packs!Left(old) = [old EXCEPT !.candidates = {}, !.runtime = 1, !.pack = {},
                                      !.results = <<>>]
    BY <1>6, Zenon DEF Packs!Left
  <2>2. <<>> \in Verdicts  BY Zenon DEF Verdicts
  <2>. DEFINE e == [old EXCEPT !.candidates = {}, !.runtime = 1, !.pack = {}, !.results = <<>>]
  <2>3. /\ e \in SessionRecords /\ e.pack = {} /\ e.results = <<>> /\ e.files = {}
        /\ e.runtime = 1
    BY <1>4, <1>6, <2>2 DEF SessionRecords
  <2>. HIDE DEF e, old
  <2>4. q = [e EXCEPT !.pc = "ended"]  BY <2>1, Zenon DEF e
  <2>5. /\ q \in SessionRecords /\ q.pack = {} /\ q.results = <<>> /\ q.files = {}
        /\ q.runtime = 1 /\ q.pc = "ended"
    BY <2>3, <2>4 DEF SessionRecords
  <2>. HIDE DEF q
  <2>6. Formed(q)
    <3>1. Single({})  BY DEF Single
    <3>. QED  BY <1>5, <2>5, <3>1, Zenon DEF Formed
  <2>7. ~ Packs!OnDisk(i)  BY <1>5, <1>6, Zenon DEF Packs!OnDisk, old
  <2>8. q.pc \notin {"executing", "writing"} /\ "pack" \notin q.files
        /\ q.runtime \in 1 .. runtimes /\ \A a \in q.pack : EarnedBy(a, i)'
    BY <1>4, <1>5, <2>5, Zenon
  <2>. QED  BY <1>1, <1>2, <2>5, <2>6, <2>7, <2>8, ReplacedKeeps, Zenon
<1>7. CASE old.files # {}
  <2>1. q = [old EXCEPT !.pc = "ended"]  BY <1>7, Zenon DEF Packs!Left
  <2>. HIDE DEF q
  <2>2. /\ q \in SessionRecords /\ q.pack = old.pack /\ q.results = old.results
        /\ q.files = old.files /\ q.runtime = old.runtime /\ q.pc = "ended"
        /\ q.candidates = old.candidates
    BY <1>4, <2>1 DEF SessionRecords
  <2>. HIDE DEF old
  <2>3. Formed(q)  BY <1>4, <1>5, <2>2, Zenon DEF Formed
  <2>4. /\ Packs!Ids' = Packs!Ids /\ sessions'[i] = q
        /\ \A k \in Packs!Ids : k # i => sessions'[k] = sessions[k]
    BY <1>1, <1>3, <2>2, Replaced, Zenon
  <2>5. \A a \in q.pack : EarnedBy(a, i)'
    <3>. SUFFICES ASSUME NEW a \in old.pack PROVE EarnedBy(a, i)'  BY <2>2, Zenon
    <3>1. EarnedBy(a, i)  BY <1>3, Zenon DEF Earned, old
    <3>2. CASE a[2] = i
      BY <2>2, <2>4, <3>1, <3>2, Zenon DEF EarnedBy, old
    <3>3. CASE a[2] # i
      <4>1. sessions'[a[2]] = sessions[a[2]]  BY <2>4, <3>1, <3>3, Zenon DEF EarnedBy
      <4>. QED  BY <2>2, <2>4, <3>1, <4>1, Zenon DEF EarnedBy, Packs!OnDisk, old
    <3>. QED  BY <3>2, <3>3, Zenon
  <2>6. /\ q.runtime = sessions[i].runtime /\ q.results = sessions[i].results
        /\ sessions[i].files \subseteq q.files
        /\ Packs!TestsOf(sessions[i].pack) \subseteq Packs!TestsOf(q.pack)
    BY <2>2 DEF old
  <2>7. q.runtime \in 1 .. runtimes  BY <1>4, <2>2, Zenon
  <2>. QED  BY <1>1, <1>2, <2>2, <2>3, <2>5, <2>6, <2>7, ReplacedKeeps, Zenon
<1>. QED  BY <1>6, <1>7, Zenon

LEMMA PacksInvariance == PacksInv /\ [Packs!Next]_Packs!vars => PacksInv'
<1>. SUFFICES ASSUME PacksInv, [Packs!Next]_Packs!vars PROVE PacksInv'
  OBVIOUS
<1>1. CASE UNCHANGED Packs!vars
  <2>1. runtimes' = runtimes /\ sessions' = sessions /\ overlapped' = overlapped
    BY <1>1, Zenon DEF Packs!vars
  <2>2. Packs!Ids' = Packs!Ids  BY <2>1, Zenon DEF Packs!Ids
  <2>3. Sessions'  BY <2>1, <2>2, Zenon DEF PacksInv, Sessions
  <2>4. Earned'  BY <2>1, <2>2, Zenon DEF PacksInv, Earned, EarnedBy, Packs!OnDisk
  <2>5. Chained'
    BY <2>1, <2>2, Zenon DEF PacksInv, Chained, Follows, Contains, Packs!OnDisk, Packs!Running
  <2>. QED  BY <2>3, <2>4, <2>5, Zenon DEF PacksInv
<1>. QED  BY <1>1, VerifyPacksKeeps, StartPacksKeeps, CompletePacksKeeps, WritePacksKeeps,
             EndPacksKeeps, Zenon DEF Packs!Next

-----------------------------------------------------------------------------
LEMMA PassedIs ==
  ASSUME Sessions, Earned, NEW i \in Packs!Ids
  PROVE  /\ Packs!TestsOf(sessions[i].pack) \subseteq Packs!Passed(sessions[i].runtime)
         /\ \A t \in DOMAIN sessions[i].results :
              t \in Tests /\ (sessions[i].results[t] = "passed" =>
                                t \in Packs!Passed(sessions[i].runtime))
<1>1. sessions[i] \in SessionRecords /\ Formed(sessions[i])  BY SessionShape
<1>2. ASSUME NEW t \in DOMAIN sessions[i].results PROVE t \in Tests
  <2>1. sessions[i].candidates \in SUBSET Tests  BY <1>1 DEF SessionRecords
  <2>2. CASE sessions[i].results = <<>>  BY <1>2, <2>2, NoResults
  <2>3. CASE DOMAIN sessions[i].results = sessions[i].candidates  BY <1>2, <2>1, <2>3
  <2>. QED  BY <1>1, <2>2, <2>3, Zenon DEF Formed
<1>3. ASSUME NEW a \in sessions[i].pack PROVE a[1] \in Packs!Passed(sessions[i].runtime)
  <2>1. EarnedBy(a, i)  BY Zenon DEF Earned
  <2>2. a[1] \in Tests
    <3>1. sessions[i].pack \in SUBSET (Tests \X Nat)  BY <1>1 DEF SessionRecords
    <3>. QED  BY <3>1
  <2>. QED  BY <2>1, <2>2, Zenon DEF EarnedBy, Packs!Passed
<1>4. ASSUME NEW t \in DOMAIN sessions[i].results, sessions[i].results[t] = "passed"
      PROVE  t \in Packs!Passed(sessions[i].runtime)
  BY <1>2, <1>4, Zenon DEF Packs!Passed
<1>5. Packs!TestsOf(sessions[i].pack) \subseteq Packs!Passed(sessions[i].runtime)
  BY <1>3 DEF Packs!TestsOf
<1>. QED  BY <1>2, <1>4, <1>5, Zenon

LEMMA PacksAreSound == PacksInv => Packs!PacksSound
<1>. SUFFICES ASSUME PacksInv PROVE Packs!PacksSound
  OBVIOUS
<1>1. Sessions /\ Earned  BY Zenon DEF PacksInv
<1>2. Packs!TypeOK
  <2>1. ASSUME NEW i \in Packs!Ids
        PROVE  /\ sessions[i].runtime \in 1 .. runtimes
               /\ sessions[i].files \subseteq Packs!Files
               /\ sessions[i].pack \subseteq Tests \X Packs!Ids
               /\ \A s, t \in sessions[i].pack : s[1] = t[1] => s = t
               /\ sessions[i].results = <<>> \/ DOMAIN sessions[i].results = sessions[i].candidates
    <3>1. /\ sessions[i] \in SessionRecords /\ Formed(sessions[i])
          /\ sessions[i].runtime \in 1 .. runtimes
      BY <1>1, SessionShape
    <3>2. /\ sessions[i].files \in WrittenSets /\ sessions[i].pack \in SUBSET (Tests \X Nat)
      BY <3>1 DEF SessionRecords
    <3>3. sessions[i].files \subseteq Packs!Files  BY <3>2 DEF WrittenSets, Packs!Files
    <3>4. \A a \in sessions[i].pack : a[2] \in Packs!Ids  BY <1>1, Zenon DEF Earned, EarnedBy
    <3>5. sessions[i].pack \subseteq Tests \X Packs!Ids  BY <3>2, <3>4
    <3>. QED  BY <3>1, <3>3, <3>5, Zenon DEF Formed, Single
  <2>. QED  BY <1>1, <2>1, Zenon DEF Packs!TypeOK, Sessions
<1>3. Packs!OnlyVerified
  <2>1. ASSUME NEW i \in Packs!Exports, NEW t \in Packs!Union(i),
               Packs!Onboarding(i)[t] = "passed"
        PROVE  t \in Packs!Passed(sessions[i].runtime)
    <3>1. i \in Packs!Ids  BY DEF Packs!Exports
    <3>2. Packs!Onboarding(i)[t] = IF t \in DOMAIN sessions[i].results
                                   THEN sessions[i].results[t] ELSE "passed"
      BY Zenon DEF Packs!Onboarding
    <3>3. CASE t \in DOMAIN sessions[i].results
      BY <1>1, <2>1, <3>1, <3>2, <3>3, PassedIs, Zenon
    <3>4. CASE t \notin DOMAIN sessions[i].results
      <4>1. t \in Packs!TestsOf(sessions[i].pack)  BY <3>4, Zenon DEF Packs!Union
      <4>. QED  BY <1>1, <3>1, <4>1, PassedIs
    <3>. QED  BY <3>3, <3>4, Zenon
  <2>. QED  BY <1>1, <2>1, PassedIs, Zenon DEF Packs!OnlyVerified
<1>4. Packs!BaselineBacked
  <2>. SUFFICES ASSUME NEW i \in Packs!Ids, "baseline" \in sessions[i].files
                PROVE  sessions[i].files = Packs!Files /\ sessions[i].pack # {}
    BY Zenon DEF Packs!BaselineBacked
  <2>1. sessions[i] \in SessionRecords /\ Formed(sessions[i])  BY <1>1, SessionShape
  <2>2. sessions[i].files = Packs!Files
    <3>1. sessions[i].files \in WrittenSets  BY <2>1 DEF SessionRecords
    <3>. QED  BY <3>1 DEF WrittenSets
  <2>. QED  BY <2>1, <2>2, Zenon DEF Formed
<1>5. Packs!FailureShown
  BY Zenon DEF Packs!FailureShown, Packs!Onboarding, Packs!Union
<1>. QED  BY <1>2, <1>3, <1>4, <1>5, Zenon DEF Packs!PacksSound

LEMMA PacksAreKept == PacksInv => Packs!NothingForgotten
<1>. SUFFICES ASSUME PacksInv, ~ overlapped, NEW i \in Packs!Ids, Packs!OnDisk(i)
              PROVE  Packs!TestsOf(sessions[i].pack)
                       \subseteq Packs!TestsOf(Packs!LoadBestVerifiedPack(sessions[i].runtime))
  BY Zenon DEF Packs!NothingForgotten
<1>. QED  BY BestContains, Zenon DEF PacksInv

LEMMA PacksInvariant == MCSpec => []PacksInv
<1>1. MCInit => PacksInv  BY PacksStart, Zenon DEF MCInit
<1>2. PacksInv /\ [MCNext]_<<scene, vars, mergeVars, featureVars, contextVars, packVars>>
        => PacksInv'
  <2>. SUFFICES ASSUME PacksInv,
                       [MCNext]_<<scene, vars, mergeVars, featureVars, contextVars, packVars>>
                PROVE  PacksInv'
    OBVIOUS
  <2>1. UNCHANGED packVars => UNCHANGED Packs!vars  BY Zenon DEF packVars, Packs!vars
  <2>2. Packs!Next \/ UNCHANGED packVars  BY Zenon DEF MCNext
  <2>. QED  BY <2>1, <2>2, PacksInvariance, Zenon
<1>. QED  BY <1>1, <1>2, PTL DEF MCSpec

(* What a pack, a baseline and an exported bundle claim was executed, for  *)
(* any tests, sessions that overlap, are killed or fail to write, and      *)
(* verifications (coretests.LoadBestVerifiedPack, testbundle.Export).      *)
THEOREM PacksClaimWhatRan == MCSpec => []PacksSound
<1>1. PacksInv => PacksSound  BY PacksAreSound, Zenon DEF PacksSound
<1>. QED  BY <1>1, PacksInvariant, PTL

(* As long as one session follows another, the best pack of a runtime      *)
(* holds every test that any of its packs holds, whatever sessions were    *)
(* killed or could not write (coretests.LoadBestVerifiedPack).             *)
THEOREM NoTestIsForgotten == MCSpec => []NothingForgotten
<1>1. PacksInv => NothingForgotten  BY PacksAreKept, Zenon DEF NothingForgotten
<1>. QED  BY <1>1, PacksInvariant, PTL
=============================================================================
