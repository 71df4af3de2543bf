------------------------ MODULE RuntimeVerifierProofs ------------------------
(***************************************************************************)
(* What holds of a runtime verification for every application, target and  *)
(* limit: nothing goes missing, and what is called verified was seen. Then *)
(* the second factor of its login, for every period, margin and delay: a   *)
(* code is submitted where it is asked for, once, and while it is valid.   *)
(***************************************************************************)
EXTENDS MCVerification, SequenceTheorems, FiniteSetTheorems, WellFoundedInduction, TLAPS

(* The records that are written. *)
States == {"not_attempted", "unauthenticated", "authenticated"}
Findings ==
  {"not_attempted", "requires_runtime_binding", "runtime_error", "not_found", "auth_required",
   "contradicted", "redirected", "unknown", "verified"}
ObservationRecords ==
  [interface : Interfaces, state : States, status : Findings, cites : BOOLEAN]
Logins == {"not_attempted", "runtime_error", "blocked", "unverified", "unknown", "verified"}
Coverages ==
  {"none", "not_attempted", "unverified", "contradicted", "partially_verified", "verified"}
RuntimeRecords ==
  [status : {"running", "completed", "partial", "failed"}, failure : BOOLEAN,
   reachable : BOOLEAN, flawed : BOOLEAN,
   authentication : [status : Logins, cites : BOOLEAN],
   interfaces : Seq(ObservationRecords), features : [Features -> Coverages]]

-----------------------------------------------------------------------------
(* A set of numbers has a least one. *)
LEMMA Least ==
  ASSUME NEW S \in SUBSET Nat, S # {}
  PROVE  \E n \in S : \A m \in S : n <= m
<1>1. PICK n \in S : \A m \in S : ~ (<<m, n>> \in OpToRel(<, Nat))
  BY NatLessThanWellFounded, WFMin
<1>2. \A m \in S : <<m, n>> \in Nat \X Nat
  OBVIOUS
<1>3. \A m \in S : ~ (m < n)
  BY <1>1, <1>2 DEF OpToRel
<1> QED
  BY <1>3

(* Interfaces have a first one: without a parameter if there is any, then *)
(* by priority, then by number. *)
LEMMA FirstOf ==
  ASSUME NEW S \in SUBSET Interfaces, S # {}
  PROVE  First(S) \in S
<1>1. \A i \in S : /\ Rank(i)[1] \in Nat /\ Rank(i)[2] \in Nat /\ Rank(i)[3] = i
                   /\ i \in Nat
  BY VerifierAssumption DEF Rank, Priority
<1> DEFINE First1 == {Rank(i)[1] : i \in S}
<1>2. PICK a \in First1 : \A b \in First1 : a <= b
  <2>1. First1 \in SUBSET Nat /\ First1 # {}
    BY <1>1
  <2> HIDE DEF First1
  <2> QED
    BY <2>1, Least
<1> DEFINE A == {i \in S : Rank(i)[1] = a}
<1> DEFINE Second2 == {Rank(i)[2] : i \in A}
<1>3. PICK c \in Second2 : \A b \in Second2 : c <= b
  <2>1. Second2 \in SUBSET Nat /\ Second2 # {}
    BY <1>1, <1>2
  <2> HIDE DEF Second2
  <2> QED
    BY <2>1, Least
<1> DEFINE C == {i \in A : Rank(i)[2] = c}
<1>4. PICK i \in C : \A j \in C : i <= j
  BY <1>1, <1>3, Least
<1>5. ASSUME NEW j \in S \ {i} PROVE Before(i, j)
  <2> DEFINE E(k) == Rank(i)[k] < Rank(j)[k] /\ \A l \in 1..(k-1) : Rank(i)[l] = Rank(j)[l]
  <2>1. i \in S /\ Rank(i)[1] = a /\ Rank(i)[2] = c /\ Rank(i)[3] = i
    BY <1>1, <1>4
  <2>2. CASE j \notin A
    <3>1. a <= Rank(j)[1] /\ a # Rank(j)[1] /\ a \in Nat /\ Rank(j)[1] \in Nat
      BY <1>1, <1>2, <2>1, <2>2
    <3>2. E(1)
      BY <2>1, <3>1
    <3> QED
      BY <3>2 DEF Before
  <2>3. CASE j \in A \ C
    <3>1. c <= Rank(j)[2] /\ c # Rank(j)[2] /\ c \in Nat /\ Rank(j)[2] \in Nat
      BY <1>1, <1>3, <2>1, <2>3
    <3>2. E(2)
      BY <2>1, <2>3, <3>1
    <3> QED
      BY <3>2 DEF Before
  <2>4. CASE j \in C
    <3>1. i < j /\ Rank(j)[3] = j
      BY <1>1, <1>4, <2>1, <2>4
    <3>2. \A l \in 1..(3 - 1) : l = 1 \/ l = 2
      OBVIOUS
    <3>3. E(3)
      BY <2>1, <2>4, <3>1, <3>2
    <3> QED
      BY <3>3 DEF Before
  <2> QED
    BY <2>2, <2>3, <2>4
<1>6. \E k \in S : \A j \in S \ {k} : Before(k, j)
  BY <1>4, <1>5
<1> QED
  BY <1>6 DEF First

-----------------------------------------------------------------------------
(* Finitely many numbers can be listed in their order, *)
Ordered(s) == \A j, k \in DOMAIN s : j < k => s[j] < s[k]

LEMMA InOrder ==
  ASSUME NEW S \in SUBSET Nat, IsFiniteSet(S)
  PROVE  \E s \in [1..Cardinality(S) -> S] : Ordered(s)
<1> DEFINE n == Cardinality(S)
           Below(i) == {j \in S : j <= i}
           r == [i \in S |-> Cardinality(Below(i))]
<1>1. n \in Nat /\ IsFiniteSet(1..n) /\ Cardinality(1..n) = n
  BY FS_CardinalityType, FS_Interval
<1>2. ASSUME NEW i \in S
      PROVE  r[i] \in 1..n /\ IsFiniteSet(Below(i))
  <2>1. IsFiniteSet(Below(i)) /\ Cardinality(Below(i)) <= n /\ i \in Below(i)
    BY FS_Subset
  <2>2. Cardinality(Below(i)) \in Nat /\ Cardinality(Below(i)) # 0
    BY <2>1, FS_CardinalityType, FS_EmptySet
  <2> QED
    BY <1>1, <2>1, <2>2
<1>3. ASSUME NEW i \in S, NEW j \in S, i < j
      PROVE  r[i] < r[j]
  <2>1. Below(i) \in SUBSET Below(j) /\ j \in Below(j) /\ j \notin Below(i)
    <3>1. \A k \in S : k \in Nat
      OBVIOUS
    <3>2. \A k \in S : k <= i => k <= j
      BY <1>3, <3>1
    <3>3. j <= j /\ ~ (j <= i)
      BY <1>3, <3>1
    <3> QED
      BY <3>2, <3>3
  <2>2. Cardinality(Below(i)) <= Cardinality(Below(j))
    BY <1>2, <2>1, FS_Subset
  <2>3. Cardinality(Below(i)) # Cardinality(Below(j))
    BY <1>2, <2>1, FS_Subset
  <2> QED
    BY <1>1, <1>2, <2>2, <2>3
<1> HIDE DEF n, r
<1>4. r \in Injection(S, 1..n)
  <2>1. r \in [S -> 1..n]
    BY <1>2 DEF r
  <2>2. \A i, j \in S : r[i] = r[j] => i = j
    <3> SUFFICES ASSUME NEW i \in S, NEW j \in S, i # j PROVE r[i] # r[j]
      OBVIOUS
    <3>1. r[i] \in 1..n /\ r[j] \in 1..n
      BY <1>2
    <3>2. i < j \/ j < i
      OBVIOUS
    <3> QED
      BY <1>1, <1>3, <3>1, <3>2
  <2> QED
    BY <2>1, <2>2 DEF Injection, IsInjective
<1>5. r \in Surjection(S, 1..n)
  BY <1>1, <1>4, FS_Injection DEF n
<1> DEFINE s == [k \in 1..n |-> CHOOSE i \in S : r[i] = k]
<1>6. \A k \in 1..n : s[k] \in S /\ r[s[k]] = k
  BY <1>5 DEF Surjection
<1> HIDE DEF s
<1>7. ASSUME NEW j \in 1..n, NEW k \in 1..n, j < k
      PROVE  s[j] < s[k]
  <2>1. s[j] \in Nat /\ s[k] \in Nat /\ s[j] \in S /\ s[k] \in S /\ r[s[j]] = j /\ r[s[k]] = k
    BY <1>6
  <2>2. ~ (s[k] < s[j]) /\ s[k] # s[j]
    BY <1>1, <1>3, <1>7, <2>1
  <2> QED
    BY <2>1, <2>2
<1>8. s \in [1..n -> S] /\ DOMAIN s = 1..n
  BY <1>6 DEF s
<1> QED
  BY <1>7, <1>8 DEF Ordered, n

(* and such a list leaves none of them out and names none twice. *)
LEMMA OrderedListsAll ==
  ASSUME NEW S \in SUBSET Nat, IsFiniteSet(S),
         NEW s \in [1..Cardinality(S) -> S], Ordered(s)
  PROVE  /\ \A j, k \in DOMAIN s : j # k => s[j] # s[k]
         /\ \A i \in S : \E k \in DOMAIN s : s[k] = i
<1> DEFINE n == Cardinality(S)
<1>1. n \in Nat /\ IsFiniteSet(1..n) /\ Cardinality(1..n) = n
  BY FS_CardinalityType, FS_Interval
<1>2. \A j, k \in 1..n : j # k => s[j] # s[k]
  <2> SUFFICES ASSUME NEW j \in 1..n, NEW k \in 1..n, j # k PROVE s[j] # s[k]
    OBVIOUS
  <2>1. j < k \/ k < j
    BY <1>1
  <2>2. s[j] \in Nat /\ s[k] \in Nat
    OBVIOUS
  <2>3. s[j] < s[k] \/ s[k] < s[j]
    BY <2>1 DEF Ordered
  <2> QED
    BY <2>2, <2>3
<1>3. s \in Injection(1..n, S)
  BY <1>2 DEF Injection, IsInjective
<1>4. s \in Surjection(1..n, S)
  BY <1>1, <1>3, FS_Injection
<1> QED
  BY <1>2, <1>4 DEF Surjection

(* What is recorded of interfaces that were not attempted. *)
LEMMA NotAttemptedLists ==
  ASSUME NEW S \in SUBSET Interfaces
  PROVE  /\ NotAttempted(S) \in Seq(ObservationRecords)
         /\ \A k \in DOMAIN NotAttempted(S) :
              /\ NotAttempted(S)[k].interface \in S
              /\ NotAttempted(S)[k].state = "not_attempted"
              /\ NotAttempted(S)[k].status = "not_attempted"
              /\ NotAttempted(S)[k].cites = TRUE
         /\ \A j, k \in DOMAIN NotAttempted(S) :
              j # k => NotAttempted(S)[j].interface # NotAttempted(S)[k].interface
         /\ \A i \in S : \E k \in DOMAIN NotAttempted(S) : NotAttempted(S)[k].interface = i
<1> DEFINE n == Cardinality(S)
           s == CHOOSE t \in [1..n -> S] : \A j, k \in DOMAIN t : j < k => t[j] < t[k]
           F == NotAttempted(S)
<1>1. S \in SUBSET Nat /\ IsFiniteSet(S) /\ n \in Nat
  BY VerifierAssumption, FS_Subset, FS_CardinalityType
<1>2. s \in [1..n -> S] /\ Ordered(s)
  BY <1>1, InOrder DEF Ordered
<1>3. F = [k \in DOMAIN s |-> Observation(s[k], "not_attempted", "not_attempted", TRUE)]
  BY DEF NotAttempted
<1> HIDE DEF s, n, F
<1>4. DOMAIN F = 1..n /\ DOMAIN s = 1..n
  BY <1>2, <1>3
<1>5. \A k \in 1..n : /\ F[k] \in ObservationRecords /\ F[k].interface = s[k] /\ s[k] \in S
                      /\ F[k].state = "not_attempted" /\ F[k].status = "not_attempted"
                      /\ F[k].cites = TRUE
  <2> TAKE k \in 1..n
  <2>1. s[k] \in S /\ s[k] \in Interfaces
    BY <1>2, <1>4
  <2>2. F[k] = [interface |-> s[k], state |-> "not_attempted", status |-> "not_attempted",
                cites |-> TRUE]
    BY <1>3, <1>4 DEF Observation
  <2>3. F[k] \in ObservationRecords
    BY <2>1, <2>2 DEF ObservationRecords, States, Findings
  <2>4. F[k].interface = s[k] /\ F[k].state = "not_attempted" /\ F[k].status = "not_attempted"
    BY <2>2
  <2>5. F[k].cites = TRUE
    BY <2>2
  <2> QED
    BY <2>1, <2>3, <2>4, <2>5
<1>6. F \in Seq(ObservationRecords)
  <2>1. F = [k \in 1..n |-> F[k]]
    BY <1>3, <1>4
  <2>2. \A k \in 1..n : F[k] \in ObservationRecords
    BY <1>5
  <2> HIDE DEF ObservationRecords
  <2> QED
    BY <1>1, <2>1, <2>2, IsASeq
<1>7. /\ \A j, k \in DOMAIN s : j # k => s[j] # s[k]
      /\ \A i \in S : \E k \in DOMAIN s : s[k] = i
  BY <1>1, <1>2, OrderedListsAll DEF n
<1> QED
  BY <1>4, <1>5, <1>6, <1>7 DEF F

(* A visit ends in one of the findings, *)
LEMMA FindingType ==
  \A it, state, url, page, logins :
    page.http \in {"ok", "missing", "denied", "failing"}
      => PageStatus(it, state, url, page, logins) \in Findings
  BY DEF PageStatus, Findings

(* and without a session never verifies what the source says needs one. *)
LEMMA WallsKept ==
  \A it, url, page, logins :
    PageStatus(it, "unauthenticated", url, page, logins) = "verified" => it.access # "required"
  BY DEF PageStatus

-----------------------------------------------------------------------------
(* Coverage is defined by recursion along the feature tree.  There is such *)
(* a function for any Parent: the least one.  So Covered satisfies its     *)
(* equation.                                                               *)
UnderCovered(g, f) ==
  IF DirectInterfaces[f] # {} THEN DirectInterfaces[f] ELSE UNION {g[c] : c \in Children(f)}
CoverStep(g) == [f \in Features |-> UnderCovered(g, f)]

LEMMA UnderCoveredGrows ==
  ASSUME NEW g, NEW h, NEW f \in Features, \A c \in Features : g[c] \subseteq h[c]
  PROVE  UnderCovered(g, f) \subseteq UnderCovered(h, f)
<1>1. CASE DirectInterfaces[f] # {}
  BY <1>1 DEF UnderCovered
<1>2. CASE DirectInterfaces[f] = {}
  <2>1. UnderCovered(g, f) = UNION {g[c] : c \in Children(f)}
    BY <1>2 DEF UnderCovered
  <2>2. UnderCovered(h, f) = UNION {h[c] : c \in Children(f)}
    BY <1>2 DEF UnderCovered
  <2>3. ASSUME NEW i \in UnderCovered(g, f)
        PROVE  i \in UnderCovered(h, f)
    <3>1. PICK c \in Children(f) : i \in g[c]
      BY <2>1
    <3>2. c \in Features
      BY DEF Children
    <3>3. i \in h[c]
      BY <3>1, <3>2
    <3> QED
      BY <2>2, <3>3
  <2> QED
    BY <2>3
<1> QED
  BY <1>1, <1>2

LEMMA CoveredDef == \A f \in Features : Covered[f] = UnderCovered(Covered, f)
<1> DEFINE Closed == {h \in [Features -> SUBSET Interfaces] :
                        \A f \in Features : UnderCovered(h, f) \subseteq h[f]}
           g == [f \in Features |-> {i \in Interfaces : \A h \in Closed : i \in h[f]}]
           h1 == CoverStep(g)
<1>1. g \in [Features -> SUBSET Interfaces]
  OBVIOUS
<1>2. ASSUME NEW h \in [Features -> SUBSET Interfaces], NEW f \in Features
      PROVE  UnderCovered(h, f) \subseteq Interfaces
  <2>1. DirectInterfaces[f] \subseteq Interfaces
    BY VerifierAssumption
  <2>2. \A c \in Children(f) : h[c] \subseteq Interfaces
    BY DEF Children
  <2> QED
    BY <2>1, <2>2 DEF UnderCovered
<1>3. ASSUME NEW h \in Closed, NEW f \in Features
      PROVE  UnderCovered(g, f) \subseteq h[f]
  <2>1. \A c \in Features : g[c] \subseteq h[c]
    OBVIOUS
  <2> HIDE DEF g
  <2>2. UnderCovered(g, f) \subseteq UnderCovered(h, f)
    BY <2>1, UnderCoveredGrows
  <2> QED
    BY <2>2
<1>4. \A f \in Features : UnderCovered(g, f) \subseteq g[f]
  <2> TAKE f \in Features
  <2>1. UnderCovered(g, f) \subseteq Interfaces
    BY <1>1, <1>2
  <2> HIDE DEF Closed
  <2> QED
    BY <1>3, <2>1
<1>5. h1 \in Closed
  <2>1. h1 \in [Features -> SUBSET Interfaces]
    <3> HIDE DEF g
    <3> QED
      BY <1>1, <1>2 DEF CoverStep
  <2>2. \A c \in Features : h1[c] \subseteq g[c]
    BY <1>4 DEF CoverStep
  <2>3. ASSUME NEW f \in Features PROVE UnderCovered(h1, f) \subseteq h1[f]
    <3> HIDE DEF g
    <3>1. h1[f] = UnderCovered(g, f)
      BY DEF CoverStep
    <3> HIDE DEF h1
    <3> QED
      BY <2>2, <3>1, UnderCoveredGrows
  <2> QED
    BY <2>1, <2>3
<1>6. \A f \in Features : g[f] \subseteq h1[f]
  <2> HIDE DEF h1, Closed
  <2> QED
    BY <1>5
<1>7. \A f \in Features : h1[f] = UnderCovered(g, f)
  BY DEF CoverStep
<1>8. \A f \in Features : g[f] = UnderCovered(g, f)
  <2> HIDE DEF g, h1
  <2> QED
    BY <1>4, <1>6, <1>7
<1>9. g = CoverStep(g)
  <2>1. g = [f \in Features |-> g[f]]
    OBVIOUS
  <2> HIDE DEF g
  <2> QED
    BY <1>8, <2>1 DEF CoverStep
<1> HIDE DEF g
<1>10. Covered = CoverStep(Covered)
  BY <1>9 DEF Covered, CoverStep, UnderCovered
<1> QED
  BY <1>10 DEF CoverStep

-----------------------------------------------------------------------------
(* What the operations on the record of a run leave of it. *)
LEMMA NoRuntimeType == NoRuntime \in RuntimeRecords
<1>1. <<>> \in Seq(ObservationRecords)
  OBVIOUS
<1> HIDE DEF ObservationRecords
<1> QED
  BY <1>1 DEF NoRuntime, RuntimeRecords, Logins, Coverages

LEMMA FailedType ==
  ASSUME NEW r \in RuntimeRecords
  PROVE  /\ Failed(r) \in RuntimeRecords
         /\ Failed(r).status \in {"partial", "failed"} /\ Failed(r).failure
         /\ Failed(r).interfaces = r.interfaces /\ Failed(r).features = r.features
         /\ Failed(r).authentication = r.authentication
<1> USE DEF Failed, RuntimeRecords
<1> HIDE DEF ObservationRecords, Logins, Coverages
<1> QED
  OBVIOUS

LEMMA WithFeaturesType ==
  ASSUME NEW r \in RuntimeRecords
  PROVE  /\ WithFeatures(r) \in RuntimeRecords
         /\ WithFeatures(r).features = [f \in Features |-> FeatureStatus(f, r.interfaces)]
         /\ WithFeatures(r).interfaces = r.interfaces /\ WithFeatures(r).status = r.status
         /\ WithFeatures(r).authentication = r.authentication
         /\ WithFeatures(r).failure = r.failure /\ WithFeatures(r).flawed = r.flawed
<1>1. \A f \in Features : FeatureStatus(f, r.interfaces) \in Coverages
  BY DEF FeatureStatus, Coverages
<1>2. [f \in Features |-> FeatureStatus(f, r.interfaces)] \in [Features -> Coverages]
  BY <1>1
<1> HIDE DEF ObservationRecords, Logins, Coverages
<1> QED
  BY <1>2 DEF WithFeatures, RuntimeRecords

LEMMA AbortEffect ==
  ASSUME NEW r \in RuntimeRecords, Abort(r)
  PROVE  /\ runtime' \in RuntimeRecords /\ returned' = "error" /\ pc' = "returned"
         /\ runtime'.interfaces = r.interfaces /\ runtime'.features = r.features
         /\ runtime'.status # "running"
         /\ r.status # "completed" => runtime'.status # "completed"
<1>1. runtime' = Failed(r) \/ (runtime' = r /\ r.status # "running")
  BY DEF Abort
<1> QED
  BY <1>1, FailedType DEF Abort

-----------------------------------------------------------------------------
(* What a page and the record of it are. *)
LEMMA PageType ==
  ASSUME NEW url, NEW page \in Pages(url)
  PROVE  /\ page.http \in {"ok", "missing", "denied", "failing"}
         /\ page.form \in BOOLEAN /\ page.flawed \in BOOLEAN
         /\ page.links \subseteq TargetLinks
  BY DEF Pages

LEMMA RecordType ==
  ASSUME NEW page, page.flawed \in BOOLEAN, NEW r \in Records(page)
  PROVE  r.written \in BOOLEAN /\ r.flawed \in BOOLEAN
<1>1. CASE r = [written |-> TRUE, flawed |-> page.flawed]
  BY <1>1
<1>2. CASE r \in [written : {FALSE}, flawed : {FALSE, page.flawed}]
  <2>1. r.written \in {FALSE} /\ r.flawed \in {FALSE, page.flawed}
    BY <1>2
  <2> QED
    BY <2>1
<1> QED
  BY <1>1, <1>2 DEF Records

(* The links kept are those of the pages, redacted. *)
Linked == seen \subseteq TargetLinks /\ links = {Redact(u) : u \in seen}

LEMMA ObserveLinks ==
  ASSUME Linked, NEW page, page.links \subseteq TargetLinks, Observe(page)
  PROVE  Linked'
<1>1. seen' = seen \cup page.links /\ links' = links \cup {Redact(u) : u \in page.links}
  BY DEF Observe
<1>2. links' = {Redact(u) : u \in seen'}
  BY <1>1 DEF Linked
<1> QED
  BY <1>1, <1>2 DEF Linked

(* The entries of a sequence, and whether any two of them are of different *)
(* interfaces or states. *)
Entries(s) == {s[k] : k \in DOMAIN s}
Once(s) ==
  \A j, k \in DOMAIN s :
    j # k => s[j].interface # s[k].interface \/ s[j].state # s[k].state

LEMMA EntriesAppend ==
  ASSUME NEW s \in Seq(ObservationRecords), NEW o \in ObservationRecords
  PROVE  /\ Append(s, o) \in Seq(ObservationRecords)
         /\ Entries(Append(s, o)) = Entries(s) \cup {o}
         /\ Once(s) /\ (\A p \in Entries(s) : p.interface # o.interface \/ p.state # o.state)
              => Once(Append(s, o))
<1> DEFINE a == Append(s, o)
           n == Len(s)
<1>1. /\ n \in Nat /\ DOMAIN s = 1..n /\ a \in Seq(ObservationRecords)
      /\ DOMAIN a = 1..(n + 1) /\ a[n + 1] = o /\ \A k \in 1..n : a[k] = s[k]
  <2> HIDE DEF ObservationRecords
  <2> QED
    OBVIOUS
<1> HIDE DEF a, n
<1>2. Entries(a) = Entries(s) \cup {o}
  <2>1. \A k \in 1..(n + 1) : k \in 1..n \/ k = n + 1
    BY <1>1
  <2>2. \A k \in 1..n : k \in 1..(n + 1)
    BY <1>1
  <2>3. n + 1 \in 1..(n + 1)
    BY <1>1
  <2> QED
    BY <1>1, <2>1, <2>2, <2>3 DEF Entries
<1>3. ASSUME Once(s), \A p \in Entries(s) : p.interface # o.interface \/ p.state # o.state
      PROVE  Once(a)
  <2> SUFFICES ASSUME NEW j \in 1..(n + 1), NEW k \in 1..(n + 1), j # k
               PROVE  a[j].interface # a[k].interface \/ a[j].state # a[k].state
    BY <1>1 DEF Once
  <2>1. \A l \in 1..n : s[l] \in Entries(s)
    BY <1>1 DEF Entries
  <2>2. (j \in 1..n \/ j = n + 1) /\ (k \in 1..n \/ k = n + 1)
    BY <1>1
  <2> QED
    BY <1>1, <1>3, <2>1, <2>2 DEF Once
<1> QED
  BY <1>1, <1>2, <1>3 DEF a

LEMMA EntriesConcat ==
  ASSUME NEW s \in Seq(ObservationRecords), NEW t \in Seq(ObservationRecords)
  PROVE  /\ s \o t \in Seq(ObservationRecords)
         /\ Entries(s \o t) = Entries(s) \cup Entries(t)
         /\ (/\ Once(s) /\ Once(t)
             /\ \A p \in Entries(s), q \in Entries(t) :
                  p.interface # q.interface \/ p.state # q.state)
              => Once(s \o t)
<1> DEFINE a == s \o t
           n == Len(s)
           m == Len(t)
<1>1. /\ n \in Nat /\ m \in Nat /\ DOMAIN s = 1..n /\ DOMAIN t = 1..m
      /\ a \in Seq(ObservationRecords) /\ DOMAIN a = 1..(n + m)
      /\ \A k \in 1..(n + m) : a[k] = IF k <= n THEN s[k] ELSE t[k - n]
  <2> HIDE DEF ObservationRecords
  <2> QED
    BY ConcatProperties
<1> HIDE DEF a, n, m
<1>2. \A k \in 1..(n + m) : \/ k \in 1..n /\ a[k] = s[k]
                            \/ k - n \in 1..m /\ a[k] = t[k - n]
  BY <1>1
<1>3. \A k \in 1..n : k \in 1..(n + m) /\ a[k] = s[k]
  BY <1>1
<1>4. \A k \in 1..m : k + n \in 1..(n + m) /\ a[k + n] = t[k]
  <2> TAKE k \in 1..m
  <2>1. k + n \in 1..(n + m) /\ ~ (k + n <= n) /\ (k + n) - n = k
    BY <1>1
  <2> QED
    BY <1>1, <2>1
<1>5. Entries(a) = Entries(s) \cup Entries(t)
  <2>1. \A x \in Entries(a) : x \in Entries(s) \cup Entries(t)
    BY <1>1, <1>2 DEF Entries
  <2>2. \A x \in Entries(s) : x \in Entries(a)
    BY <1>1, <1>3 DEF Entries
  <2>3. \A x \in Entries(t) : x \in Entries(a)
    BY <1>1, <1>4, ZenonT(60) DEF Entries
  <2> QED
    BY <2>1, <2>2, <2>3
<1>6. ASSUME Once(s), Once(t),
             \A p \in Entries(s), q \in Entries(t) :
               p.interface # q.interface \/ p.state # q.state
      PROVE  Once(a)
  <2> SUFFICES ASSUME NEW j \in 1..(n + m), NEW k \in 1..(n + m), j # k
               PROVE  a[j].interface # a[k].interface \/ a[j].state # a[k].state
    BY <1>1 DEF Once
  <2>1. \A l \in 1..n : s[l] \in Entries(s)
    BY <1>1 DEF Entries
  <2>2. \A l \in 1..m : t[l] \in Entries(t)
    BY <1>1 DEF Entries
  <2>3. CASE j \in 1..n /\ k \in 1..n
    BY <1>1, <1>3, <1>6, <2>3 DEF Once
  <2>4. CASE j - n \in 1..m /\ a[j] = t[j - n] /\ k - n \in 1..m /\ a[k] = t[k - n]
    <3>1. j - n # k - n
      BY <1>1
    <3> QED
      BY <1>1, <1>6, <2>4, <3>1 DEF Once
  <2>5. CASE j \in 1..n /\ k - n \in 1..m /\ a[k] = t[k - n]
    BY <1>3, <1>6, <2>1, <2>2, <2>5
  <2>6. CASE k \in 1..n /\ j - n \in 1..m /\ a[j] = t[j - n]
    BY <1>3, <1>6, <2>1, <2>2, <2>6
  <2> QED
    BY <1>2, <2>3, <2>4, <2>5, <2>6
<1> QED
  BY <1>1, <1>5, <1>6 DEF a

-----------------------------------------------------------------------------
(* The rest of the record stays when an observation is added to it. *)
KeepsRest ==
  /\ runtime' \in RuntimeRecords
  /\ runtime'.status = runtime.status /\ runtime'.failure = runtime.failure
  /\ runtime'.features = runtime.features
  /\ runtime'.authentication = runtime.authentication

LEMMA ReportEffect ==
  ASSUME runtime \in RuntimeRecords, NEW o \in ObservationRecords, NEW flawed \in BOOLEAN,
         Report(o, flawed)
  PROVE  /\ KeepsRest
         /\ runtime'.interfaces = Append(runtime.interfaces, o)
         /\ LastStatus = o.status
<1>1. runtime.interfaces \in Seq(ObservationRecords)
  BY DEF RuntimeRecords
<1> DEFINE a == Append(runtime.interfaces, o)
<1> HIDE DEF ObservationRecords, Logins, Coverages
<1>2. a \in Seq(ObservationRecords) /\ a[Len(a)] = o
  BY <1>1
<1> HIDE DEF a
<1>3. runtime' = [runtime EXCEPT !.interfaces = a, !.flawed = @ \/ flawed]
  BY DEF Report, a
<1>4. KeepsRest /\ runtime'.interfaces = a
  BY <1>2, <1>3 DEF KeepsRest, RuntimeRecords
<1>5. LastStatus = a[Len(a)].status
  BY <1>4 DEF LastStatus
<1> QED
  BY <1>2, <1>4, <1>5 DEF a

(* What one visit adds: an observation of the interface in that state; it  *)
(* cites evidence unless evidence was lost, and a visit without a session  *)
(* does not verify what the source says needs one.                         *)
Visited(i, state, o) ==
  /\ o \in ObservationRecords /\ o.interface = i /\ o.state = state
  /\ state = "unauthenticated" /\ o.status = "verified" => ~ Required(i)
  /\ ~ lost' => o.cites /\ ~ lost
  /\ lost' \in BOOLEAN
  /\ KeepsRest /\ runtime'.interfaces = Append(runtime.interfaces, o)
  /\ LastStatus = o.status
  /\ \A url \in visited' : url \in visited \/ url \in links \/ url[2] = None

LEMMA ObservationType ==
  ASSUME NEW i \in Interfaces, NEW state \in States, NEW status \in Findings, NEW c \in BOOLEAN
  PROVE  /\ Observation(i, state, status, c) \in ObservationRecords
         /\ Observation(i, state, status, c).interface = i
         /\ Observation(i, state, status, c).state = state
         /\ Observation(i, state, status, c).status = status
         /\ Observation(i, state, status, c).cites <=> c
<1> HIDE DEF States, Findings
<1> QED
  BY DEF Observation, ObservationRecords

LEMMA VisitEffect ==
  ASSUME runtime \in RuntimeRecords, lost \in BOOLEAN, Linked,
         NEW i \in Interfaces, NEW state \in {"unauthenticated", "authenticated"},
         Visit(i, state)
  PROVE  Linked' /\ \E o : Visited(i, state, o)
<1> DEFINE O(status, cites) == Observation(i, state, status, cites)
<1>1. /\ state \in States
      /\ "requires_runtime_binding" \in Findings /\ "runtime_error" \in Findings
      /\ "requires_runtime_binding" # "verified" /\ "runtime_error" # "verified"
  BY DEF States, Findings
<1>2. \A url \in Destinations(i) : url \in links \/ url[2] = None
  BY DEF Destinations, Url
<1>3. ASSUME NEW status \in Findings, NEW cites \in BOOLEAN, NEW flawed \in BOOLEAN,
             Report(O(status, cites), flawed),
             state = "unauthenticated" /\ status = "verified" => ~ Required(i),
             lost' \in BOOLEAN, ~ lost' => cites /\ ~ lost,
             \A url \in visited' : url \in visited \/ url \in links \/ url[2] = None
      PROVE  \E o : Visited(i, state, o)
  <2> DEFINE o == O(status, cites)
  <2>1. /\ o \in ObservationRecords /\ o.interface = i /\ o.state = state
        /\ o.status = status /\ (o.cites <=> cites)
    BY <1>1, <1>3, ObservationType
  <2> HIDE DEF o
  <2>2. Report(o, flawed)
    BY <1>3 DEF o
  <2>3. /\ KeepsRest /\ runtime'.interfaces = Append(runtime.interfaces, o)
        /\ LastStatus = o.status
    BY <1>3, <2>1, <2>2, ReportEffect
  <2>4. state = "unauthenticated" /\ o.status = "verified" => ~ Required(i)
    BY <1>3, <2>1
  <2>5. ~ lost' => o.cites /\ ~ lost
    BY <1>3, <2>1
  <2> QED
    BY <1>3, <2>1, <2>3, <2>4, <2>5 DEF Visited
<1>4. CASE /\ Destinations(i) = {}
           /\ \E written \in BOOLEAN :
                /\ lost' = (lost \/ ~ written)
                /\ Report(O("requires_runtime_binding", written), FALSE)
           /\ UNCHANGED <<links, seen, visited>>
  <2>1. PICK written \in BOOLEAN : /\ lost' = (lost \/ ~ written)
                                   /\ Report(O("requires_runtime_binding", written), FALSE)
    BY <1>4
  <2>2. Linked'
    BY <1>4 DEF Linked
  <2>3. lost' \in BOOLEAN /\ (~ lost' => written /\ ~ lost)
    BY <2>1
  <2>4. visited' = visited
    BY <1>4
  <2> HIDE DEF O
  <2>5. \E o : Visited(i, state, o)
    BY <1>1, <1>3, <2>1, <2>3, <2>4
  <2> QED
    BY <2>2, <2>5
<1>5. ASSUME NEW url \in Destinations(i), visited' = visited \cup {url},
             NEW written \in BOOLEAN, lost' = (lost \/ ~ written),
             Report(O("runtime_error", written), FALSE), UNCHANGED <<links, seen>>
      PROVE  Linked' /\ \E o : Visited(i, state, o)
  <2>1. Linked'
    BY <1>5 DEF Linked
  <2>2. lost' \in BOOLEAN /\ (~ lost' => written /\ ~ lost)
    BY <1>5
  <2>3. \A u \in visited' : u \in visited \/ u \in links \/ u[2] = None
    BY <1>2, <1>5
  <2> HIDE DEF O
  <2>4. \E o : Visited(i, state, o)
    BY <1>1, <1>3, <1>5, <2>2, <2>3
  <2> QED
    BY <2>1, <2>4
<1>6. ASSUME NEW url \in Destinations(i), visited' = visited \cup {url},
             NEW page \in Pages(url), NEW r \in Records(page), ~ r.written, lost' = TRUE,
             NEW bound \in {FALSE, HasParameter(i)},
             Report(O("runtime_error", bound), r.flawed), UNCHANGED <<links, seen>>
      PROVE  Linked' /\ \E o : Visited(i, state, o)
  <2>1. Linked'
    BY <1>6 DEF Linked
  <2>2. bound \in BOOLEAN /\ r.flawed \in BOOLEAN
    <3>1. page.flawed \in BOOLEAN
      BY PageType
    <3>2. r.flawed \in BOOLEAN
      BY <3>1, RecordType
    <3>3. HasParameter(i) \in BOOLEAN
      BY DEF HasParameter
    <3>4. bound = FALSE \/ bound = HasParameter(i)
      OBVIOUS
    <3>5. bound \in BOOLEAN
      BY <3>3, <3>4
    <3> QED
      BY <3>2, <3>5
  <2>3. \A u \in visited' : u \in visited \/ u \in links \/ u[2] = None
    BY <1>2, <1>6
  <2>4. lost' \in BOOLEAN /\ (~ lost' => bound /\ ~ lost)
    BY <1>6
  <2> HIDE DEF O
  <2>5. \E o : Visited(i, state, o)
    BY <1>1, <1>3, <1>6, <2>2, <2>3, <2>4
  <2> QED
    BY <2>1, <2>5
<1>7. ASSUME NEW url \in Destinations(i), visited' = visited \cup {url},
             NEW page \in Pages(url), NEW r \in Records(page), r.written,
             lost' \in {lost, lost \/ HasParameter(i)}, Observe(page),
             Report(O(PageStatus(item[i], state, url, page, LoginURLs), TRUE), r.flawed)
      PROVE  Linked' /\ \E o : Visited(i, state, o)
  <2> DEFINE status == PageStatus(item[i], state, url, page, LoginURLs)
  <2>1. page.links \subseteq TargetLinks /\ page.flawed \in BOOLEAN
        /\ page.http \in {"ok", "missing", "denied", "failing"}
    BY PageType
  <2>2. Linked'
    BY <1>7, <2>1, ObserveLinks
  <2>3. r.flawed \in BOOLEAN /\ TRUE \in BOOLEAN
    BY <2>1, RecordType
  <2>4. status \in Findings
    BY <2>1, FindingType
  <2>5. state = "unauthenticated" /\ status = "verified" => ~ Required(i)
    BY WallsKept DEF Required
  <2>6. \A u \in visited' : u \in visited \/ u \in links \/ u[2] = None
    BY <1>2, <1>7
  <2>7. lost' \in BOOLEAN /\ (~ lost' => TRUE /\ ~ lost)
    BY <1>7
  <2>8. Report(O(status, TRUE), r.flawed)
    BY <1>7
  <2> HIDE DEF O, status
  <2>9. \E o : Visited(i, state, o)
    BY <1>3, <2>3, <2>4, <2>5, <2>6, <2>7, <2>8
  <2> QED
    BY <2>2, <2>9
<1> HIDE DEF O
<1> QED
  <2> USE DEF O
  <2>1. CASE Destinations(i) = {} /\ ~ \E url \in Destinations(i) : TRUE
    BY <1>4, <2>1 DEF Visit
  <2>2. CASE \E url \in Destinations(i) : TRUE
    BY <1>5, <1>6, <1>7, <2>2 DEF Visit
  <2> QED
    BY <2>1, <2>2

(* What recording interfaces as not attempted adds, as long as it goes on, *)
(* and when it is cut short.                                               *)
Skipped(S) == Entries(NotAttempted(S))

LEMMA SkippedType ==
  ASSUME NEW S \in SUBSET Interfaces
  PROVE  /\ NotAttempted(S) \in Seq(ObservationRecords) /\ Once(NotAttempted(S))
         /\ \A o \in Skipped(S) : /\ o \in ObservationRecords /\ o.interface \in S
                                  /\ o.state = "not_attempted" /\ o.cites
         /\ \A i \in S : \E o \in Skipped(S) : o.interface = i
<1>1. DOMAIN NotAttempted(S) = 1..Len(NotAttempted(S))
  <2> HIDE DEF ObservationRecords
  <2> QED
    BY NotAttemptedLists
<1>2. \A k \in DOMAIN NotAttempted(S) : NotAttempted(S)[k] \in ObservationRecords
  <2>1. NotAttempted(S) \in Seq(ObservationRecords)
    BY NotAttemptedLists
  <2> HIDE DEF ObservationRecords
  <2> QED
    BY <1>1, <2>1
<1> DEFINE t == NotAttempted(S)
<1>3. /\ t \in Seq(ObservationRecords)
      /\ \A k \in DOMAIN t : /\ t[k] \in ObservationRecords /\ t[k].interface \in S
                             /\ t[k].state = "not_attempted" /\ t[k].cites = TRUE
      /\ \A j, k \in DOMAIN t : j # k => t[j].interface # t[k].interface
      /\ \A i \in S : \E k \in DOMAIN t : t[k].interface = i
  BY <1>2, NotAttemptedLists
<1> HIDE DEF t, ObservationRecords
<1>4. /\ Once(t)
      /\ \A o \in Entries(t) : /\ o \in ObservationRecords /\ o.interface \in S
                               /\ o.state = "not_attempted" /\ o.cites
      /\ \A i \in S : \E o \in Entries(t) : o.interface = i
  BY <1>3 DEF Entries, Once
<1> QED
  BY <1>3, <1>4 DEF Skipped, t

LEMMA RecordEffect ==
  ASSUME runtime \in RuntimeRecords, NEW S \in SUBSET Interfaces, NEW next, Record(S, next)
  PROVE  \/ /\ UNCHANGED <<lost, returned>> /\ pc' = next /\ KeepsRest
            /\ runtime'.interfaces = runtime.interfaces \o NotAttempted(S)
         \/ /\ lost' = TRUE /\ pc' = "returned" /\ returned' = "error"
            /\ runtime' \in RuntimeRecords /\ runtime'.features = runtime.features
            /\ runtime'.status # "running"
            /\ runtime.status # "completed" => runtime'.status # "completed"
            /\ \E T \in SUBSET S :
                 runtime'.interfaces = runtime.interfaces \o NotAttempted(T)
<1>1. ASSUME NEW T \in SUBSET S
      PROVE  LET r == [runtime EXCEPT !.interfaces = @ \o NotAttempted(T)]
             IN  /\ r \in RuntimeRecords /\ r.interfaces = runtime.interfaces \o NotAttempted(T)
                 /\ r.status = runtime.status /\ r.failure = runtime.failure
                 /\ r.features = runtime.features
                 /\ r.authentication = runtime.authentication
  <2> DEFINE s == runtime.interfaces \o NotAttempted(T)
  <2>1. runtime.interfaces \in Seq(ObservationRecords)
    BY DEF RuntimeRecords
  <2>2. s \in Seq(ObservationRecords)
    BY <2>1, SkippedType, EntriesConcat
  <2>3. [runtime EXCEPT !.interfaces = @ \o NotAttempted(T)] = [runtime EXCEPT !.interfaces = s]
    OBVIOUS
  <2> HIDE DEF s, ObservationRecords, Logins, Coverages
  <2>4. LET r == [runtime EXCEPT !.interfaces = s]
        IN  /\ r \in RuntimeRecords /\ r.interfaces = s
            /\ r.status = runtime.status /\ r.failure = runtime.failure
            /\ r.features = runtime.features /\ r.authentication = runtime.authentication
    BY <2>2 DEF RuntimeRecords
  <2> QED
    BY <2>3, <2>4 DEF s
<1>2. CASE /\ UNCHANGED <<lost, returned>>
           /\ runtime' = [runtime EXCEPT !.interfaces = @ \o NotAttempted(S)]
           /\ pc' = next
  BY <1>1, <1>2 DEF KeepsRest
<1>3. ASSUME lost' = TRUE, NEW T \in SUBSET S,
             Abort([runtime EXCEPT !.interfaces = @ \o NotAttempted(T)])
      PROVE  /\ lost' = TRUE /\ pc' = "returned" /\ returned' = "error"
             /\ runtime' \in RuntimeRecords /\ runtime'.features = runtime.features
             /\ runtime'.status # "running"
             /\ runtime.status # "completed" => runtime'.status # "completed"
             /\ runtime'.interfaces = runtime.interfaces \o NotAttempted(T)
  <2> DEFINE r == [runtime EXCEPT !.interfaces = @ \o NotAttempted(T)]
  <2>1. /\ r \in RuntimeRecords /\ r.interfaces = runtime.interfaces \o NotAttempted(T)
        /\ r.status = runtime.status /\ r.features = runtime.features
    BY <1>1
  <2>2. Abort(r)
    BY <1>3
  <2> HIDE DEF r
  <2> QED
    BY <1>3, <2>1, <2>2, AbortEffect
<1> QED
  BY <1>2, <1>3 DEF Record

-----------------------------------------------------------------------------
(* The invariant, in parts.  Where the verification is: *)
Course ==
  /\ pc \in {"start", "skip", "visit", "login", "revisit", "roll up", "returned", "ended"}
  /\ returned \in {"", "ok", "error"}
  /\ (returned # "") <=> (pc \in {"returned", "ended"})
  /\ pc = "start" => runtime = NoRuntime /\ visited = {}
  /\ pc = "skip" => runtime.interfaces = <<>>
  /\ pc \in {"start", "skip"} => attempted = {}
  /\ returned = "" => runtime.status = "running" /\ ~ runtime.failure
  /\ returned # "" => runtime.status # "running" \/ runtime = NoRuntime
  /\ FailsOnlyOnLoss

(* the variables it keeps, *)
Kept ==
  /\ item \in Applications /\ setup \in Setups
  /\ loginForm \in BOOLEAN /\ tried \subseteq LoginURLs /\ lost \in BOOLEAN
  /\ runtime \in RuntimeRecords
  /\ artifacts \subseteq {"runtime.json", "runtime.md"}

(* the links it may follow, *)
Followed == Linked /\ \A url \in visited : url[2] = None \/ url \in links

(* the interfaces it has tried, *)
Tried ==
  /\ attempted \subseteq Safe /\ deferred \subseteq attempted
  /\ IsFiniteSet(attempted) /\ Cardinality(attempted) <= MaxInterfaces

(* its login, *)
LoggedIn ==
  /\ pc \in {"start", "skip", "visit", "login"}
       => runtime.authentication.status = "not_attempted"
  /\ pc = "roll up" => runtime.authentication.status # "verified"
  /\ pc \in {"revisit", "roll up"} /\ ~ lost => runtime.authentication.cites
  /\ returned = "ok" /\ runtime.authentication.status = "verified" => deferred = {}

(* what each observation says, *)
Truthful(o) ==
  /\ o.state # "not_attempted" => o.interface \in attempted
  /\ o.state = "unauthenticated" /\ o.status = "verified" => ~ Required(o.interface)
  /\ ~ lost => o.cites
  /\ o.state = "authenticated" => o.interface \notin deferred
  /\ pc = "visit" /\ o.state = "not_attempted" => o.interface \notin Safe
  /\ o.state = "unauthenticated" /\ o.status = "auth_required" =>
       \/ o.interface \in deferred
       \/ \E p \in Observations : p.interface = o.interface /\ p.state = "authenticated"
Observed == \A o \in Observations : Truthful(o)

(* which interfaces there is an observation of, and at most one in each    *)
(* state as long as the run goes on,                                       *)
Complete ==
  /\ pc \in {"visit", "login", "revisit", "roll up"} =>
       /\ \A i \in Interfaces \ Safe :
            \E o \in Observations : o.interface = i /\ o.state = "not_attempted"
       /\ \A i \in attempted : \E o \in Observations : o.interface = i
  /\ pc \in {"login", "revisit", "roll up"} =>
       \A i \in Safe \ attempted : \E o \in Observations : o.interface = i
  /\ returned = "" => Once(runtime.interfaces)
  /\ AccountedFor

(* and what is said of the run and its features. *)
Featured ==
  /\ returned = "" => \A f \in Features : runtime.features[f] = "none"
  /\ \/ \A f \in Features : runtime.features[f] = "none"
     \/ \A f \in Features : runtime.features[f] = FeatureStatus(f, runtime.interfaces)

IInv ==
  /\ Course /\ Kept /\ Followed /\ Tried /\ LoggedIn /\ Observed /\ Complete /\ Featured
  /\ CompletedIsClean

LEMMA SafeType == Safe \subseteq Interfaces
  BY DEF Safe

LEMMA ObservationsType ==
  ASSUME runtime \in RuntimeRecords
  PROVE  /\ runtime.interfaces \in Seq(ObservationRecords)
         /\ Observations = Entries(runtime.interfaces)
         /\ Observations \subseteq ObservationRecords
<1>1. runtime.interfaces \in Seq(ObservationRecords)
  BY DEF RuntimeRecords
<1>2. Observations = Entries(runtime.interfaces)
  BY DEF Observations, Entries
<1> HIDE DEF ObservationRecords
<1>3. Entries(runtime.interfaces) \subseteq ObservationRecords
  BY <1>1 DEF Entries
<1> QED
  BY <1>1, <1>2, <1>3

LEMMA NoRuntimeIsEmpty ==
  /\ NoRuntime.interfaces = <<>> /\ Entries(<<>>) = {} /\ Once(<<>>)
  /\ NoRuntime.status = "running" /\ NoRuntime.failure = FALSE
  /\ NoRuntime.flawed = FALSE
  /\ \A f \in Features : NoRuntime.features[f] = "none"
  /\ NoRuntime.authentication.status = "not_attempted"
  BY DEF NoRuntime, Entries, Once

LEMMA InitInv == Init => IInv
<1> SUFFICES ASSUME Init PROVE IInv
  OBVIOUS
<1>1. runtime \in RuntimeRecords /\ Observations = {} /\ runtime = NoRuntime
  BY NoRuntimeType, NoRuntimeIsEmpty, ObservationsType DEF Init
<1>2. Course
  BY <1>1, NoRuntimeIsEmpty DEF Init, Course, FailsOnlyOnLoss
<1>3. Kept
  BY <1>1 DEF Init, Kept
<1>4. Followed
  BY DEF Init, Followed, Linked
<1>5. Tried
  <2>1. attempted = {} /\ deferred = {}
    BY DEF Init
  <2>2. IsFiniteSet(attempted) /\ Cardinality(attempted) = 0
    BY <2>1, FS_EmptySet
  <2>3. 0 <= MaxInterfaces
    BY VerifierAssumption
  <2> QED
    BY <2>1, <2>2, <2>3 DEF Tried
<1>6. LoggedIn
  BY <1>1, NoRuntimeIsEmpty DEF Init, LoggedIn
<1>7. Observed
  BY <1>1 DEF Observed
<1>8. Complete
  BY <1>1, NoRuntimeIsEmpty DEF Init, Complete, AccountedFor
<1>9. Featured
  BY <1>1, NoRuntimeIsEmpty DEF Featured
<1>10. CompletedIsClean
  BY <1>1, NoRuntimeIsEmpty DEF CompletedIsClean
<1> QED
  BY <1>2, <1>3, <1>4, <1>5, <1>6, <1>7, <1>8, <1>9, <1>10 DEF IInv

(* The verification ends before it saw any page. *)
FailsEarly ==
  /\ pc = "start" /\ pc' = "returned" /\ returned' = "error"
  /\ UNCHANGED <<item, setup, artifacts, progress>>
  /\ lost' \in BOOLEAN
  /\ runtime' \in RuntimeRecords /\ runtime'.status # "completed"
  /\ runtime' = NoRuntime \/ runtime'.status # "running"
  /\ \A o \in Observations' : o.state = "not_attempted" /\ o.cites
  /\ \/ \A f \in Features : runtime'.features[f] = "none"
     \/ \A f \in Features : runtime'.features[f] = FeatureStatus(f, runtime'.interfaces)

LEMMA StartFails ==
  ASSUME IInv, Unreachable \/ BrowserFails
  PROVE  FailsEarly
<1>1. /\ pc = "start" /\ runtime = NoRuntime /\ runtime \in RuntimeRecords
      /\ UNCHANGED <<item, setup, artifacts, progress>>
  BY DEF Unreachable, BrowserFails, IInv, Course, Kept
<1>2. ASSUME NEW S \in SUBSET Interfaces, NEW r \in RuntimeRecords,
             runtime' \in RuntimeRecords,
             runtime'.interfaces = NotAttempted(S)
      PROVE  \A o \in Observations' : o.state = "not_attempted" /\ o.cites
  <2>1. Observations' = Skipped(S)
    BY <1>2 DEF Observations, Skipped, Entries
  <2> QED
    BY <2>1, SkippedType
<1> DEFINE e == [Failed(runtime) EXCEPT !.authentication.cites = TRUE,
                                        !.interfaces = NotAttempted(Interfaces)]
           w == WithFeatures(e)
<1>3. /\ w \in RuntimeRecords /\ w.status \in {"partial", "failed"}
      /\ w.interfaces = NotAttempted(Interfaces)
      /\ \A f \in Features : w.features[f] = FeatureStatus(f, w.interfaces)
  <2> DEFINE q == Failed(runtime)
             n == NotAttempted(Interfaces)
  <2>1. q \in RuntimeRecords /\ q.status \in {"partial", "failed"}
    BY <1>1, FailedType
  <2>2. n \in Seq(ObservationRecords)
    BY SkippedType
  <2> HIDE DEF q, n, ObservationRecords, Logins, Coverages
  <2>3. /\ [q EXCEPT !.authentication.cites = TRUE, !.interfaces = n] \in RuntimeRecords
        /\ [q EXCEPT !.authentication.cites = TRUE, !.interfaces = n].status = q.status
        /\ [q EXCEPT !.authentication.cites = TRUE, !.interfaces = n].interfaces = n
    BY <2>1, <2>2 DEF RuntimeRecords
  <2>4. e = [q EXCEPT !.authentication.cites = TRUE, !.interfaces = n]
    BY DEF q, n
  <2> HIDE DEF e
  <2>5. e \in RuntimeRecords /\ e.status = q.status /\ e.interfaces = n
    BY <2>3, <2>4
  <2>6. /\ w \in RuntimeRecords /\ w.status = e.status /\ w.interfaces = e.interfaces
        /\ w.features = [f \in Features |-> FeatureStatus(f, e.interfaces)]
    BY <2>5, WithFeaturesType
  <2> HIDE DEF w
  <2> QED
    BY <2>1, <2>5, <2>6 DEF n
<1> HIDE DEF w
<1>4. CASE BrowserFails
  <2>1. returned' = "error" /\ pc' = "returned"
    BY <1>4 DEF BrowserFails
  <2>2. CASE lost' = TRUE /\ UNCHANGED runtime
    <3>1. Observations' = {} /\ runtime' = NoRuntime
      BY <1>1, <2>2, NoRuntimeIsEmpty DEF Observations, Entries
    <3> QED
      BY <1>1, <2>1, <2>2, <3>1, NoRuntimeIsEmpty, NoRuntimeType DEF FailsEarly
  <2>3. CASE UNCHANGED lost /\ runtime' = w
    <3>1. \A o \in Observations' : o.state = "not_attempted" /\ o.cites
      BY <1>1, <1>2, <1>3, <2>3
    <3>2. lost' \in BOOLEAN
      BY <2>3 DEF IInv, Kept
    <3> QED
      BY <1>1, <1>3, <2>1, <2>3, <3>1, <3>2 DEF FailsEarly
  <2> QED
    BY <1>4, <2>2, <2>3 DEF BrowserFails, w
<1>5. CASE Unreachable
  <2>1. ASSUME lost' = TRUE, NEW S \in SUBSET Interfaces,
               Abort([runtime EXCEPT !.interfaces = NotAttempted(S)])
        PROVE  FailsEarly
    <3> DEFINE n == NotAttempted(S)
               r == [runtime EXCEPT !.interfaces = n]
    <3>1. n \in Seq(ObservationRecords)
      BY SkippedType
    <3>2. /\ r \in RuntimeRecords /\ r.interfaces = n /\ r.status = runtime.status
          /\ r.features = runtime.features
      <4> HIDE DEF n, ObservationRecords, Logins, Coverages
      <4> QED
        BY <1>1, <3>1 DEF RuntimeRecords
    <3>3. Abort(r)
      BY <2>1
    <3> HIDE DEF r
    <3>4. /\ runtime' \in RuntimeRecords /\ returned' = "error" /\ pc' = "returned"
          /\ runtime'.interfaces = n /\ runtime'.features = runtime.features
          /\ runtime'.status # "running"
          /\ r.status # "completed" => runtime'.status # "completed"
      BY <3>2, <3>3, AbortEffect
    <3>5. \A o \in Observations' : o.state = "not_attempted" /\ o.cites
      BY <1>1, <1>2, <3>4
    <3>6. runtime.status = "running" /\ \A f \in Features : runtime.features[f] = "none"
      BY <1>1, NoRuntimeIsEmpty
    <3> QED
      BY <1>1, <2>1, <3>2, <3>4, <3>5, <3>6 DEF FailsEarly
  <2>2. ASSUME UNCHANGED lost, Abort(w)
        PROVE  FailsEarly
    <3>1. /\ runtime' \in RuntimeRecords /\ returned' = "error" /\ pc' = "returned"
          /\ runtime'.interfaces = w.interfaces /\ runtime'.features = w.features
          /\ runtime'.status # "running" /\ runtime'.status # "completed"
      BY <1>3, <2>2, AbortEffect
    <3>2. \A o \in Observations' : o.state = "not_attempted" /\ o.cites
      BY <1>1, <1>2, <1>3, <3>1
    <3>3. lost' \in BOOLEAN
      BY <2>2 DEF IInv, Kept
    <3> QED
      BY <1>1, <1>3, <3>1, <3>2, <3>3 DEF FailsEarly
  <2> QED
    BY <1>5, <2>1, <2>2 DEF Unreachable, w
<1> QED
  BY <1>4, <1>5

LEMMA FailsEarlyInv ==
  ASSUME IInv, FailsEarly
  PROVE  IInv'
<1>1. visited' = {}
  BY DEF FailsEarly, IInv, Course, progress
<1>2. Course'
  BY <1>1 DEF FailsEarly, Course, FailsOnlyOnLoss
<1>3. Kept'
  BY DEF FailsEarly, IInv, Kept, progress, LoginURLs
<1>4. Followed'
  BY DEF FailsEarly, IInv, Followed, Linked, progress
<1>5. Tried'
  BY DEF FailsEarly, IInv, Tried, progress, Safe
<1>6. LoggedIn'
  BY DEF FailsEarly, LoggedIn
<1>7. Observed'
  BY DEF FailsEarly, Observed, Truthful
<1>8. Complete'
  BY DEF FailsEarly, Complete, AccountedFor
<1>9. Featured'
  BY DEF FailsEarly, Featured
<1>10. CompletedIsClean'
  BY DEF FailsEarly, CompletedIsClean
<1> QED
  BY <1>2, <1>3, <1>4, <1>5, <1>6, <1>7, <1>8, <1>9, <1>10 DEF IInv

(* The base page. *)
LEMMA OpenBasePageInv ==
  ASSUME IInv, OpenBasePage
  PROVE  IInv'
<1>1. /\ pc = "start" /\ runtime = NoRuntime /\ runtime \in RuntimeRecords /\ visited = {}
      /\ attempted = {} /\ returned = "" /\ lost \in BOOLEAN
      /\ UNCHANGED <<item, setup, artifacts>>
  BY DEF OpenBasePage, IInv, Course, Kept
<1>2. PICK page \in Pages(Url(Base)) : \E r \in Records(page) :
       \/ /\ ~ r.written
          /\ lost' = TRUE /\ Abort([runtime EXCEPT !.flawed = r.flawed])
          /\ UNCHANGED progress
       \/ /\ r.written
          /\ UNCHANGED <<lost, returned>>
          /\ Observe(page)
          /\ visited' = visited \cup {Url(Base)}
          /\ loginForm' = page.form
          /\ runtime' = [runtime EXCEPT !.reachable = page.http # "failing",
                                        !.flawed = r.flawed]
          /\ pc' = "skip"
          /\ UNCHANGED <<tried, attempted, deferred>>
  BY DEF OpenBasePage
<1>2a. PICK r \in Records(page) :
       \/ /\ ~ r.written
          /\ lost' = TRUE /\ Abort([runtime EXCEPT !.flawed = r.flawed])
          /\ UNCHANGED progress
       \/ /\ r.written
          /\ UNCHANGED <<lost, returned>>
          /\ Observe(page)
          /\ visited' = visited \cup {Url(Base)}
          /\ loginForm' = page.form
          /\ runtime' = [runtime EXCEPT !.reachable = page.http # "failing",
                                        !.flawed = r.flawed]
          /\ pc' = "skip"
          /\ UNCHANGED <<tried, attempted, deferred>>
  BY <1>2
<1>3. /\ page.links \subseteq TargetLinks /\ page.form \in BOOLEAN /\ page.flawed \in BOOLEAN
      /\ r.flawed \in BOOLEAN
  <2>1. page.links \subseteq TargetLinks /\ page.form \in BOOLEAN /\ page.flawed \in BOOLEAN
    BY PageType
  <2> QED
    BY <2>1, RecordType
<1>4. ASSUME lost' = TRUE, Abort([runtime EXCEPT !.flawed = r.flawed]), UNCHANGED progress
      PROVE  FailsEarly
  <2> DEFINE q == [runtime EXCEPT !.flawed = r.flawed]
  <2>1. /\ q \in RuntimeRecords /\ q.interfaces = runtime.interfaces
        /\ q.features = runtime.features /\ q.status = runtime.status
    <3> HIDE DEF ObservationRecords, Logins, Coverages
    <3> QED
      BY <1>1, <1>3 DEF RuntimeRecords
  <2>2. Abort(q)
    BY <1>4
  <2> HIDE DEF q
  <2>3. /\ runtime' \in RuntimeRecords /\ returned' = "error" /\ pc' = "returned"
        /\ runtime'.interfaces = <<>> /\ runtime'.features = runtime.features
        /\ runtime'.status # "running" /\ runtime'.status # "completed"
    BY <1>1, <2>1, <2>2, AbortEffect, NoRuntimeIsEmpty
  <2>4. Observations' = {}
    BY <2>3 DEF Observations
  <2> QED
    BY <1>1, <1>4, <2>3, <2>4, NoRuntimeIsEmpty DEF FailsEarly
<1>5. ASSUME UNCHANGED <<lost, returned>>, Observe(page), visited' = visited \cup {Url(Base)},
             loginForm' = page.form,
             runtime' = [runtime EXCEPT !.reachable = page.http # "failing",
                                        !.flawed = r.flawed],
             pc' = "skip", UNCHANGED <<tried, attempted, deferred>>
      PROVE  IInv'
  <2>1. /\ runtime' \in RuntimeRecords /\ runtime'.interfaces = <<>>
        /\ runtime'.features = runtime.features /\ runtime'.status = "running"
        /\ ~ runtime'.failure /\ runtime'.authentication = runtime.authentication
    <3>1. (page.http # "failing") \in BOOLEAN
      OBVIOUS
    <3> HIDE DEF ObservationRecords, Logins, Coverages
    <3> QED
      BY <1>1, <1>3, <1>5, <3>1, NoRuntimeIsEmpty DEF RuntimeRecords
  <2>2. Observations' = {}
    BY <2>1 DEF Observations
  <2>3. Course'
    BY <1>1, <1>5, <2>1 DEF Course, FailsOnlyOnLoss
  <2>4. Kept'
    BY <1>1, <1>3, <1>5, <2>1 DEF IInv, Kept, LoginURLs
  <2>5. Followed'
    <3>1. Linked'
      BY <1>3, <1>5, ObserveLinks DEF IInv, Followed
    <3>2. visited' = {Url(Base)} /\ Url(Base)[2] = None
      BY <1>1, <1>5 DEF Url
    <3> QED
      BY <3>1, <3>2 DEF Followed
  <2>6. Tried'
    BY <1>1, <1>5 DEF IInv, Tried, Safe
  <2>7. LoggedIn'
    BY <1>1, <1>5, <2>1, NoRuntimeIsEmpty DEF LoggedIn
  <2>8. Observed'
    BY <2>2 DEF Observed
  <2>9. Complete'
    BY <1>1, <1>5, <2>1, NoRuntimeIsEmpty DEF Complete, AccountedFor
  <2>10. Featured'
    BY <1>1, <2>1, NoRuntimeIsEmpty DEF Featured
  <2>11. CompletedIsClean'
    BY <2>1 DEF CompletedIsClean
  <2> QED
    BY <2>3, <2>4, <2>5, <2>6, <2>7, <2>8, <2>9, <2>10, <2>11 DEF IInv
<1> QED
  BY <1>2a, <1>4, <1>5, FailsEarlyInv

-----------------------------------------------------------------------------
(* Recording the interfaces that have no observation and get none. *)
LEMMA RecordingInv ==
  ASSUME IInv, UNCHANGED <<item, setup, artifacts, progress>>, NEW S, NEW next,
         Record(S, next),
         \/ pc = "skip" /\ next = "visit" /\ S = Interfaces \ Safe
         \/ pc = "visit" /\ next = "login" /\ S = Safe \ attempted
  PROVE  IInv'
<1>1. /\ S \in SUBSET Interfaces /\ runtime \in RuntimeRecords /\ returned = ""
      /\ runtime.status = "running" /\ \A f \in Features : runtime.features[f] = "none"
      /\ Once(runtime.interfaces)
  BY SafeType DEF IInv, Course, Kept, Featured, Complete
<1>2. Safe' = Safe /\ LoginURLs' = LoginURLs /\ \A i : Required(i)' = Required(i)
  BY DEF Safe, LoginURLs, Required
<1>3. ASSUME NEW T \in SUBSET S,
             runtime'.interfaces = runtime.interfaces \o NotAttempted(T)
      PROVE  /\ Observations' = Observations \cup Skipped(T)
             /\ Once(runtime'.interfaces)
             /\ \A o \in Skipped(T) : /\ o.interface \in T /\ o.state = "not_attempted"
                                      /\ o.cites
             /\ \A i \in T : \E o \in Skipped(T) : o.interface = i
  <2>1. /\ runtime.interfaces \in Seq(ObservationRecords)
        /\ Observations = Entries(runtime.interfaces)
    BY <1>1, ObservationsType
  <2>2. /\ NotAttempted(T) \in Seq(ObservationRecords) /\ Once(NotAttempted(T))
        /\ \A o \in Skipped(T) : /\ o.interface \in T /\ o.state = "not_attempted"
                                 /\ o.cites
        /\ \A i \in T : \E o \in Skipped(T) : o.interface = i
    BY <1>1, SkippedType
  <2>3. Observations' = Entries(runtime'.interfaces)
    BY DEF Observations, Entries
  <2>4. Entries(runtime'.interfaces) = Observations \cup Skipped(T)
    BY <1>3, <2>1, <2>2, EntriesConcat DEF Skipped
  <2>5. \A p \in Observations, q \in Skipped(T) :
          p.interface # q.interface \/ p.state # q.state
    <3> SUFFICES ASSUME NEW p \in Observations, NEW q \in Skipped(T),
                        p.state = "not_attempted"
                 PROVE  p.interface \notin T
      BY <2>2
    <3>1. CASE pc = "skip"
      BY <2>1, <3>1, NoRuntimeIsEmpty DEF IInv, Course
    <3>2. CASE pc = "visit" /\ S = Safe \ attempted
      <4>1. p.interface \notin Safe
        BY <3>2 DEF IInv, Observed, Truthful
      <4> QED
        BY <3>2, <4>1
    <3> QED
      BY <3>1, <3>2
  <2>6. Once(runtime'.interfaces)
    <3>1. \A p \in Entries(runtime.interfaces), q \in Entries(NotAttempted(T)) :
            p.interface # q.interface \/ p.state # q.state
      BY <2>1, <2>5 DEF Skipped
    <3>2. Once(runtime.interfaces) /\ Once(NotAttempted(T))
      BY <1>1, <2>2
    <3>3. Once(runtime.interfaces \o NotAttempted(T))
      BY <2>1, <2>2, <3>1, <3>2, EntriesConcat
    <3>4. runtime'.interfaces = runtime.interfaces \o NotAttempted(T)
      BY <1>3
    <3> QED
      BY <3>3, <3>4
  <2> QED
    BY <2>2, <2>3, <2>4, <2>6
<1>4. ASSUME NEW T \in SUBSET S,
             runtime'.interfaces = runtime.interfaces \o NotAttempted(T),
             lost' \in BOOLEAN, ~ lost' => ~ lost,
             pc' = "visit" => T \cap Safe = {}
      PROVE  Observed'
  <2> SUFFICES ASSUME NEW o \in Observations' PROVE Truthful(o)'
    BY DEF Observed
  <2>1. /\ Observations' = Observations \cup Skipped(T)
        /\ attempted' = attempted /\ deferred' = deferred
    BY <1>3, <1>4 DEF progress
  <2>2. CASE o \in Skipped(T)
    <3>1. o.interface \in T /\ o.state = "not_attempted" /\ o.cites
      BY <1>3, <1>4, <2>2
    <3> QED
      BY <1>2, <1>4, <3>1 DEF Truthful
  <2>3. CASE o \in Observations
    <3>1. Truthful(o)
      BY <2>3 DEF IInv, Observed
    <3>2. pc' = "visit" => o \notin Observations \/ pc = "visit"
      <4>1. pc = "skip" => Observations = {}
        BY <1>1, ObservationsType, NoRuntimeIsEmpty DEF IInv, Course
      <4> QED
        BY <2>3, <4>1
    <3> QED
      BY <1>2, <1>4, <2>1, <2>3, <3>1, <3>2 DEF Truthful
  <2> QED
    BY <2>1, <2>2, <2>3
<1>5. Kept' /\ Followed' /\ Tried' <=> runtime' \in RuntimeRecords /\ lost' \in BOOLEAN
  BY <1>2 DEF IInv, Kept, Followed, Linked, Tried, progress
<1>6. CASE /\ UNCHANGED <<lost, returned>> /\ pc' = next /\ KeepsRest
           /\ runtime'.interfaces = runtime.interfaces \o NotAttempted(S)
  <2>1. Course'
    BY <1>1, <1>6 DEF IInv, Course, KeepsRest, FailsOnlyOnLoss
  <2>2. Kept' /\ Followed' /\ Tried'
    BY <1>5, <1>6 DEF KeepsRest, IInv, Kept
  <2>3. LoggedIn'
    BY <1>6 DEF IInv, LoggedIn, KeepsRest
  <2>4. Observed'
    <3>1. lost' \in BOOLEAN /\ (~ lost' => ~ lost)
      BY <1>6 DEF IInv, Kept
    <3>2. pc' = "visit" => S \cap Safe = {}
      BY <1>6
    <3> QED
      BY <1>4, <1>6, <3>1, <3>2
  <2>5. /\ Observations' = Observations \cup Skipped(S)
        /\ Once(runtime'.interfaces)
        /\ \A o \in Skipped(S) : o.interface \in S /\ o.state = "not_attempted"
        /\ \A i \in S : \E o \in Skipped(S) : o.interface = i
    BY <1>3, <1>6
  <2>6. Complete'
    <3>1. \A i \in Interfaces \ Safe :
            \E o \in Observations' : o.interface = i /\ o.state = "not_attempted"
      <4> SUFFICES ASSUME NEW i \in Interfaces \ Safe
                   PROVE  \E o \in Observations' : o.interface = i /\ o.state = "not_attempted"
        OBVIOUS
      <4>1. CASE pc = "skip" /\ S = Interfaces \ Safe
        <5>1. i \in S
          BY <4>1
        <5>2. PICK o \in Skipped(S) : o.interface = i
          BY <2>5, <5>1, Zenon
        <5>3. o \in Observations' /\ o.state = "not_attempted"
          BY <2>5, <5>2, Zenon
        <5> QED
          BY <5>2, <5>3, Zenon
      <4>2. CASE pc = "visit"
        <5>1. \E o \in Observations : o.interface = i /\ o.state = "not_attempted"
          BY <4>2 DEF IInv, Complete
        <5> QED
          BY <2>5, <5>1
      <4> QED
        BY <4>1, <4>2
    <3>2. \A i \in attempted : \E o \in Observations' : o.interface = i
      BY <2>5 DEF IInv, Complete, Course
    <3>3. pc' = "login" => \A i \in Safe \ attempted : \E o \in Observations' : o.interface = i
      BY <1>6, <2>5
    <3> QED
      BY <1>1, <1>2, <1>6, <2>5, <3>1, <3>2, <3>3 DEF Complete, AccountedFor, progress
  <2>7. Featured'
    BY <1>1, <1>6 DEF Featured, KeepsRest
  <2>8. CompletedIsClean'
    BY <1>1, <1>6 DEF CompletedIsClean, KeepsRest
  <2> QED
    BY <2>1, <2>2, <2>3, <2>4, <2>6, <2>7, <2>8 DEF IInv
<1>7. ASSUME lost' = TRUE, pc' = "returned", returned' = "error",
             runtime' \in RuntimeRecords, runtime'.features = runtime.features,
             runtime'.status # "running",
             runtime.status # "completed" => runtime'.status # "completed",
             NEW T \in SUBSET S,
             runtime'.interfaces = runtime.interfaces \o NotAttempted(T)
      PROVE  IInv'
  <2>1. Course'
    BY <1>7 DEF Course, FailsOnlyOnLoss
  <2>2. Kept' /\ Followed' /\ Tried'
    BY <1>5, <1>7
  <2>3. LoggedIn'
    BY <1>7 DEF LoggedIn
  <2>4. Observed'
    BY <1>4, <1>7
  <2>5. Complete'
    BY <1>7 DEF Complete, AccountedFor
  <2>6. Featured'
    BY <1>1, <1>7 DEF Featured
  <2>7. CompletedIsClean'
    BY <1>1, <1>7 DEF CompletedIsClean
  <2> QED
    BY <2>1, <2>2, <2>3, <2>4, <2>5, <2>6, <2>7 DEF IInv
<1> QED
  BY <1>1, <1>6, <1>7, RecordEffect

-----------------------------------------------------------------------------
(* A visit of an interface that has no observation in that state yet. *)
LEMMA VisitObservations ==
  ASSUME IInv, NEW i, NEW state, NEW o, Visited(i, state, o),
         \A p \in Observations : p.state = state => p.interface # i,
         returned = ""
  PROVE  /\ Observations' = Observations \cup {o} /\ Once(runtime'.interfaces)
         /\ o.interface = i /\ o.state = state
<1>1. /\ runtime.interfaces \in Seq(ObservationRecords)
      /\ Observations = Entries(runtime.interfaces) /\ Once(runtime.interfaces)
  BY ObservationsType DEF IInv, Kept, Complete
<1>2. /\ o \in ObservationRecords /\ o.interface = i /\ o.state = state
      /\ runtime'.interfaces = Append(runtime.interfaces, o)
  BY DEF Visited
<1>3. Observations' = Entries(runtime'.interfaces)
  BY DEF Observations, Entries
<1>4. \A p \in Entries(runtime.interfaces) : p.interface # o.interface \/ p.state # o.state
  BY <1>1, <1>2
<1>5. /\ Entries(Append(runtime.interfaces, o)) = Entries(runtime.interfaces) \cup {o}
      /\ Once(Append(runtime.interfaces, o))
  BY <1>1, <1>2, <1>4, EntriesAppend
<1> QED
  BY <1>1, <1>2, <1>3, <1>5

LEMMA VisitNextInv ==
  ASSUME IInv, VisitNext
  PROVE  IInv'
<1> DEFINE i == First(Safe \ attempted)
<1>1. /\ pc = "visit" /\ ~ AtLimit /\ Safe \ attempted # {}
      /\ Visit(i, "unauthenticated")
      /\ attempted' = attempted \cup {i}
      /\ deferred' = IF Deferred(i, LastStatus) THEN deferred \cup {i} ELSE deferred
      /\ UNCHANGED <<item, setup, artifacts, pc, loginForm, tried, returned>>
  BY DEF VisitNext
<1>2. i \in Safe /\ i \notin attempted /\ i \in Interfaces
  BY <1>1, FirstOf, SafeType
<1> HIDE DEF i
<1>3. /\ Course /\ Kept /\ Followed /\ Tried /\ LoggedIn /\ Observed /\ Complete /\ Featured
      /\ returned = "" /\ runtime.status = "running"
  BY <1>1 DEF IInv, Course
<1>4. Linked' /\ \E o : Visited(i, "unauthenticated", o)
  BY <1>1, <1>2, <1>3, VisitEffect DEF Kept, Followed
<1>5. PICK o : Visited(i, "unauthenticated", o)
  BY <1>4
<1>6. /\ Observations' = Observations \cup {o} /\ Once(runtime'.interfaces)
      /\ o.interface = i /\ o.state = "unauthenticated"
  <2>1. \A p \in Observations : p.state = "unauthenticated" => p.interface # i
    BY <1>2, <1>3 DEF Observed, Truthful
  <2> QED
    BY <1>3, <1>5, <2>1, VisitObservations
<1>7. /\ Safe' = Safe /\ LoginURLs' = LoginURLs /\ \A j : Required(j)' = Required(j)
  BY <1>1 DEF Safe, LoginURLs, Required
<1>8. /\ lost' \in BOOLEAN /\ (~ lost' => o.cites /\ ~ lost) /\ KeepsRest
      /\ LastStatus = o.status /\ (o.status = "verified" => ~ Required(i))
      /\ \A url \in visited' : url \in visited \/ url \in links \/ url[2] = None
  BY <1>5 DEF Visited
<1>9. Course'
  BY <1>1, <1>3, <1>8 DEF Course, KeepsRest, FailsOnlyOnLoss
<1>10. Kept'
  BY <1>1, <1>3, <1>7, <1>8 DEF Kept, KeepsRest
<1>11. Followed'
  <2>1. links \subseteq links'
    BY <1>1 DEF Visit, Observe
  <2> QED
    BY <1>3, <1>4, <1>8, <2>1 DEF Followed
<1>12. Tried'
  <2>1. /\ IsFiniteSet(attempted) /\ Cardinality(attempted) \in Nat
        /\ Cardinality(attempted) < MaxInterfaces /\ MaxInterfaces \in Nat
    <3>1. IsFiniteSet(attempted) /\ ~ (Cardinality(attempted) >= MaxInterfaces)
      BY <1>1, <1>3 DEF Tried, AtLimit
    <3>2. Cardinality(attempted) \in Nat /\ MaxInterfaces \in Nat
      BY <3>1, FS_CardinalityType, VerifierAssumption
    <3> QED
      BY <3>1, <3>2
  <2>2. /\ IsFiniteSet(attempted \cup {i})
        /\ Cardinality(attempted \cup {i}) = Cardinality(attempted) + 1
    BY <1>2, <2>1, FS_AddElement
  <2>3. Cardinality(attempted') <= MaxInterfaces
    BY <1>1, <2>1, <2>2
  <2> QED
    BY <1>1, <1>2, <1>3, <1>7, <2>2, <2>3 DEF Tried
<1>13. LoggedIn'
  BY <1>1, <1>3, <1>8 DEF LoggedIn, KeepsRest
<1>14. Observed'
  <2> SUFFICES ASSUME NEW p \in Observations' PROVE Truthful(p)'
    BY DEF Observed
  <2>1. CASE p = o
    <3>1. o.status = "auth_required" => i \in deferred'
      BY <1>1, <1>8 DEF Deferred
    <3> QED
      BY <1>1, <1>6, <1>7, <1>8, <2>1, <3>1 DEF Truthful
  <2>2. CASE p \in Observations
    <3>1. Truthful(p)
      BY <1>3, <2>2 DEF Observed
    <3>2. p.state = "authenticated" => p.interface \notin deferred'
      BY <1>1, <1>2, <3>1 DEF Truthful
    <3> QED
      BY <1>1, <1>6, <1>7, <1>8, <3>1, <3>2 DEF Truthful
  <2> QED
    BY <1>6, <2>1, <2>2
<1>15. Complete'
  <2>1. \A j \in Interfaces \ Safe :
          \E p \in Observations' : p.interface = j /\ p.state = "not_attempted"
    <3> TAKE j \in Interfaces \ Safe
    <3>1. PICK p \in Observations : p.interface = j /\ p.state = "not_attempted"
      BY <1>1, <1>3 DEF Complete
    <3> QED
      BY <1>6, <3>1
  <2>2. \A j \in attempted' : \E p \in Observations' : p.interface = j
    BY <1>1, <1>3, <1>6 DEF Complete
  <2> QED
    BY <1>1, <1>3, <1>6, <1>7, <2>1, <2>2 DEF Complete, AccountedFor
<1>16. Featured'
  BY <1>3, <1>8 DEF Featured, KeepsRest
<1>17. CompletedIsClean'
  BY <1>3, <1>8 DEF CompletedIsClean, KeepsRest
<1> QED
  BY <1>9, <1>10, <1>11, <1>12, <1>13, <1>14, <1>15, <1>16, <1>17 DEF IInv

LEMMA RevisitInv ==
  ASSUME IInv, Revisit
  PROVE  IInv'
<1> DEFINE i == First(deferred)
<1>1. /\ pc = "revisit" /\ deferred # {}
      /\ Visit(i, "authenticated")
      /\ deferred' = deferred \ {i}
      /\ UNCHANGED <<item, setup, artifacts, pc, loginForm, tried, attempted, returned>>
  BY DEF Revisit, RevisitState
<1>3. /\ Course /\ Kept /\ Followed /\ Tried /\ LoggedIn /\ Observed /\ Complete /\ Featured
      /\ returned = "" /\ runtime.status = "running"
  BY <1>1 DEF IInv, Course
<1>2. i \in deferred /\ i \in attempted /\ i \in Interfaces
  <2>1. deferred \in SUBSET Interfaces
    BY <1>3, SafeType DEF Tried
  <2> QED
    BY <1>1, <1>3, <2>1, FirstOf DEF Tried
<1> HIDE DEF i
<1>4. Linked' /\ \E o : Visited(i, "authenticated", o)
  BY <1>1, <1>2, <1>3, VisitEffect DEF Kept, Followed
<1>5. PICK o : Visited(i, "authenticated", o)
  BY <1>4
<1>6. /\ Observations' = Observations \cup {o} /\ Once(runtime'.interfaces)
      /\ o.interface = i /\ o.state = "authenticated"
  <2>1. \A p \in Observations : p.state = "authenticated" => p.interface # i
    BY <1>2, <1>3 DEF Observed, Truthful
  <2> QED
    BY <1>3, <1>5, <2>1, VisitObservations
<1>7. /\ Safe' = Safe /\ LoginURLs' = LoginURLs /\ \A j : Required(j)' = Required(j)
  BY <1>1 DEF Safe, LoginURLs, Required
<1>8. /\ lost' \in BOOLEAN /\ (~ lost' => o.cites /\ ~ lost) /\ KeepsRest
      /\ \A url \in visited' : url \in visited \/ url \in links \/ url[2] = None
  BY <1>5 DEF Visited
<1>9. Course'
  BY <1>1, <1>3, <1>8 DEF Course, KeepsRest, FailsOnlyOnLoss
<1>10. Kept'
  BY <1>1, <1>3, <1>7, <1>8 DEF Kept, KeepsRest
<1>11. Followed'
  <2>1. links \subseteq links'
    BY <1>1 DEF Visit, Observe
  <2> QED
    BY <1>3, <1>4, <1>8, <2>1 DEF Followed
<1>12. Tried'
  BY <1>1, <1>3, <1>7 DEF Tried
<1>13. LoggedIn'
  BY <1>1, <1>3, <1>8 DEF LoggedIn, KeepsRest
<1>14. Observed'
  <2> SUFFICES ASSUME NEW p \in Observations' PROVE Truthful(p)'
    BY DEF Observed
  <2>1. CASE p = o
    BY <1>1, <1>2, <1>6, <1>8, <2>1 DEF Truthful
  <2>2. CASE p \in Observations
    <3>1. Truthful(p)
      BY <1>3, <2>2 DEF Observed
    <3>2. p.interface \in deferred => p.interface \in deferred' \/ p.interface = i
      BY <1>1
    <3> QED
      BY <1>1, <1>6, <1>7, <1>8, <3>1, <3>2 DEF Truthful
  <2> QED
    BY <1>6, <2>1, <2>2
<1>15. Complete'
  <2>1. \A j \in Interfaces \ Safe :
          \E p \in Observations' : p.interface = j /\ p.state = "not_attempted"
    <3> TAKE j \in Interfaces \ Safe
    <3>1. PICK p \in Observations : p.interface = j /\ p.state = "not_attempted"
      BY <1>1, <1>3 DEF Complete
    <3> QED
      BY <1>6, <3>1
  <2>2. \A j \in attempted' : \E p \in Observations' : p.interface = j
    BY <1>1, <1>3, <1>6 DEF Complete
  <2>3. \A j \in Safe \ attempted : \E p \in Observations' : p.interface = j
    BY <1>1, <1>3, <1>6 DEF Complete
  <2> QED
    BY <1>1, <1>3, <1>6, <1>7, <2>1, <2>2, <2>3 DEF Complete, AccountedFor
<1>16. Featured'
  BY <1>3, <1>8 DEF Featured, KeepsRest
<1>17. CompletedIsClean'
  BY <1>3, <1>8 DEF CompletedIsClean, KeepsRest
<1> QED
  BY <1>9, <1>10, <1>11, <1>12, <1>13, <1>14, <1>15, <1>16, <1>17 DEF IInv

-----------------------------------------------------------------------------
(* While it logs in, no observation of an interface is added. *)
LEMMA LoginInv ==
  ASSUME IInv, pc = "login", UNCHANGED <<item, setup, artifacts, attempted, deferred, returned>>,
         runtime' \in RuntimeRecords, runtime'.interfaces = runtime.interfaces,
         runtime'.status = runtime.status, runtime'.failure = runtime.failure,
         runtime'.features = runtime.features,
         pc' \in {"login", "revisit", "roll up"}, LoggedIn', Followed',
         loginForm' \in BOOLEAN, tried' \subseteq LoginURLs, lost' \in BOOLEAN,
         ~ lost' => ~ lost
  PROVE  IInv'
<1>1. /\ Course /\ Kept /\ Tried /\ Observed /\ Complete /\ Featured
      /\ returned = "" /\ runtime.status = "running"
  BY DEF IInv, Course
<1>2. /\ Safe' = Safe /\ LoginURLs' = LoginURLs /\ \A j : Required(j)' = Required(j)
      /\ Observations' = Observations
  BY DEF Safe, LoginURLs, Required, Observations
<1>3. Course'
  BY <1>1 DEF Course, FailsOnlyOnLoss
<1>4. Kept'
  BY <1>1, <1>2 DEF Kept
<1>5. Tried'
  BY <1>1, <1>2 DEF Tried
<1>6. Observed'
  BY <1>1, <1>2 DEF Observed, Truthful
<1>7. Complete'
  BY <1>1, <1>2 DEF Complete, AccountedFor
<1>8. Featured'
  BY <1>1 DEF Featured
<1>9. CompletedIsClean'
  BY <1>1 DEF CompletedIsClean
<1> QED
  BY <1>3, <1>4, <1>5, <1>6, <1>7, <1>8, <1>9 DEF IInv

LEMMA AuthenticatedInv ==
  ASSUME IInv, pc = "login", UNCHANGED <<item, setup, artifacts, attempted, deferred, returned>>,
         NEW status \in Logins, NEW cites \in BOOLEAN, NEW flawed \in BOOLEAN,
         Authenticated(status, cites, flawed), Followed',
         loginForm' \in BOOLEAN, tried' \subseteq LoginURLs, lost' \in BOOLEAN,
         ~ lost' => ~ lost /\ cites
  PROVE  IInv'
<1>1. /\ runtime \in RuntimeRecords /\ returned = ""
  BY DEF IInv, Kept, Course
<1>2. /\ runtime' \in RuntimeRecords /\ runtime'.interfaces = runtime.interfaces
      /\ runtime'.status = runtime.status /\ runtime'.failure = runtime.failure
      /\ runtime'.features = runtime.features
      /\ runtime'.authentication = [status |-> status, cites |-> cites]
  <2>1. runtime.flawed \/ flawed \in BOOLEAN
    BY <1>1 DEF RuntimeRecords
  <2> HIDE DEF ObservationRecords, Logins, Coverages
  <2> QED
    BY <1>1, <2>1 DEF Authenticated, RuntimeRecords
<1>3. /\ runtime'.authentication.status = status
      /\ runtime'.authentication.cites <=> cites
      /\ status = "verified" => pc' = "revisit"
      /\ status # "verified" => pc' = "roll up"
  <2>1. runtime'.authentication.status = status
    BY <1>2
  <2>2. runtime'.authentication.cites <=> cites
    BY <1>2
  <2> QED
    BY <2>1, <2>2 DEF Authenticated
<1>4. LoggedIn'
  BY <1>1, <1>3 DEF LoggedIn
<1> QED
  BY <1>2, <1>3, <1>4, LoginInv

LEMMA NoLoginInv ==
  ASSUME IInv, NoLogin
  PROVE  IInv'
<1>1. /\ pc = "login" /\ UNCHANGED <<item, setup, artifacts, progress, returned>>
      /\ Kept /\ Followed
  BY DEF NoLogin, IInv
<1>2. PICK written \in BOOLEAN :
        /\ lost' = (lost \/ ~ written)
        /\ Authenticated("not_attempted", written \/ runtime.authentication.cites, FALSE)
  BY DEF NoLogin, Assertion
<1>3. Followed' /\ loginForm' \in BOOLEAN /\ tried' \subseteq LoginURLs
  BY <1>1 DEF Kept, Followed, Linked, progress
<1>4. lost' \in BOOLEAN /\ (~ lost' => ~ lost /\ (written \/ runtime.authentication.cites))
  BY <1>1, <1>2 DEF Kept
<1>5. "not_attempted" \in Logins /\ (written \/ runtime.authentication.cites) \in BOOLEAN
  BY DEF Logins
<1> QED
  BY <1>1, <1>2, <1>3, <1>4, <1>5, AuthenticatedInv DEF progress

LEMMA FindLoginInv ==
  ASSUME IInv, FindLogin
  PROVE  IInv'
<1>1. /\ pc = "login" /\ UNCHANGED <<item, setup, artifacts, attempted, deferred, returned>>
      /\ Kept /\ Followed /\ LoggedIn /\ runtime \in RuntimeRecords /\ lost \in BOOLEAN
      /\ returned = ""
  BY DEF FindLogin, IInv, Kept, Course
<1>2. PICK url \in LoginURLs \ tried :
       /\ tried' = tried \cup {url} /\ visited' = visited \cup {url}
       /\ \/ UNCHANGED <<links, seen, loginForm, lost, runtime, pc>>
          \/ \E page \in Pages(url) : \E r \in Records(page) :
               \/ /\ ~ r.written
                  /\ lost' = TRUE
                  /\ Authenticated("runtime_error", runtime.authentication.cites, r.flawed)
                  /\ UNCHANGED <<links, seen, loginForm>>
               \/ /\ r.written
                  /\ Observe(page)
                  /\ loginForm' = page.form
                  /\ runtime' = [runtime EXCEPT !.authentication.cites = TRUE,
                                                !.flawed = @ \/ r.flawed]
                  /\ UNCHANGED <<lost, pc>>
  BY DEF FindLogin
<1>3. tried' \subseteq LoginURLs /\ url[2] = None
  <2>1. \A u \in LoginURLs : u[2] = None
    BY DEF LoginURLs, Url
  <2>2. tried \subseteq LoginURLs
    BY <1>1 DEF Kept
  <2> QED
    BY <1>2, <2>1, <2>2
<1>4. Linked' /\ links \subseteq links' => Followed'
  BY <1>1, <1>2, <1>3 DEF Followed
<1>5. CASE UNCHANGED <<links, seen, loginForm, lost, runtime, pc>>
  <2>1. Followed' /\ LoggedIn'
    BY <1>1, <1>4, <1>5 DEF Followed, Linked, LoggedIn
  <2> QED
    BY <1>1, <1>3, <1>5, <2>1, LoginInv DEF Kept
<1>6. ASSUME NEW page \in Pages(url), NEW r \in Records(page), lost' = TRUE,
             Authenticated("runtime_error", runtime.authentication.cites, r.flawed),
             UNCHANGED <<links, seen, loginForm>>
      PROVE  IInv'
  <2>1. page.flawed \in BOOLEAN
    BY PageType
  <2>2. r.flawed \in BOOLEAN /\ "runtime_error" \in Logins
    BY <2>1, RecordType DEF Logins
  <2>3. runtime.authentication.cites \in BOOLEAN
    BY <1>1 DEF RuntimeRecords
  <2>4. Followed' /\ loginForm' \in BOOLEAN
    BY <1>1, <1>4, <1>6 DEF Followed, Linked, Kept
  <2> QED
    BY <1>1, <1>3, <1>6, <2>2, <2>3, <2>4, AuthenticatedInv
<1>7. ASSUME NEW page \in Pages(url), NEW r \in Records(page), Observe(page),
             loginForm' = page.form,
             runtime' = [runtime EXCEPT !.authentication.cites = TRUE,
                                        !.flawed = @ \/ r.flawed],
             UNCHANGED <<lost, pc>>
      PROVE  IInv'
  <2>1. page.flawed \in BOOLEAN /\ page.form \in BOOLEAN /\ page.links \subseteq TargetLinks
    BY PageType
  <2>2. r.flawed \in BOOLEAN
    BY <2>1, RecordType
  <2>3. /\ runtime' \in RuntimeRecords /\ runtime'.interfaces = runtime.interfaces
        /\ runtime'.status = runtime.status /\ runtime'.failure = runtime.failure
        /\ runtime'.features = runtime.features
        /\ runtime'.authentication.status = runtime.authentication.status
    <3>1. runtime.flawed \/ r.flawed \in BOOLEAN
      BY <1>1, <2>2 DEF RuntimeRecords
    <3> HIDE DEF ObservationRecords, Logins, Coverages
    <3> QED
      BY <1>1, <1>7, <3>1 DEF RuntimeRecords
  <2>4. Followed'
    <3>1. Linked' /\ links \subseteq links'
      BY <1>1, <1>7, <2>1, ObserveLinks DEF Followed, Observe
    <3> QED
      BY <1>4, <3>1
  <2>5. LoggedIn'
    BY <1>1, <1>7, <2>3 DEF LoggedIn
  <2> QED
    BY <1>1, <1>3, <1>7, <2>1, <2>3, <2>4, <2>5, LoginInv
<1> QED
  BY <1>2, <1>5, <1>6, <1>7

LEMMA SubmitLoginInv ==
  ASSUME IInv, SubmitLogin
  PROVE  IInv'
<1>1. /\ pc = "login" /\ Kept /\ Followed /\ runtime \in RuntimeRecords /\ lost \in BOOLEAN
      /\ UNCHANGED <<item, setup, artifacts, loginForm, tried, attempted, deferred, visited,
                     returned>>
      /\ loginForm' \in BOOLEAN /\ tried' \subseteq LoginURLs
  BY DEF SubmitLogin, IInv, Kept
<1>2. /\ "runtime_error" \in Logins /\ runtime.authentication.cites \in BOOLEAN
      /\ FALSE \in BOOLEAN /\ TRUE \in BOOLEAN
  BY <1>1 DEF Logins, RuntimeRecords
<1>3. UNCHANGED <<links, seen>> => Followed'
  BY <1>1 DEF Followed, Linked
<1>4. CASE /\ lost' = TRUE
           /\ Authenticated("runtime_error", runtime.authentication.cites, FALSE)
           /\ UNCHANGED <<links, seen>>
  BY <1>1, <1>2, <1>3, <1>4, AuthenticatedInv
<1>5. CASE /\ lost' \in {lost, TRUE}
           /\ Authenticated("runtime_error", TRUE, FALSE)
           /\ UNCHANGED <<links, seen>>
  <2>1. lost' = lost \/ lost' = TRUE
    BY <1>5
  <2>2. lost' \in BOOLEAN /\ (~ lost' => ~ lost /\ TRUE)
    BY <1>1, <2>1
  <2> QED
    BY <1>1, <1>2, <1>3, <1>5, <2>2, AuthenticatedInv
<1>6. ASSUME NEW o \in Outcomes, lost' \in {lost, lost \/ o.second = "failed"},
             Observe(o), Authenticated(LoginStatus(o), TRUE, o.flawed)
      PROVE  IInv'
  <2>1. lost' \in BOOLEAN /\ (~ lost' => ~ lost /\ TRUE)
    BY <1>1, <1>6
  <2>2. o.links \subseteq TargetLinks /\ o.flawed \in BOOLEAN
    BY DEF Outcomes
  <2>3. LoginStatus(o) \in Logins
    BY DEF LoginStatus, Logins
  <2>4. Followed'
    <3>1. Linked' /\ links \subseteq links'
      BY <1>1, <1>6, <2>2, ObserveLinks DEF Followed, Observe
    <3> QED
      BY <1>1, <3>1 DEF Followed
  <2> QED
    BY <1>1, <1>2, <1>6, <2>1, <2>2, <2>3, <2>4, AuthenticatedInv
<1> QED
  BY <1>4, <1>5, <1>6 DEF SubmitLogin

-----------------------------------------------------------------------------
(* The status of the run is settled. *)
LEMMA RollUpInv ==
  ASSUME IInv, RollUp
  PROVE  IInv'
<1> DEFINE q == [runtime EXCEPT !.status = RunStatus(runtime)]
           r == WithFeatures(q)
<1>1. /\ pc = "roll up" \/ (pc = "revisit" /\ deferred = {})
      /\ UNCHANGED <<item, setup, artifacts, progress, lost>>
      /\ Course /\ Kept /\ Followed /\ Tried /\ LoggedIn /\ Observed /\ Complete /\ Featured
      /\ returned = "" /\ runtime.status = "running" /\ ~ runtime.failure
      /\ runtime \in RuntimeRecords
  BY DEF RollUp, IInv, Course, Kept
<1>2. /\ q \in RuntimeRecords /\ q.status = RunStatus(runtime)
      /\ q.interfaces = runtime.interfaces /\ q.failure = runtime.failure
      /\ q.flawed = runtime.flawed /\ q.authentication = runtime.authentication
  <2>1. RunStatus(runtime) \in {"partial", "completed"}
    BY DEF RunStatus
  <2> HIDE DEF ObservationRecords, Logins, Coverages
  <2> QED
    BY <1>1, <2>1 DEF RuntimeRecords
<1> HIDE DEF q
<1>3. /\ r \in RuntimeRecords /\ r.status = RunStatus(runtime)
      /\ r.interfaces = runtime.interfaces /\ r.failure = runtime.failure
      /\ r.flawed = runtime.flawed /\ r.authentication = runtime.authentication
      /\ r.features = [f \in Features |-> FeatureStatus(f, r.interfaces)]
  BY <1>2, WithFeaturesType
<1>4. \/ Valid(r) /\ runtime' = r /\ returned' = "ok" /\ pc' = "returned"
      \/ ~ Valid(r) /\ Abort(Failed(r))
  BY DEF RollUp, q
<1> HIDE DEF r
<1>5. ASSUME ~ lost PROVE Valid(r)
  <2>1. \A o \in Observations : o.cites
    BY <1>1, <1>5 DEF Observed, Truthful
  <2>2. \A k \in DOMAIN r.interfaces : r.interfaces[k].cites
    BY <1>3, <2>1 DEF Observations
  <2>3. r.authentication.cites
    BY <1>1, <1>3, <1>5 DEF LoggedIn
  <2>4. Once(r.interfaces) /\ r.interfaces \in Seq(ObservationRecords)
    BY <1>1, <1>3, ObservationsType DEF Complete
  <2>5. \A k \in DOMAIN r.interfaces : \A l \in 1..(k-1) :
          l \in DOMAIN r.interfaces /\ l # k
    <3> HIDE DEF ObservationRecords
    <3>1. DOMAIN r.interfaces = 1..Len(r.interfaces) /\ Len(r.interfaces) \in Nat
      BY <2>4
    <3> QED
      BY <3>1
  <2> QED
    BY <2>2, <2>3, <2>4, <2>5 DEF Valid, Once
<1>6. /\ runtime' \in RuntimeRecords /\ runtime'.interfaces = runtime.interfaces
      /\ runtime'.status # "running" /\ pc' = "returned" /\ returned' \in {"ok", "error"}
      /\ returned' = "error" => lost /\ runtime'.status # "completed"
      /\ returned' = "ok" => runtime' = r /\ Valid(r)
      /\ runtime'.features = r.features
  <2>1. CASE Valid(r) /\ runtime' = r /\ returned' = "ok" /\ pc' = "returned"
    BY <1>3, <2>1 DEF RunStatus
  <2>2. CASE ~ Valid(r) /\ Abort(Failed(r))
    <3>1. /\ Failed(r) \in RuntimeRecords /\ Failed(r).status \in {"partial", "failed"}
          /\ Failed(r).interfaces = r.interfaces /\ Failed(r).features = r.features
      BY <1>3, FailedType
    <3>2. /\ runtime' \in RuntimeRecords /\ returned' = "error" /\ pc' = "returned"
          /\ runtime'.interfaces = Failed(r).interfaces
          /\ runtime'.features = Failed(r).features
          /\ runtime'.status # "running"
          /\ Failed(r).status # "completed" => runtime'.status # "completed"
      BY <2>2, <3>1, AbortEffect
    <3> QED
      BY <1>3, <1>5, <2>2, <3>1, <3>2
  <2> QED
    BY <1>4, <2>1, <2>2
<1>7. /\ Safe' = Safe /\ LoginURLs' = LoginURLs /\ \A j : Required(j)' = Required(j)
      /\ Observations' = Observations
  BY <1>1, <1>6 DEF Safe, LoginURLs, Required, Observations
<1>8. Course'
  BY <1>1, <1>6 DEF Course, FailsOnlyOnLoss
<1>9. Kept' /\ Followed' /\ Tried'
  BY <1>1, <1>6, <1>7 DEF Kept, Followed, Linked, Tried, progress
<1>10. LoggedIn'
  <2>1. returned' = "ok" => runtime'.authentication = runtime.authentication
    BY <1>3, <1>6
  <2> QED
    BY <1>1, <1>6, <2>1 DEF LoggedIn, progress
<1>11. Observed'
  BY <1>1, <1>6, <1>7 DEF Observed, Truthful, progress
<1>12. Complete'
  <2>1. \A j \in Interfaces \ Safe :
          \E p \in Observations : p.interface = j /\ p.state = "not_attempted"
    BY <1>1 DEF Complete
  <2>2. \A j \in Safe : \E p \in Observations : p.interface = j
    BY <1>1 DEF Complete
  <2> QED
    BY <1>6, <1>7, <2>1, <2>2, ZenonT(60) DEF Complete, AccountedFor
<1>13. Featured'
  BY <1>3, <1>6 DEF Featured
<1>14. CompletedIsClean'
  <2> SUFFICES ASSUME runtime'.status = "completed" PROVE CompletedIsClean'
    BY DEF CompletedIsClean
  <2>1. runtime' = r /\ Valid(r) /\ returned' = "ok"
    BY <1>6
  <2>2. runtime.authentication.status # "blocked" /\ ~ runtime.flawed
    BY <1>3, <2>1 DEF RunStatus
  <2>3. \A o \in Observations' : o.cites
    BY <2>1 DEF Observations, Valid
  <2> QED
    BY <1>1, <1>3, <2>1, <2>2, <2>3 DEF CompletedIsClean, Valid
<1> QED
  BY <1>8, <1>9, <1>10, <1>11, <1>12, <1>13, <1>14 DEF IInv

LEMMA WriteArtifactsInv ==
  ASSUME IInv, WriteArtifacts
  PROVE  IInv'
<1>1. /\ pc = "returned" /\ pc' = "ended" /\ runtime' = Finished(runtime)
      /\ artifacts' \in {{}, {"runtime.json"}, {"runtime.json", "runtime.md"}}
      /\ UNCHANGED <<item, setup, progress, lost, returned>>
      /\ Course /\ Kept /\ Followed /\ Tried /\ LoggedIn /\ Observed /\ Complete /\ Featured
      /\ runtime \in RuntimeRecords /\ returned # ""
  BY DEF WriteArtifacts, IInv, Kept, Course
<1>2. /\ runtime' \in RuntimeRecords /\ runtime'.interfaces = runtime.interfaces
      /\ runtime'.features = runtime.features
      /\ runtime'.authentication = runtime.authentication
      /\ runtime'.status # "running"
      /\ runtime' = runtime \/ runtime'.status # "completed"
  BY <1>1, FailedType DEF Finished
<1>3. /\ Safe' = Safe /\ LoginURLs' = LoginURLs /\ \A j : Required(j)' = Required(j)
      /\ Observations' = Observations
  BY <1>1, <1>2 DEF Safe, LoginURLs, Required, Observations
<1>4. Course'
  BY <1>1, <1>2 DEF Course, FailsOnlyOnLoss, progress
<1>5. Kept' /\ Followed' /\ Tried'
  BY <1>1, <1>2, <1>3 DEF Kept, Followed, Linked, Tried, progress
<1>6. LoggedIn'
  BY <1>1, <1>2 DEF LoggedIn, progress
<1>7. Observed'
  BY <1>1, <1>3 DEF Observed, Truthful, progress
<1>8. Complete'
  <2>1. AccountedFor
    BY <1>1 DEF Complete
  <2>2. AccountedFor'
    BY <1>1, <1>3, <2>1 DEF AccountedFor
  <2> QED
    BY <1>1, <2>2 DEF Complete
<1>9. Featured'
  BY <1>1, <1>2 DEF Featured
<1>10. CompletedIsClean'
  BY <1>1, <1>2, <1>3 DEF CompletedIsClean, IInv
<1> QED
  BY <1>4, <1>5, <1>6, <1>7, <1>8, <1>9, <1>10 DEF IInv

-----------------------------------------------------------------------------
LEMMA NextInv == IInv /\ [Next]_vars => IInv'
<1> SUFFICES ASSUME IInv, [Next]_vars PROVE IInv'
  OBVIOUS
<1>1. CASE BrowserFails \/ Unreachable
  BY <1>1, StartFails, FailsEarlyInv
<1>2. CASE SkipOthers
  BY <1>2, RecordingInv DEF SkipOthers
<1>3. CASE RecordRest
  BY <1>3, RecordingInv DEF RecordRest
<1>4. CASE UNCHANGED vars
  <2>1. UNCHANGED <<Course, Kept, Followed, Tried, LoggedIn, Observed, Complete, Featured,
                    CompletedIsClean>>
    BY <1>4 DEF vars, progress, Course, FailsOnlyOnLoss, Kept, LoginURLs, Followed, Linked,
                Tried, Safe, LoggedIn, Observed, Truthful, Required, Observations, Complete,
                AccountedFor, Featured, CompletedIsClean
  <2> QED
    BY <2>1 DEF IInv
<1> QED
  BY <1>1, <1>2, <1>3, <1>4, OpenBasePageInv, VisitNextInv, NoLoginInv, FindLoginInv,
     SubmitLoginInv, RevisitInv, RollUpInv, WriteArtifactsInv DEF Next

LEMMA Invariance == Spec => []IInv
  BY InitInv, NextInv, PTL DEF Spec

(* Nothing goes missing in a verification: whatever the application, its   *)
(* target and the limit, each interface is reported, within the limit, and *)
(* again with the session where a wall was met; and once the application   *)
(* answered, only lost evidence makes it fail (verifier.go, Verify).       *)
THEOREM NothingGoesMissing == Spec => []AllAccounted
<1>1. IInv => AllAccounted
  <2> SUFFICES ASSUME IInv PROVE AllAccounted
    OBVIOUS
  <2>1. TypeOK
    <3>1. links \subseteq {Redact(u) : u \in TargetLinks} /\ seen \subseteq TargetLinks
      BY DEF IInv, Followed, Linked
    <3>2. runtime \in RuntimeRecords
      BY DEF IInv, Kept
    <3>3. \A o \in Observations : /\ o.interface \in Interfaces
                                  /\ o.state \in {"not_attempted", "unauthenticated",
                                                  "authenticated"}
      BY <3>2, ObservationsType DEF ObservationRecords, States
    <3>4. runtime.status \in {"running", "completed", "partial", "failed"}
      BY <3>2 DEF RuntimeRecords
    <3> QED
      BY <3>1, <3>3, <3>4 DEF IInv, Course, Kept, Tried, TypeOK
  <2>2. AccountedFor /\ FailsOnlyOnLoss
    BY DEF IInv, Complete, Course
  <2>3. WithinLimit
    <3> DEFINE S == {o.interface : o \in {p \in Observations : p.state # "not_attempted"}}
    <3>1. S \in SUBSET attempted
      BY DEF IInv, Observed, Truthful
    <3>2. IsFiniteSet(attempted) /\ Cardinality(attempted) <= MaxInterfaces
      BY DEF IInv, Tried
    <3> HIDE DEF S
    <3>3. IsFiniteSet(S) /\ Cardinality(S) <= Cardinality(attempted)
      BY <3>1, <3>2, FS_Subset
    <3>4. Cardinality(S) \in Nat /\ Cardinality(attempted) \in Nat /\ MaxInterfaces \in Nat
      BY <3>2, <3>3, FS_CardinalityType, VerifierAssumption
    <3>5. Cardinality(S) <= MaxInterfaces
      BY <3>2, <3>3, <3>4
    <3> QED
      BY <3>5 DEF S, WithinLimit
  <2>4. WallsRevisited
    BY DEF IInv, LoggedIn, Observed, Truthful, WallsRevisited
  <2> QED
    BY <2>1, <2>2, <2>3, <2>4 DEF AllAccounted
<1> QED
  BY <1>1, Invariance, PTL

-----------------------------------------------------------------------------
(* A feature verified for its children has all of them verified. *)
LEMMA FeaturesDownward == IInv => VerifiedDownward
<1> SUFFICES ASSUME IInv, NEW f \in Features, runtime.features[f] = "verified",
                    DirectInterfaces[f] = {}, NEW c \in Children(f), Covered[c] # {}
             PROVE  runtime.features[c] = "verified"
  BY DEF VerifiedDownward
<1> DEFINE verified(g) ==
             {i \in Covered[g] : "verified" \in Statuses(runtime.interfaces, {i})}
<1>1. c \in Features
  BY DEF Children
<1>2. /\ runtime.features[f] = FeatureStatus(f, runtime.interfaces)
      /\ runtime.features[c] = FeatureStatus(c, runtime.interfaces)
  BY <1>1 DEF IInv, Featured
<1>3. verified(f) = Covered[f]
  BY <1>2 DEF FeatureStatus
<1>4. Covered[c] \subseteq Covered[f]
  <2>1. Covered[f] = UNION {Covered[d] : d \in Children(f)}
    BY CoveredDef DEF UnderCovered
  <2> QED
    BY <2>1
<1>5. verified(c) = Covered[c]
  BY <1>3, <1>4
<1> QED
  BY <1>2, <1>5 DEF FeatureStatus

LEMMA InvSound == IInv => CompletedIsClean /\ VerifiedMeansAllowed /\ VerifiedDownward
  BY FeaturesDownward DEF IInv, Observed, Truthful, VerifiedMeansAllowed

(* Every address visited is of a route without a parameter or was linked   *)
(* on some page, as it was linked but for a secret of the identity, which  *)
(* is kept redacted (binding.go, Observe).                                 *)
VisitedWereLinked == \A url \in visited : url[2] = None \/ \E u \in seen : url = Redact(u)

THEOREM VisitsFollowLinks == Spec => []VisitedWereLinked
<1>1. IInv => VisitedWereLinked
  BY DEF IInv, Followed, Linked, VisitedWereLinked
<1> QED
  BY <1>1, Invariance, PTL

(* What is called verified or completed was seen, at an address the        *)
(* application gave, with the access the source asks for; provided that no *)
(* link of the target holds a secret of the identity: such a link is       *)
(* followed with the secret redacted, where it leads elsewhere.            *)
THEOREM VerifiedWasSeen ==
  ASSUME Secret \notin Values
  PROVE  Spec => []VerifiedSound
<1>1. IInv => BoundToSeenLink
  <2> SUFFICES ASSUME IInv, NEW url \in visited, url[2] # None
               PROVE  url \in seen
    BY DEF BoundToSeenLink
  <2>1. PICK u \in seen : url = Redact(u)
    BY DEF IInv, Followed, Linked
  <2>2. u \in TargetLinks
    BY <2>1 DEF IInv, Followed, Linked
  <2>3. u[2] # Secret
    BY <2>2 DEF TargetLinks
  <2> QED
    BY <2>1, <2>3 DEF Redact
<1>2. IInv => VerifiedSound
  BY <1>1, InvSound DEF VerifiedSound
<1> QED
  BY <1>2, Invariance, PTL

-----------------------------------------------------------------------------
(* Periods of seconds over ticks of half a second.                         *)
LEMMA DivMod ==
  ASSUME NEW p \in Nat \ {0}, NEW a \in Nat
  PROVE  /\ a \div p \in Nat /\ a % p \in Nat /\ a % p < p
         /\ a = p * (a \div p) + (a % p)
OBVIOUS

LEMMA DivUnique ==
  ASSUME NEW p \in Nat \ {0}, NEW a \in Nat, NEW q \in Nat, NEW r \in Nat, r < p,
         a = p * q + r
  PROVE  a \div p = q
OBVIOUS

LEMMA HalfDelayed ==
  ASSUME NEW a \in Nat, NEW m \in Nat, NEW k \in Nat, k <= 2 * m
  PROVE  /\ a \div 2 \in Nat /\ (a + k) \div 2 \in Nat
         /\ a \div 2 <= (a + k) \div 2 /\ (a + k) \div 2 <= a \div 2 + m
OBVIOUS

(* A code of period p generated at tick b is still the current one d ticks *)
(* later.                                                                  *)
SteadyFor(b, d, p) == \A k \in 0 .. d : ((b + k) \div 2) \div p = (b \div 2) \div p

(* So is one generated more than a margin before its period ends, as long  *)
(* as its submission takes no longer than the margin,                      *)
LEMMA SteadyNow ==
  ASSUME NEW p \in Nat \ {0}, NEW m \in Nat, NEW d \in Nat, d <= 2 * m, NEW a \in Nat,
         NEW w, w = p - ((a \div 2) % p), ~ (w <= m)
  PROVE  SteadyFor(a, d, p)
<1>. SUFFICES ASSUME NEW k \in 0 .. d
              PROVE  ((a + k) \div 2) \div p = (a \div 2) \div p
  BY Zenon DEF SteadyFor
<1>. DEFINE u == a \div 2
            v == (a + k) \div 2
<1>0. k \in Nat /\ k <= 2 * m  OBVIOUS
<1>1. u \in Nat /\ v \in Nat /\ u <= v /\ v <= u + m  BY <1>0, HalfDelayed
<1>2. ~ (p - (u % p) <= m)  BY Zenon
<1>. HIDE DEF u, v
<1>. DEFINE q == u \div p
            r == u % p
<1>3. q \in Nat /\ r \in Nat /\ r < p /\ u = p * q + r  BY <1>1, DivMod
<1>4. ~ (p - r <= m)  BY <1>2, Zenon
<1>. HIDE DEF q, r
<1>. DEFINE s == r + (v - u)
            y == p * q
<1>5. y \in Nat  BY <1>3
<1>6. u = y + r  BY <1>3, Zenon
<1>. HIDE DEF y
<1>7. s \in Nat /\ s < p /\ v = y + s  BY <1>1, <1>3, <1>4, <1>5, <1>6
<1>. HIDE DEF s
<1>8. v = p * q + s  BY <1>7, Zenon DEF y
<1>9. v \div p = q  BY <1>1, <1>3, <1>7, <1>8, DivUnique
<1>10. v \div p = u \div p  BY <1>9, Zenon DEF q
<1>. QED  BY <1>10, Zenon DEF u, v

LEMMA HalfAndRest ==
  ASSUME NEW a \in Nat
  PROVE  a \div 2 \in Nat /\ a % 2 \in 0 .. 1 /\ a = 2 * (a \div 2) + (a % 2)
OBVIOUS

LEMMA HalfPast ==
  ASSUME NEW p \in Nat \ {0}, NEW o \in Nat, NEW d \in Nat, o + d + 2 <= 2 * p,
         NEW z \in Nat, NEW h \in 0 .. 1, NEW late \in 0 .. o, NEW i \in 0 .. d
  PROVE  \E s \in Nat : s < p /\ (2 * z + h + late + i) \div 2 = z + s
<1>. DEFINE s == (h + late + i) \div 2
<1>1. (2 * z + h + late + i) \div 2 = z + s /\ s \in Nat /\ s < p  OBVIOUS
<1>. QED  BY <1>1

(* The instant a sleep to the end of the period is over.                   *)
LEMMA Awake ==
  ASSUME NEW p \in Nat, NEW u \in Nat, NEW r \in Nat, NEW y \in Nat, u = y + r, NEW h \in Nat,
         NEW late \in Nat
  PROVE  (2 * u + h) + 2 * (p - r) + late = 2 * (y + p) + h + late
OBVIOUS

(* and so is one generated when the next period has just begun.            *)
LEMMA SteadyAfterSleep ==
  ASSUME NEW p \in Nat \ {0}, NEW o \in Nat, NEW d \in Nat, o + d + 2 <= 2 * p,
         NEW a \in Nat, NEW w, w = p - ((a \div 2) % p), NEW late \in 0 .. o,
         NEW b, b = a + 2 * w + late
  PROVE  SteadyFor(b, d, p)
<1>. DEFINE u == a \div 2
            h == a % 2
<1>1. u \in Nat /\ h \in 0 .. 1 /\ a = 2 * u + h  BY HalfAndRest
<1>0. w = p - (u % p)  BY Zenon
<1>. HIDE DEF u, h
<1>. DEFINE q == u \div p
            r == u % p
<1>2. q \in Nat /\ r \in Nat /\ u = p * q + r  BY <1>1, DivMod
<1>3. b = (2 * u + h) + 2 * (p - r) + late  BY <1>0, <1>1, Zenon
<1>. HIDE DEF q, r
<1>. DEFINE y == p * q
            z == p * (q + 1)
<1>4. y \in Nat /\ z \in Nat /\ z = y + p /\ q + 1 \in Nat  BY <1>2
<1>5. u = y + r  BY <1>2, Zenon
<1>. HIDE DEF y, z
<1>6. p \in Nat /\ h \in Nat /\ late \in Nat /\ 0 \in 0 .. d  BY <1>1
<1>7. b = 2 * z + h + late
  <2>1. (2 * u + h) + 2 * (p - r) + late = 2 * (y + p) + h + late
    BY <1>1, <1>2, <1>4, <1>5, <1>6, Awake
  <2>. QED  BY <1>3, <1>4, <2>1, Zenon
<1>8. ASSUME NEW i \in 0 .. d PROVE ((b + i) \div 2) \div p = q + 1
  <2>. DEFINE Past(s) == s < p /\ (2 * z + h + late + i) \div 2 = z + s
  <2>0. \E s \in Nat : Past(s)  BY <1>1, <1>4, HalfPast
  <2>1. PICK s \in Nat : Past(s)  BY <2>0
  <2>2. (b + i) \div 2 = p * (q + 1) + s  BY <1>7, <2>1, Zenon DEF z
  <2>3. p * (q + 1) + s \in Nat  BY <1>4 DEF z
  <2>4. (p * (q + 1) + s) \div p = q + 1  BY <1>4, <2>1, <2>3, DivUnique
  <2>. QED  BY <2>2, <2>4, Zenon
<1>9. b + 0 = b
  <2>1. b \in Nat  BY <1>4, <1>6, <1>7
  <2>2. \A n \in Nat : n + 0 = n  OBVIOUS
  <2>. QED  BY <2>1, <2>2, Zenon
<1>10. (b \div 2) \div p = q + 1
  <2>1. ((b + 0) \div 2) \div p = q + 1  BY <1>6, <1>8, Zenon
  <2>. QED  BY <1>9, <2>1, Zenon
<1>. QED  BY <1>8, <1>10, Zenon DEF SteadyFor

(* What the page shows without the field or its form weighs nothing or 3.  *)
LEMMA Weights ==
  /\ 0 + 0 + 0 + 0 + 3 + 0 = 3 /\ 0 + 0 + 0 + 0 + 0 + 0 = 0
  /\ ~ (3 >= 4) /\ ~ (0 >= 4) /\ ~ (0 >= 5) /\ ~ (3 >= 5)
OBVIOUS

(* From the first period on, no code is the number of none.                *)
LEMMA CodeIsSome ==
  ASSUME NEW p \in Nat \ {0}, NEW a \in Nat, a >= 2 * p
  PROVE  (a \div 2) \div p \in Nat /\ (a \div 2) \div p # 0
<1>. DEFINE u == a \div 2
<1>1. u \in Nat /\ u >= p  OBVIOUS
<1>. HIDE DEF u
<1>. DEFINE q == u \div p
<1>2. q \in Nat /\ u % p < p /\ u % p \in Nat /\ u = p * q + (u % p)  BY <1>1, DivMod
<1>3. q # 0
  <2>. SUFFICES ASSUME q = 0 PROVE FALSE  OBVIOUS
  <2>. HIDE DEF q
  <2>1. p * q = 0  OBVIOUS
  <2>. QED  BY <1>1, <1>2, <2>1
<1>. QED  BY <1>2, <1>3 DEF u

-----------------------------------------------------------------------------
(* How far a login has come: where the code is to come from, the delay of  *)
(* its submission is accounted for (Steady); the redactor knows the seed   *)
(* before a code is generated, and the code before it is submitted.        *)
Timely  == SteadyFor(clock, CodeDelay, CodePeriod)
Current == code = (clock \div 2) \div CodePeriod

Asked   == Factor!Detected(signals, supported)

Shapes ==
  /\ signals \subseteq Factor!Signals /\ seed \in {"none", "unset", "set"}
  /\ supported \in BOOLEAN /\ valid \in BOOLEAN /\ native \in BOOLEAN
  /\ registered \subseteq Factor!Secrets /\ codeSent \in BOOLEAN
  /\ factorPc \in {"detect", "wait", "generate", "submit", "done"}
  /\ factorStatus \in {"not_required", "required", "blocked", "failed", "unknown", "verified"}
Numbers ==
  /\ clock \in Nat /\ clock >= 2 * CodePeriod /\ code \in Nat
  /\ submissions \in {0, 1}

Challenged ==
  /\ factorStatus # "not_required" => Asked
  /\ factorPc \in {"wait", "generate", "submit"} => factorStatus = "required"
  /\ factorPc = "detect" => factorStatus = "not_required"
Sent ==
  /\ factorPc \in {"detect", "wait", "generate"} => ~ codeSent
  /\ factorPc = "submit" => codeSent
  /\ codeSent => native /\ registered = Factor!Secrets
  /\ factorStatus = "verified" => codeSent
Counted ==
  /\ codeSent => code # 0
  /\ factorPc # "done" => submissions = 0
  /\ submissions > 0 => Current
Steady ==
  /\ factorPc = "generate" => Timely
  /\ factorPc = "submit" => Timely /\ Current

FactorInv == Shapes /\ Numbers /\ Challenged /\ Sent /\ Counted /\ Steady

LEMMA AskedStays == signals' = signals /\ supported' = supported => (Asked' <=> Asked)
BY DEF Asked

LEMMA TimingFacts ==
  /\ CodePeriod \in Nat \ {0} /\ CodeMargin \in Nat \ {0}
  /\ CodeDelay \in Nat /\ CodeOversleep \in Nat
  /\ CodeDelay <= 2 * CodeMargin
  /\ CodeOversleep + CodeDelay + 2 <= 2 * CodePeriod
BY TargetAssumption, Zenon DEF Factor!TimingAssumption

LEMMA FactorStarts == Factor!Init => FactorInv
<1>. SUFFICES ASSUME Factor!Init PROVE FactorInv
  OBVIOUS
<1>1. Shapes  BY DEF Factor!Init, Shapes
<1>2. Numbers
  <2>1. clock \in Nat /\ clock >= 2 * CodePeriod
    BY TimingFacts DEF Factor!Init, Factor!Ticks
  <2>2. code = 0 /\ submissions = 0  BY Zenon DEF Factor!Init
  <2>. QED  BY <2>1, <2>2 DEF Numbers
<1>3. Challenged  BY DEF Factor!Init, Challenged
<1>4. Sent  BY DEF Factor!Init, Sent
<1>5. Counted
  <2>1. submissions = 0 /\ ~ codeSent  BY Zenon DEF Factor!Init
  <2>2. ~ (submissions > 0)  BY <2>1
  <2>. QED  BY <2>1, <2>2, Zenon DEF Counted
<1>6. Steady  BY DEF Factor!Init, Steady
<1>. QED  BY <1>1, <1>2, <1>3, <1>4, <1>5, <1>6 DEF FactorInv

LEMMA DetectKeeps == FactorInv /\ Factor!Detect => FactorInv'
<1>. SUFFICES ASSUME FactorInv, Factor!Detect PROVE FactorInv'
  OBVIOUS
<1>1. factorPc = "detect" /\ UNCHANGED <<signals, supported, seed, valid, native, clock, code,
                                         submissions, codeSent>>
  BY Zenon DEF Factor!Detect, Factor!setting
<1>2. Shapes /\ Numbers /\ Challenged /\ Sent /\ Counted  BY Zenon DEF FactorInv
<1>3. ~ codeSent /\ factorStatus = "not_required" /\ submissions = 0 /\ factorPc # "done"
  <2>1. factorPc # "done" /\ factorPc \in {"detect", "wait", "generate"}  BY <1>1
  <2>. QED  BY <1>1, <1>2, <2>1, Zenon DEF Sent, Challenged, Counted
<1>4. /\ factorPc' \in {"done", "wait"}
      /\ registered' \in {registered, {"seed"}}
      /\ factorStatus' \in {"not_required", "blocked", "required"}
      /\ factorStatus' # "not_required" => Asked
      /\ factorPc' = "wait" => factorStatus' = "required"
  BY DEF Factor!Detect, Factor!Finish, Asked
<1>5. Shapes'  BY <1>1, <1>2, <1>4 DEF Shapes, Factor!Secrets
<1>6. Numbers'  BY <1>1, <1>2, Zenon DEF Numbers
<1>7. Challenged'
  <2>1. factorPc' # "detect" /\ factorPc' \notin {"generate", "submit"}  BY <1>4
  <2>2. Asked' <=> Asked
    BY <1>1, AskedStays, Zenon
  <2>. QED  BY <1>4, <2>1, <2>2 DEF Challenged
<1>8. Sent'  BY <1>1, <1>3, <1>4 DEF Sent
<1>9. Counted'
  <2>1. ~ (0 > 0)  OBVIOUS
  <2>. QED  BY <1>1, <1>3, <2>1, Zenon DEF Counted
<1>10. Steady'
  <2>1. factorPc' # "generate" /\ factorPc' # "submit"  BY <1>4
  <2>. QED  BY <2>1, Zenon DEF Steady
<1>. QED  BY <1>5, <1>6, <1>7, <1>8, <1>9, <1>10 DEF FactorInv

(* What neither the wait nor the generation changes.                       *)
LEMMA BeforeSubmission ==
  ASSUME FactorInv, factorPc \in {"wait", "generate"},
         UNCHANGED <<signals, supported>>,
         factorPc' \in {"generate", "submit", "done"},
         factorStatus' \in {"required", "failed", "unknown"},
         factorPc' # "done" => factorStatus' = factorStatus
  PROVE  Challenged'
<1>1. Challenged  BY Zenon DEF FactorInv
<1>2. factorStatus = "required" /\ factorStatus # "not_required"  BY <1>1 DEF Challenged
<1>3. Asked' <=> Asked
  BY AskedStays, Zenon
<1>. QED  BY <1>1, <1>2, <1>3 DEF Challenged

LEMMA WaitKeeps == FactorInv /\ (Factor!Wait \/ Factor!NoWait) => FactorInv'
<1>. SUFFICES ASSUME FactorInv, Factor!Wait \/ Factor!NoWait PROVE FactorInv'
  OBVIOUS
<1>1. factorPc = "wait" /\ UNCHANGED <<signals, supported, seed, valid, native, code, registered,
                                       submissions, codeSent>>
  BY Zenon DEF Factor!Wait, Factor!NoWait, Factor!setting
<1>2. Shapes /\ Numbers /\ Challenged /\ Sent /\ Counted  BY Zenon DEF FactorInv
<1>3. ~ codeSent /\ factorStatus = "required" /\ submissions = 0 /\ factorPc # "done"
  <2>1. factorPc # "done" /\ factorPc \in {"detect", "wait", "generate"}
        /\ factorPc \in {"wait", "generate", "submit"}
    BY <1>1
  <2>. QED  BY <1>2, <2>1, Zenon DEF Sent, Challenged, Counted
<1>4. /\ factorPc' \in {"generate", "done"} /\ factorStatus' \in {"required", "failed"}
      /\ factorPc' # "done" => factorStatus' = factorStatus
  BY <1>3 DEF Factor!Wait, Factor!NoWait, Factor!Finish
<1>5. clock \in Nat /\ clock >= 2 * CodePeriod /\ code \in Nat  BY <1>2 DEF Numbers
<1>. DEFINE r == CodePeriod - ((clock \div 2) % CodePeriod)
<1>6. r \in Nat
  <2>1. (clock \div 2) \in Nat  BY <1>5, HalfAndRest
  <2>2. (clock \div 2) % CodePeriod \in Nat /\ (clock \div 2) % CodePeriod < CodePeriod
    BY <2>1, TimingFacts, DivMod
  <2>. QED  BY <2>2, TimingFacts
<1>7. r = Factor!Remaining  BY Zenon DEF Factor!Remaining, Factor!Unix
<1>8. \/ clock' = clock /\ (factorPc' = "generate" => ~ (r <= CodeMargin))
      \/ \E late \in 0 .. CodeOversleep : clock' = clock + 2 * r + late
  <2>1. CASE Factor!Wait
    <3>1. \/ factorPc' = "done" /\ clock' = clock
          \/ \E late \in 0 .. CodeOversleep : clock' = clock + 2 * r + late
      BY <1>7, <2>1, Zenon DEF Factor!Wait, Factor!Finish
    <3>2. "done" # "generate"  OBVIOUS
    <3>. QED  BY <3>1, <3>2, Zenon
  <2>2. CASE Factor!NoWait
    BY <1>7, <2>2, Zenon DEF Factor!NoWait, Factor!TooLate
  <2>. QED  BY <2>1, <2>2, Zenon
<1>9. Numbers' /\ (factorPc' = "generate" => Timely')
  <2>1. CASE clock' = clock /\ (factorPc' = "generate" => ~ (r <= CodeMargin))
    <3>1. Numbers'  BY <1>1, <1>2, <2>1, Zenon DEF Numbers
    <3>2. ASSUME ~ (r <= CodeMargin) PROVE SteadyFor(clock, CodeDelay, CodePeriod)
      <4>1. CodeMargin \in Nat  BY TimingFacts
      <4>2. r = CodePeriod - ((clock \div 2) % CodePeriod)  OBVIOUS
      <4>. HIDE DEF r
      <4>. QED  BY <1>5, <3>2, <4>1, <4>2, TimingFacts, SteadyNow
    <3>. QED  BY <2>1, <3>1, <3>2, Zenon DEF Timely
  <2>2. CASE \E late \in 0 .. CodeOversleep : clock' = clock + 2 * r + late
    <3>1. PICK late \in 0 .. CodeOversleep : clock' = clock + 2 * r + late  BY <2>2, Zenon
    <3>. DEFINE b == clock + 2 * r + late
    <3>2. b \in Nat /\ b >= 2 * CodePeriod
      <4>1. late \in Nat  BY TimingFacts
      <4>2. CodePeriod \in Nat  BY TimingFacts
      <4>. HIDE DEF r
      <4>. QED  BY <1>5, <1>6, <4>1, <4>2
    <3>3. Numbers'  BY <1>1, <1>2, <3>1, <3>2, Zenon DEF Numbers
    <3>4. SteadyFor(b, CodeDelay, CodePeriod)
      <4>1. r = CodePeriod - ((clock \div 2) % CodePeriod) /\ b = clock + 2 * r + late  OBVIOUS
      <4>. HIDE DEF r, b
      <4>. QED  BY <1>5, <4>1, TimingFacts, SteadyAfterSleep
    <3>. HIDE DEF b
    <3>5. clock' = b  BY <3>1, Zenon DEF b
    <3>. QED  BY <3>3, <3>4, <3>5, Zenon DEF Timely
  <2>. QED  BY <1>8, <2>1, <2>2, Zenon
<1>10. Shapes'  BY <1>1, <1>2, <1>4 DEF Shapes
<1>11. Challenged'
  <2>1. /\ factorPc \in {"wait", "generate"} /\ factorPc' \in {"generate", "submit", "done"}
        /\ factorStatus' \in {"required", "failed", "unknown"}
    BY <1>1, <1>4
  <2>. QED  BY <1>1, <1>4, <2>1, BeforeSubmission, Zenon
<1>12. Sent'  BY <1>1, <1>3, <1>4 DEF Sent
<1>13. Counted'
  <2>1. ~ (0 > 0)  OBVIOUS
  <2>. QED  BY <1>1, <1>3, <2>1, Zenon DEF Counted
<1>14. Steady'
  <2>1. factorPc' # "submit"  BY <1>4
  <2>. QED  BY <1>9, <2>1, Zenon DEF Steady
<1>. QED  BY <1>9, <1>10, <1>11, <1>12, <1>13, <1>14 DEF FactorInv

LEMMA GenerateKeeps == FactorInv /\ Factor!Generate => FactorInv'
<1>. SUFFICES ASSUME FactorInv, Factor!Generate PROVE FactorInv'
  OBVIOUS
<1>1. factorPc = "generate" /\ UNCHANGED <<signals, supported, seed, valid, native, clock,
                                           submissions>>
  BY Zenon DEF Factor!Generate, Factor!setting
<1>2. Shapes /\ Numbers /\ Challenged /\ Sent /\ Counted /\ Steady  BY Zenon DEF FactorInv
<1>3. ~ codeSent /\ factorStatus = "required" /\ submissions = 0 /\ factorPc # "done" /\ Timely
  <2>1. factorPc # "done" /\ factorPc \in {"detect", "wait", "generate"}
        /\ factorPc \in {"wait", "generate", "submit"}
    BY <1>1
  <2>. QED  BY <1>1, <1>2, <2>1, Zenon DEF Sent, Challenged, Counted, Steady
<1>4. \/ /\ code' = code /\ registered' = registered /\ codeSent' = codeSent
         /\ factorPc' = "done" /\ factorStatus' = "failed"
      \/ /\ code' = (clock \div 2) \div CodePeriod /\ registered' = Factor!Secrets
         /\ \/ factorPc' = "done" /\ factorStatus' = "unknown" /\ codeSent' = codeSent
            \/ native /\ codeSent' = TRUE /\ factorPc' = "submit" /\ factorStatus' = factorStatus
  BY Zenon DEF Factor!Generate, Factor!Finish, Factor!GenerateCode, Factor!Unix
<1>5. (clock \div 2) \div CodePeriod \in Nat /\ (clock \div 2) \div CodePeriod # 0
  <2>1. clock \in Nat /\ clock >= 2 * CodePeriod  BY <1>2, Zenon DEF Numbers
  <2>. QED  BY <2>1, TimingFacts, CodeIsSome, Zenon
<1>6. Shapes'
  <2>1. /\ registered' \subseteq Factor!Secrets /\ codeSent' \in BOOLEAN
        /\ factorPc' \in {"detect", "wait", "generate", "submit", "done"}
        /\ factorStatus' \in {"not_required", "required", "blocked", "failed", "unknown", "verified"}
    BY <1>2, <1>3, <1>4 DEF Shapes
  <2>. QED  BY <1>1, <1>2, <2>1, Zenon DEF Shapes
<1>7. Numbers'
  <2>1. code' \in Nat  BY <1>2, <1>4, <1>5, Zenon DEF Numbers
  <2>. QED  BY <1>1, <1>2, <2>1, Zenon DEF Numbers
<1>8. Challenged'
  <2>1. /\ factorPc \in {"wait", "generate"} /\ factorPc' \in {"generate", "submit", "done"}
        /\ factorStatus' \in {"required", "failed", "unknown"}
        /\ factorPc' # "done" => factorStatus' = factorStatus
    BY <1>1, <1>3, <1>4
  <2>. QED  BY <1>1, <2>1, BeforeSubmission, Zenon
<1>9. Sent'  BY <1>1, <1>3, <1>4 DEF Sent
<1>10. Counted'
  <2>1. ~ (0 > 0)  OBVIOUS
  <2>2. codeSent' => code' # 0  BY <1>3, <1>4, <1>5, Zenon
  <2>. QED  BY <1>1, <1>3, <2>1, <2>2, Zenon DEF Counted
<1>11. Steady'
  <2>1. factorPc' # "generate"  BY <1>4
  <2>2. Timely'  BY <1>1, <1>3, Zenon DEF Timely
  <2>3. factorPc' = "submit" => code' = (clock \div 2) \div CodePeriod
    <3>1. "done" # "submit"  OBVIOUS
    <3>. QED  BY <1>4, <3>1, Zenon
  <2>. QED  BY <1>1, <2>1, <2>2, <2>3, Zenon DEF Steady, Current
<1>. QED  BY <1>6, <1>7, <1>8, <1>9, <1>10, <1>11 DEF FactorInv

LEMMA SubmitKeeps == FactorInv /\ Factor!Submit => FactorInv'
<1>. SUFFICES ASSUME FactorInv, Factor!Submit PROVE FactorInv'
  OBVIOUS
<1>1. /\ factorPc = "submit" /\ submissions' = submissions + 1
      /\ UNCHANGED <<signals, supported, seed, valid, native, code, registered, codeSent>>
  BY Zenon DEF Factor!Submit, Factor!setting
<1>2. Shapes /\ Numbers /\ Challenged /\ Sent /\ Counted /\ Steady  BY Zenon DEF FactorInv
<1>3. codeSent /\ factorStatus = "required" /\ submissions = 0 /\ Timely /\ Current
  <2>1. factorPc # "done" /\ factorPc \in {"wait", "generate", "submit"}  BY <1>1
  <2>. QED  BY <1>1, <1>2, <2>1, Zenon DEF Sent, Challenged, Counted, Steady
<1>4. factorPc' = "done" /\ factorStatus' \in {"failed", "verified"}
  BY DEF Factor!Submit, Factor!Finish, Factor!AfterRefusal
<1>5. PICK k \in 0 .. CodeDelay : clock' = clock + k  BY Zenon DEF Factor!Submit
<1>6. Current'
  <2>1. (clock' \div 2) \div CodePeriod = (clock \div 2) \div CodePeriod
    BY <1>3, <1>5, Zenon DEF Timely, SteadyFor
  <2>. QED  BY <1>1, <1>3, <2>1, Zenon DEF Current
<1>7. Numbers'
  <2>1. clock \in Nat /\ clock >= 2 * CodePeriod /\ k \in Nat /\ CodePeriod \in Nat
    BY <1>2, TimingFacts DEF Numbers
  <2>2. clock' \in Nat /\ clock' >= 2 * CodePeriod  BY <1>5, <2>1
  <2>3. submissions' \in {0, 1}  BY <1>1, <1>3
  <2>. QED  BY <1>1, <1>2, <2>2, <2>3, Zenon DEF Numbers
<1>8. Shapes'  BY <1>1, <1>2, <1>4 DEF Shapes
<1>9. Challenged'
  <2>1. factorStatus # "not_required"  BY <1>3
  <2>2. Asked' <=> Asked
    BY <1>1, AskedStays, Zenon
  <2>3. Asked'  BY <1>2, <2>1, <2>2, Zenon DEF Challenged
  <2>. QED  BY <1>4, <2>3 DEF Challenged
<1>10. Sent'  BY <1>1, <1>2, <1>3, <1>4 DEF Sent
<1>11. Counted'  BY <1>1, <1>2, <1>4, <1>6, Zenon DEF Counted
<1>12. Steady'
  <2>1. factorPc' # "generate" /\ factorPc' # "submit"  BY <1>4
  <2>. QED  BY <2>1, Zenon DEF Steady
<1>. QED  BY <1>7, <1>8, <1>9, <1>10, <1>11, <1>12 DEF FactorInv

LEMMA FactorKeeps == FactorInv /\ [Factor!Next]_Factor!vars => FactorInv'
<1>. SUFFICES ASSUME FactorInv, [Factor!Next]_Factor!vars PROVE FactorInv'
  OBVIOUS
<1>1. CASE UNCHANGED Factor!vars
  <2>1. UNCHANGED <<signals, supported, seed, valid, native, clock, factorPc, code, registered,
                    submissions, factorStatus, codeSent>>
    BY <1>1, Zenon DEF Factor!vars, Factor!setting
  <2>2. Asked' <=> Asked
    BY <2>1, AskedStays, Zenon
  <2>3. FactorInv  OBVIOUS
  <2>4. Shapes'
    <3>1. Shapes  BY <2>3, Zenon DEF FactorInv
    <3>. QED  BY <2>1, <3>1 DEF Shapes
  <2>5. Numbers'  BY <2>1, Zenon DEF FactorInv, Numbers
  <2>6. Challenged'  BY <2>1, <2>2, Zenon DEF FactorInv, Challenged
  <2>7. Sent'  BY <2>1, Zenon DEF FactorInv, Sent
  <2>8. Counted'  BY <2>1, Zenon DEF FactorInv, Counted, Current
  <2>9. Steady'  BY <2>1, Zenon DEF FactorInv, Steady, Timely, Current
  <2>. QED  BY <2>4, <2>5, <2>6, <2>7, <2>8, <2>9, Zenon DEF FactorInv
<1>. QED  BY <1>1, DetectKeeps, WaitKeeps, GenerateKeeps, SubmitKeeps, Zenon DEF Factor!Next

(* A code is asked for by the field or its form, or no challenge is        *)
(* detected at all: what the page says without them weighs too little.     *)
LEMMA ChallengeShown ==
  ASSUME NEW shown, NEW known \in BOOLEAN, Factor!Detected(shown, known)
  PROVE  shown \cap {"autocomplete", "field name", "label", "form text", "named code"} # {}
<1>. SUFFICES ASSUME shown \cap {"autocomplete", "field name", "label", "form text", "named code"} = {}
              PROVE  FALSE
  OBVIOUS
<1>1. "autocomplete" \notin shown /\ "field name" \notin shown /\ "label" \notin shown
      /\ "form text" \notin shown /\ ~ ({"named code", "two factor text"} \subseteq shown)
  OBVIOUS
<1>2. Factor!Score(shown, known) >= 5  BY Zenon DEF Factor!Detected
<1>. QED  BY <1>1, <1>2, Weights, Zenon DEF Factor!Score

LEMMA FactorIsSound == FactorInv => Factor!CodeSound
<1>. SUFFICES ASSUME FactorInv PROVE Factor!CodeSound
  OBVIOUS
<1>1. Shapes /\ Numbers /\ Challenged /\ Sent /\ Counted  BY Zenon DEF FactorInv
<1>2. Factor!TypeOK
  BY <1>1, Zenon DEF Factor!TypeOK, Shapes, Numbers, Sent, Counted
<1>3. Factor!ChallengeOnPage
  <2>1. supported \in BOOLEAN  BY <1>1, Zenon DEF Shapes
  <2>. QED  BY <1>1, <2>1, ChallengeShown, Zenon DEF Challenged, Asked, Factor!ChallengeOnPage
<1>4. Factor!OneSubmission  BY <1>1 DEF Numbers, Factor!OneSubmission
<1>5. Factor!RegisteredFirst
  BY <1>1, Zenon DEF Sent, Factor!RegisteredFirst, Factor!Secrets
<1>6. Factor!FreshCode  BY <1>1, Zenon DEF Counted, Current, Factor!FreshCode
<1>. QED  BY <1>2, <1>3, <1>4, <1>5, <1>6 DEF Factor!CodeSound

(* A code is submitted only where it is asked for, once, known to the      *)
(* redactor, and while it is valid, for every period, margin, delay and    *)
(* oversleep the assumption allows (authn.CompleteSecondFactor).           *)
THEOREM CodesAreSound == MCSpec => []CodeSound
<1>1. MCInit => FactorInv  BY FactorStarts, Zenon DEF MCInit
<1>2. FactorInv /\ [MCNext]_<<scene, vars, factorVars, selectionVars, planVars>> => FactorInv'
  <2>. SUFFICES ASSUME FactorInv, [MCNext]_<<scene, vars, factorVars, selectionVars, planVars>>
                PROVE  FactorInv'
    OBVIOUS
  <2>1. UNCHANGED factorVars => UNCHANGED Factor!vars
    BY Zenon DEF factorVars, Factor!vars, Factor!setting
  <2>2. Factor!Next \/ UNCHANGED factorVars  BY Zenon DEF MCNext
  <2>. QED  BY <2>1, <2>2, FactorKeeps, Zenon
<1>3. FactorInv => CodeSound  BY FactorIsSound, Zenon DEF CodeSound
<1>. QED  BY <1>1, <1>2, <1>3, PTL DEF MCSpec
=============================================================================
