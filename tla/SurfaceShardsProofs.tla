------------------------- MODULE SurfaceShardsProofs -------------------------
(***************************************************************************)
(* What holds of the Surface coordinator for every working tree, every set *)
(* of entities and any size and depth of the shards.                       *)
(***************************************************************************)
EXTENDS SurfaceShards, SequenceTheorems, FiniteSetTheorems, TLAPS

-----------------------------------------------------------------------------
(* Tasks lie end to end from one position of the listing to another. *)
Chain(s, from, to) ==
  /\ s = <<>> => from = to + 1
  /\ s # <<>> => s[1].lo = from /\ s[Len(s)].hi = to
  /\ \A i \in 1..(Len(s) - 1) : s[i + 1].lo = s[i].hi + 1
  /\ \A i \in 1..Len(s) : s[i].lo <= s[i].hi + 1

(* A task alone is a chain over its own interval. *)
LEMMA ChainOne ==
  ASSUME NEW t \in TaskRecords, t.lo <= t.hi + 1
  PROVE  Chain(<<t>>, t.lo, t.hi)
  BY DEF Chain, TaskRecords

(* Two tasks that meet are a chain. *)
LEMMA ChainTwo ==
  ASSUME NEW t \in TaskRecords, NEW u \in TaskRecords,
         t.lo <= t.hi + 1, u.lo <= u.hi + 1, u.lo = t.hi + 1
  PROVE  Chain(<<t, u>>, t.lo, u.hi)
<1>1. t.lo \in Nat /\ t.hi \in Nat /\ u.lo \in Nat /\ u.hi \in Nat
  BY DEF TaskRecords
<1> DEFINE s == <<t, u>>
<1>2. Len(s) = 2 /\ s # <<>> /\ s[1] = t /\ s[2] = u /\ s[Len(s)] = u
  OBVIOUS
<1> HIDE DEF s
<1>3. \A i \in 1..(Len(s) - 1) : i = 1 /\ i + 1 = 2
  BY <1>2
<1>4. \A i \in 1..Len(s) : i = 1 \/ i = 2
  BY <1>2
<1>5. Chain(s, t.lo, u.hi)
  BY <1>2, <1>3, <1>4, Zenon DEF Chain
<1> QED
  BY <1>5 DEF s

(* Chains that meet are one chain. *)
LEMMA ChainConcat ==
  ASSUME NEW a \in Seq(TaskRecords), NEW b \in Seq(TaskRecords),
         NEW from \in Int, NEW mid \in Int, NEW to \in Int,
         Chain(a, from, mid), Chain(b, mid + 1, to)
  PROVE  Chain(a \o b, from, to)
<1> DEFINE s == a \o b
<1>1. /\ s \in Seq(TaskRecords) /\ Len(s) = Len(a) + Len(b)
      /\ \A i \in 1..(Len(a) + Len(b)) : s[i] = IF i <= Len(a) THEN a[i] ELSE b[i - Len(a)]
  BY ConcatProperties
<1>2. Len(a) \in Nat /\ Len(b) \in Nat
  OBVIOUS
<1>3. CASE a = <<>>
  <2>1. s = b /\ from = mid + 1
    BY <1>3 DEF Chain
  <2> QED
    BY <2>1
<1>4. CASE b = <<>>
  <2>1. s = a /\ mid = to
    BY <1>4 DEF Chain
  <2> QED
    BY <2>1
<1>5. CASE a # <<>> /\ b # <<>>
  <2> HIDE DEF s
  <2>1. Len(a) > 0 /\ Len(b) > 0 /\ s # <<>>
    BY <1>1, <1>2, <1>5
  <2>2. \A i \in 1..Len(a) : s[i] = a[i]
    BY <1>1, <1>2
  <2>3. \A i \in 1..Len(b) : s[Len(a) + i] = b[i]
    <3> TAKE i \in 1..Len(b)
    <3>1. /\ Len(a) + i \in 1..(Len(a) + Len(b))
          /\ ~ (Len(a) + i <= Len(a)) /\ (Len(a) + i) - Len(a) = i
      BY <1>2
    <3> QED
      BY <1>1, <3>1
  <2>4. s[1].lo = from /\ s[Len(s)].hi = to
    <3>1. s[1] = a[1] /\ s[Len(s)] = b[Len(b)]
      BY <1>1, <1>2, <2>1, <2>2, <2>3
    <3> QED
      BY <1>5, <3>1 DEF Chain
  <2>5. ASSUME NEW i \in 1..(Len(s) - 1)
        PROVE  s[i + 1].lo = s[i].hi + 1
    <3>1. CASE i < Len(a)
      <4>1. i \in 1..(Len(a) - 1) /\ s[i] = a[i] /\ s[i + 1] = a[i + 1]
        BY <1>1, <1>2, <2>2, <3>1
      <4> QED
        BY <4>1 DEF Chain
    <3>2. CASE i = Len(a)
      <4>1. s[i] = a[Len(a)] /\ s[i + 1] = b[1]
        BY <1>2, <2>1, <2>2, <2>3, <3>2
      <4> QED
        BY <1>5, <4>1 DEF Chain
    <3>3. CASE i > Len(a)
      <4>1. i - Len(a) \in 1..(Len(b) - 1) /\ (i - Len(a)) + 1 \in 1..Len(b)
        BY <1>1, <1>2, <3>3
      <4>2. Len(a) + (i - Len(a)) = i /\ Len(a) + ((i - Len(a)) + 1) = i + 1
        BY <1>2
      <4>3. s[i] = b[i - Len(a)] /\ s[i + 1] = b[(i - Len(a)) + 1]
        BY <1>2, <2>3, <4>1, <4>2
      <4> QED
        BY <4>1, <4>3 DEF Chain
    <3> QED
      BY <1>1, <1>2, <3>1, <3>2, <3>3
  <2>6. ASSUME NEW i \in 1..Len(s)
        PROVE  s[i].lo <= s[i].hi + 1
    <3>1. CASE i <= Len(a)
      BY <1>2, <2>2, <3>1 DEF Chain
    <3>2. CASE i > Len(a)
      <4>1. i - Len(a) \in 1..Len(b) /\ s[i] = b[i - Len(a)]
        BY <1>1, <1>2, <3>2
      <4> QED
        BY <4>1 DEF Chain
    <3> QED
      BY <1>1, <1>2, <3>1, <3>2
  <2> QED
    BY <2>1, <2>4, <2>5, <2>6, SMTT(60) DEF Chain
<1> QED
  BY <1>3, <1>4, <1>5

(* What is left of a chain without its first task is a chain. *)
LEMMA ChainHeadTail ==
  ASSUME NEW s \in Seq(TaskRecords), s # <<>>,
         NEW from \in Int, NEW to \in Int, Chain(s, from, to)
  PROVE  /\ Head(s) \in TaskRecords /\ Tail(s) \in Seq(TaskRecords)
         /\ Head(s).lo = from /\ from <= Head(s).hi + 1
         /\ Chain(Tail(s), Head(s).hi + 1, to)
<1> DEFINE t == Tail(s)
<1>1. /\ t \in Seq(TaskRecords) /\ Len(t) = Len(s) - 1 /\ Len(s) \in Nat
      /\ \A i \in 1..Len(t) : t[i] = s[i + 1]
  BY HeadTailProperties
<1>2. Head(s) = s[1] /\ s[1] \in TaskRecords /\ Len(s) > 0
  OBVIOUS
<1>3. s[1].lo = from /\ from <= s[1].hi + 1
  BY <1>2 DEF Chain
<1> HIDE DEF t
<1>4. CASE t = <<>>
  <2>1. Len(s) = 1
    BY <1>1, <1>2, <1>4
  <2> QED
    <3>1. s[1].hi = to /\ Len(t) = 0
      BY <1>1, <2>1 DEF Chain
    <3>2. Chain(t, s[1].hi + 1, to)
      BY <1>4, <3>1 DEF Chain
    <3> QED
      BY <1>1, <1>2, <1>3, <3>2 DEF t
<1>5. CASE t # <<>>
  <2>1. Len(t) > 0 /\ t[1] = s[2] /\ t[Len(t)] = s[Len(s)]
    BY <1>1, <1>5
  <2>2. t[1].lo = s[1].hi + 1 /\ t[Len(t)].hi = to
    BY <1>1, <2>1 DEF Chain
  <2>3. \A i \in 1..(Len(t) - 1) : t[i + 1].lo = t[i].hi + 1
    <3> TAKE i \in 1..(Len(t) - 1)
    <3>1. t[i] = s[i + 1] /\ t[i + 1] = s[(i + 1) + 1] /\ i + 1 \in 1..(Len(s) - 1)
      BY <1>1
    <3> QED
      BY <3>1 DEF Chain
  <2>4. \A i \in 1..Len(t) : t[i].lo <= t[i].hi + 1
    <3> TAKE i \in 1..Len(t)
    <3>1. t[i] = s[i + 1] /\ i + 1 \in 1..Len(s)
      BY <1>1
    <3> QED
      BY <3>1 DEF Chain
  <2>5. Chain(t, s[1].hi + 1, to)
    BY <1>5, <2>2, <2>3, <2>4 DEF Chain
  <2> QED
    BY <1>1, <1>2, <1>3, <2>5 DEF t
<1> QED
  BY <1>4, <1>5

-----------------------------------------------------------------------------
(* The categories are five, and each is at its own place of the order. *)
LEMMA CategoriesType ==
  /\ Categories = {Web, API, CLI, Background, Integrations}
  /\ Web # API /\ Web # Background /\ API # Background
  /\ \A k \in 1..5 : /\ categoryOrder[k] \in Categories
                     /\ categoryOrder[k] = Web <=> k = 1
                     /\ categoryOrder[k] = API <=> k = 2
  /\ Len(categoryOrder) = 5
<1>1. /\ categoryOrder[1] = Web /\ categoryOrder[2] = API /\ categoryOrder[3] = CLI
      /\ categoryOrder[4] = Background /\ categoryOrder[5] = Integrations
      /\ DOMAIN categoryOrder = 1..5 /\ Len(categoryOrder) = 5
  BY DEF categoryOrder
<1>2. Categories = {Web, API, CLI, Background, Integrations}
  BY <1>1 DEF Categories, Range
<1>3. \A i, j \in 1..5 : categoryOrder[i] = categoryOrder[j] => i = j
  BY <1>1, SurfaceAssumption DEF Distinct
<1> HIDE DEF categoryOrder
<1>4. Web # API /\ Web # Background /\ API # Background
  BY <1>1, <1>3
<1>5. \A k \in 1..5 : /\ categoryOrder[k] \in Categories
                      /\ categoryOrder[k] = Web <=> k = 1
                      /\ categoryOrder[k] = API <=> k = 2
  BY <1>1, <1>2, <1>3
<1> QED
  BY <1>1, <1>2, <1>4, <1>5

(* A working tree has distinct routes, all of them candidates. *)
LEMMA WorktreeType == \A w \in Worktrees : w \in Seq(Candidates) /\ Distinct(w)
<1> TAKE w \in Worktrees
<1>1. w \in Seq(Range(w)) /\ Range(w) \subseteq Candidates /\ Distinct(w)
  BY SurfaceAssumption DEF Candidates
<1> QED
  BY <1>1

(* A function on 1..n with values in S is a sequence over S. *)
LEMMA SequenceOf ==
  ASSUME NEW S, NEW n \in Nat, NEW f,
         f = [k \in 1..n |-> f[k]], \A k \in 1..n : f[k] \in S
  PROVE  f \in Seq(S) /\ Len(f) = n
  OBVIOUS

(* Dealing the entities to three groups lists each of them. *)
LEMMA ApiGroupType ==
  /\ Len(Targets) \in Nat
  /\ \A g \in 1..3 :
       /\ ApiGroupSize(g) \in Nat
       /\ g > Len(Targets) => ApiGroupSize(g) = 0
       /\ g <= Len(Targets) => ApiGroupSize(g) > 0
       /\ ApiGroup(g) \in Seq(Range(Targets)) /\ Len(ApiGroup(g)) = ApiGroupSize(g)
  /\ ApiGroupSize(1) + ApiGroupSize(2) + ApiGroupSize(3) = Len(Targets)
<1>1. Targets \in Seq(Range(Targets)) /\ Len(Targets) \in Nat
  BY SurfaceAssumption
<1>2. \A g \in 1..3 : /\ ApiGroupSize(g) \in Nat
                      /\ g > Len(Targets) => ApiGroupSize(g) = 0
                      /\ g <= Len(Targets) => ApiGroupSize(g) > 0
                      /\ 3 * ApiGroupSize(g) <= Len(Targets) + 3 - g
  BY <1>1 DEF ApiGroupSize
<1>3. ASSUME NEW g \in 1..3
      PROVE  ApiGroup(g) \in Seq(Range(Targets)) /\ Len(ApiGroup(g)) = ApiGroupSize(g)
  <2>1. \A k \in 1..ApiGroupSize(g) : g + 3 * (k - 1) \in 1..Len(Targets)
    <3> DEFINE m == ApiGroupSize(g)
               n == Len(Targets)
    <3>1. m \in Nat /\ n \in Nat /\ 3 * m <= n + 3 - g
      BY <1>1, <1>2
    <3> HIDE DEF m, n
    <3>2. \A k \in 1..m : g + 3 * (k - 1) \in 1..n
      BY <3>1, SMTT(30)
    <3> QED
      BY <3>2 DEF m, n
  <2>2. \A k \in 1..ApiGroupSize(g) : Targets[g + 3 * (k - 1)] \in Range(Targets)
    BY <1>1, <2>1
  <2>3. /\ ApiGroup(g) = [k \in 1..ApiGroupSize(g) |-> ApiGroup(g)[k]]
        /\ \A k \in 1..ApiGroupSize(g) : ApiGroup(g)[k] \in Range(Targets)
    BY <2>2 DEF ApiGroup
  <2> QED
    BY <1>2, <2>3, SequenceOf
<1>4. ApiGroupSize(1) + ApiGroupSize(2) + ApiGroupSize(3) = Len(Targets)
  BY <1>1 DEF ApiGroupSize
<1> QED
  BY <1>1, <1>2, <1>3, <1>4

(* The listing is the routes of the process and then the entities. *)
LEMMA ListingType ==
  ASSUME routes \in Seq(Candidates)
  PROVE  /\ listing \in Seq(Candidates) /\ Len(routes) \in Nat
         /\ Len(ApiCandidates) = IF API \in Applicable THEN Len(Targets) ELSE 0
         /\ Len(listing) = Len(routes) + Len(ApiCandidates)
         /\ Range(Targets) \subseteq Candidates
         /\ ApiCandidates \in Seq(Candidates)
<1> DEFINE a == ApiGroup(1)
           b == ApiGroup(2)
           c == ApiGroup(3)
<1>1. Range(Targets) \subseteq Candidates
  BY DEF Candidates
<1>2. /\ a \in Seq(Candidates) /\ Len(a) = ApiGroupSize(1)
      /\ b \in Seq(Candidates) /\ Len(b) = ApiGroupSize(2)
      /\ c \in Seq(Candidates) /\ Len(c) = ApiGroupSize(3)
  BY <1>1, ApiGroupType
<1> HIDE DEF a, b, c
<1>3. a \o b \in Seq(Candidates) /\ Len(a \o b) = Len(a) + Len(b)
  BY <1>2, ConcatProperties
<1>4. (a \o b) \o c \in Seq(Candidates) /\ Len((a \o b) \o c) = Len(a \o b) + Len(c)
  BY <1>2, <1>3, ConcatProperties
<1>5. /\ ApiCandidates \in Seq(Candidates)
      /\ Len(ApiCandidates) = IF API \in Applicable THEN Len(Targets) ELSE 0
  <2>1. CASE API \in Applicable
    <3>1. ApiCandidates = (a \o b) \o c
      BY <2>1 DEF ApiCandidates, a, b, c
    <3> QED
      BY <1>2, <1>3, <1>4, <2>1, <3>1, ApiGroupType
  <2>2. CASE API \notin Applicable
    BY <2>2 DEF ApiCandidates
  <2> QED
    BY <2>1, <2>2
<1>6. listing \in Seq(Candidates) /\ Len(listing) = Len(routes) + Len(ApiCandidates)
  BY <1>5, ConcatProperties DEF listing
<1> QED
  BY <1>1, <1>5, <1>6

-----------------------------------------------------------------------------
(* A task of this process: it lies in the part of the listing its category *)
(* takes up, and only tasks with candidates have a group in their          *)
(* identifier, which then tells how often they were split.                 *)
LawfulIn(t, web, all) ==
  /\ t \in TaskRecords /\ t.lo >= 1 /\ t.lo <= t.hi + 1 /\ t.hi <= all
  /\ t.lo <= t.hi =>
       /\ t.category \in {Web, API} /\ Len(t.id) >= 2
       /\ t.category = Web => t.hi <= web
       /\ t.category = API => t.lo > web
  /\ t.depth = IF Len(t.id) >= 2 THEN Len(t.id) - 2 ELSE 0
  /\ t.id # <<>>

Lawful(t) == LawfulIn(t, Len(routes), Len(listing))

AllLawful(s) == \A i \in 1..Len(s) : Lawful(s[i])

RoutesOK ==
  /\ routes = <<>> \/ routes \in Worktrees
  /\ Web \notin Applicable => routes = <<>>

(* The routes of a process are distinct candidates. *)
LEMMA RoutesType == RoutesOK => routes \in Seq(Candidates) /\ Distinct(routes)
<1>1. CASE routes = <<>>
  BY <1>1 DEF Distinct
<1>2. CASE routes \in Worktrees
  BY <1>2, WorktreeType
<1> QED
  BY <1>1, <1>2 DEF RoutesOK

(* The two halves of a lawful task are lawful and chain over its interval. *)
LEMMA SplitLawful ==
  ASSUME RoutesOK, NEW t, Lawful(t), t.depth < MaxShardDepth, Len(t.id) >= 2
  PROVE  /\ splitCategoryTaskSpec(t) \in Seq(TaskRecords)
         /\ AllLawful(splitCategoryTaskSpec(t))
         /\ Chain(splitCategoryTaskSpec(t), t.lo, t.hi)
<1> DEFINE l == Task(Append(t.id, 1), t.category, t.lo, Middle(t), t.shared, t.depth + 1)
           r == Task(Append(t.id, 2), t.category, Middle(t) + 1, t.hi, FALSE, t.depth + 1)
<1>1. /\ t.id \in Seq(Categories \cup Nat) /\ t.category \in Categories
      /\ t.lo \in Nat /\ t.hi \in Nat /\ t.shared \in BOOLEAN /\ t.depth \in 0..MaxShardDepth
      /\ t.lo >= 1 /\ t.lo <= t.hi + 1 /\ t.hi <= Len(listing) /\ MaxShardDepth \in Nat
      /\ Len(listing) \in Nat /\ Len(routes) \in Nat
  BY RoutesType, ListingType, SurfaceAssumption DEF Lawful, LawfulIn, TaskRecords
<1>2. Middle(t) \in Nat /\ t.lo <= Middle(t) + 1 /\ Middle(t) <= t.hi
  <2>1. Size(t) \in Nat /\ Size(t) = t.hi - t.lo + 1
    BY <1>1 DEF Size
  <2>2. PICK half \in 0..Size(t) : half = (Size(t) + 1) \div 2
    BY <2>1
  <2>3. Middle(t) = t.lo + half - 1
    BY <2>2 DEF Middle
  <2> QED
    BY <1>1, <2>1, <2>3, SMTT(60)
<1>3. \A n \in {1, 2} : /\ Append(t.id, n) \in Seq(Categories \cup Nat)
                        /\ Len(Append(t.id, n)) = Len(t.id) + 1
  BY <1>1
<1>4. l \in TaskRecords /\ r \in TaskRecords
  BY <1>1, <1>2, <1>3, SMTT(60) DEF Task, TaskRecords
<1>5. /\ l.lo = t.lo /\ l.hi = Middle(t) /\ r.lo = Middle(t) + 1 /\ r.hi = t.hi
      /\ l.category = t.category /\ r.category = t.category
      /\ l.depth = t.depth + 1 /\ r.depth = t.depth + 1
      /\ l.id = Append(t.id, 1) /\ r.id = Append(t.id, 2)
  BY DEF Task
<1>6. splitCategoryTaskSpec(t) = <<l, r>>
  BY DEF splitCategoryTaskSpec
<1> HIDE DEF l, r
<1>7. Lawful(l) /\ Lawful(r)
  <2>1. l.id # <<>> /\ r.id # <<>> /\ Len(l.id) = Len(t.id) + 1 /\ Len(r.id) = Len(t.id) + 1
    BY <1>1, <1>3, <1>5, SMTT(60)
  <2>2. /\ l.lo >= 1 /\ l.lo <= l.hi + 1 /\ l.hi <= Len(listing)
        /\ r.lo >= 1 /\ r.lo <= r.hi + 1 /\ r.hi <= Len(listing)
    <3>1. /\ t.lo >= 1 /\ t.lo <= Middle(t) + 1 /\ Middle(t) <= Len(listing)
          /\ Middle(t) + 1 >= 1 /\ Middle(t) + 1 <= t.hi + 1 /\ t.hi <= Len(listing)
      BY <1>1, <1>2, SMTT(60)
    <3> QED
      BY <1>5, <3>1, Zenon
  <2>3. t.depth = Len(t.id) - 2 /\ Len(t.id) \in Nat
    BY <1>1 DEF Lawful, LawfulIn
  <2>4. /\ l.depth = Len(l.id) - 2 /\ r.depth = Len(r.id) - 2
        /\ Len(l.id) >= 2 /\ Len(r.id) >= 2
    BY <1>1, <1>5, <2>1, <2>3
  <2>5. \A x \in {l, r} : x.lo <= x.hi =>
          /\ x.category \in {Web, API}
          /\ x.category = Web => x.hi <= Len(routes)
          /\ x.category = API => x.lo > Len(routes)
    BY <1>1, <1>2, <1>5, SMTT(60) DEF Lawful, LawfulIn
  <2> QED
    BY <1>4, <2>1, <2>2, <2>4, <2>5 DEF Lawful, LawfulIn
<1>8. Chain(<<l, r>>, t.lo, t.hi)
  <2>1. t.lo <= Middle(t) + 1 /\ Middle(t) + 1 <= t.hi + 1
    BY <1>1, <1>2, SMTT(60)
  <2>2. l.lo <= l.hi + 1 /\ r.lo <= r.hi + 1 /\ r.lo = l.hi + 1
    BY <1>5, <2>1, Zenon
  <2> QED
    BY <1>4, <1>5, <2>2, ChainTwo, Zenon
<1> QED
  BY <1>4, <1>6, <1>7, <1>8 DEF AllLawful

(* What a division rounded up means, and that multiples are ordered. *)
LEMMA GroupCount ==
  ASSUME NEW l \in Nat \ {0}, NEW w \in Nat \ {0}
  PROVE  /\ (l + w - 1) \div w \in Nat \ {0}
         /\ l <= ((l + w - 1) \div w) * w
         /\ (((l + w - 1) \div w) - 1) * w < l
<1> DEFINE n == (l + w - 1) \div w
<1>1. n \in Int /\ n * w <= l + w - 1 /\ l + w - 1 < n * w + w
  OBVIOUS
<1> HIDE DEF n
<1>2. (n - 1) * w = n * w - w
  BY <1>1
<1>3. n > 0
  <2> SUFFICES ASSUME n <= 0 PROVE FALSE
    BY <1>1
  <2>1. n * w <= 0
    BY <1>1
  <2> QED
    BY <1>1, <2>1
<1>4. n \in Nat \ {0} /\ l <= n * w /\ (n - 1) * w < l
  BY <1>1, <1>2, <1>3
<1> QED
  BY <1>4 DEF n

(* The multiples of a group size are ordered as their factors. *)
LEMMA MultiplesOrdered ==
  ASSUME NEW a \in Nat, NEW b \in Nat, NEW w \in Nat, a <= b
  PROVE  a * w <= b * w /\ a * w \in Nat /\ (a + 1) * w = a * w + w
<1>1. (b - a) * w >= 0 /\ (b - a) * w = b * w - a * w /\ a * w \in Nat /\ b * w \in Nat
  OBVIOUS
<1> QED
  BY <1>1

(* A pair is a sequence of two. *)
LEMMA PairLength == \A x, y : Len(<<x, y>>) = 2 /\ <<x, y>> # <<>>
  OBVIOUS

(* The groups of routes are lawful tasks that chain over all routes. *)
LEMMA WebSpecs ==
  ASSUME RoutesOK, routes # <<>>
  PROVE  /\ webTaskSpecs \in Seq(TaskRecords)
         /\ AllLawful(webTaskSpecs)
         /\ Chain(webTaskSpecs, 1, Len(routes))
<1> DEFINE l == Len(routes)
           w == WebRoutesPerGroup
           n == (l + w - 1) \div w
           spec(g) == Task(<<Web, g>>, Web, (g - 1) * w + 1, Least(g * w, l), FALSE, 0)
<1>1. l \in Nat \ {0} /\ w \in Nat \ {0} /\ MaxShardDepth \in Nat /\ Web \in Categories
  BY RoutesType, SurfaceAssumption, CategoriesType
<1>2. l <= Len(listing) /\ Len(listing) \in Nat
  BY RoutesType, ListingType, ApiGroupType, SMTT(60)
<1>3. webTaskSpecs = [g \in 1..n |-> spec(g)]
  BY DEF webTaskSpecs
<1> HIDE DEF l, w
<1>4. n \in Nat \ {0} /\ l <= n * w /\ (n - 1) * w < l
  BY <1>1, GroupCount
<1> HIDE DEF n
<1>5. ASSUME NEW g \in 1..n
      PROVE  /\ (g - 1) * w \in Nat /\ g * w = (g - 1) * w + w /\ (g - 1) * w < l
             /\ g < n => g * w < l
  <2>1. (g - 1) * w \in Nat /\ ((g - 1) + 1) * w = (g - 1) * w + w /\ (g - 1) * w <= (n - 1) * w
    BY <1>1, <1>4, g - 1 \in Nat, n - 1 \in Nat, g - 1 <= n - 1, MultiplesOrdered
  <2>2. g < n => g * w <= (n - 1) * w
    BY <1>1, <1>4, g \in Nat, n - 1 \in Nat, MultiplesOrdered
  <2>3. (g - 1) + 1 = g /\ (n - 1) * w \in Int /\ g * w \in Int
    BY <1>1, <1>4
  <2> QED
    BY <1>1, <1>4, <2>1, <2>2, <2>3
<1>6. ASSUME NEW g \in 1..n
      PROVE  /\ spec(g).lo = (g - 1) * w + 1 /\ spec(g).hi = Least(g * w, l)
             /\ spec(g).id = <<Web, g>> /\ spec(g).category = Web /\ spec(g).depth = 0
             /\ spec(g).lo \in Nat /\ spec(g).hi \in Nat
             /\ 1 <= spec(g).lo /\ spec(g).lo <= spec(g).hi /\ spec(g).hi <= l
             /\ g < n => spec(g).hi = g * w
             /\ g = n => spec(g).hi = l
             /\ spec(g) \in TaskRecords
  <2>1. /\ spec(g).lo = (g - 1) * w + 1 /\ spec(g).hi = Least(g * w, l)
        /\ spec(g).id = <<Web, g>> /\ spec(g).category = Web /\ spec(g).depth = 0
        /\ spec(g).shared = FALSE
    BY DEF Task
  <2>2. <<Web, g>> \in Seq(Categories \cup Nat)
    BY <1>1, <1>4
  <2>3. /\ (g - 1) * w + 1 \in Nat /\ 1 <= (g - 1) * w + 1
        /\ (g - 1) * w + 1 <= Least(g * w, l)
        /\ Least(g * w, l) <= l /\ Least(g * w, l) \in Nat
        /\ g < n => Least(g * w, l) = g * w
        /\ g = n => Least(g * w, l) = l
    BY <1>1, <1>4, <1>5 DEF Least
  <2>4. spec(g) \in TaskRecords
    BY <1>1, <2>2, <2>3 DEF Task, TaskRecords
  <2> QED
    BY <2>1, <2>3, <2>4
<1> HIDE DEF spec
<1>7. webTaskSpecs \in Seq(TaskRecords) /\ Len(webTaskSpecs) = n
  BY <1>3, <1>4, <1>6, SMTT(60)
<1>8. \A g \in 1..n : Lawful(spec(g))
  <2> TAKE g \in 1..n
  <2>1. Len(spec(g).id) = 2 /\ spec(g).id # <<>>
    BY <1>6, PairLength
  <2> QED
    BY <1>1, <1>2, <1>6, <2>1, CategoriesType, SMTT(60) DEF Lawful, LawfulIn, l
<1>9. Chain(webTaskSpecs, 1, l)
  <2>1. webTaskSpecs # <<>> /\ webTaskSpecs[1] = spec(1) /\ webTaskSpecs[n] = spec(n)
    BY <1>3, <1>4, <1>7
  <2>2. spec(1).lo = 1 /\ spec(n).hi = l
    BY <1>1, <1>4, <1>6
  <2>3. \A i \in 1..(n - 1) : spec(i + 1).lo = spec(i).hi + 1
    <3> TAKE i \in 1..(n - 1)
    <3>1. i \in 1..n /\ i + 1 \in 1..n /\ i < n /\ (i + 1) - 1 = i
      BY <1>4
    <3> QED
      BY <1>6, <3>1
  <2>4. \A i \in 1..n : spec(i).lo <= spec(i).hi + 1
    BY <1>6
  <2>5. \A i \in 1..n : webTaskSpecs[i] = spec(i)
    BY <1>3
  <2>6. \A i \in 1..(n - 1) : webTaskSpecs[i + 1].lo = webTaskSpecs[i].hi + 1
    BY <1>4, <2>3, <2>5
  <2> QED
    BY <1>7, <2>1, <2>2, <2>4, <2>5, <2>6 DEF Chain
<1> QED
  BY <1>3, <1>7, <1>8, <1>9 DEF AllLawful, l

(* The groups of entities are lawful tasks that chain over all entities. *)
LEMMA ApiSpecs ==
  ASSUME RoutesOK, API \in Applicable, Targets # <<>>
  PROVE  /\ apiTaskSpecs \in Seq(TaskRecords)
         /\ AllLawful(apiTaskSpecs)
         /\ Chain(apiTaskSpecs, Len(routes) + 1, Len(listing))
<1> DEFINE l == Len(routes)
           n == Least(3, Len(Targets))
           spec(g) == Task(<<API, g>>, API, ApiStart(g) + 1, ApiStart(g) + ApiGroupSize(g),
                           g = 1, 0)
<1>1. l \in Nat /\ MaxShardDepth \in Nat /\ API \in Categories /\ Len(Targets) \in Nat \ {0}
  BY RoutesType, SurfaceAssumption, CategoriesType
<1>2. Len(listing) = l + Len(Targets)
  BY RoutesType, ListingType
<1>3. apiTaskSpecs = [g \in 1..n |-> spec(g)]
  BY DEF apiTaskSpecs
<1>4. /\ n \in 1..3 /\ n <= Len(Targets)
      /\ n = 1 => Len(Targets) = 1
      /\ n = 2 => Len(Targets) = 2
  <2>1. CASE 3 < Len(Targets)
    <3>1. n = 3
      BY <2>1 DEF Least
    <3> QED
      BY <1>1, <2>1, <3>1
  <2>2. CASE ~ (3 < Len(Targets))
    <3>1. n = Len(Targets)
      BY <2>2 DEF Least
    <3> QED
      BY <1>1, <2>2, <3>1
  <2> QED
    BY <2>1, <2>2
<1>5. /\ \A g \in 1..3 : /\ ApiGroupSize(g) \in Nat
                         /\ g > Len(Targets) => ApiGroupSize(g) = 0
                         /\ g <= Len(Targets) => ApiGroupSize(g) > 0
      /\ ApiGroupSize(1) + ApiGroupSize(2) + ApiGroupSize(3) = Len(Targets)
  BY ApiGroupType
<1>6. /\ ApiStart(1) = l /\ ApiStart(2) = l + ApiGroupSize(1)
      /\ ApiStart(3) = l + ApiGroupSize(1) + ApiGroupSize(2)
  BY <1>1, <1>5 DEF ApiStart, l
<1> HIDE DEF l, n
<1>7. ASSUME NEW g \in 1..n
      PROVE  /\ ApiStart(g) \in Nat /\ l <= ApiStart(g)
             /\ ApiGroupSize(g) \in Nat \ {0}
             /\ ApiStart(g) + ApiGroupSize(g) <= Len(listing)
             /\ g < n => ApiStart(g + 1) = ApiStart(g) + ApiGroupSize(g)
             /\ g = n => ApiStart(g) + ApiGroupSize(g) = Len(listing)
  <2>1. g = 1 \/ g = 2 \/ g = 3
    BY <1>4
  <2>2. \A k \in 1..3 : ApiGroupSize(k) \in Nat
    BY <1>5
  <2>3. ApiGroupSize(1) \in Nat /\ ApiGroupSize(2) \in Nat /\ ApiGroupSize(3) \in Nat
    BY <2>2
  <2>4. ApiGroupSize(g) \in Nat \ {0}
    BY <1>1, <1>4, <1>5
  <2>5. /\ Len(Targets) = 1 => ApiGroupSize(2) = 0 /\ ApiGroupSize(3) = 0
        /\ Len(Targets) = 2 => ApiGroupSize(3) = 0
    BY <1>5
  <2>6. CASE g = 1
    BY <1>1, <1>2, <1>4, <1>5, <1>6, <2>3, <2>4, <2>5, <2>6, SMTT(60)
  <2>7. CASE g = 2
    BY <1>1, <1>2, <1>4, <1>5, <1>6, <2>3, <2>4, <2>5, <2>7, SMTT(60)
  <2>8. CASE g = 3
    <3>1. n = 3 /\ ~ (g < n)
      BY <1>4, <2>8
    <3> QED
      BY <1>1, <1>2, <1>4, <1>5, <1>6, <2>3, <2>4, <2>8, <3>1, SMTT(60)
  <2> QED
    BY <2>1, <2>6, <2>7, <2>8
<1>8. ASSUME NEW g \in 1..n
      PROVE  /\ spec(g).lo = ApiStart(g) + 1 /\ spec(g).hi = ApiStart(g) + ApiGroupSize(g)
             /\ spec(g).id = <<API, g>> /\ spec(g).category = API /\ spec(g).depth = 0
             /\ spec(g) \in TaskRecords
  <2>1. /\ spec(g).lo = ApiStart(g) + 1 /\ spec(g).hi = ApiStart(g) + ApiGroupSize(g)
        /\ spec(g).id = <<API, g>> /\ spec(g).category = API /\ spec(g).depth = 0
    BY DEF Task
  <2>2. <<API, g>> \in Seq(Categories \cup Nat)
    BY <1>1, <1>4
  <2>3. spec(g) \in TaskRecords
    BY <1>1, <1>7, <2>2 DEF Task, TaskRecords
  <2> QED
    BY <2>1, <2>3
<1> HIDE DEF spec
<1>9. apiTaskSpecs \in Seq(TaskRecords) /\ Len(apiTaskSpecs) = n
  BY <1>3, <1>4, <1>8
<1>10. \A g \in 1..n : Lawful(spec(g))
  <2> TAKE g \in 1..n
  <2>1. Len(spec(g).id) = 2 /\ spec(g).id # <<>>
    BY <1>8, PairLength
  <2>2. /\ spec(g).lo >= 1 /\ spec(g).lo <= spec(g).hi + 1 /\ spec(g).hi <= Len(listing)
        /\ spec(g).lo > l
    BY <1>1, <1>7, <1>8
  <2> QED
    BY <1>8, <2>1, <2>2, CategoriesType DEF Lawful, LawfulIn, l
<1>11. Chain(apiTaskSpecs, l + 1, Len(listing))
  <2>1. apiTaskSpecs # <<>> /\ apiTaskSpecs[1] = spec(1) /\ apiTaskSpecs[n] = spec(n)
    BY <1>3, <1>4, <1>9
  <2>2. spec(1).lo = l + 1 /\ spec(n).hi = Len(listing)
    <3>1. 1 \in 1..n /\ n \in 1..n
      BY <1>4
    <3>2. spec(1).lo = ApiStart(1) + 1 /\ spec(n).hi = ApiStart(n) + ApiGroupSize(n)
      BY <1>8, <3>1
    <3> QED
      BY <1>6, <1>7, <3>1, <3>2
  <2>3. \A i \in 1..(n - 1) : spec(i + 1).lo = spec(i).hi + 1
    <3> TAKE i \in 1..(n - 1)
    <3>1. i \in 1..n /\ i + 1 \in 1..n /\ i < n
      BY <1>4
    <3> QED
      BY <1>7, <1>8, <3>1
  <2>4. \A i \in 1..n : spec(i).lo <= spec(i).hi + 1
    BY <1>7, <1>8
  <2> QED
    BY <1>3, <1>4, <1>9, <2>1, <2>2, <2>3, <2>4 DEF Chain
<1> QED
  BY <1>3, <1>9, <1>10, <1>11 DEF AllLawful, l

(* The tasks of a category are a chain over its part of the listing. *)
EndBefore(k) == IF k = 0 THEN 0 ELSE End(categoryOrder[k])

(* The tasks of a category chain over its part of the listing. *)
LEMMA CategorySpecs ==
  ASSUME RoutesOK, NEW k \in 0..4,
         NEW specs, specs = IF Due(categoryOrder[k + 1])
                            THEN categoryTaskSpecs(categoryOrder[k + 1]) ELSE <<>>
  PROVE  /\ specs \in Seq(TaskRecords)
         /\ AllLawful(specs)
         /\ Chain(specs, EndBefore(k) + 1, EndBefore(k + 1))
         /\ EndBefore(k) \in Nat /\ EndBefore(k + 1) \in Nat
<1> DEFINE c == categoryOrder[k + 1]
<1>1. /\ Len(routes) \in Nat /\ Len(listing) \in Nat /\ Len(routes) <= Len(listing)
      /\ API \notin Applicable => Len(listing) = Len(routes)
      /\ Targets = <<>> => Len(listing) = Len(routes)
  <2>1. /\ Len(routes) \in Nat /\ Len(ApiCandidates) = (IF API \in Applicable THEN Len(Targets) ELSE 0)
        /\ Len(listing) = Len(routes) + Len(ApiCandidates)
    BY RoutesType, ListingType, Zenon
  <2>2. Len(Targets) \in Nat
    BY ApiGroupType, Zenon
  <2>3. Targets = <<>> => Len(Targets) = 0
    OBVIOUS
  <2> QED
    BY <2>1, <2>2, <2>3
<1>2. c \in Categories /\ (c = Web <=> k = 0) /\ (c = API <=> k = 1) /\ k + 1 \in 1..5
  BY CategoriesType
<1>3. k # 0 => (categoryOrder[k] = Web <=> k = 1)
  BY CategoriesType
<1>4. /\ EndBefore(k + 1) = IF k = 0 THEN Len(routes) ELSE Len(listing)
      /\ EndBefore(k) = IF k = 0 THEN 0 ELSE IF k = 1 THEN Len(routes) ELSE Len(listing)
  BY <1>2, <1>3 DEF EndBefore, End
<1>5. EndBefore(k) \in Nat /\ EndBefore(k + 1) \in Nat
  BY <1>1, <1>4
<1>6. /\ (c = Web /\ ~ Due(c)) => Web \notin Applicable
      /\ (c = API /\ ~ Due(c)) => API \notin Applicable
      /\ (c = API /\ Due(c)) => API \in Applicable
  BY CategoriesType DEF Due
<1> HIDE DEF c
<1>7. CASE ~ Due(c)
  <2>1. specs = <<>>
    BY <1>7 DEF c
  <2>2. EndBefore(k) = EndBefore(k + 1)
    <3>1. CASE k = 0
      <4>1. routes = <<>> /\ Len(<<>>) = 0
        BY <1>2, <1>6, <1>7, <3>1 DEF RoutesOK
      <4> QED
        BY <1>4, <3>1, <4>1
    <3>2. CASE k = 1
      BY <1>1, <1>2, <1>4, <1>6, <1>7, <3>2
    <3>3. CASE k # 0 /\ k # 1
      BY <1>4, <3>3
    <3> QED
      BY <3>1, <3>2, <3>3
  <2>3. Chain(<<>>, EndBefore(k) + 1, EndBefore(k + 1))
    BY <1>5, <2>2 DEF Chain
  <2> QED
    <3>1. <<>> \in Seq(TaskRecords) /\ \A i \in 1..Len(<<>>) : FALSE
      OBVIOUS
    <3>2. specs \in Seq(TaskRecords) /\ \A i \in 1..Len(specs) : Lawful(specs[i])
      BY <2>1, <3>1
    <3> QED
      BY <1>5, <2>1, <2>3, <3>2 DEF AllLawful
<1>8. CASE Due(c) /\ c = Web /\ routes # <<>>
  <2>1. specs = webTaskSpecs
    BY <1>8 DEF c, categoryTaskSpecs
  <2>2. EndBefore(k) = 0 /\ EndBefore(k + 1) = Len(routes)
    BY <1>2, <1>4, <1>8
  <2> QED
    BY <1>5, <1>8, <2>1, <2>2, WebSpecs
<1>9. CASE Due(c) /\ c = API /\ Targets # <<>>
  <2>1. specs = apiTaskSpecs
    BY <1>9, CategoriesType DEF c, categoryTaskSpecs
  <2>2. EndBefore(k) = Len(routes) /\ EndBefore(k + 1) = Len(listing)
    BY <1>2, <1>4, <1>9
  <2> QED
    BY <1>5, <1>6, <1>9, <2>1, <2>2, ApiSpecs
<1>10. CASE Due(c) /\ ~ (c = Web /\ routes # <<>>) /\ ~ (c = API /\ Targets # <<>>)
  <2> DEFINE t == Task(<<c>>, c, End(c) + 1, End(c), c = API, 0)
  <2>1. specs = <<t>>
    BY <1>10 DEF c, categoryTaskSpecs
  <2>2. EndBefore(k) = End(c) /\ EndBefore(k + 1) = End(c)
    <3>1. EndBefore(k + 1) = End(c)
      BY <1>2, <1>4 DEF End
    <3>2. CASE k = 0
      <4>1. routes = <<>> /\ Len(<<>>) = 0
        BY <1>2, <1>10, <3>2
      <4> QED
        BY <1>4, <3>1, <3>2, <4>1
    <3>3. CASE k # 0
      BY <1>1, <1>2, <1>4, <1>10, <3>1, <3>3
    <3> QED
      BY <3>1, <3>2, <3>3
  <2>3. End(c) \in Nat /\ End(c) <= Len(listing)
    BY <1>1 DEF End
  <2>4. /\ t.lo = End(c) + 1 /\ t.hi = End(c) /\ t.id = <<c>> /\ t.depth = 0
        /\ t \in TaskRecords
    <3>1. <<c>> \in Seq(Categories \cup Nat) /\ MaxShardDepth \in Nat
      BY <1>2, SurfaceAssumption
    <3>2. t \in TaskRecords
      BY <1>2, <2>3, <3>1 DEF Task, TaskRecords
    <3> QED
      BY <3>2 DEF Task
  <2> HIDE DEF t
  <2>5. Lawful(t)
    <3>1. Len(t.id) = 1 /\ t.id # <<>>
      BY <2>4
    <3> QED
      BY <1>1, <2>3, <2>4, <3>1 DEF Lawful, LawfulIn
  <2>6. Chain(<<t>>, End(c) + 1, End(c))
    BY <2>3, <2>4, ChainOne
  <2> QED
    <3>1. <<t>> \in Seq(TaskRecords) /\ Len(<<t>>) = 1 /\ <<t>>[1] = t
      BY <2>4
    <3>2. \A i \in 1..Len(<<t>>) : Lawful(<<t>>[i])
      BY <2>5, <3>1
    <3> QED
      BY <1>5, <2>1, <2>2, <2>6, <3>1, <3>2 DEF AllLawful
<1> QED
  BY <1>7, <1>8, <1>9, <1>10

-----------------------------------------------------------------------------
(* What a process is at: it has tasks to do while it executes one, and     *)
(* nothing before its first category.                                      *)
Process ==
  /\ worktree \in Worktrees /\ RoutesOK
  /\ pc \in {"idle", "work", "execute", "asking", "answered", "done"}
  /\ resume \in BOOLEAN /\ started \in BOOLEAN
  /\ failures \in 0..MaxFailures /\ edits \in 0..MaxEdits
  /\ turn \in 0..5
  /\ turn = 0 => pending = <<>> /\ leaves = <<>>
  /\ pc \in {"execute", "asking", "answered"} => pending # <<>>
  /\ pc = "idle" => turn = 0
  /\ pc = "done" => pending = <<>> /\ turn = 5

(* The tasks done and the tasks to do: two chains that meet. *)
DoneTasks == [i \in DOMAIN leaves |-> leaves[i].task]
DoneUpTo  == IF leaves = <<>> THEN 0 ELSE leaves[Len(leaves)].task.hi

LeafRecords == [task : TaskRecords, answer : Answers, askedFor : Seq(Candidates)]

Coverage ==
  /\ pending \in Seq(TaskRecords) /\ AllLawful(pending)
  /\ leaves \in Seq(LeafRecords) /\ AllLawful(DoneTasks)
  /\ Chain(DoneTasks, 1, DoneUpTo)
  /\ Chain(pending, DoneUpTo + 1, EndBefore(turn))
  /\ LeavesCurrent

(* The run directory: only a task that could be split is recorded split,   *)
(* and a checkpoint is on disk before the manifest speaks of it.           *)
StateType ==
  \A i \in DOMAIN states :
    /\ states[i] \in [status : {"running", "failed", "split", "completed"},
                      candidates : SUBSET Candidates]
    /\ states[i].status = "split" =>
         Len(i) \in Nat /\ Len(i) >= 2 /\ Len(i) - 2 < MaxShardDepth

CheckpointType ==
  \A i \in DOMAIN checkpoints :
    checkpoints[i] \in [candidates : Seq(Candidates), answer : Answers]

Files ==
  /\ StateType /\ CheckpointType /\ CompletedHasCheckpoint
  /\ pc \in {"asking", "answered"} => HasState("running")
  /\ pc = "answered" => /\ id \in DOMAIN checkpoints
                        /\ checkpoints[id].candidates = candidates(current)

IInv == Process /\ Coverage /\ Files

(* Lawful tasks after lawful tasks are lawful tasks. *)
LEMMA AllLawfulConcat ==
  ASSUME NEW a \in Seq(TaskRecords), NEW b \in Seq(TaskRecords), AllLawful(a), AllLawful(b)
  PROVE  AllLawful(a \o b) /\ a \o b \in Seq(TaskRecords)
<1> DEFINE s == a \o b
<1>1. /\ s \in Seq(TaskRecords) /\ Len(s) = Len(a) + Len(b)
      /\ \A i \in 1..(Len(a) + Len(b)) : s[i] = IF i <= Len(a) THEN a[i] ELSE b[i - Len(a)]
  BY ConcatProperties
<1>2. Len(a) \in Nat /\ Len(b) \in Nat
  OBVIOUS
<1> HIDE DEF s
<1>3. ASSUME NEW i \in 1..Len(s) PROVE Lawful(s[i])
  <2>1. CASE i <= Len(a)
    BY <1>1, <1>2, <2>1 DEF AllLawful
  <2>2. CASE i > Len(a)
    <3>1. i - Len(a) \in 1..Len(b) /\ s[i] = b[i - Len(a)]
      BY <1>1, <1>2, <2>2
    <3> QED
      BY <3>1 DEF AllLawful
  <2> QED
    BY <1>1, <1>2, <2>1, <2>2
<1> QED
  BY <1>1, <1>3 DEF AllLawful, s

(* Of lawful tasks, the first is lawful and so are the others. *)
LEMMA AllLawfulHeadTail ==
  ASSUME NEW s \in Seq(TaskRecords), s # <<>>, AllLawful(s)
  PROVE  Lawful(Head(s)) /\ AllLawful(Tail(s)) /\ Tail(s) \in Seq(TaskRecords)
<1>1. /\ Tail(s) \in Seq(TaskRecords) /\ Len(Tail(s)) = Len(s) - 1 /\ Len(s) \in Nat
      /\ \A i \in 1..Len(Tail(s)) : Tail(s)[i] = s[i + 1]
  BY HeadTailProperties
<1>2. Head(s) = s[1] /\ 1 \in 1..Len(s)
  OBVIOUS
<1>3. \A i \in 1..Len(Tail(s)) : Lawful(Tail(s)[i])
  <2> TAKE i \in 1..Len(Tail(s))
  <2>1. i + 1 \in 1..Len(s) /\ Tail(s)[i] = s[i + 1]
    BY <1>1
  <2> QED
    BY <2>1 DEF AllLawful
<1> QED
  BY <1>1, <1>2, <1>3 DEF AllLawful

(* The candidates of a task within the listing are a sequence of candidates. *)
LEMMA CandidatesType ==
  ASSUME RoutesOK, NEW t, Lawful(t)
  PROVE  candidates(t) \in Seq(Candidates) /\ Range(candidates(t)) \subseteq Candidates
<1>1. listing \in Seq(Candidates)
  BY RoutesType, ListingType
<1>2. t.lo \in Nat /\ t.hi \in Nat /\ t.lo >= 1 /\ t.hi <= Len(listing)
  BY DEF Lawful, LawfulIn, TaskRecords
<1>3. \A i \in t.lo..t.hi : listing[i] \in Candidates
  BY <1>1, <1>2
<1>4. candidates(t) \in Seq(Candidates)
  BY <1>2, <1>3, SubSeqProperties DEF candidates
<1> QED
  BY <1>4 DEF Range

(* The first task to do, and what the parts of the invariant say of it. *)
LEMMA CurrentTask ==
  ASSUME IInv, pending # <<>>
  PROVE  /\ Lawful(current) /\ current \in TaskRecords
         /\ current.lo = DoneUpTo + 1 /\ DoneUpTo \in Nat
         /\ Tail(pending) \in Seq(TaskRecords) /\ AllLawful(Tail(pending))
         /\ Chain(Tail(pending), current.hi + 1, EndBefore(turn))
         /\ EndBefore(turn) \in Nat
         /\ candidates(current) \in Seq(Candidates)
         /\ Range(candidates(current)) \subseteq Candidates
<1>1. /\ pending \in Seq(TaskRecords) /\ AllLawful(pending) /\ RoutesOK /\ turn \in 0..5
      /\ Chain(pending, DoneUpTo + 1, EndBefore(turn)) /\ leaves \in Seq(LeafRecords)
  BY DEF IInv, Process, Coverage
<1>2. DoneUpTo \in Nat
  <2>1. CASE leaves = <<>>
    BY <2>1 DEF DoneUpTo
  <2>2. CASE leaves # <<>>
    <3>1. leaves[Len(leaves)] \in LeafRecords
      BY <1>1, <2>2
    <3> QED
      BY <2>2, <3>1 DEF DoneUpTo, LeafRecords, TaskRecords
  <2> QED
    BY <2>1, <2>2
<1>3. EndBefore(turn) \in Nat
  <2>1. Len(routes) \in Nat /\ Len(listing) \in Nat
    BY <1>1, RoutesType, ListingType, ApiGroupType
  <2> QED
    BY <2>1 DEF EndBefore, End
<1>4. /\ Head(pending) \in TaskRecords /\ Head(pending).lo = DoneUpTo + 1
      /\ Chain(Tail(pending), Head(pending).hi + 1, EndBefore(turn))
  BY <1>1, <1>2, <1>3, ChainHeadTail
<1>5. Lawful(Head(pending)) /\ AllLawful(Tail(pending)) /\ Tail(pending) \in Seq(TaskRecords)
  BY <1>1, AllLawfulHeadTail
<1> QED
  BY <1>1, <1>2, <1>3, <1>4, <1>5, CandidatesType DEF current

(* The five things a step may do with the tasks of a process. *)
KeepTasks == UNCHANGED <<routes, turn, pending, leaves>>

DropTasks ==
  /\ turn' = 0 /\ pending' = <<>> /\ leaves' = <<>>
  /\ routes' = <<>> \/ (routes' \in Worktrees /\ Web \in Applicable)

AddCategory ==
  /\ pending = <<>> /\ turn < 5 /\ turn' = turn + 1
  /\ pending' = IF Due(categoryOrder[turn + 1])
                THEN categoryTaskSpecs(categoryOrder[turn + 1]) ELSE <<>>
  /\ UNCHANGED <<routes, leaves>>

SplitCurrent ==
  /\ pending # <<>> /\ current.depth < MaxShardDepth /\ Len(current.id) >= 2
  /\ pending' = splitCategoryTaskSpec(current) \o Tail(pending)
  /\ UNCHANGED <<routes, turn, leaves>>

AddLeaf(answer) ==
  /\ pending # <<>> /\ pending' = Tail(pending)
  /\ leaves' = Append(leaves, Leaf(answer, candidates(current)))
  /\ UNCHANGED <<routes, turn>>

(* Which of the ways to change the tasks an action that changes them takes. *)
LEMMA StepKinds ==
  ASSUME IInv
  PROVE  /\ BeginCategory => AddCategory
         /\ FollowSplit \/ SplitTask => SplitCurrent
         /\ ReuseCheckpoint \/ CompleteTask => \E a \in Answers : AddLeaf(a)
<1>1. Process /\ Files
  BY DEF IInv
<1>3. ASSUME BeginCategory PROVE AddCategory
  <2>1. Len(categoryOrder) = 5
    BY DEF categoryOrder
  <2> QED
    BY <1>3, <2>1 DEF BeginCategory, AddCategory
<1>4. ASSUME FollowSplit PROVE SplitCurrent
  <2>1. pending # <<>> /\ id \in DOMAIN states /\ states[id].status = "split"
    BY <1>4 DEF FollowSplit, AtTask, SplitBefore, HasState
  <2>2. Len(id) >= 2 /\ Len(id) - 2 < MaxShardDepth
    BY <1>1, <2>1 DEF Files, StateType
  <2>3. current.depth = Len(id) - 2
    BY <2>1, <2>2, CurrentTask DEF Lawful, LawfulIn, id
  <2> QED
    BY <1>4, <2>1, <2>2, <2>3 DEF FollowSplit, SplitCurrent, id
<1>5. ASSUME SplitTask PROVE SplitCurrent
  <2>1. pending # <<>>
    BY <1>1, <1>5 DEF SplitTask, Process
  <2>2. /\ current.lo \in Nat /\ current.hi \in Nat /\ Size(current) > 1
        /\ current.depth < MaxShardDepth
    BY <1>5, <2>1, CurrentTask DEF SplitTask, Splittable, TaskRecords
  <2>3. Len(current.id) >= 2
    BY <2>1, <2>2, CurrentTask DEF Size, Lawful, LawfulIn
  <2> QED
    BY <1>5, <2>1, <2>2, <2>3 DEF SplitTask, SplitCurrent
<1>6. ASSUME ReuseCheckpoint PROVE \E a \in Answers : AddLeaf(a)
  <2>1. /\ pending # <<>> /\ id \in DOMAIN checkpoints
        /\ checkpoints[id].candidates = candidates(current)
    BY <1>6 DEF ReuseCheckpoint, AtTask, HasCheckpoint, SameCandidates
  <2>2. checkpoints[id].answer \in Answers
    BY <1>1, <2>1 DEF Files, CheckpointType
  <2> QED
    BY <1>6, <2>1, <2>2 DEF ReuseCheckpoint, AddLeaf
<1>7. ASSUME CompleteTask PROVE \E a \in Answers : AddLeaf(a)
  <2>1. pending # <<>> /\ id \in DOMAIN checkpoints
    BY <1>1, <1>7 DEF CompleteTask, Process, Files
  <2>2. checkpoints[id].answer \in Answers
    BY <1>1, <2>1 DEF Files, CheckpointType
  <2> QED
    BY <1>7, <2>1, <2>2 DEF CompleteTask, AddLeaf
<1> QED
  BY <1>3, <1>4, <1>5, <1>6, <1>7

(* The steps at a task leave the plan as it is. *)
LEMMA TaskSteps ==
  ASSUME IInv, [Next]_vars
  PROVE  KeepTasks \/ DropTasks \/ AddCategory \/ SplitCurrent \/ \E a \in Answers : AddLeaf(a)
<1>1. CASE Launch
  <2>1. worktree \in Worktrees
    BY DEF IInv, Process
  <2> QED
    BY <1>1, <2>1 DEF Launch, DropTasks
<1>2. CASE RejectSplit \/ RejectCheckpoint \/ FailTask \/ Crash
  BY <1>2 DEF RejectSplit, RejectCheckpoint, FailTask, Crash, Stop, DropTasks
<1>3. CASE \/ Finish \/ DropCheckpoint \/ BeginTask \/ SaveCheckpoint \/ EditWorktree
           \/ UNCHANGED vars
  BY <1>3
  DEF Finish, DropCheckpoint, BeginTask, SaveCheckpoint, EditWorktree, vars, process, KeepTasks
<1>4. CASE BeginCategory \/ FollowSplit \/ SplitTask \/ ReuseCheckpoint \/ CompleteTask
  BY <1>4, StepKinds
<1> QED
  BY <1>1, <1>2, <1>3, <1>4 DEF Next, Work

-----------------------------------------------------------------------------
(* The invariant holds before any process was launched. *)
LEMMA InitInv == Init => IInv
<1> SUFFICES ASSUME Init PROVE IInv
  OBVIOUS
<1>1. /\ pending = <<>> /\ leaves = <<>> /\ routes = <<>> /\ turn = 0 /\ pc = "idle"
      /\ states = << >> /\ checkpoints = << >>
  BY DEF Init
<1>2. Process
  <2>1. /\ worktree \in Worktrees /\ resume = FALSE /\ started = FALSE
        /\ failures = 0 /\ edits = 0 /\ 0 \in 0..5
        /\ 0 \in 0..MaxFailures /\ 0 \in 0..MaxEdits
    BY SurfaceAssumption DEF Init
  <2>2. RoutesOK
    BY <1>1 DEF RoutesOK
  <2> QED
    BY <1>1, <2>1, <2>2, Zenon DEF Process
<1>3. Coverage
  <2>1. DoneTasks = <<>> /\ DoneUpTo = 0
    BY <1>1 DEF DoneTasks, DoneUpTo
  <2>2. <<>> \in Seq(TaskRecords) /\ <<>> \in Seq(LeafRecords) /\ AllLawful(<<>>)
    BY DEF AllLawful
  <2>3. Chain(<<>>, 1, 0) /\ EndBefore(turn) = 0
    BY <1>1 DEF Chain, EndBefore
  <2> QED
    BY <1>1, <2>1, <2>2, <2>3 DEF Coverage, LeavesCurrent
<1>4. Files
  BY <1>1 DEF Files, StateType, CheckpointType, CompletedHasCheckpoint
<1> QED
  BY <1>2, <1>3, <1>4 DEF IInv

(* Every step keeps the state of the process in shape. *)
LEMMA ProcessStep ==
  ASSUME IInv, [Next]_vars
  PROVE  Process'
<1>1. Process
  BY DEF IInv
<1>2. Len(categoryOrder) = 5 /\ MaxFailures \in Nat /\ MaxEdits \in Nat
  BY SurfaceAssumption DEF categoryOrder
<1>3. CASE Launch
  BY <1>1, <1>3 DEF Launch, Process, RoutesOK, disk
<1>4. CASE BeginCategory \/ Finish
  BY <1>1, <1>2, <1>4 DEF BeginCategory, Finish, Process, RoutesOK, disk
<1>5. CASE FollowSplit \/ ReuseCheckpoint \/ CompleteTask \/ SplitTask
  <2>1. pc' = "work" /\ turn # 0
    BY <1>1, <1>5
    DEF FollowSplit, ReuseCheckpoint, CompleteTask, SplitTask, AtTask, Process
  <2>2. UNCHANGED <<worktree, resume, started, turn, routes, failures, edits>>
    BY <1>5 DEF FollowSplit, ReuseCheckpoint, CompleteTask, SplitTask, disk
  <2> QED
    BY <1>1, <2>1, <2>2 DEF Process, RoutesOK
<1>6. CASE RejectSplit \/ RejectCheckpoint \/ FailTask \/ Crash
  <2>1. /\ pc' = "idle" /\ resume' = FALSE /\ turn' = 0 /\ routes' = <<>>
        /\ pending' = <<>> /\ leaves' = <<>> /\ UNCHANGED <<worktree, started, edits>>
    BY <1>6 DEF RejectSplit, RejectCheckpoint, FailTask, Crash, Stop, disk
  <2>2. failures' \in 0..MaxFailures /\ 0 \in 0..5
    BY <1>1, <1>2, <1>6 DEF RejectSplit, RejectCheckpoint, FailTask, Crash, Process, disk
  <2>3. RoutesOK'
    BY <2>1 DEF RoutesOK
  <2>4. /\ worktree' \in Worktrees /\ resume' \in BOOLEAN /\ started' \in BOOLEAN
        /\ edits' \in 0..MaxEdits
    BY <1>1, <2>1 DEF Process
  <2> QED
    BY <2>1, <2>2, <2>3, <2>4, Zenon DEF Process
<1>7. CASE DropCheckpoint \/ BeginTask \/ SaveCheckpoint
  <2>1. pc' \in {"execute", "asking", "answered"} /\ pending # <<>>
    BY <1>1, <1>7 DEF DropCheckpoint, BeginTask, SaveCheckpoint, AtTask, Process
  <2>2. UNCHANGED <<worktree, resume, turn, routes, pending, leaves, started, failures, edits>>
    BY <1>7 DEF DropCheckpoint, BeginTask, SaveCheckpoint
  <2> QED
    BY <1>1, <2>1, <2>2 DEF Process, RoutesOK
<1>8. CASE EditWorktree \/ UNCHANGED vars
  BY <1>1, <1>2, <1>8 DEF EditWorktree, vars, process, disk, Process, RoutesOK
<1> QED
  BY <1>3, <1>4, <1>5, <1>6, <1>7, <1>8 DEF Next, Work

(* While the routes of the process stay, so does what depends on them. *)
LEMMA SameListing ==
  ASSUME routes' = routes
  PROVE  /\ listing' = listing
         /\ \A k : EndBefore(k)' = EndBefore(k)
         /\ \A t : candidates(t)' = candidates(t)
         /\ \A s : AllLawful(s)' = AllLawful(s)
<1>1. listing' = listing
  BY DEF listing
<1>2. \A k : EndBefore(k)' = EndBefore(k)
  BY <1>1 DEF EndBefore, End
<1>3. \A t : candidates(t)' = candidates(t)
  BY <1>1 DEF candidates
<1>4. \A s : AllLawful(s)' = AllLawful(s)
  BY <1>1 DEF AllLawful, Lawful
<1> QED
  BY <1>1, <1>2, <1>3, <1>4

(* A task done is the next of its chain. *)
LEMMA AddLeafCoverage ==
  ASSUME IInv, NEW a \in Answers, AddLeaf(a)
  PROVE  Coverage'
<1> DEFINE leaf == Leaf(a, candidates(current))
<1>1. /\ pending # <<>> /\ pending' = Tail(pending) /\ leaves' = Append(leaves, leaf)
      /\ routes' = routes /\ turn' = turn
  BY DEF AddLeaf
<1>2. /\ Lawful(current) /\ current \in TaskRecords
      /\ current.lo = DoneUpTo + 1 /\ DoneUpTo \in Nat
      /\ Tail(pending) \in Seq(TaskRecords) /\ AllLawful(Tail(pending))
      /\ Chain(Tail(pending), current.hi + 1, EndBefore(turn))
      /\ candidates(current) \in Seq(Candidates)
  BY <1>1, CurrentTask
<1>3. /\ leaf \in LeafRecords /\ leaf.task = current
      /\ leaf.askedFor = candidates(current)
  BY <1>2 DEF Leaf, LeafRecords
<1> HIDE DEF leaf
<1>4. /\ leaves \in Seq(LeafRecords) /\ Len(leaves) \in Nat /\ AllLawful(DoneTasks)
      /\ Chain(DoneTasks, 1, DoneUpTo) /\ LeavesCurrent
  BY DEF IInv, Coverage
<1>5. /\ leaves' \in Seq(LeafRecords) /\ Len(leaves') = Len(leaves) + 1 /\ leaves' # <<>>
      /\ \A i \in 1..Len(leaves) : leaves'[i] = leaves[i]
      /\ leaves'[Len(leaves) + 1] = leaf
  BY <1>1, <1>3, <1>4, AppendProperties
<1>6. /\ DoneTasks \in Seq(TaskRecords) /\ Len(DoneTasks) = Len(leaves)
      /\ \A i \in 1..Len(leaves) : DoneTasks[i] = leaves[i].task
  <2>1. \A i \in 1..Len(leaves) : leaves[i] \in LeafRecords
    BY <1>4
  <2>2. DoneTasks = [i \in 1..Len(leaves) |-> leaves[i].task]
    BY <1>4 DEF DoneTasks
  <2>3. \A i \in 1..Len(leaves) : leaves[i].task \in TaskRecords
    BY <2>1 DEF LeafRecords
  <2> QED
    BY <1>4, <2>2, <2>3
<1>7. DoneTasks' = DoneTasks \o <<current>>
  <2>1. <<current>> \in Seq(TaskRecords) /\ Len(<<current>>) = 1 /\ <<current>>[1] = current
    BY <1>2
  <2>2. DoneTasks \o <<current>> = Append(DoneTasks, current)
    BY <1>2, <1>6, AppendIsConcat
  <2>3. /\ Append(DoneTasks, current) \in Seq(TaskRecords)
        /\ Len(Append(DoneTasks, current)) = Len(leaves) + 1
        /\ \A i \in 1..Len(leaves) : Append(DoneTasks, current)[i] = DoneTasks[i]
        /\ Append(DoneTasks, current)[Len(leaves) + 1] = current
    BY <1>2, <1>6, AppendProperties
  <2>4. DoneTasks' = [i \in 1..(Len(leaves) + 1) |-> leaves'[i].task]
    BY <1>5 DEF DoneTasks
  <2>5. ASSUME NEW i \in 1..(Len(leaves) + 1)
        PROVE  leaves'[i].task = Append(DoneTasks, current)[i]
    <3>1. CASE i \in 1..Len(leaves)
      BY <1>5, <1>6, <2>3, <3>1
    <3>2. CASE i = Len(leaves) + 1
      BY <1>3, <1>5, <2>3, <3>2
    <3>3. i \in 1..Len(leaves) \/ i = Len(leaves) + 1
      BY <1>4
    <3> QED
      BY <3>1, <3>2, <3>3
  <2>6. \A i \in 1..(Len(leaves) + 1) : Append(DoneTasks, current)[i] \in TaskRecords
    BY <2>3
  <2>7. /\ DoneTasks' \in Seq(TaskRecords) /\ Len(DoneTasks') = Len(leaves) + 1
        /\ \A i \in 1..(Len(leaves) + 1) : DoneTasks'[i] = Append(DoneTasks, current)[i]
    <3>1. \A i \in 1..(Len(leaves) + 1) : leaves'[i].task \in TaskRecords
      BY <2>5, <2>6
    <3>2. Len(leaves) + 1 \in Nat
      BY <1>4
    <3>3. /\ DoneTasks' = [i \in 1..(Len(leaves) + 1) |-> DoneTasks'[i]]
          /\ \A i \in 1..(Len(leaves) + 1) : DoneTasks'[i] = leaves'[i].task
      BY <2>4
    <3>4. \A i \in 1..(Len(leaves) + 1) : DoneTasks'[i] \in TaskRecords
      BY <3>1, <3>3
    <3>5. DoneTasks' \in Seq(TaskRecords) /\ Len(DoneTasks') = Len(leaves) + 1
      BY <3>2, <3>3, <3>4, SequenceOf
    <3> QED
      BY <2>5, <3>3, <3>5
  <2>8. DoneTasks' = Append(DoneTasks, current)
    BY <2>3, <2>7, SeqEqual
  <2> QED
    BY <2>2, <2>8
<1>8. DoneUpTo' = current.hi
  BY <1>3, <1>5 DEF DoneUpTo
<1>9. AllLawful(DoneTasks \o <<current>>) /\ Chain(DoneTasks \o <<current>>, 1, current.hi)
  <2>1. <<current>> \in Seq(TaskRecords) /\ AllLawful(<<current>>)
    BY <1>2 DEF AllLawful
  <2>2. Chain(<<current>>, DoneUpTo + 1, current.hi)
    BY <1>2, ChainOne DEF Lawful, LawfulIn
  <2>3. current.hi \in Int
    BY <1>2 DEF TaskRecords
  <2>4. AllLawful(DoneTasks \o <<current>>)
    BY <1>4, <1>6, <2>1, AllLawfulConcat
  <2>5. Chain(DoneTasks \o <<current>>, 1, current.hi)
    <3>1. 1 \in Int /\ DoneUpTo \in Int
      BY <1>2
    <3> QED
      BY <1>4, <1>6, <2>1, <2>2, <2>3, <3>1, ChainConcat, Zenon
  <2> QED
    BY <2>4, <2>5
<1>10. LeavesCurrent'
  <2>1. ASSUME NEW i \in 1..Len(leaves')
        PROVE  leaves'[i].askedFor = candidates(leaves'[i].task)
    <3>1. CASE i \in 1..Len(leaves)
      BY <1>4, <1>5, <3>1 DEF LeavesCurrent
    <3>2. CASE i = Len(leaves) + 1
      BY <1>3, <1>5, <3>2
    <3> QED
      BY <1>4, <1>5, <3>1, <3>2
  <2>2. DOMAIN leaves' = 1..Len(leaves')
    BY <1>5
  <2>3. \A t : candidates(t)' = candidates(t)
    BY <1>1, SameListing
  <2>4. \A i \in DOMAIN leaves' :
          leaves'[i].askedFor = SubSeq(listing', leaves'[i].task.lo, leaves'[i].task.hi)
    BY <1>1, <2>1, <2>2, SameListing DEF candidates
  <2> QED
    BY <2>4 DEF LeavesCurrent, candidates
<1>11. /\ Chain(pending', DoneUpTo' + 1, EndBefore(turn)')
       /\ AllLawful(pending)' /\ AllLawful(DoneTasks)' /\ Chain(DoneTasks, 1, DoneUpTo)'
  <2>1. listing' = listing /\ EndBefore(turn)' = EndBefore(turn)
    BY <1>1, SameListing DEF EndBefore, End
  <2> QED
    BY <1>1, <1>2, <1>7, <1>8, <1>9, <2>1 DEF AllLawful, Lawful
<1> QED
  BY <1>1, <1>2, <1>5, <1>10, <1>11 DEF Coverage, LeafRecords

(* Nothing of what is done changes when tasks are added or divided. *)
LEMMA PendingCoverage ==
  ASSUME IInv, UNCHANGED <<routes, leaves>>,
         pending' \in Seq(TaskRecords), AllLawful(pending'),
         Chain(pending', DoneUpTo + 1, EndBefore(turn'))
  PROVE  Coverage'
<1>1. listing' = listing
  BY SameListing
<1>2. DoneTasks' = DoneTasks /\ DoneUpTo' = DoneUpTo /\ EndBefore(turn)' = EndBefore(turn')
  BY <1>1 DEF DoneTasks, DoneUpTo, EndBefore, End
<1>3. AllLawful(pending)' /\ AllLawful(DoneTasks)'
  <2>1. AllLawful(DoneTasks)
    BY DEF IInv, Coverage
  <2> QED
    BY <1>1, <1>2, <2>1 DEF AllLawful, Lawful
<1>4. LeavesCurrent'
  BY <1>1 DEF IInv, Coverage, LeavesCurrent, candidates
<1>5. leaves' \in Seq(LeafRecords)
  BY DEF IInv, Coverage
<1> QED
  BY <1>2, <1>3, <1>4, <1>5 DEF IInv, Coverage, LeafRecords

(* Every step keeps what is done and what is pending a chain. *)
LEMMA CoverageStep ==
  ASSUME IInv, [Next]_vars
  PROVE  Coverage'
<1>0. /\ RoutesOK /\ turn \in 0..5 /\ pending \in Seq(TaskRecords) /\ AllLawful(pending)
      /\ Chain(pending, DoneUpTo + 1, EndBefore(turn))
  BY DEF IInv, Process, Coverage
<1>1. CASE KeepTasks
  BY <1>0, <1>1, PendingCoverage DEF KeepTasks
<1>2. CASE DropTasks
  <2>1. DoneTasks' = <<>> /\ DoneUpTo' = 0
    BY <1>2 DEF DropTasks, DoneTasks, DoneUpTo
  <2>2. <<>> \in Seq(TaskRecords) /\ <<>> \in Seq(LeafRecords) /\ \A i \in 1..Len(<<>>) : FALSE
    OBVIOUS
  <2>3. Chain(<<>>, 1, 0) /\ EndBefore(turn)' = 0
    BY <1>2 DEF DropTasks, Chain, EndBefore
  <2>4. pending' = <<>> /\ leaves' = <<>>
    BY <1>2 DEF DropTasks
  <2> QED
    BY <2>1, <2>2, <2>3, <2>4 DEF Coverage, LeavesCurrent, AllLawful, LeafRecords
<1>3. CASE AddCategory
  <2>1. /\ pending' \in Seq(TaskRecords) /\ AllLawful(pending')
        /\ Chain(pending', EndBefore(turn) + 1, EndBefore(turn + 1))
    BY <1>0, <1>3, turn \in 0..4, CategorySpecs DEF AddCategory
  <2>2. DoneUpTo + 1 = EndBefore(turn) + 1
    BY <1>0, <1>3 DEF AddCategory, Chain
  <2> QED
    BY <1>3, <2>1, <2>2, PendingCoverage DEF AddCategory
<1>4. CASE SplitCurrent
  <2> DEFINE halves == splitCategoryTaskSpec(current)
  <2>1. /\ pending # <<>> /\ current.depth < MaxShardDepth /\ Len(current.id) >= 2
        /\ pending' = halves \o Tail(pending) /\ UNCHANGED <<routes, turn, leaves>>
    BY <1>4 DEF SplitCurrent
  <2>2. /\ Lawful(current) /\ current \in TaskRecords
        /\ current.lo = DoneUpTo + 1 /\ DoneUpTo \in Nat
        /\ Tail(pending) \in Seq(TaskRecords) /\ AllLawful(Tail(pending))
        /\ Chain(Tail(pending), current.hi + 1, EndBefore(turn))
        /\ EndBefore(turn) \in Nat
    BY <2>1, CurrentTask
  <2>3. halves \in Seq(TaskRecords) /\ AllLawful(halves) /\ Chain(halves, current.lo, current.hi)
    BY <1>0, <2>1, <2>2, SplitLawful
  <2> HIDE DEF halves
  <2>4. Chain(halves \o Tail(pending), DoneUpTo + 1, EndBefore(turn))
    <3>1. current.hi \in Int /\ DoneUpTo + 1 \in Int
      BY <2>2 DEF TaskRecords
    <3>2. Chain(halves, DoneUpTo + 1, current.hi) /\ EndBefore(turn) \in Int
      BY <2>2, <2>3
    <3> QED
      BY <2>2, <2>3, <3>1, <3>2, ChainConcat, Zenon
  <2>5. AllLawful(halves \o Tail(pending)) /\ halves \o Tail(pending) \in Seq(TaskRecords)
    BY <2>2, <2>3, AllLawfulConcat
  <2> QED
    BY <2>1, <2>4, <2>5, PendingCoverage
<1>5. CASE \E a \in Answers : AddLeaf(a)
  BY <1>5, AddLeafCoverage
<1> QED
  BY <1>1, <1>2, <1>3, <1>4, <1>5, TaskSteps

(* A state is recorded for the task at hand. *)
LEMMA PutState ==
  ASSUME IInv, pending # <<>>, NEW status \in {"running", "failed", "split", "completed"},
         states' = Put(states, id, State(status, current)), checkpoints' = checkpoints,
         status = "split" => Splittable,
         status = "completed" => /\ id \in DOMAIN checkpoints
                                 /\ checkpoints[id].candidates = candidates(current)
  PROVE  /\ StateType' /\ CheckpointType' /\ CompletedHasCheckpoint'
         /\ id \in DOMAIN states' /\ states'[id] = State(status, current)
<1>1. StateType /\ CheckpointType /\ CompletedHasCheckpoint
  BY DEF IInv, Files
<1>2. /\ id \in DOMAIN states' /\ states'[id] = State(status, current)
      /\ \A i \in DOMAIN states' : i # id => i \in DOMAIN states /\ states'[i] = states[i]
  BY DEF Put
<1>3. /\ State(status, current).status = status
      /\ State(status, current).candidates = Range(candidates(current))
      /\ State(status, current) \in
           [status : {"running", "failed", "split", "completed"}, candidates : SUBSET Candidates]
  BY CurrentTask DEF State
<1>4. status = "split" => Len(id) \in Nat /\ Len(id) >= 2 /\ Len(id) - 2 < MaxShardDepth
  <2> SUFFICES ASSUME status = "split"
               PROVE  Len(id) \in Nat /\ Len(id) >= 2 /\ Len(id) - 2 < MaxShardDepth
    OBVIOUS
  <2>1. /\ current.lo \in Nat /\ current.hi \in Nat /\ Size(current) > 1
        /\ current.depth < MaxShardDepth /\ Lawful(current)
        /\ current.id \in Seq(Categories \cup Nat)
    BY CurrentTask DEF Splittable, TaskRecords
  <2>2. Len(current.id) \in Nat /\ current.lo <= current.hi
    BY <2>1 DEF Size
  <2>3. Len(current.id) >= 2
    BY <2>1, <2>2 DEF Lawful, LawfulIn
  <2> QED
    BY <2>1, <2>2, <2>3 DEF Lawful, LawfulIn, id
<1>5. StateType'
  BY <1>1, <1>2, <1>3, <1>4 DEF StateType
<1>6. CompletedHasCheckpoint'
  BY <1>1, <1>2, <1>3 DEF CompletedHasCheckpoint
<1> QED
  BY <1>1, <1>2, <1>5, <1>6 DEF CheckpointType

(* Every step keeps the files of the run directory sound. *)
LEMMA FilesStep ==
  ASSUME IInv, [Next]_vars
  PROVE  Files'
<1>1. /\ Process /\ StateType /\ CheckpointType /\ CompletedHasCheckpoint
      /\ pc \in {"asking", "answered"} => HasState("running")
      /\ pc = "answered" => /\ id \in DOMAIN checkpoints
                            /\ checkpoints[id].candidates = candidates(current)
  BY DEF IInv, Files
<1>2. CASE \/ Launch \/ BeginCategory \/ Finish \/ FollowSplit \/ RejectSplit
           \/ RejectCheckpoint \/ ReuseCheckpoint \/ Crash
  <2>1. states' = states /\ checkpoints' = checkpoints /\ pc' \in {"work", "done", "idle"}
    BY <1>2
    DEF Launch, BeginCategory, Finish, FollowSplit, RejectSplit, RejectCheckpoint,
        ReuseCheckpoint, Crash, Stop, AtTask, disk
  <2> QED
    BY <1>1, <2>1 DEF Files, StateType, CheckpointType, CompletedHasCheckpoint
<1>3. CASE EditWorktree \/ UNCHANGED vars
  <2>1. UNCHANGED <<states, checkpoints, pc, pending, routes>>
    BY <1>3 DEF EditWorktree, vars, disk, process
  <2>2. listing' = listing /\ current' = current /\ id' = id
    BY <2>1, SameListing DEF current, id
  <2> QED
    BY <1>1, <2>1, <2>2
    DEF Files, StateType, CheckpointType, CompletedHasCheckpoint, HasState, candidates
<1>4. CASE DropCheckpoint \/ FailTask
  <2>1. /\ pending # <<>> /\ states' = Put(states, id, State("failed", current))
        /\ checkpoints' = checkpoints /\ pc' \in {"execute", "idle"}
    BY <1>1, <1>4 DEF DropCheckpoint, FailTask, Stop, AtTask, Process
  <2>2. StateType' /\ CheckpointType' /\ CompletedHasCheckpoint'
    BY <2>1, PutState
  <2> QED
    BY <2>1, <2>2 DEF Files
<1>5. CASE BeginTask
  <2>1. /\ pending # <<>> /\ states' = Put(states, id, State("running", current))
        /\ checkpoints' = checkpoints /\ pc' = "asking" /\ pending' = pending
    BY <1>1, <1>5 DEF BeginTask, AtTask, Process
  <2>2. /\ StateType' /\ CheckpointType' /\ CompletedHasCheckpoint'
        /\ id \in DOMAIN states' /\ states'[id] = State("running", current)
    BY <2>1, PutState
  <2>3. id' = id
    BY <2>1 DEF id, current
  <2>4. HasState("running")'
    BY <2>2, <2>3 DEF HasState, State
  <2> QED
    BY <2>1, <2>2, <2>4 DEF Files
<1>6. CASE SaveCheckpoint
  <2>1. PICK a \in Answers :
          /\ checkpoints' = Put(checkpoints, id, [candidates |-> candidates(current), answer |-> a])
          /\ pending # <<>> /\ pc = "asking" /\ pc' = "answered"
          /\ UNCHANGED <<states, pending, routes>>
    BY <1>1, <1>6 DEF SaveCheckpoint, Process
  <2>2. candidates(current) \in Seq(Candidates)
    BY <2>1, CurrentTask
  <2>3. /\ id \in DOMAIN checkpoints'
        /\ checkpoints'[id] = [candidates |-> candidates(current), answer |-> a]
        /\ DOMAIN checkpoints' = DOMAIN checkpoints \cup {id}
        /\ \A i \in DOMAIN checkpoints : i # id => checkpoints'[i] = checkpoints[i]
    BY <2>1 DEF Put
  <2>4. StateType'
    BY <1>1, <2>1 DEF StateType
  <2>5. CheckpointType'
    BY <1>1, <2>2, <2>3 DEF CheckpointType
  <2>6. id \in DOMAIN states /\ states[id].status = "running"
    BY <1>1, <2>1 DEF HasState
  <2>7. CompletedHasCheckpoint'
    BY <1>1, <2>1, <2>3, <2>6 DEF CompletedHasCheckpoint
  <2>8. id' = id /\ candidates(current)' = candidates(current)
    <3>1. current' = current /\ listing' = listing
      BY <2>1, SameListing DEF current
    <3> QED
      BY <3>1 DEF id, candidates
  <2>9. HasState("running")'
    BY <2>1, <2>6, <2>8 DEF HasState
  <2>10. id' \in DOMAIN checkpoints' /\ checkpoints'[id'].candidates = candidates(current)'
    BY <2>3, <2>8
  <2> QED
    BY <2>1, <2>4, <2>5, <2>7, <2>9, <2>10 DEF Files
<1>7. CASE CompleteTask \/ SplitTask
  <2>1. /\ pending # <<>> /\ checkpoints' = checkpoints /\ pc' = "work"
        /\ \/ /\ states' = Put(states, id, State("completed", current))
              /\ id \in DOMAIN checkpoints
              /\ checkpoints[id].candidates = candidates(current)
           \/ states' = Put(states, id, State("split", current)) /\ Splittable
    BY <1>1, <1>7 DEF CompleteTask, SplitTask, Process
  <2>2. StateType' /\ CheckpointType' /\ CompletedHasCheckpoint'
    BY <2>1, PutState
  <2> QED
    BY <2>1, <2>2 DEF Files
<1> QED
  BY <1>2, <1>3, <1>4, <1>5, <1>6, <1>7 DEF Next, Work

(* The invariant holds in every reachable state. *)
LEMMA Invariance == Spec => []IInv
<1>1. IInv /\ [Next]_vars => IInv'
  BY ProcessStep, CoverageStep, FilesStep DEF IInv
<1> QED
  BY InitInv, <1>1, PTL DEF Spec

-----------------------------------------------------------------------------
(* The manifest and the checkpoints keep their shape, no task is split     *)
(* below the maximum depth, and a task the manifest calls completed has    *)
(* its checkpoint on disk, whenever a crash hits (coordinator.go,          *)
(* executeCategoryShard; checkpoint.go).                                   *)
THEOREM StatesAreSound == Spec => []StatesSound
<1>1. ASSUME IInv PROVE StatesSound
  <2>1. Process /\ Coverage /\ StateType /\ CheckpointType /\ CompletedHasCheckpoint
    BY <1>1 DEF IInv, Files
  <2>2. routes \in Seq(Candidates)
    BY <2>1, RoutesType DEF Process
  <2>3. turn \in 0..Len(categoryOrder)
    BY <2>1 DEF Process, categoryOrder
  <2>4. pending \in Seq(TaskRecords)
        /\ leaves \in Seq([task : TaskRecords, answer : Answers, askedFor : Seq(Candidates)])
    BY <2>1 DEF Coverage, LeafRecords
  <2>5. TypeOK
    BY <2>1, <2>2, <2>3, <2>4, Zenon DEF TypeOK, Process, StateType, CheckpointType
  <2> QED
    BY <2>1, <2>5 DEF StatesSound
<1> QED
  BY Invariance, <1>1, PTL

(* The tasks done and to do lie end to end over the listing, however deep  *)
(* they are split and whatever is taken over from earlier processes, for   *)
(* any routes, entities and group size.                                    *)
THEOREM CoverIsExact == Spec => []ExactCover
<1>1. ASSUME IInv PROVE ExactCover
  <2>1. /\ turn \in 0..5 /\ RoutesOK
        /\ turn = 0 => pending = <<>> /\ leaves = <<>>
        /\ pending \in Seq(TaskRecords) /\ leaves \in Seq(LeafRecords)
        /\ Chain(DoneTasks, 1, DoneUpTo) /\ Chain(pending, DoneUpTo + 1, EndBefore(turn))
    BY <1>1 DEF IInv, Process, Coverage
  <2>2. DoneTasks \in Seq(TaskRecords) /\ DoneUpTo \in Int
    <3>1. /\ \A i \in 1..Len(leaves) : leaves[i] \in LeafRecords
          /\ Len(leaves) \in Nat /\ DOMAIN leaves = 1..Len(leaves)
      BY <2>1
    <3>2. \A i \in 1..Len(leaves) : leaves[i].task \in TaskRecords /\ leaves[i].task.hi \in Nat
      BY <3>1 DEF LeafRecords, TaskRecords
    <3>3. DoneTasks \in Seq(TaskRecords)
      BY <3>1, <3>2 DEF DoneTasks
    <3>4. leaves # <<>> => Len(leaves) \in 1..Len(leaves)
      BY <2>1
    <3> QED
      BY <3>2, <3>3, <3>4 DEF DoneUpTo
  <2>3. EndBefore(turn) \in Int
    BY <2>1, RoutesType, ListingType, ApiGroupType DEF EndBefore, End
  <2>4. Chain(DoneTasks \o pending, 1, EndBefore(turn))
    <3>1. 1 \in Int
      OBVIOUS
    <3> QED
      BY <2>1, <2>2, <2>3, <3>1, ChainConcat, Zenon
  <2>5. Tasks = DoneTasks \o pending /\ Tasks \in Seq(TaskRecords) /\ Len(Tasks) \in Nat
    BY <2>1, <2>2, ConcatProperties DEF Tasks, DoneTasks
  <2>6. Tasks # <<>> => turn # 0
    <3>1. ASSUME turn = 0 PROVE Tasks = <<>>
      BY <2>1, <3>1 DEF Tasks
    <3> QED
      BY <3>1
  <2>7. Len(Tasks) > 0 =>
          /\ Tasks # <<>> /\ Tasks[1].lo = 1 /\ Tasks[Len(Tasks)].hi = EndBefore(turn)
    BY <2>4, <2>5 DEF Chain
  <2>8. turn # 0 => EndBefore(turn) = End(categoryOrder[turn])
    BY DEF EndBefore
  <2>9. /\ \A i \in 1..(Len(Tasks) - 1) : Tasks[i + 1].lo = Tasks[i].hi + 1
        /\ \A i \in 1..Len(Tasks) : Tasks[i].hi + 1 >= Tasks[i].lo
    <3>1. \A i \in 1..Len(Tasks) : Tasks[i].lo \in Nat /\ Tasks[i].hi \in Nat
      <4>1. \A i \in 1..Len(Tasks) : Tasks[i] \in TaskRecords
        BY <2>5
      <4> QED
        BY <4>1 DEF TaskRecords
    <3>2. Chain(Tasks, 1, EndBefore(turn))
      BY <2>4, <2>5
    <3> QED
      BY <3>1, <3>2 DEF Chain
  <2> QED
    BY <2>6, <2>7, <2>8, <2>9, Zenon DEF ExactCover
<1> QED
  BY Invariance, <1>1, PTL

(* An answer made from another working tree is not among those merged:     *)
(* each was given for exactly the candidates this process has.             *)
THEOREM LeavesAreCurrent == Spec => []LeavesCurrent
<1>1. IInv => LeavesCurrent
  BY DEF IInv, Coverage
<1> QED
  BY Invariance, <1>1, PTL

-----------------------------------------------------------------------------
(* The positions of the listing and the candidates they stand for.         *)
Names(q, c) == c = <<IF q <= Len(routes) THEN Web ELSE API, listing[q]>>

(* Dealing different entities to the groups lists each of them once. *)
LEMMA ApiCandidatesDistinct == Distinct(ApiCandidates)
<1> DEFINE a == ApiGroup(1)
           b == ApiGroup(2)
           c == ApiGroup(3)
           na == ApiGroupSize(1)
           nb == ApiGroupSize(2)
           nc == ApiGroupSize(3)
           T == Range(Targets)
           index(p) == IF p <= na THEN 1 + 3 * (p - 1)
                       ELSE IF p <= na + nb THEN 2 + 3 * (p - na - 1)
                       ELSE 3 + 3 * (p - na - nb - 1)
<1>1. CASE API \notin Applicable
  <2>1. ApiCandidates = <<>> /\ DOMAIN <<>> = {}
    BY <1>1 DEF ApiCandidates
  <2> QED
    BY <2>1 DEF Distinct
<1>2. CASE API \in Applicable
  <2>1. /\ Targets \in Seq(T) /\ Len(Targets) \in Nat /\ DOMAIN Targets = 1..Len(Targets)
        /\ \A i, j \in 1..Len(Targets) : Targets[i] = Targets[j] => i = j
    BY SurfaceAssumption DEF Distinct
  <2>2. /\ a \in Seq(T) /\ Len(a) = na /\ na \in Nat
        /\ b \in Seq(T) /\ Len(b) = nb /\ nb \in Nat
        /\ c \in Seq(T) /\ Len(c) = nc /\ nc \in Nat
    BY ApiGroupType
  <2>3. /\ 3 * na <= Len(Targets) + 2 /\ 3 * nb <= Len(Targets) + 1 /\ 3 * nc <= Len(Targets)
    BY <2>1 DEF ApiGroupSize
  <2>4. /\ \A k \in 1..na : a[k] = Targets[1 + 3 * (k - 1)]
        /\ \A k \in 1..nb : b[k] = Targets[2 + 3 * (k - 1)]
        /\ \A k \in 1..nc : c[k] = Targets[3 + 3 * (k - 1)]
    BY DEF ApiGroup
  <2>5. ApiCandidates = (a \o b) \o c
    BY <1>2 DEF ApiCandidates
  <2> HIDE DEF a, b, c, na, nb, nc
  <2>6. /\ a \o b \in Seq(T) /\ Len(a \o b) = na + nb
        /\ \A i \in 1..(na + nb) : (a \o b)[i] = IF i <= na THEN a[i] ELSE b[i - na]
    <3>1. /\ a \o b \in Seq(T) /\ Len(a \o b) = Len(a) + Len(b)
          /\ \A i \in 1..(Len(a) + Len(b)) :
               (a \o b)[i] = IF i <= Len(a) THEN a[i] ELSE b[i - Len(a)]
      BY <2>2, ConcatProperties
    <3> QED
      BY <2>2, <3>1
  <2> DEFINE ab == a \o b
  <2> HIDE DEF ab
  <2>7. /\ ApiCandidates \in Seq(T) /\ Len(ApiCandidates) = na + nb + nc
        /\ \A i \in 1..(na + nb + nc) :
             ApiCandidates[i] = IF i <= na + nb THEN ab[i] ELSE c[i - (na + nb)]
    <3>1. /\ ab \in Seq(T) /\ Len(ab) = na + nb /\ ApiCandidates = ab \o c
      BY <2>5, <2>6 DEF ab
    <3>2. /\ ab \o c \in Seq(T) /\ Len(ab \o c) = Len(ab) + Len(c)
          /\ \A i \in 1..(Len(ab) + Len(c)) :
               (ab \o c)[i] = IF i <= Len(ab) THEN ab[i] ELSE c[i - Len(ab)]
      BY <2>2, <3>1, ConcatProperties
    <3> QED
      BY <2>2, <3>1, <3>2
  <2>8. ASSUME NEW p \in 1..(na + nb + nc)
        PROVE  index(p) \in 1..Len(Targets) /\ ApiCandidates[p] = Targets[index(p)]
    <3>1. CASE p <= na
      <4>1. ApiCandidates[p] = ab[p] /\ ab[p] = a[p]
        BY <2>2, <2>6, <2>7, <3>1 DEF ab
      <4> QED
        BY <2>1, <2>2, <2>3, <2>4, <3>1, <4>1, SMTT(60)
    <3>2. CASE na < p /\ p <= na + nb
      <4>1. ApiCandidates[p] = ab[p] /\ ab[p] = b[p - na] /\ p - na \in 1..nb
        BY <2>2, <2>6, <2>7, <3>2 DEF ab
      <4> QED
        BY <2>1, <2>2, <2>3, <2>4, <3>2, <4>1
    <3>3. CASE na + nb < p
      <4>1. ApiCandidates[p] = c[p - (na + nb)] /\ p - (na + nb) \in 1..nc
        BY <2>2, <2>7, <3>3
      <4>2. /\ index(p) = 3 + 3 * ((p - (na + nb)) - 1)
            /\ index(p) \in 1..Len(Targets)
        BY <2>1, <2>2, <2>3, <3>3, <4>1
      <4> QED
        BY <2>4, <4>1, <4>2
    <3> QED
      BY <2>2, <3>1, <3>2, <3>3
  <2>9. \A p, q \in 1..(na + nb + nc) : index(p) = index(q) => p = q
    BY <2>2
  <2> HIDE DEF index
  <2>10. DOMAIN ApiCandidates = 1..(na + nb + nc)
    BY <2>7
  <2> QED
    BY <2>1, <2>8, <2>9, <2>10 DEF Distinct
<1> QED
  BY <1>1, <1>2

(* What is wanted has one position in the listing. *)
LEMMA ListingNames ==
  ASSUME RoutesOK
  PROVE  /\ \A c : c \in Wanted <=> \E q \in 1..Len(listing) : Names(q, c)
         /\ \A p, q \in 1..Len(listing) : \A c : Names(p, c) /\ Names(q, c) => p = q
<1> DEFINE l == Len(routes)
           n == Len(ApiCandidates)
<1>1. /\ routes \in Seq(Candidates) /\ Distinct(routes) /\ l \in Nat
      /\ ApiCandidates \in Seq(Candidates) /\ n \in Nat /\ Len(listing) = l + n
  BY RoutesType, ListingType
<1>2. \A q \in 1..(l + n) : listing[q] = IF q <= l THEN routes[q] ELSE ApiCandidates[q - l]
  BY <1>1, ConcatProperties DEF listing
<1>3. /\ \A i, j \in 1..l : routes[i] = routes[j] => i = j
      /\ \A i, j \in 1..n : ApiCandidates[i] = ApiCandidates[j] => i = j
  BY <1>1, ApiCandidatesDistinct DEF Distinct
<1>4. /\ Range(routes) = {routes[i] : i \in 1..l}
      /\ Range(ApiCandidates) = {ApiCandidates[i] : i \in 1..n}
  BY <1>1 DEF Range
<1>5. \A q \in 1..(l + n) : \A c : Names(q, c) <=>
        \/ q \in 1..l /\ c = <<Web, routes[q]>>
        \/ q - l \in 1..n /\ c = <<API, ApiCandidates[q - l]>>
  <2> TAKE q \in 1..(l + n)
  <2>1. CASE q <= l
    <3>1. listing[q] = routes[q] /\ q \in 1..l /\ ~ (q - l \in 1..n)
      BY <1>1, <1>2, <2>1
    <3> QED
      BY <2>1, <3>1 DEF Names
  <2>2. CASE ~ (q <= l)
    <3>1. listing[q] = ApiCandidates[q - l] /\ q \notin 1..l /\ q - l \in 1..n
      BY <1>1, <1>2, <2>2
    <3> QED
      BY <2>2, <3>1 DEF Names
  <2> QED
    BY <2>1, <2>2
<1> HIDE DEF l, n
<1>6. ASSUME NEW c, c \in Wanted
      PROVE  \E q \in 1..(l + n) : Names(q, c)
  <2>1. CASE \E x \in Range(routes) : c = <<Web, x>>
    <3>1. PICK i \in 1..l : c = <<Web, routes[i]>>
      BY <1>4, <2>1
    <3>2. i \in 1..(l + n)
      BY <1>1
    <3> QED
      BY <1>5, <3>1, <3>2
  <2>2. CASE \E x \in Range(ApiCandidates) : c = <<API, x>>
    <3>1. PICK i \in 1..n : c = <<API, ApiCandidates[i]>>
      BY <1>4, <2>2
    <3>2. l + i \in 1..(l + n) /\ (l + i) - l = i
      BY <1>1
    <3> QED
      BY <1>5, <3>1, <3>2
  <2> QED
    BY <1>6, <2>1, <2>2 DEF Wanted
<1>7. ASSUME NEW c, NEW q \in 1..(l + n), Names(q, c)
      PROVE  c \in Wanted
  BY <1>4, <1>5, <1>7 DEF Wanted
<1>8. ASSUME NEW p \in 1..(l + n), NEW q \in 1..(l + n), NEW c, Names(p, c), Names(q, c)
      PROVE  p = q
  <2>1. CASE p \in 1..l /\ c = <<Web, routes[p]>>
    <3>1. q \in 1..l /\ routes[q] = routes[p]
      BY <1>5, <1>8, <2>1, CategoriesType
    <3> QED
      BY <1>3, <2>1, <3>1
  <2>2. CASE p - l \in 1..n /\ c = <<API, ApiCandidates[p - l]>>
    <3>1. q - l \in 1..n /\ ApiCandidates[q - l] = ApiCandidates[p - l]
      BY <1>5, <1>8, <2>2, CategoriesType
    <3>2. q - l = p - l
      BY <1>3, <2>2, <3>1
    <3> QED
      BY <1>1, <3>2
  <2> QED
    BY <1>5, <1>8, <2>1, <2>2
<1>9. Len(listing) = l + n
  BY <1>1
<1> QED
  BY <1>6, <1>7, <1>8, <1>9

(* The candidates of a task are those of its interval of the listing.      *)
LEMMA CandidatesOf ==
  ASSUME RoutesOK, NEW t, Lawful(t)
  PROVE  Range(candidates(t)) = {listing[p] : p \in t.lo..t.hi}
<1>0. /\ listing \in Seq(Candidates) /\ Len(listing) \in Nat
      /\ t.lo \in Nat /\ t.hi \in Nat /\ t.lo >= 1 /\ t.hi <= Len(listing)
  BY RoutesType, ListingType DEF Lawful, LawfulIn, TaskRecords
<1>1. \A i \in t.lo..t.hi : listing[i] \in Candidates
  BY <1>0
<1>2. /\ candidates(t) \in Seq(Candidates)
      /\ Len(candidates(t)) = IF t.lo <= t.hi THEN t.hi - t.lo + 1 ELSE 0
      /\ \A i \in 1..(t.hi - t.lo + 1) : candidates(t)[i] = listing[t.lo + i - 1]
  BY <1>0, <1>1, SubSeqProperties, SMTT(60) DEF candidates
<1>3. Range(candidates(t)) = {candidates(t)[i] : i \in 1..(t.hi - t.lo + 1)}
  <2>1. DOMAIN candidates(t) = 1..(t.hi - t.lo + 1)
    BY <1>0, <1>2
  <2> QED
    BY <2>1 DEF Range
<1>4. \A x \in Range(candidates(t)) : \E p \in t.lo..t.hi : x = listing[p]
  <2> TAKE x \in Range(candidates(t))
  <2>1. PICK i \in 1..(t.hi - t.lo + 1) : x = candidates(t)[i]
    BY <1>3
  <2>2. t.lo + i - 1 \in t.lo..t.hi
    BY <1>0
  <2> QED
    BY <1>2, <2>1, <2>2
<1>5. \A p \in t.lo..t.hi : listing[p] \in Range(candidates(t))
  <2> TAKE p \in t.lo..t.hi
  <2>1. p - t.lo + 1 \in 1..(t.hi - t.lo + 1) /\ t.lo + (p - t.lo + 1) - 1 = p
    BY <1>0, SMTT(60)
  <2> QED
    BY <1>2, <1>3, <2>1
<1> QED
  BY <1>4, <1>5

(* A lawful task lists the candidates of its interval, and no others. *)
LEMMA ListedInterval ==
  ASSUME RoutesOK, NEW t, Lawful(t), NEW c, NEW q \in 1..Len(listing), Names(q, c)
  PROVE  c \in Listed(t) <=> t.lo <= q /\ q <= t.hi
<1>1. /\ listing \in Seq(Candidates) /\ Len(listing) \in Nat /\ Len(routes) \in Nat
      /\ t.lo \in Nat /\ t.hi \in Nat /\ t.lo >= 1 /\ t.hi <= Len(listing)
      /\ t.lo <= t.hi => /\ t.category \in {Web, API}
                         /\ t.category = Web => t.hi <= Len(routes)
                         /\ t.category = API => t.lo > Len(routes)
  BY RoutesType, ListingType DEF Lawful, LawfulIn, TaskRecords
<1>2. \A p : p \in t.lo..t.hi => Names(p, <<t.category, listing[p]>>)
  <2> TAKE p
  <2> HAVE p \in t.lo..t.hi
  <2>1. t.category = IF p <= Len(routes) THEN Web ELSE API
    BY <1>1
  <2> QED
    BY <2>1 DEF Names
<1>3. Range(candidates(t)) = {listing[p] : p \in t.lo..t.hi}
  BY CandidatesOf
<1>4. ASSUME c \in Listed(t) PROVE t.lo <= q /\ q <= t.hi
  <2>1. PICK p \in t.lo..t.hi : c = <<t.category, listing[p]>>
    BY <1>3, <1>4 DEF Listed
  <2>2. p \in 1..Len(listing) /\ Names(p, c)
    BY <1>1, <1>2, <2>1
  <2>3. p = q
    BY <2>2, ListingNames
  <2> QED
    BY <1>1, <2>3
<1>5. ASSUME t.lo <= q, q <= t.hi PROVE c \in Listed(t)
  <2>1. q \in t.lo..t.hi
    BY <1>1, <1>5
  <2>2. c = <<t.category, listing[q]>>
    BY <1>2, <2>1 DEF Names
  <2> QED
    BY <1>3, <2>1, <2>2 DEF Listed
<1> QED
  BY <1>4, <1>5

-----------------------------------------------------------------------------
(* What the tasks done cover: each position up to where they reach, by one *)
(* of them only.                                                           *)
Marks ==
  /\ \A q \in 1..DoneUpTo : \E i \in DOMAIN leaves :
       leaves[i].task.lo <= q /\ q <= leaves[i].task.hi
  /\ \A i \in DOMAIN leaves : leaves[i].task.hi <= DoneUpTo
  /\ \A i, j \in DOMAIN leaves : i < j => leaves[i].task.hi < leaves[j].task.lo

(* Every step keeps the tasks done apart and in order. *)
LEMMA MarksStep ==
  ASSUME IInv, Marks, [Next]_vars
  PROVE  Marks'
<1>1. CASE leaves' = leaves
  BY <1>1 DEF Marks, DoneUpTo
<1>2. CASE leaves' = <<>>
  <2>1. DoneUpTo' = 0 /\ DOMAIN leaves' = {}
    BY <1>2 DEF DoneUpTo
  <2> QED
    BY <2>1 DEF Marks
<1>3. ASSUME NEW a \in Answers, AddLeaf(a) PROVE Marks'
  <2> DEFINE leaf == Leaf(a, candidates(current))
  <2>1. /\ leaves \in Seq(LeafRecords) /\ Len(leaves) \in Nat /\ DOMAIN leaves = 1..Len(leaves)
    BY DEF IInv, Coverage
  <2>2. /\ current.lo = DoneUpTo + 1 /\ DoneUpTo \in Nat /\ current \in TaskRecords
        /\ current.lo <= current.hi + 1 /\ current.hi \in Nat
        /\ candidates(current) \in Seq(Candidates)
    BY <1>3, CurrentTask DEF AddLeaf, Lawful, LawfulIn, TaskRecords
  <2>3. leaf \in LeafRecords /\ leaf.task = current
    BY <2>2 DEF Leaf, LeafRecords
  <2> HIDE DEF leaf
  <2>4. leaves' = Append(leaves, leaf)
    BY <1>3 DEF AddLeaf, leaf
  <2>5. /\ Len(leaves') = Len(leaves) + 1 /\ DOMAIN leaves' = 1..(Len(leaves) + 1)
        /\ leaves' # <<>>
        /\ \A i \in 1..Len(leaves) : leaves'[i] = leaves[i]
        /\ leaves'[Len(leaves) + 1] = leaf
    BY <2>1, <2>3, <2>4, AppendProperties
  <2>6. DoneUpTo' = current.hi
    BY <2>3, <2>5 DEF DoneUpTo
  <2>7. \A i \in 1..Len(leaves) : leaves[i].task.hi \in Nat /\ leaves[i].task.lo \in Nat
    <3>1. \A i \in 1..Len(leaves) : leaves[i] \in LeafRecords
      BY <2>1
    <3> QED
      BY <3>1 DEF LeafRecords, TaskRecords
  <2>8. ASSUME NEW q \in 1..current.hi
        PROVE  \E i \in DOMAIN leaves' : leaves'[i].task.lo <= q /\ q <= leaves'[i].task.hi
    <3>1. CASE q <= DoneUpTo
      <4>1. PICK i \in 1..Len(leaves) : leaves[i].task.lo <= q /\ q <= leaves[i].task.hi
        BY <2>1, <2>2, <3>1, SMTT(60) DEF Marks
      <4>2. i \in DOMAIN leaves' /\ leaves'[i] = leaves[i]
        BY <2>1, <2>5
      <4> QED
        BY <4>1, <4>2
    <3>2. CASE q > DoneUpTo
      <4>1. current.lo <= q /\ q <= current.hi /\ Len(leaves) + 1 \in DOMAIN leaves'
        BY <2>1, <2>2, <2>5, <3>2
      <4> QED
        BY <2>3, <2>5, <4>1
    <3> QED
      BY <2>2, <3>1, <3>2
  <2>9. \A i \in 1..(Len(leaves) + 1) :
          \/ i \in 1..Len(leaves) /\ leaves'[i] = leaves[i] /\ leaves[i].task.hi <= DoneUpTo
          \/ i = Len(leaves) + 1 /\ leaves'[i].task = current
    BY <2>1, <2>3, <2>5 DEF Marks
  <2>10. \A i \in DOMAIN leaves' : leaves'[i].task.hi <= current.hi
    BY <2>1, <2>2, <2>5, <2>7, <2>9, SMTT(60)
  <2>11. \A i, j \in 1..Len(leaves) : i < j => leaves[i].task.hi < leaves[j].task.lo
    BY <2>1 DEF Marks
  <2>12. \A i, j \in DOMAIN leaves' : i < j => leaves'[i].task.hi < leaves'[j].task.lo
    <3> TAKE i, j \in DOMAIN leaves'
    <3> HAVE i < j
    <3>1. i \in 1..Len(leaves) /\ leaves'[i] = leaves[i] /\ leaves[i].task.hi <= DoneUpTo
      BY <2>1, <2>5, <2>9
    <3>2. CASE j \in 1..Len(leaves)
      BY <2>5, <2>11, <3>1, <3>2
    <3>3. CASE j = Len(leaves) + 1
      <4>1. leaves'[j].task.lo = DoneUpTo + 1
        BY <2>2, <2>3, <2>5, <3>3
      <4> QED
        BY <2>2, <2>7, <3>1, <4>1
    <3> QED
      BY <2>1, <2>5, <3>2, <3>3
  <2> QED
    BY <2>6, <2>8, <2>10, <2>12 DEF Marks
<1> QED
  BY <1>1, <1>2, <1>3, TaskSteps DEF KeepTasks, DropTasks, AddCategory, SplitCurrent

(* A candidate is mentioned once if its position is covered, or not at all. *)
LEMMA MentionsPosition ==
  ASSUME RoutesOK, leaves \in Seq(LeafRecords), AllLawful(DoneTasks), Marks,
         DoneUpTo \in Nat, NEW c, NEW q \in 1..Len(listing), Names(q, c)
  PROVE  Mentions(c) = IF q <= DoneUpTo THEN 1 ELSE 0
<1> DEFINE M == {i \in DOMAIN leaves : c \in Listed(leaves[i].task)}
<1>1. DOMAIN leaves = 1..Len(leaves) /\ Len(leaves) \in Nat /\ Len(listing) \in Nat
  BY RoutesType, ListingType
<1>2. \A i \in DOMAIN leaves : Lawful(leaves[i].task)
  <2> TAKE i \in DOMAIN leaves
  <2>1. DoneTasks = [k \in 1..Len(leaves) |-> leaves[k].task]
    BY <1>1 DEF DoneTasks
  <2>2. Len(DoneTasks) = Len(leaves)
    <3>1. \A k \in 1..Len(leaves) : leaves[k] \in LeafRecords
      BY <1>1
    <3>2. \A k \in 1..Len(leaves) : leaves[k].task \in TaskRecords
      BY <3>1 DEF LeafRecords
    <3>3. /\ DoneTasks = [k \in 1..Len(leaves) |-> DoneTasks[k]]
          /\ \A k \in 1..Len(leaves) : DoneTasks[k] \in TaskRecords
      BY <2>1, <3>2
    <3> QED
      BY <1>1, <3>3, SequenceOf
  <2>3. DoneTasks[i] = leaves[i].task /\ i \in 1..Len(DoneTasks)
    BY <1>1, <2>1, <2>2
  <2> QED
    BY <2>3 DEF AllLawful
<1>3. \A i \in DOMAIN leaves : leaves[i].task.lo \in Nat /\ leaves[i].task.hi \in Nat
  BY <1>2 DEF Lawful, LawfulIn, TaskRecords
<1>4. M = {i \in DOMAIN leaves : leaves[i].task.lo <= q /\ q <= leaves[i].task.hi}
  BY <1>2, ListedInterval
<1>5. Mentions(c) = Cardinality(M)
  BY DEF Mentions
<1> HIDE DEF M
<1>6. CASE q <= DoneUpTo
  <2>1. PICK i \in DOMAIN leaves : leaves[i].task.lo <= q /\ q <= leaves[i].task.hi
    BY <1>1, <1>6 DEF Marks
  <2>2. ASSUME NEW j \in M PROVE j = i
    <3>1. j \in DOMAIN leaves /\ leaves[j].task.lo <= q /\ q <= leaves[j].task.hi
      BY <1>4
    <3>2. ~ (i < j) /\ ~ (j < i)
      <4>1. /\ i < j => leaves[i].task.hi < leaves[j].task.lo
            /\ j < i => leaves[j].task.hi < leaves[i].task.lo
        BY <3>1 DEF Marks
      <4>2. /\ leaves[i].task.hi \in Nat /\ leaves[i].task.lo \in Nat
            /\ leaves[j].task.hi \in Nat /\ leaves[j].task.lo \in Nat /\ q \in Nat
        BY <1>1, <1>3, <3>1
      <4> QED
        BY <2>1, <3>1, <4>1, <4>2, SMTT(60)
    <3> QED
      BY <1>1, <2>1, <3>1, <3>2
  <2>3. M = {i}
    BY <1>4, <2>1, <2>2
  <2> QED
    BY <1>5, <1>6, <2>3, FS_Singleton
<1>7. CASE ~ (q <= DoneUpTo)
  <2>1. M = {}
    BY <1>1, <1>3, <1>4, <1>7 DEF Marks
  <2> QED
    BY <1>5, <1>7, <2>1, FS_EmptySet
<1> QED
  BY <1>6, <1>7

Counted ==
  \A q \in 1..Len(listing) : \A c :
    Names(q, c) => Mentions(c) = IF q <= DoneUpTo THEN 1 ELSE 0

(* The state the coordinator shows as a CandidateCover. *)
Phase  == CASE pc = "idle" -> "none" [] pc = "done" -> "closed" [] OTHER -> "open"
Claims == IF pc = "idle" THEN << >> ELSE [c \in Wanted |-> Mentions(c)]

(* While routes and leaves stay, so does what is mentioned. *)
LEMMA SameClaims ==
  ASSUME UNCHANGED <<routes, leaves>>
  PROVE  Wanted' = Wanted /\ \A c : Mentions(c)' = Mentions(c)
<1>1. Wanted' = Wanted
  BY DEF Wanted
<1>2. \A t : Listed(t)' = Listed(t)
  BY SameListing DEF Listed
<1> QED
  BY <1>1, <1>2 DEF Mentions

(* A task done claims what it lists, and nothing that was claimed before. *)
LEMMA ClaimStep ==
  ASSUME IInv, Counted, Counted', pc # "idle", pc # "done", pc' # "idle", pc' # "done",
         NEW a \in Answers, AddLeaf(a)
  PROVE  Cover!Claim
<1>1. /\ RoutesOK /\ leaves \in Seq(LeafRecords) /\ AllLawful(DoneTasks)
  BY DEF IInv, Process, Coverage
<1>2. routes' = routes /\ listing' = listing /\ Wanted' = Wanted
  BY SameListing DEF AddLeaf, Wanted
<1>3. DoneUpTo \in Nat /\ current.lo = DoneUpTo + 1 /\ current.hi \in Nat /\ Lawful(current)
  BY CurrentTask DEF AddLeaf, TaskRecords
<1>4. DoneUpTo' = current.hi
  <2>1. /\ leaves \in Seq(LeafRecords) /\ Leaf(a, candidates(current)) \in LeafRecords
        /\ Leaf(a, candidates(current)).task = current
    BY <1>1, CurrentTask DEF Leaf, LeafRecords, AddLeaf
  <2>2. leaves' = Append(leaves, Leaf(a, candidates(current)))
    BY DEF AddLeaf
  <2>3. leaves' # <<>> /\ leaves'[Len(leaves')] = Leaf(a, candidates(current))
    BY <2>1, <2>2, AppendProperties
  <2> QED
    BY <2>1, <2>3 DEF DoneUpTo
<1>5. ASSUME NEW c \in Wanted
      PROVE  \E q \in 1..Len(listing) :
               /\ Mentions(c) = IF q <= DoneUpTo THEN 1 ELSE 0
               /\ Mentions(c)' = IF q <= current.hi THEN 1 ELSE 0
               /\ c \in Listed(current) <=> (current.lo <= q /\ q <= current.hi)
  <2>1. PICK q \in 1..Len(listing) : Names(q, c)
    BY <1>1, ListingNames
  <2>2. Mentions(c) = IF q <= DoneUpTo THEN 1 ELSE 0
    BY <2>1 DEF Counted
  <2>3. Names(q, c)' /\ q \in 1..Len(listing')
    BY <1>2, <2>1 DEF Names
  <2>5. Mentions(c)' = IF q <= DoneUpTo' THEN 1 ELSE 0
    BY <2>3 DEF Counted
  <2>6. c \in Listed(current) <=> (current.lo <= q /\ q <= current.hi)
    BY <1>1, <1>3, <2>1, ListedInterval
  <2> QED
    BY <1>4, <2>2, <2>5, <2>6
<1>6. current.lo <= current.hi + 1
  BY <1>3 DEF Lawful, LawfulIn
<1> DEFINE S == {c \in Wanted : Mentions(c) = 0 /\ c \in Listed(current)}
<1>7. \A c \in Wanted : Mentions(c)' = IF c \in S THEN 1 ELSE Mentions(c)
  <2> TAKE c \in Wanted
  <2>1. PICK q \in 1..Len(listing) :
               /\ Mentions(c) = IF q <= DoneUpTo THEN 1 ELSE 0
               /\ Mentions(c)' = IF q <= current.hi THEN 1 ELSE 0
               /\ c \in Listed(current) <=> (current.lo <= q /\ q <= current.hi)
    BY <1>5
  <2>2. Len(listing) \in Nat
    BY <1>1, RoutesType, ListingType
  <2> QED
    BY <1>3, <1>6, <2>1, <2>2
<1>8. Claims = [c \in Wanted |-> Mentions(c)] /\ Claims' = [c \in Wanted |-> Mentions(c)']
  BY <1>2 DEF Claims
<1>9. Phase = "open" /\ Phase' = "open"
  BY DEF Phase
<1>10. S \in SUBSET {c \in DOMAIN Claims : Claims[c] = 0}
  BY <1>8
<1>11. Claims' = [c \in DOMAIN Claims |-> IF c \in S THEN 1 ELSE Claims[c]]
  BY <1>7, <1>8
<1> QED
  BY <1>9, <1>10, <1>11 DEF Cover!Claim, Phase, Claims

(* The step of the coordinator, as a step of CandidateCover. *)
LEMMA CoverStep ==
  ASSUME IInv, IInv', Counted, Counted', [Next]_vars
  PROVE  [Cover!CoverNext]_<<Phase, Claims>>
<1>0. /\ RoutesOK /\ RoutesOK' /\ Len(listing) \in Nat
      /\ leaves \in Seq(LeafRecords) /\ pending \in Seq(TaskRecords)
      /\ Chain(pending, DoneUpTo + 1, EndBefore(turn))
      /\ pc \in {"idle", "work", "execute", "asking", "answered", "done"}
      /\ pc \in {"execute", "asking", "answered"} => pending # <<>>
      /\ pc = "done" => pending = <<>> /\ turn = 5
  BY RoutesType, ListingType, ApiGroupType DEF IInv, Process, Coverage
<1>1. CASE Launch
  <2>1. pc \in {"idle", "done"} /\ pc' = "work" /\ leaves' = <<>>
    BY <1>1 DEF Launch
  <2>2. Phase # "open" /\ Phase' = "open"
    BY <2>1 DEF Phase
  <2>3. \A c : Mentions(c)' = 0
    <3> TAKE c
    <3>1. {i \in DOMAIN leaves : c \in Listed(leaves[i].task)}' = {}
      <4>1. DOMAIN leaves' = {}
        BY <2>1
      <4> QED
        BY <4>1
    <3>2. Mentions(c)' = Cardinality({i \in DOMAIN leaves : c \in Listed(leaves[i].task)}')
      BY DEF Mentions
    <3> QED
      BY <3>1, <3>2, FS_EmptySet
  <2>4. Claims' = [c \in Wanted' |-> 0]
    BY <2>1, <2>3 DEF Claims
  <2>5. Wanted' \in SUBSET ({Web, API} \X Candidates)
    <3>1. /\ routes' \in Seq(Candidates) /\ ApiCandidates \in Seq(Candidates)
      <4>1. routes' = <<>> \/ routes' \in Worktrees
        BY <1>0 DEF RoutesOK
      <4>2. << >> \in Seq(Candidates)
        OBVIOUS
      <4>3. routes' \in Seq(Candidates)
        BY <4>1, <4>2, WorktreeType
      <4>4. ApiCandidates \in Seq(Candidates)
        BY <1>0, RoutesType, ListingType
      <4> QED
        BY <4>3, <4>4
    <3>2. \A s \in Seq(Candidates) : Range(s) \subseteq Candidates
      BY DEF Range
    <3>3. ApiCandidates' = ApiCandidates
      BY DEF ApiCandidates, ApiGroup, ApiGroupSize
    <3> QED
      BY <3>1, <3>2, <3>3 DEF Wanted
  <2>6. Cover!Open
    BY <2>2, <2>4, <2>5 DEF Cover!Open, Phase, Claims
  <2> QED
    BY <2>6 DEF Cover!CoverNext
<1>2. CASE RejectSplit \/ RejectCheckpoint \/ FailTask \/ Crash
  <2>1. pc \notin {"idle", "done"} /\ pc' = "idle"
    BY <1>2 DEF RejectSplit, RejectCheckpoint, FailTask, Crash, Stop, AtTask
  <2>2. Phase = "open" /\ Phase' = "none" /\ Claims' = << >>
    BY <2>1 DEF Phase, Claims
  <2>3. Cover!Abandon
    BY <2>2 DEF Cover!Abandon, Phase, Claims
  <2> QED
    BY <2>3 DEF Cover!CoverNext
<1>3. CASE Finish
  <2>1. /\ pc = "work" /\ pc' = "done" /\ pending = <<>> /\ turn = 5
        /\ UNCHANGED <<routes, leaves>>
    BY <1>3 DEF Finish, categoryOrder
  <2>2. Phase = "open" /\ Phase' = "closed"
    BY <2>1 DEF Phase
  <2>3. Claims = [c \in Wanted |-> Mentions(c)] /\ Claims' = Claims
    BY <2>1, SameClaims DEF Claims
  <2>4. DoneUpTo = Len(listing)
    <3>1. categoryOrder[5] # Web
      BY CategoriesType
    <3>2. DoneUpTo + 1 = EndBefore(5) + 1 /\ EndBefore(5) = Len(listing)
      BY <1>0, <2>1, <3>1 DEF Chain, EndBefore, End
    <3>3. DoneUpTo \in Int
      <4>1. leaves # <<>> => leaves[Len(leaves)] \in LeafRecords
        BY <1>0
      <4> QED
        BY <4>1 DEF DoneUpTo, LeafRecords, TaskRecords
    <3> QED
      BY <1>0, <3>2, <3>3
  <2>5. \A c \in Wanted : Mentions(c) = 1
    <3> TAKE c \in Wanted
    <3>1. PICK q \in 1..Len(listing) : Names(q, c)
      BY <1>0, ListingNames
    <3>2. q <= DoneUpTo
      BY <1>0, <2>4
    <3> QED
      BY <3>1, <3>2 DEF Counted
  <2>6. \A c \in DOMAIN Claims : Claims[c] = 1
    BY <2>3, <2>5
  <2>7. Cover!Close
    BY <2>2, <2>3, <2>6 DEF Cover!Close, Phase, Claims
  <2> QED
    BY <2>7 DEF Cover!CoverNext
<1>4. CASE ReuseCheckpoint \/ CompleteTask
  <2>1. /\ pc \notin {"idle", "done"} /\ pc' = "work" /\ pending # <<>>
    BY <1>0, <1>4 DEF ReuseCheckpoint, CompleteTask, AtTask
  <2>2. PICK a \in Answers : AddLeaf(a)
    <3>1. /\ id \in DOMAIN checkpoints /\ checkpoints[id].candidates = candidates(current)
      BY <1>4
      DEF ReuseCheckpoint, CompleteTask, AtTask, HasCheckpoint, SameCandidates, IInv, Files
    <3>2. checkpoints[id].answer \in Answers
      BY <3>1 DEF IInv, Files, CheckpointType
    <3> QED
      BY <1>4, <2>1, <3>1, <3>2 DEF ReuseCheckpoint, CompleteTask, AddLeaf
  <2> QED
    BY <2>1, <2>2, ClaimStep DEF Cover!CoverNext
<1>5. CASE \/ BeginCategory \/ FollowSplit \/ DropCheckpoint \/ BeginTask \/ SaveCheckpoint
           \/ SplitTask
  <2>1. pc \notin {"idle", "done"} /\ pc' \notin {"idle", "done"} /\ UNCHANGED <<routes, leaves>>
    BY <1>0, <1>5
    DEF BeginCategory, FollowSplit, DropCheckpoint, BeginTask, SaveCheckpoint, SplitTask, AtTask
  <2>2. Phase' = Phase
    BY <2>1 DEF Phase
  <2>3. Claims' = Claims
    BY <2>1, SameClaims DEF Claims
  <2> QED
    BY <2>2, <2>3
<1>6. CASE EditWorktree \/ UNCHANGED vars
  <2>1. UNCHANGED <<pc, routes, leaves>>
    BY <1>6 DEF EditWorktree, vars, process
  <2>2. Phase' = Phase
    BY <2>1 DEF Phase
  <2>3. Claims' = Claims
    BY <2>1, SameClaims DEF Claims
  <2> QED
    BY <2>2, <2>3
<1> QED
  BY <1>1, <1>2, <1>3, <1>4, <1>5, <1>6 DEF Next, Work

(* No candidate is merged twice, and the findings the coordinator hands on *)
(* leave none out: it implements CandidateCover, for any working tree, any *)
(* entities, and any sequence of splits, failures, crashes and resumptions *)
(* (coordinator.go, InvestigateWithOptions and executeCategoryShard).      *)
THEOREM ImplementsCandidateCover == Spec => CoversCandidates
<1>1. Init => Cover!CoverInit /\ Marks
  BY DEF Init, Cover!CoverInit, Marks, DoneUpTo
<1>2. IInv /\ Marks /\ [Next]_vars => Marks'
  BY MarksStep
<1>3. ASSUME IInv, Marks PROVE Counted
  <2>1. /\ RoutesOK /\ leaves \in Seq(LeafRecords) /\ AllLawful(DoneTasks)
    BY <1>3 DEF IInv, Process, Coverage
  <2>2. DoneUpTo \in Nat
    <3>1. leaves # <<>> => leaves[Len(leaves)] \in LeafRecords
      BY <2>1
    <3> QED
      BY <3>1 DEF DoneUpTo, LeafRecords, TaskRecords
  <2> QED
    BY <1>3, <2>1, <2>2, MentionsPosition DEF Counted
<1>4. IInv /\ IInv' /\ Counted /\ Counted' /\ [Next]_vars
        => [Cover!CoverNext]_Cover!coverVars
  BY CoverStep DEF Cover!coverVars, Phase, Claims
<1> QED
  BY Invariance, <1>1, <1>2, <1>3, <1>4, PTL DEF Spec, CoversCandidates, Cover!CoverSpec

-----------------------------------------------------------------------------
(* Nothing is asked twice: a process retraces, from the shard states and   *)
(* checkpoints, the way the run went before, and asks for the first time   *)
(* where that way ends.                                                    *)
(*                                                                         *)
(* The tasks of each category, for the routes in the working tree now.     *)
scanned == IF Web \in Applicable THEN worktree ELSE <<>>
Scan == INSTANCE SurfaceShards WITH routes <- scanned
plan == [c \in Categories |-> Scan!categoryTaskSpecs(c)]

(* They are those of a process that found these routes ...                 *)
LEMMA SamePlan ==
  ASSUME routes = scanned
  PROVE  \A c \in Categories : categoryTaskSpecs(c) = plan[c]
<1>1. \A g : Scan!ApiGroupSize(g) = ApiGroupSize(g)
  BY Zenon DEF ApiGroupSize, Scan!ApiGroupSize
<1>2. \A g : Scan!ApiGroup(g) = ApiGroup(g)
  BY <1>1, Zenon DEF ApiGroup, Scan!ApiGroup
<1>3. Scan!listing = listing
  BY <1>2, Zenon DEF listing, Scan!listing, ApiCandidates, Scan!ApiCandidates
<1>4. \A c : Scan!End(c) = End(c)
  BY <1>3, Zenon DEF End, Scan!End
<1>5. \A i, c, lo, hi, s, d : Scan!Task(i, c, lo, hi, s, d) = Task(i, c, lo, hi, s, d)
  BY Zenon DEF Task, Scan!Task
<1>6. \A a, b : Scan!Least(a, b) = Least(a, b)
  BY Zenon DEF Least, Scan!Least
<1>7. Scan!webTaskSpecs = webTaskSpecs
  BY <1>5, <1>6, Zenon DEF webTaskSpecs, Scan!webTaskSpecs
<1>8. \A g : Scan!ApiStart(g) = ApiStart(g)
  BY <1>1, Zenon DEF ApiStart, Scan!ApiStart
<1>9. Scan!apiTaskSpecs = apiTaskSpecs
  BY <1>1, <1>5, <1>6, <1>8, Zenon DEF apiTaskSpecs, Scan!apiTaskSpecs
<1>10. \A c \in Categories : categoryTaskSpecs(c) = Scan!categoryTaskSpecs(c)
  BY <1>4, <1>5, <1>7, <1>9, Zenon DEF categoryTaskSpecs, Scan!categoryTaskSpecs
<1> QED BY <1>10 DEF plan
(* ... and stay while the working tree does.                               *)
LEMMA KeepPlan ==
  ASSUME worktree' = worktree
  PROVE  plan' = plan
  BY DEF plan, scanned, Scan!categoryTaskSpecs, Scan!webTaskSpecs, Scan!apiTaskSpecs,
     Scan!Task, Scan!Least, Scan!ApiStart, Scan!End, Scan!listing, Scan!ApiCandidates,
     Scan!ApiGroup, Scan!ApiGroupSize

-----------------------------------------------------------------------------
(* Identifiers: a task is above another if its identifier is a proper      *)
(* prefix of the other's.                                                  *)
Above(a, b)  == Len(a) < Len(b) /\ \A n \in 1..Len(a) : a[n] = b[n]
Covers(a, b) == Len(a) <= Len(b) /\ \A n \in 1..Len(a) : a[n] = b[n]

(* What a further element makes of an identifier.                          *)
LEMMA PrefixLemma ==
  ASSUME NEW S, NEW a \in Seq(S), NEW b \in Seq(S), NEW x \in S, NEW y \in S
  PROVE  /\ Covers(a, a)
         /\ Above(a, Append(a, x)) /\ ~ Above(a, a)
         /\ Covers(Append(a, x), b) => Above(a, b)
         /\ Above(a, b) => Covers(a, b)
         /\ Above(a, b) => Above(a, Append(b, x))
         /\ Covers(b, Append(a, x)) => Covers(b, a) \/ Above(a, b)
         /\ x # y => ~ Covers(Append(a, x), Append(a, y))
         /\ Covers(a, b) /\ Len(a) = Len(b) => a = b
         /\ Covers(a, b) /\ a # <<>> => a[1] = b[1]
<1> DEFINE ax == Append(a, x)
           ay == Append(a, y)
           bx == Append(b, x)
<1>1. /\ Len(a) \in Nat /\ Len(b) \in Nat
      /\ Len(ax) = Len(a) + 1 /\ Len(ay) = Len(a) + 1 /\ Len(bx) = Len(b) + 1
      /\ \A n \in 1..Len(a) : ax[n] = a[n] /\ ay[n] = a[n]
      /\ \A n \in 1..Len(b) : bx[n] = b[n]
      /\ ax[Len(a) + 1] = x /\ ay[Len(a) + 1] = y
  OBVIOUS
<1>2. Covers(a, b) /\ Len(a) = Len(b) => a = b
  BY SeqEqual, Zenon DEF Covers
<1>3. Covers(a, b) /\ a # <<>> => a[1] = b[1]
  <2>1. a # <<>> => 1 \in 1..Len(a)
    OBVIOUS
  <2> QED
    BY <2>1 DEF Covers
<1> HIDE DEF ax, ay, bx
<1>a. Covers(a, a) /\ Above(a, ax) /\ ~ Above(a, a)
  BY <1>1 DEF Covers, Above
<1>b. Covers(ax, b) => Above(a, b)
  BY <1>1 DEF Covers, Above
<1>c. Above(a, b) => Covers(a, b)
  BY <1>1 DEF Covers, Above
<1>4. Above(a, b) => Above(a, bx)
  BY <1>1 DEF Above
<1>5. Covers(b, ax) => Covers(b, a) \/ Above(a, b)
  BY <1>1 DEF Covers, Above
<1>6. x # y => ~ Covers(ax, ay)
  <2>1. Len(a) + 1 \in 1..Len(ax)
    BY <1>1
  <2> QED
    BY <1>1, <2>1 DEF Covers
<1> QED
  BY <1>a, <1>b, <1>c, <1>2, <1>3, <1>4, <1>5, <1>6, Zenon DEF ax, ay, bx

-----------------------------------------------------------------------------
(* Where a process is, and where it gets to without asking anything: by    *)
(* the next category, by a task known to be split and by a checkpoint that *)
(* can be used.  `split' are the tasks recorded split, `saved' the         *)
(* checkpoints, `specs' the tasks of each category.                        *)
Place(k, ts, ls) == [turn |-> k, pending |-> ts, leaves |-> ls]

DueAfter(c, ls) ==
  \/ c \in Applicable
  \/ /\ c = Background
     /\ \E i \in DOMAIN ls : ls[i].task.category = CLI /\ ls[i].answer \in BackgroundAnswers

Given(ls) == {ls[i].answer : i \in DOMAIN ls}

(* The three ways on, and when each is taken.                              *)
First(p) == Head(p.pending)

Entered(specs, p) ==
  LET c == categoryOrder[p.turn + 1]
  IN  Place(p.turn + 1, IF DueAfter(c, p.leaves) THEN specs[c] ELSE <<>>, p.leaves)

Halved(p) ==
  Place(p.turn, splitCategoryTaskSpec(First(p)) \o Tail(p.pending), p.leaves)

Usable(saved, p) ==
  /\ First(p).id \in DOMAIN saved
  /\ saved[First(p).id].answer \in Accepted[Given(p.leaves)]

Taken(saved, p) ==
  Place(p.turn, Tail(p.pending),
        Append(p.leaves, [task     |-> First(p),
                          answer   |-> saved[First(p).id].answer,
                          askedFor |-> saved[First(p).id].candidates]))

Replays(split, saved, specs, p, q) ==
  \/ p.pending = <<>> /\ p.turn < 5 /\ q = Entered(specs, p)
  \/ p.pending # <<>> /\ First(p).id \in split /\ q = Halved(p)
  \/ /\ p.pending # <<>> /\ First(p).id \notin split
     /\ Usable(saved, p) /\ q = Taken(saved, p)

(* What is reached in any number of such steps.                            *)
Closed(split, saved, specs, P) ==
  \A p \in P : \A q : Replays(split, saved, specs, p, q) => q \in P

Leads(split, saved, specs, p, q) ==
  \A P : p \in P /\ Closed(split, saved, specs, P) => q \in P

(* A replay goes on where it is, and only in one way: it either is where   *)
(* it leads to or takes a step towards it.                                 *)
LEMMA ReplayFunctional ==
  ASSUME NEW split, NEW saved, NEW specs, NEW p, NEW q, NEW r,
         Replays(split, saved, specs, p, q), Replays(split, saved, specs, p, r)
  PROVE  q = r
  BY DEF Replays

(* It leads where it is, and on by each step of the replay.                *)
LEMMA LeadsStays ==
  ASSUME NEW split, NEW saved, NEW specs, NEW p
  PROVE  Leads(split, saved, specs, p, p)
  BY Zenon DEF Leads

(* One step further.                                                       *)
LEMMA LeadsOn ==
  ASSUME NEW split, NEW saved, NEW specs, NEW p, NEW q, NEW r,
         Leads(split, saved, specs, p, q), Replays(split, saved, specs, q, r)
  PROVE  Leads(split, saved, specs, p, r)
  BY Zenon DEF Leads, Closed

(* Where it leads elsewhere there is a step to take, and it leads on from  *)
(* there.                                                                  *)
LEMMA LeadsFrom ==
  ASSUME NEW split, NEW saved, NEW specs, NEW p, NEW r, Leads(split, saved, specs, p, r), r # p
  PROVE  /\ \E q : Replays(split, saved, specs, p, q)
         /\ \A q : Replays(split, saved, specs, p, q) => Leads(split, saved, specs, q, r)
<1>1. \E q : Replays(split, saved, specs, p, q)
  <2> SUFFICES ASSUME ~ \E q : Replays(split, saved, specs, p, q) PROVE FALSE
    OBVIOUS
  <2>1. p \in {p} /\ Closed(split, saved, specs, {p})
    BY Zenon DEF Closed
  <2>2. r \in {p}
    BY <2>1, Zenon DEF Leads
  <2> QED
    BY <2>2
<1>2. ASSUME NEW q, Replays(split, saved, specs, p, q), NEW P,
             q \in P, Closed(split, saved, specs, P)
      PROVE  r \in P
  <2>1. p \in P \cup {p} /\ Closed(split, saved, specs, P \cup {p})
    BY <1>2, ReplayFunctional, Zenon DEF Closed
  <2>2. r \in P \cup {p}
    BY <2>1, Zenon DEF Leads
  <2> QED
    BY <2>2
<1> QED
  BY <1>1, <1>2, Zenon DEF Leads

(* What the run directory gains takes no replay away, as long as a task    *)
(* that has a checkpoint is not recorded split.                            *)
LEMMA ReplayKept ==
  ASSUME NEW split, NEW saved, NEW specs, NEW split2, NEW saved2,
         split \subseteq split2, DOMAIN saved \subseteq DOMAIN saved2,
         \A i \in DOMAIN saved : saved2[i] = saved[i],
         \A i \in split2 : i \in DOMAIN saved => i \in split
  PROVE  \A p, q : Leads(split, saved, specs, p, q) => Leads(split2, saved2, specs, p, q)
<1>1. ASSUME NEW p, NEW q, Replays(split, saved, specs, p, q)
      PROVE  Replays(split2, saved2, specs, p, q)
  <2>1. CASE p.pending = <<>>
    BY <1>1, <2>1, Zenon DEF Replays
  <2>2. CASE p.pending # <<>> /\ First(p).id \in split
    BY <1>1, <2>2, Zenon DEF Replays
  <2>3. CASE p.pending # <<>> /\ First(p).id \notin split
    <3> DEFINE i == First(p).id
    <3>1. i \in DOMAIN saved /\ i \notin split2 /\ i \in DOMAIN saved2 /\ saved2[i] = saved[i]
      BY <1>1, <2>3 DEF Replays, Usable
    <3>2. Usable(saved2, p) /\ Taken(saved2, p) = Taken(saved, p)
      BY <1>1, <2>3, <3>1, Zenon DEF Replays, Usable, Taken
    <3> QED
      BY <1>1, <2>3, <3>1, <3>2, Zenon DEF Replays
  <2> QED
    BY <2>1, <2>2, <2>3
<1>2. \A P : Closed(split2, saved2, specs, P) => Closed(split, saved, specs, P)
  BY <1>1, Zenon DEF Closed
<1> QED
  BY <1>2, Zenon DEF Leads

-----------------------------------------------------------------------------
(* No task to do is, or is above, another task of this process, and each   *)
(* begins with the name of a category already entered.                     *)
Apart ==
  \A k \in 1..Len(pending) :
    /\ \A i \in 1..Len(leaves) : ~ Covers(pending[k].id, leaves[i].task.id)
    /\ \A j \in 1..Len(pending) : j # k => ~ Covers(pending[k].id, pending[j].id)

Among(i, n) == \E m \in 1..n : i[1] = categoryOrder[m]

Rooted ==
  /\ \A i \in 1..Len(leaves) : Among(leaves[i].task.id, turn)
  /\ \A k \in 1..Len(pending) : Among(pending[k].id, turn)

Named == Apart /\ Rooted

(* A group's task is named for the group.                                  *)
LEMMA GroupIds ==
  /\ \A g \in DOMAIN webTaskSpecs : webTaskSpecs[g].id = <<Web, g>>
  /\ \A g \in DOMAIN apiTaskSpecs : apiTaskSpecs[g].id = <<API, g>>
  BY DEF webTaskSpecs, apiTaskSpecs, Task

(* Tasks named for a category, or for its groups, are apart.               *)
LEMMA IdsApart ==
  ASSUME NEW c, NEW s,
         \/ Len(s) = 0
         \/ Len(s) = 1 /\ s[1].id = <<c>>
         \/ \A g \in 1..Len(s) : s[g].id = <<c, g>>
  PROVE  \A g \in 1..Len(s) :
           /\ s[g].id[1] = c
           /\ \A h \in 1..Len(s) : h # g => ~ Covers(s[g].id, s[h].id)
<1>1. CASE Len(s) = 0
  BY <1>1
<1>2. CASE Len(s) = 1 /\ s[1].id = <<c>>
  <2>1. \A g \in 1..Len(s) : g = 1
    BY <1>2
  <2>2. <<c>>[1] = c
    OBVIOUS
  <2> QED
    BY <1>2, <2>1, <2>2
<1>3. CASE \A g \in 1..Len(s) : s[g].id = <<c, g>>
  <2>1. \A g, h : Covers(<<c, g>>, <<c, h>>) => g = h
    <3> TAKE g, h
    <3>1. Len(<<c, g>>) = 2 /\ <<c, g>>[2] = g /\ <<c, h>>[2] = h
      OBVIOUS
    <3> QED
      BY <3>1 DEF Covers
  <2>2. \A g : <<c, g>>[1] = c
    OBVIOUS
  <2> QED
    BY <1>3, <2>1, <2>2, Zenon
<1> QED
  BY <1>1, <1>2, <1>3

(* No task of a category is, or is above, another one of it.               *)
LEMMA CategoryIds ==
  ASSUME RoutesOK, NEW k \in 0..4
  PROVE  LET c     == categoryOrder[k + 1]
             specs == IF Due(c) THEN categoryTaskSpecs(c) ELSE <<>>
         IN  \A g \in 1..Len(specs) :
               /\ specs[g].id[1] = c
               /\ \A h \in 1..Len(specs) : h # g => ~ Covers(specs[g].id, specs[h].id)
<1> DEFINE c == categoryOrder[k + 1]
           specs == IF Due(c) THEN categoryTaskSpecs(c) ELSE <<>>
           apart == \A g \in 1..Len(specs) :
                      /\ specs[g].id[1] = c
                      /\ \A h \in 1..Len(specs) : h # g => ~ Covers(specs[g].id, specs[h].id)
<1> SUFFICES apart
  OBVIOUS
<1>1. specs \in Seq(TaskRecords)
  <2> SUFFICES ASSUME NEW s, s = specs PROVE s \in Seq(TaskRecords)
    OBVIOUS
  <2> QED
    BY CategorySpecs
<1>2. \/ specs = <<>>
      \/ c = Web /\ specs = webTaskSpecs
      \/ c = API /\ specs = apiTaskSpecs
      \/ specs = <<Task(<<c>>, c, End(c) + 1, End(c), c = API, 0)>>
  BY Zenon DEF categoryTaskSpecs
<1> DEFINE t == Task(<<c>>, c, End(c) + 1, End(c), c = API, 0)
<1>3. t.id = <<c>>
  BY Zenon DEF Task
<1>4. specs = <<>> \/ (c = Web /\ specs = webTaskSpecs) \/ (c = API /\ specs = apiTaskSpecs)
      \/ specs = <<t>>
  BY <1>2, Zenon DEF t
<1> HIDE DEF specs, c, t
<1>5. \/ Len(specs) = 0
      \/ Len(specs) = 1 /\ specs[1].id = <<c>>
      \/ \A g \in 1..Len(specs) : specs[g].id = <<c, g>>
  <2>1. \A g \in 1..Len(specs) : g \in DOMAIN specs
    BY <1>1
  <2>2. Len(<<t>>) = 1 /\ <<t>>[1] = t
    OBVIOUS
  <2> QED
    BY <1>3, <1>4, <2>1, <2>2, GroupIds, Len(<<>>) = 0, Zenon
<1> QED
  BY <1>5, IdsApart, Zenon

(* Every step keeps the tasks of a process apart. *)
LEMMA NamedStep ==
  ASSUME IInv, Named, [Next]_vars
  PROVE  Named'
<1>0. /\ pending \in Seq(TaskRecords) /\ leaves \in Seq(LeafRecords) /\ turn \in 0..5
      /\ RoutesOK /\ AllLawful(pending) /\ AllLawful(DoneTasks)
  BY DEF IInv, Process, Coverage
<1>a. /\ \A k \in 1..Len(pending) :
           pending[k].id \in Seq(Categories \cup Nat) /\ pending[k].id # <<>>
      /\ \A i \in 1..Len(leaves) :
           leaves[i].task.id \in Seq(Categories \cup Nat) /\ leaves[i].task.id # <<>>
      /\ \A i \in DOMAIN leaves : i \in 1..Len(leaves)
  <2>1. DOMAIN leaves = 1..Len(leaves) /\ Len(leaves) \in Nat
    BY <1>0
  <2>2. Len(DoneTasks) = Len(leaves) /\ \A i \in 1..Len(leaves) : DoneTasks[i] = leaves[i].task
    BY <2>1 DEF DoneTasks
  <2>3. /\ \A k \in 1..Len(pending) : Lawful(pending[k])
        /\ \A i \in 1..Len(leaves) : Lawful(leaves[i].task)
    BY <1>0, <2>2 DEF AllLawful
  <2> QED
    BY <2>1, <2>3 DEF Lawful, LawfulIn, TaskRecords
<1>1. CASE KeepTasks
  BY <1>1 DEF KeepTasks, Named, Apart, Rooted, Among
<1>2. CASE DropTasks
  BY <1>2 DEF DropTasks, Named, Apart, Rooted, Among
<1>3. CASE AddCategory
  <2>1. /\ pending = <<>> /\ turn \in 0..4 /\ turn' = turn + 1 /\ leaves' = leaves
        /\ pending' = IF Due(categoryOrder[turn + 1])
                      THEN categoryTaskSpecs(categoryOrder[turn + 1]) ELSE <<>>
    BY <1>0, <1>3 DEF AddCategory
  <2>2. pending' \in Seq(TaskRecords) /\ AllLawful(pending')
    BY <1>0, <2>1, CategorySpecs
  <2>3. \A g \in 1..Len(pending') :
          /\ pending'[g].id[1] = categoryOrder[turn + 1]
          /\ \A h \in 1..Len(pending') : h # g => ~ Covers(pending'[g].id, pending'[h].id)
    BY <1>0, <2>1, CategoryIds
  <2>4. \A m \in 1..turn : categoryOrder[m] # categoryOrder[turn + 1]
    <3>1. Len(categoryOrder) = 5 /\ DOMAIN categoryOrder = 1..5 /\ Distinct(categoryOrder)
      BY SurfaceAssumption DEF categoryOrder
    <3>2. \A m \in 1..turn : m \in 1..5 /\ turn + 1 \in 1..5 /\ m # turn + 1
      BY <2>1
    <3> QED
      BY <3>1, <3>2 DEF Distinct
  <2>5. \A g \in 1..Len(pending') :
          pending'[g].id \in Seq(Categories \cup Nat) /\ pending'[g].id # <<>>
    BY <2>2 DEF AllLawful, Lawful, LawfulIn, TaskRecords
  <2>6. ASSUME NEW g \in 1..Len(pending'), NEW i \in 1..Len(leaves)
        PROVE  ~ Covers(pending'[g].id, leaves[i].task.id)
    <3> DEFINE a == pending'[g].id
               b == leaves[i].task.id
    <3>1. /\ a \in Seq(Categories \cup Nat) /\ a # <<>> /\ b \in Seq(Categories \cup Nat)
          /\ a[1] = categoryOrder[turn + 1] /\ Among(b, turn)
      BY <1>a, <2>3, <2>5 DEF Named, Rooted
    <3> HIDE DEF a, b
    <3>2. a[1] # b[1]
      BY <2>4, <3>1 DEF Among
    <3>3. ~ Covers(a, b)
      <4>1. 1 \in Categories \cup Nat
        OBVIOUS
      <4> QED
        BY <3>1, <3>2, <4>1, PrefixLemma
    <3> QED
      BY <3>3 DEF a, b
  <2>7. Apart'
    BY <2>1, <2>3, <2>6 DEF Apart
  <2>8. \A i : Among(i, turn) => Among(i, turn')
    BY <2>1 DEF Among
  <2>9. \A g \in 1..Len(pending') : Among(pending'[g].id, turn')
    <3>1. \A i : i[1] = categoryOrder[turn + 1] => Among(i, turn')
      BY <2>1 DEF Among
    <3> QED
      BY <2>3, <3>1
  <2>10. \A i \in 1..Len(leaves) : Among(leaves[i].task.id, turn)
    BY DEF Named, Rooted
  <2>11. Rooted'
    BY <2>1, <2>8, <2>9, <2>10 DEF Rooted
  <2> QED
    BY <2>7, <2>11 DEF Named
<1>4. CASE SplitCurrent
  <2> DEFINE rest == Tail(pending)
             a == Append(current.id, 1)
             b == Append(current.id, 2)
  <2>1. /\ pending # <<>> /\ pending' = splitCategoryTaskSpec(current) \o rest
        /\ leaves' = leaves /\ turn' = turn
    BY <1>4 DEF SplitCurrent
  <2>2. /\ rest \in Seq(TaskRecords) /\ Len(rest) = Len(pending) - 1 /\ Len(pending) \in Nat
        /\ Len(pending) >= 1 /\ current = pending[1]
        /\ \A n \in 1..Len(rest) : rest[n] = pending[n + 1]
    BY <1>0, <2>1, HeadTailProperties DEF current
  <2>3. /\ Len(pending') = Len(pending) + 1
        /\ pending'[1].id = a /\ pending'[2].id = b
        /\ \A n \in 3..(Len(pending) + 1) : pending'[n] = pending[n - 1]
    <3> DEFINE two == splitCategoryTaskSpec(current)
    <3>1. Len(two) = 2 /\ two[1].id = a /\ two[2].id = b
      BY DEF splitCategoryTaskSpec, Task
    <3>a. two \in Seq(TaskRecords)
      <4>1. Lawful(current) /\ current.depth < MaxShardDepth /\ Len(current.id) >= 2
        BY <1>4, CurrentTask DEF SplitCurrent
      <4> QED
        BY <1>0, <4>1, SplitLawful
    <3> HIDE DEF two, rest, a, b
    <3>2. /\ Len(two \o rest) = 2 + Len(rest)
          /\ \A n \in 1..(2 + Len(rest)) : (two \o rest)[n] = IF n <= 2 THEN two[n] ELSE rest[n - 2]
      <4>1. /\ two \o rest \in Seq(TaskRecords) /\ Len(two \o rest) = Len(two) + Len(rest)
            /\ \A n \in 1..(Len(two) + Len(rest)) :
                 (two \o rest)[n] = IF n <= Len(two) THEN two[n] ELSE rest[n - Len(two)]
        BY <2>2, <3>a, ConcatProperties
      <4> QED
        BY <3>1, <4>1
    <3>3. /\ 1 \in 1..(2 + Len(rest)) /\ 2 \in 1..(2 + Len(rest)) /\ 2 + Len(rest) = Len(pending) + 1
          /\ \A n \in 3..(Len(pending) + 1) :
               /\ n \in 1..(2 + Len(rest)) /\ ~ (n <= 2) /\ n - 2 \in 1..Len(rest)
               /\ (n - 2) + 1 = n - 1
      BY <2>2
    <3>4. pending' = two \o rest
      BY <2>1 DEF two
    <3>5. \A n \in 3..(Len(pending) + 1) : pending'[n] = pending[n - 1]
      BY <2>2, <3>2, <3>3, <3>4, Zenon
    <3>6. pending'[1] = two[1] /\ pending'[2] = two[2]
      BY <3>2, <3>3, <3>4
    <3> QED
      BY <3>1, <3>2, <3>3, <3>4, <3>5, <3>6
  <2>4. 1 \in 1..Len(pending) /\ current.id \in Seq(Categories \cup Nat) /\ current.id # <<>>
    BY <1>a, <2>2
  <2> HIDE DEF rest
  <2>5. ASSUME NEW o \in Seq(Categories \cup Nat)
        PROVE  /\ ~ Covers(current.id, o) => ~ Covers(a, o) /\ ~ Covers(b, o)
               /\ ~ Covers(current.id, o) /\ ~ Covers(o, current.id)
                    => ~ Covers(o, a) /\ ~ Covers(o, b)
               /\ ~ Covers(a, b) /\ ~ Covers(b, a)
               /\ a[1] = current.id[1] /\ b[1] = current.id[1]
    <3>1. 1 \in Categories \cup Nat /\ 2 \in Categories \cup Nat /\ 1 # 2
      OBVIOUS
    <3>2. a[1] = current.id[1] /\ b[1] = current.id[1]
      BY <2>4
    <3>3. /\ Covers(a, o) => Above(current.id, o)
          /\ Covers(b, o) => Above(current.id, o)
          /\ Above(current.id, o) => Covers(current.id, o)
          /\ Covers(o, a) => Covers(o, current.id) \/ Above(current.id, o)
          /\ Covers(o, b) => Covers(o, current.id) \/ Above(current.id, o)
          /\ ~ Covers(a, b) /\ ~ Covers(b, a)
      BY <2>4, <3>1, PrefixLemma
    <3> QED
      BY <3>2, <3>3
  <2> HIDE DEF a, b
  <2>6. \A n \in 2..Len(pending) :
          /\ n \in 1..Len(pending) /\ n # 1
          /\ pending[n].id \in Seq(Categories \cup Nat)
          /\ ~ Covers(current.id, pending[n].id) /\ ~ Covers(pending[n].id, current.id)
    BY <1>a, <2>2, <2>4 DEF Named, Apart
  <2>7. \A i \in 1..Len(leaves) :
          /\ leaves[i].task.id \in Seq(Categories \cup Nat)
          /\ ~ Covers(current.id, leaves[i].task.id)
    BY <1>a, <2>2, <2>4 DEF Named, Apart
  <2>8. \A k \in 1..Len(pending') :
          \/ k = 1 \/ k = 2
          \/ /\ k \in 3..(Len(pending) + 1) /\ k - 1 \in 2..Len(pending)
             /\ pending'[k] = pending[k - 1]
    BY <2>2, <2>3
  <2>9. ASSUME NEW k \in 1..Len(pending'), NEW i \in 1..Len(leaves)
        PROVE  ~ Covers(pending'[k].id, leaves[i].task.id)
    <3>1. ~ Covers(a, leaves[i].task.id) /\ ~ Covers(b, leaves[i].task.id)
      BY <2>5, <2>7
    <3>2. \A n \in 2..Len(pending) : ~ Covers(pending[n].id, leaves[i].task.id)
      BY <2>6 DEF Named, Apart
    <3> QED
      BY <2>3, <2>8, <3>1, <3>2
  <2>10. ASSUME NEW k \in 1..Len(pending'), NEW j \in 1..Len(pending'), j # k
         PROVE  ~ Covers(pending'[k].id, pending'[j].id)
    <3>1. \A n \in 2..Len(pending) :
            /\ ~ Covers(a, pending[n].id) /\ ~ Covers(b, pending[n].id)
            /\ ~ Covers(pending[n].id, a) /\ ~ Covers(pending[n].id, b)
      BY <2>5, <2>6
    <3>2. \A m, n \in 2..Len(pending) : m # n => ~ Covers(pending[m].id, pending[n].id)
      BY <2>6 DEF Named, Apart
    <3>3. ~ Covers(a, b) /\ ~ Covers(b, a)
      BY <2>4, <2>5
    <3>4. CASE k \in {1, 2} /\ j \in {1, 2}
      BY <2>3, <2>10, <3>3, <3>4
    <3>5. CASE k \in {1, 2} /\ j \notin {1, 2}
      BY <2>3, <2>8, <3>1, <3>5
    <3>6. CASE k \notin {1, 2} /\ j \in {1, 2}
      BY <2>3, <2>8, <3>1, <3>6
    <3>7. CASE k \notin {1, 2} /\ j \notin {1, 2}
      <4>1. /\ pending'[k] = pending[k - 1] /\ pending'[j] = pending[j - 1]
            /\ k - 1 \in 2..Len(pending) /\ j - 1 \in 2..Len(pending) /\ k - 1 # j - 1
        BY <2>8, <2>10, <3>7
      <4> QED
        BY <3>2, <4>1, Zenon
    <3> QED
      BY <3>4, <3>5, <3>6, <3>7
  <2>11. Rooted'
    <3>1. \A i : Among(i, turn') <=> Among(i, turn)
      BY <2>1 DEF Among
    <3>2. Among(a, turn) /\ Among(b, turn)
      <4>1. a[1] = current.id[1] /\ b[1] = current.id[1]
        BY <2>4, <2>5
      <4> QED
        BY <2>2, <2>4, <4>1 DEF Named, Rooted, Among
    <3>3. \A n \in 2..Len(pending) : Among(pending[n].id, turn)
      BY <2>6 DEF Named, Rooted
    <3>4. \A k \in 1..Len(pending') : Among(pending'[k].id, turn)
      BY <2>3, <2>8, <3>2, <3>3
    <3> QED
      BY <2>1, <3>1, <3>4 DEF Named, Rooted
  <2> QED
    BY <2>1, <2>9, <2>10, <2>11 DEF Named, Apart
<1>5. ASSUME NEW x \in Answers, AddLeaf(x) PROVE Named'
  <2> DEFINE leaf == Leaf(x, candidates(current))
  <2>1. /\ pending # <<>> /\ pending' = Tail(pending) /\ leaves' = Append(leaves, leaf)
        /\ turn' = turn
    BY <1>5 DEF AddLeaf
  <2>2. /\ Len(pending') = Len(pending) - 1 /\ Len(pending) \in Nat /\ Len(pending) >= 1
        /\ current = pending[1]
        /\ \A n \in 1..Len(pending') : pending'[n] = pending[n + 1]
    BY <1>0, <2>1, HeadTailProperties DEF current
  <2>3. leaf.task = current
    BY DEF Leaf
  <2> HIDE DEF leaf
  <2>4. /\ Len(leaves') = Len(leaves) + 1 /\ Len(leaves) \in Nat
        /\ \A i \in 1..Len(leaves) : leaves'[i] = leaves[i]
        /\ leaves'[Len(leaves) + 1] = leaf
    BY <1>0, <2>1
  <2>5. \A i \in 1..Len(leaves') : i \in 1..Len(leaves) \/ leaves'[i].task = current
    BY <2>3, <2>4
  <2>6. \A n \in 1..Len(pending') :
          n + 1 \in 1..Len(pending) /\ n + 1 # 1 /\ 1 \in 1..Len(pending)
    BY <2>2
  <2>7. ASSUME NEW k \in 1..Len(pending'), NEW i \in 1..Len(leaves')
        PROVE  ~ Covers(pending'[k].id, leaves'[i].task.id)
    <3>1. ~ Covers(pending[k + 1].id, current.id)
      BY <2>2, <2>6 DEF Named, Apart
    <3>2. \A l \in 1..Len(leaves) : ~ Covers(pending[k + 1].id, leaves[l].task.id)
      BY <2>6 DEF Named, Apart
    <3> QED
      BY <2>2, <2>4, <2>5, <3>1, <3>2
  <2>8. ASSUME NEW k \in 1..Len(pending'), NEW j \in 1..Len(pending'), j # k
        PROVE  ~ Covers(pending'[k].id, pending'[j].id)
    <3>1. k + 1 # j + 1
      BY <2>2, <2>8
    <3> QED
      BY <2>2, <2>6, <3>1 DEF Named, Apart
  <2>9. Rooted'
    <3>1. \A i : Among(i, turn') <=> Among(i, turn)
      BY <2>1 DEF Among
    <3>2. \A k \in 1..Len(pending') : Among(pending'[k].id, turn)
      BY <2>2, <2>6 DEF Named, Rooted
    <3>3. Among(current.id, turn)
      <4>1. 1 \in 1..Len(pending)
        BY <2>2
      <4> QED
        BY <2>2, <4>1 DEF Named, Rooted
    <3>4. \A i \in 1..Len(leaves') : Among(leaves'[i].task.id, turn)
      BY <2>4, <2>5, <3>3 DEF Named, Rooted
    <3> QED
      BY <3>1, <3>2, <3>4 DEF Rooted
  <2> QED
    BY <2>7, <2>8, <2>9 DEF Named, Apart
<1> QED
  BY <1>1, <1>2, <1>3, <1>4, <1>5, TaskSteps

-----------------------------------------------------------------------------
(* A task recorded split, and a task of this place that it is above.       *)
Below(s, p) ==
  \/ \E k \in 1..Len(p.leaves) : Above(s, p.leaves[k].task.id)
  \/ \E k \in 1..Len(p.pending) : Above(s, p.pending[k].id)

(* From p to q no answer is lost, and no task but to its halves.           *)
Onward(p, q) ==
  /\ \A k \in DOMAIN p.leaves : k \in DOMAIN q.leaves /\ q.leaves[k] = p.leaves[k]
  /\ \A s \in Seq(Categories \cup Nat) : Below(s, p) => Below(s, q)

here  == Place(turn, pending, leaves)
start == Place(0, <<>>, <<>>)

(* A process that goes on loses no answer, and no task but to its halves. *)
LEMMA GoesOn ==
  ASSUME IInv, AddCategory \/ SplitCurrent \/ \E a \in Answers : AddLeaf(a)
  PROVE  /\ Onward(here, here')
         /\ SplitCurrent => Below(id, here') /\ id \in Seq(Categories \cup Nat)
<1>0. /\ pending \in Seq(TaskRecords) /\ leaves \in Seq(LeafRecords)
      /\ RoutesOK /\ AllLawful(pending)
      /\ DOMAIN leaves = 1..Len(leaves) /\ Len(leaves) \in Nat
      /\ \A k \in 1..Len(pending) : pending[k].id \in Seq(Categories \cup Nat)
  <2>1. pending \in Seq(TaskRecords) /\ leaves \in Seq(LeafRecords) /\ RoutesOK /\ AllLawful(pending)
    BY DEF IInv, Process, Coverage
  <2>2. \A k \in 1..Len(pending) : pending[k] \in TaskRecords
    BY <2>1
  <2>3. \A t \in TaskRecords : t.id \in Seq(Categories \cup Nat)
    BY DEF TaskRecords
  <2> QED
    BY <2>1, <2>2, <2>3
<1>a. here.pending = pending /\ here.leaves = leaves
  BY DEF here, Place
<1>b. here'.pending = pending' /\ here'.leaves = leaves'
  BY DEF here, Place
<1> HIDE DEF here
<1>1. ASSUME AddCategory PROVE Onward(here, here')
  <2>1. pending = <<>> /\ leaves' = leaves
    BY <1>1 DEF AddCategory
  <2>2. Len(pending) = 0
    BY <2>1
  <2> QED
    BY <1>a, <1>b, <2>1, <2>2 DEF Onward, Below
<1>2. ASSUME SplitCurrent
      PROVE  Onward(here, here') /\ Below(id, here') /\ id \in Seq(Categories \cup Nat)
  <2> DEFINE rest == Tail(pending)
             a == Append(current.id, 1)
             two == splitCategoryTaskSpec(current)
  <2>1. pending # <<>> /\ pending' = two \o rest /\ leaves' = leaves
    BY <1>2 DEF SplitCurrent
  <2>2. /\ rest \in Seq(TaskRecords) /\ Len(rest) = Len(pending) - 1 /\ Len(pending) \in Nat
        /\ Len(pending) >= 1 /\ current = pending[1]
        /\ \A n \in 1..Len(rest) : rest[n] = pending[n + 1]
    BY <1>0, <2>1, HeadTailProperties DEF current
  <2>3. Len(two) = 2 /\ two[1].id = a
    BY DEF splitCategoryTaskSpec, Task
  <2>4. two \in Seq(TaskRecords)
    <3>1. Lawful(current) /\ current.depth < MaxShardDepth /\ Len(current.id) >= 2
      BY <1>2, CurrentTask DEF SplitCurrent
    <3> QED
      BY <1>0, <3>1, SplitLawful
  <2>5. current.id \in Seq(Categories \cup Nat)
    BY <1>0, <2>2
  <2>6. /\ Above(current.id, a)
        /\ \A s \in Seq(Categories \cup Nat) : Above(s, current.id) => Above(s, a)
    <3>1. 1 \in Categories \cup Nat
      OBVIOUS
    <3> QED
      BY <2>5, <3>1, PrefixLemma
  <2> HIDE DEF two, rest, a
  <2>7. /\ Len(pending') = 2 + Len(rest)
        /\ \A n \in 1..(2 + Len(rest)) : pending'[n] = IF n <= 2 THEN two[n] ELSE rest[n - 2]
    <3>1. /\ two \o rest \in Seq(TaskRecords) /\ Len(two \o rest) = Len(two) + Len(rest)
          /\ \A n \in 1..(Len(two) + Len(rest)) :
               (two \o rest)[n] = IF n <= Len(two) THEN two[n] ELSE rest[n - Len(two)]
      BY <2>2, <2>4, ConcatProperties
    <3> QED
      BY <2>1, <2>3, <3>1
  <2>8. 1 \in 1..Len(pending') /\ pending'[1].id = a
    BY <2>2, <2>3, <2>7
  <2>9. ASSUME NEW k \in 1..Len(pending), k # 1
        PROVE  k + 1 \in 1..Len(pending') /\ pending'[k + 1] = pending[k]
    <3>1. /\ k + 1 \in 1..(2 + Len(rest)) /\ ~ (k + 1 <= 2) /\ (k + 1) - 2 = k - 1
          /\ k - 1 \in 1..Len(rest) /\ (k - 1) + 1 = k
      BY <2>2, <2>9
    <3> QED
      BY <2>2, <2>7, <3>1
  <2>10. \A s \in Seq(Categories \cup Nat) : Below(s, here) => Below(s, here')
    <3> SUFFICES ASSUME NEW s \in Seq(Categories \cup Nat), Below(s, here)
                 PROVE  Below(s, here')
      OBVIOUS
    <3>1. CASE \E k \in 1..Len(leaves) : Above(s, leaves[k].task.id)
      BY <1>b, <2>1, <3>1 DEF Below
    <3>2. ASSUME NEW k \in 1..Len(pending), Above(s, pending[k].id)
          PROVE  Below(s, here')
      <4>1. CASE k = 1
        BY <1>b, <2>2, <2>6, <2>8, <3>2, <4>1 DEF Below
      <4>2. CASE k # 1
        BY <1>b, <2>9, <3>2, <4>2 DEF Below
      <4> QED
        BY <4>1, <4>2
    <3> QED
      BY <1>a, <3>1, <3>2 DEF Below
  <2>11. Below(current.id, here')
    BY <1>b, <2>6, <2>8 DEF Below
  <2> QED
    BY <1>a, <1>b, <2>1, <2>5, <2>10, <2>11 DEF Onward, id
<1>3. ASSUME NEW x \in Answers, AddLeaf(x) PROVE Onward(here, here')
  <2> DEFINE leaf == Leaf(x, candidates(current))
  <2>1. /\ pending # <<>> /\ pending' = Tail(pending) /\ leaves' = Append(leaves, leaf)
    BY <1>3 DEF AddLeaf
  <2>2. /\ Len(pending') = Len(pending) - 1 /\ Len(pending) \in Nat /\ Len(pending) >= 1
        /\ current = pending[1]
        /\ \A n \in 1..Len(pending') : pending'[n] = pending[n + 1]
    BY <1>0, <2>1, HeadTailProperties DEF current
  <2>3. leaf.task = current
    BY DEF Leaf
  <2> HIDE DEF leaf
  <2>4. /\ Len(leaves') = Len(leaves) + 1 /\ Len(leaves) + 1 \in 1..Len(leaves')
        /\ DOMAIN leaves' = 1..Len(leaves')
        /\ \A i \in 1..Len(leaves) : i \in 1..Len(leaves') /\ leaves'[i] = leaves[i]
        /\ leaves'[Len(leaves) + 1] = leaf
    BY <1>0, <2>1
  <2>5. \A k \in 1..Len(pending) :
          k = 1 \/ (k - 1 \in 1..Len(pending') /\ pending'[k - 1] = pending[k])
    <3> TAKE k \in 1..Len(pending)
    <3>1. k # 1 => k - 1 \in 1..Len(pending') /\ (k - 1) + 1 = k
      BY <2>2
    <3> QED
      BY <2>2, <3>1
  <2>6. \A s : Below(s, here) => Below(s, here')
    <3> SUFFICES ASSUME NEW s, Below(s, here) PROVE Below(s, here')
      OBVIOUS
    <3>1. ASSUME NEW k \in 1..Len(leaves), Above(s, leaves[k].task.id)
          PROVE  Below(s, here')
      BY <1>b, <2>4, <3>1 DEF Below
    <3>2. ASSUME NEW k \in 1..Len(pending), Above(s, pending[k].id)
          PROVE  Below(s, here')
      <4>1. CASE k = 1
        BY <1>b, <2>2, <2>3, <2>4, <3>2, <4>1 DEF Below
      <4>2. CASE k # 1
        <5>1. k - 1 \in 1..Len(pending') /\ pending'[k - 1] = pending[k]
          BY <2>5, <4>2
        <5> QED
          BY <1>b, <3>2, <5>1 DEF Below
      <4> QED
        BY <4>1, <4>2
    <3> QED
      BY <1>a, <3>1, <3>2 DEF Below
  <2> QED
    BY <1>0, <1>a, <1>b, <2>4, <2>6 DEF Onward
<1>4. SplitCurrent => Below(id, here') /\ id \in Seq(Categories \cup Nat)
  BY <1>2
<1> QED
  BY <1>1, <1>2, <1>3, <1>4

-----------------------------------------------------------------------------
(* The end of the replay: all a checkpoint answers is merged there, every  *)
(* split lies above a task of it, and whoever is at work is on the way to  *)
(* it.  A process asks only when it is there.                              *)
splits == {i \in DOMAIN states : states[i].status = "split"}

FrontAt(F) ==
  /\ Leads(splits, checkpoints, plan, start, F)
  /\ pc # "idle" => Leads(splits, checkpoints, plan, here, F)
  /\ \A i \in DOMAIN checkpoints : \E k \in DOMAIN F.leaves :
       F.leaves[k].task.id = i /\ F.leaves[k].askedFor = checkpoints[i].candidates
  /\ \A s \in splits : s \in Seq(Categories \cup Nat) /\ Below(s, F)
  /\ pc = "asking" \/ (~ resume /\ pc \in {"work", "done"}) => F = here
  /\ pc = "answered" => F = Taken(checkpoints, here)
  /\ ~ started => F = start

Frontier ==
  edits = 0 =>
    /\ pc # "execute" /\ (pc # "idle" => started /\ routes = scanned)
    /\ \E F : FrontAt(F)

(* The parts of the place where the process is.                            *)
LEMMA HereFields ==
  /\ here.turn = turn /\ here.pending = pending /\ here.leaves = leaves
  /\ First(here) = current /\ start' = start
  BY DEF here, Place, First, current, start

(* Where the replay cannot go on past the next task, it has ended. *)
LEMMA Stuck ==
  ASSUME NEW F, Leads(splits, checkpoints, plan, here, F),
         pending # <<>>, id \notin splits, ~ Usable(checkpoints, here)
  PROVE  F = here
<1> SUFFICES ASSUME F # here PROVE FALSE
  OBVIOUS
<1>1. PICK q : Replays(splits, checkpoints, plan, here, q)
  BY LeadsFrom
<1> QED
  BY <1>1, HereFields, Zenon DEF Replays, id

(* Where it has ended, the next task is new to the run directory. *)
LEMMA Settled ==
  ASSUME IInv, Named, pending # <<>>, FrontAt(here)
  PROVE  id \notin DOMAIN checkpoints /\ id \notin splits
<1>1. /\ pending \in Seq(TaskRecords) /\ leaves \in Seq(LeafRecords)
      /\ DOMAIN leaves = 1..Len(leaves)
      /\ 1 \in 1..Len(pending) /\ current = pending[1]
      /\ current.id \in Seq(Categories \cup Nat)
  <2>1. pending \in Seq(TaskRecords) /\ leaves \in Seq(LeafRecords)
    BY DEF IInv, Coverage
  <2>2. /\ DOMAIN leaves = 1..Len(leaves) /\ 1 \in 1..Len(pending) /\ current = pending[1]
    BY <2>1, HeadTailProperties DEF current
  <2>3. current.id \in Seq(Categories \cup Nat)
    BY CurrentTask DEF TaskRecords
  <2> QED
    BY <2>1, <2>2, <2>3
<1>2. Covers(current.id, current.id) /\ ~ Above(current.id, current.id)
  <2>1. 1 \in Categories \cup Nat
    OBVIOUS
  <2> QED
    BY <1>1, <2>1, PrefixLemma
<1>3. /\ \A i \in 1..Len(leaves) : ~ Covers(current.id, leaves[i].task.id)
      /\ \A j \in 1..Len(pending) : j # 1 => ~ Covers(current.id, pending[j].id)
  BY <1>1 DEF Named, Apart
<1>4. id \notin DOMAIN checkpoints
  <2> SUFFICES ASSUME id \in DOMAIN checkpoints PROVE FALSE
    OBVIOUS
  <2>1. PICK k \in DOMAIN leaves : leaves[k].task.id = id
    BY HereFields DEF FrontAt
  <2> QED
    BY <1>1, <1>2, <1>3, <2>1 DEF id
<1>5. id \notin splits
  <2> SUFFICES ASSUME Below(current.id, here) PROVE FALSE
    BY DEF FrontAt, id
  <2>1. \A b : Above(current.id, b) => Covers(current.id, b)
    BY <1>1 DEF Above, Covers
  <2> QED
    BY <1>1, <1>2, <1>3, <2>1, HereFields DEF Below
<1> QED
  BY <1>4, <1>5

(* The process takes a step of the replay. *)
LEMMA MoveOn ==
  ASSUME NEW F, FrontAt(F), started, pc = "work", pc' = "work",
         UNCHANGED <<plan, splits, checkpoints, resume, started>>, Onward(here, here'),
         Replays(splits, checkpoints, plan, here, here')
  PROVE  \E G : FrontAt(G)'
<1>1. PICK r : r = here'
  OBVIOUS
<1>2. start' = start /\ Leads(splits, checkpoints, plan, r, r)
  BY HereFields, LeadsStays
<1>3. CASE F = here
  <2>1. Leads(splits, checkpoints, plan, start, r)
    BY <1>1, <1>3, LeadsOn DEF FrontAt
  <2>2. \A i \in DOMAIN checkpoints : \E k \in DOMAIN r.leaves :
          r.leaves[k].task.id = i /\ r.leaves[k].askedFor = checkpoints[i].candidates
    <3>1. /\ \A i \in DOMAIN checkpoints : \E k \in DOMAIN here.leaves :
               here.leaves[k].task.id = i /\ here.leaves[k].askedFor = checkpoints[i].candidates
          /\ \A k \in DOMAIN here.leaves : k \in DOMAIN r.leaves /\ r.leaves[k] = here.leaves[k]
      BY <1>1, <1>3 DEF FrontAt, Onward
    <3> TAKE i \in DOMAIN checkpoints
    <3>2. PICK k \in DOMAIN here.leaves :
            here.leaves[k].task.id = i /\ here.leaves[k].askedFor = checkpoints[i].candidates
      BY <3>1
    <3> QED
      BY <3>1, <3>2
  <2>3. \A s \in splits : s \in Seq(Categories \cup Nat) /\ Below(s, r)
    BY <1>1, <1>3, Zenon DEF FrontAt, Onward
  <2>4. FrontAt(r)'
    BY <1>1, <1>2, <2>1, <2>2, <2>3 DEF FrontAt
  <2> QED
    BY <2>4
<1>4. CASE F # here
  <2>1. Leads(splits, checkpoints, plan, r, F)
    BY <1>1, <1>4, LeadsFrom DEF FrontAt
  <2>2. FrontAt(F)'
    <3>1. /\ Leads(splits, checkpoints, plan, start, F)
          /\ \A i \in DOMAIN checkpoints : \E k \in DOMAIN F.leaves :
               F.leaves[k].task.id = i /\ F.leaves[k].askedFor = checkpoints[i].candidates
          /\ \A s \in splits : s \in Seq(Categories \cup Nat) /\ Below(s, F)
          /\ resume
      BY <1>4, Zenon DEF FrontAt
    <3> QED
      BY <1>1, <1>2, <2>1, <3>1 DEF FrontAt
  <2> QED
    BY <2>2
<1> QED
  BY <1>3, <1>4

(* What a write of a shard state does to the tasks recorded split.         *)
LEMMA SplitsOf ==
  ASSUME NEW status, states' = Put(states, id, State(status, current)), id \notin splits
  PROVE  splits' = IF status = "split" THEN splits \cup {id} ELSE splits
<1>1. State(status, current).status = status
  BY DEF State
<1> DEFINE st == State(status, current)
<1> HIDE DEF st
<1>2. /\ DOMAIN states' = DOMAIN states \cup {id}
      /\ \A i \in DOMAIN states \cup {id} : states'[i] = IF i = id THEN st ELSE states[i]
  BY DEF Put, st
<1>3. st.status = status
  BY <1>1 DEF st
<1> QED
  BY <1>2, <1>3 DEF splits

(* The process ends, and has written nothing of account. *)
LEMMA Ends ==
  ASSUME NEW F, FrontAt(F), started, pc' = "idle",
         UNCHANGED <<plan, splits, checkpoints, started>>
  PROVE  FrontAt(F)'
  BY HereFields DEF FrontAt

(* A process begins: it has asked nothing, and so far knows of nothing. *)
LEMMA Begins ==
  ASSUME NEW F, FrontAt(F), pc \in {"idle", "done"}, pc # "idle" => started, pc' = "work",
         resume' = started, started' = TRUE, started \in BOOLEAN,
         UNCHANGED <<plan, splits, checkpoints>>, here' = start
  PROVE  FrontAt(F)'
<1>1. start' = start
  BY HereFields
<1>2. ~ started => F = start
  BY DEF FrontAt
<1>3. /\ Leads(splits, checkpoints, plan, start, F)
      /\ \A i \in DOMAIN checkpoints : \E k \in DOMAIN F.leaves :
           F.leaves[k].task.id = i /\ F.leaves[k].askedFor = checkpoints[i].candidates
      /\ \A s \in splits : s \in Seq(Categories \cup Nat) /\ Below(s, F)
  BY DEF FrontAt
<1> QED
  BY <1>1, <1>2, <1>3 DEF FrontAt

(* An answer is checkpointed: the replay goes one task further. *)
LEMMA Extends ==
  ASSUME IInv, Named, FrontAt(here), started, pc = "asking", pc' = "answered",
         UNCHANGED <<plan, splits, resume, started, turn, pending, leaves, routes>>,
         NEW x \in Answers, Accepts(x),
         checkpoints' = Put(checkpoints, id, [candidates |-> candidates(current), answer |-> x])
  PROVE  \E G : FrontAt(G)'
<1> DEFINE saved == [candidates |-> candidates(current), answer |-> x]
<1>1. /\ pending # <<>> /\ id \notin DOMAIN checkpoints /\ id \notin splits
      /\ pending \in Seq(TaskRecords) /\ leaves \in Seq(LeafRecords)
  BY Settled DEF IInv, Process, Coverage
<1>2. here' = here /\ start' = start
  BY HereFields DEF here
<1>3. /\ DOMAIN checkpoints' = DOMAIN checkpoints \cup {id}
      /\ \A i \in DOMAIN checkpoints \cup {id} :
           checkpoints'[i] = IF i = id THEN saved ELSE checkpoints[i]
  BY DEF Put
<1>4. PICK next : next = checkpoints'
  OBVIOUS
<1>5. saved.candidates = candidates(current) /\ saved.answer = x
  OBVIOUS
<1> HIDE DEF saved
<1>6. /\ DOMAIN checkpoints \subseteq DOMAIN next /\ \A i \in DOMAIN checkpoints : next[i] = checkpoints[i]
      /\ next[id] = saved /\ id \in DOMAIN next
  BY <1>1, <1>3, <1>4
<1>7. \A p, q : Leads(splits, checkpoints, plan, p, q) => Leads(splits, next, plan, p, q)
  BY <1>6, ReplayKept
<1> DEFINE leaf == Leaf(x, candidates(current))
           G == Taken(next, here)
<1>8. G = Place(turn, Tail(pending), Append(leaves, leaf))
  BY <1>5, <1>6, HereFields, Zenon DEF Taken, Leaf, id
<1>9. G.leaves = Append(leaves, leaf) /\ G.pending = Tail(pending)
  BY <1>8 DEF Place
<1>10. Replays(splits, next, plan, here, G)
  <2>1. Given(leaves) = {leaves[i].answer : i \in DOMAIN leaves}
    BY Zenon DEF Given
  <2>2. Usable(next, here)
    BY <1>5, <1>6, <2>1, HereFields DEF Usable, id, Accepts
  <2> QED
    BY <1>1, <2>2, HereFields, Zenon DEF Replays, id
<1>11. leaf.task = current /\ leaf.askedFor = candidates(current)
  BY DEF Leaf
<1> HIDE DEF leaf, G
<1>12. /\ DOMAIN G.leaves = 1..(Len(leaves) + 1) /\ DOMAIN leaves = 1..Len(leaves) /\ Len(leaves) \in Nat
       /\ \A k \in 1..Len(leaves) : G.leaves[k] = leaves[k]
       /\ G.leaves[Len(leaves) + 1] = leaf /\ Len(G.leaves) = Len(leaves) + 1
       /\ Len(leaves) + 1 \in 1..Len(G.leaves)
       /\ \A k \in 1..Len(leaves) : k \in 1..Len(G.leaves)
  BY <1>1, <1>9
<1>13. \A i \in DOMAIN next : \E k \in DOMAIN G.leaves :
         G.leaves[k].task.id = i /\ G.leaves[k].askedFor = next[i].candidates
  <2> TAKE i \in DOMAIN next
  <2>1. CASE i = id
    BY <1>5, <1>6, <1>11, <1>12, <2>1 DEF id
  <2>2. CASE i # id
    <3>1. i \in DOMAIN checkpoints /\ next[i] = checkpoints[i]
      BY <1>3, <1>4, <2>2
    <3>2. PICK k \in DOMAIN leaves :
            leaves[k].task.id = i /\ leaves[k].askedFor = checkpoints[i].candidates
      BY <3>1, HereFields DEF FrontAt
    <3> QED
      BY <1>12, <3>1, <3>2
  <2> QED
    BY <2>1, <2>2
<1>14. \A s \in splits : s \in Seq(Categories \cup Nat) /\ Below(s, G)
  <2> TAKE s \in splits
  <2>1. s \in Seq(Categories \cup Nat) /\ Below(s, here)
    BY DEF FrontAt
  <2>2. ASSUME NEW k \in 1..Len(leaves), Above(s, leaves[k].task.id) PROVE Below(s, G)
    BY <1>12, <2>2 DEF Below
  <2>3. ASSUME NEW k \in 1..Len(pending), Above(s, pending[k].id) PROVE Below(s, G)
    <3>1. /\ Len(Tail(pending)) = Len(pending) - 1 /\ Len(pending) \in Nat /\ current = pending[1]
          /\ \A n \in 1..Len(Tail(pending)) : Tail(pending)[n] = pending[n + 1]
      BY <1>1, HeadTailProperties DEF current
    <3>2. CASE k = 1
      BY <1>11, <1>12, <2>3, <3>1, <3>2 DEF Below
    <3>3. CASE k # 1
      <4>1. k - 1 \in 1..Len(Tail(pending)) /\ (k - 1) + 1 = k
        BY <3>1, <3>3
      <4> QED
        BY <1>9, <2>3, <3>1, <4>1 DEF Below
    <3> QED
      BY <3>2, <3>3
  <2> QED
    BY <2>1, <2>2, <2>3, HereFields DEF Below
<1>15. Leads(splits, next, plan, start, G) /\ Leads(splits, next, plan, here, G)
  BY <1>7, <1>10, LeadsStays, LeadsOn DEF FrontAt
<1>16. \E H : FrontAt(H)'
  <2>1. PICK r : r = G
    OBVIOUS
  <2>2. r = Taken(next, here)
    BY <2>1 DEF G
  <2>3. /\ \A i \in DOMAIN next : \E k \in DOMAIN r.leaves :
             r.leaves[k].task.id = i /\ r.leaves[k].askedFor = next[i].candidates
        /\ \A s \in splits : s \in Seq(Categories \cup Nat) /\ Below(s, r)
        /\ Leads(splits, next, plan, start, r) /\ Leads(splits, next, plan, here, r)
    BY <1>13, <1>14, <1>15, <2>1
  <2>4. FrontAt(r)'
    BY <1>2, <1>4, <2>2, <2>3 DEF FrontAt
  <2> QED
    BY <2>4
<1> QED
  BY <1>16

(* A task is recorded split: the replay goes on to its halves. *)
LEMMA Divides ==
  ASSUME IInv, Named, FrontAt(here), started, pc = "asking", pc' = "work",
         splits' = splits \cup {id}, SplitCurrent,
         UNCHANGED <<plan, checkpoints, resume, started>>
  PROVE  \E G : FrontAt(G)'
<1>1. PICK r : r = here'
  OBVIOUS
<1>2. PICK more : more = splits'
  OBVIOUS
<1>3. pending # <<>> /\ id \notin DOMAIN checkpoints /\ start' = start
  BY Settled, HereFields DEF IInv, Process
<1>4. \A p, q : Leads(splits, checkpoints, plan, p, q) => Leads(more, checkpoints, plan, p, q)
  BY <1>2, <1>3, ReplayKept
<1>5. Replays(more, checkpoints, plan, here, r)
  <2>1. here' = Halved(here)
    BY HereFields DEF SplitCurrent, Halved, here, Place
  <2>2. id \in more
    BY <1>2
  <2> QED
    BY <1>1, <1>3, <2>1, <2>2, HereFields, Zenon DEF Replays, id
<1>6. Leads(more, checkpoints, plan, start, r) /\ Leads(more, checkpoints, plan, r, r)
  BY <1>4, <1>5, LeadsOn, LeadsStays DEF FrontAt
<1>7. Onward(here, r) /\ Below(id, r) /\ id \in Seq(Categories \cup Nat)
  BY <1>1, GoesOn
<1>8. \A i \in DOMAIN checkpoints : \E k \in DOMAIN r.leaves :
        r.leaves[k].task.id = i /\ r.leaves[k].askedFor = checkpoints[i].candidates
  <2> TAKE i \in DOMAIN checkpoints
  <2>1. PICK k \in DOMAIN here.leaves :
          here.leaves[k].task.id = i /\ here.leaves[k].askedFor = checkpoints[i].candidates
    BY Zenon DEF FrontAt
  <2> QED
    BY <1>7, <2>1 DEF Onward
<1>9. \A s \in more : s \in Seq(Categories \cup Nat) /\ Below(s, r)
  BY <1>2, <1>7 DEF FrontAt, Onward
<1>10. FrontAt(r)'
  BY <1>1, <1>2, <1>3, <1>6, <1>8, <1>9 DEF FrontAt
<1> QED
  BY <1>10

(* The next task has neither been split nor answered: the replay has ended. *)
LEMMA Asks ==
  ASSUME IInv, Named, NEW F, FrontAt(F), started, pc = "work", BeginTask,
         plan' = plan
  PROVE  FrontAt(here)' /\ F = here
<1>1. /\ pending # <<>> /\ ~ SplitBefore /\ ~ HasCheckpoint /\ pc' = "asking"
      /\ states' = Put(states, id, State("running", current))
      /\ UNCHANGED <<checkpoints, resume, turn, pending, leaves, started>>
  BY DEF BeginTask, AtTask
<1>2. F = here
  <2>1. CASE ~ resume
    BY <2>1 DEF FrontAt
  <2>2. CASE resume
    <3>1. id \notin splits /\ id \notin DOMAIN checkpoints
      BY <1>1, <2>2 DEF SplitBefore, HasCheckpoint, HasState, splits
    <3>2. ~ Usable(checkpoints, here)
      BY <3>1, HereFields DEF Usable, id
    <3> QED
      BY <1>1, <3>1, <3>2, Stuck DEF FrontAt
  <2> QED
    BY <2>1, <2>2
<1>3. splits' = splits
  <2>1. id \notin splits
    BY <1>1, <1>2, Settled
  <2> QED
    BY <1>1, <2>1, SplitsOf
<1>4. here' = here /\ start' = start
  BY <1>1, HereFields DEF here
<1>5. Leads(splits, checkpoints, plan, here, here)
  BY LeadsStays
<1>6. FrontAt(F)'
  BY <1>1, <1>2, <1>3, <1>4, <1>5 DEF FrontAt
<1> QED
  BY <1>2, <1>4, <1>6

(* A task is recorded completed: the process is where the replay is. *)
LEMMA Completes ==
  ASSUME IInv, NEW F, FrontAt(F), started, pc = "answered", CompleteTask, plan' = plan
  PROVE  FrontAt(F)'
<1>1. /\ pc' = "work" /\ states' = Put(states, id, State("completed", current))
      /\ leaves' = Append(leaves, Leaf(checkpoints[id].answer, candidates(current)))
      /\ pending' = Tail(pending)
      /\ UNCHANGED <<checkpoints, resume, turn, started>>
  BY DEF CompleteTask
<1>2. id \notin splits /\ checkpoints[id].candidates = candidates(current)
  BY DEF IInv, Files, HasState, splits
<1>3. splits' = splits
  BY <1>1, <1>2, SplitsOf
<1>4. here' = Taken(checkpoints, here)
  <2>1. here' = Place(turn, Tail(pending),
                      Append(leaves, Leaf(checkpoints[id].answer, checkpoints[id].candidates)))
    BY <1>1, <1>2 DEF here
  <2> QED
    BY <2>1, HereFields, Zenon DEF Taken, Leaf, id
<1>5. F = here'
  BY <1>4 DEF FrontAt
<1>6. start' = start /\ Leads(splits, checkpoints, plan, F, F)
  BY HereFields, LeadsStays
<1> QED
  BY <1>1, <1>3, <1>5, <1>6 DEF FrontAt

(* No checkpoint is found unusable while the working tree stays. *)
LEMMA NoneDropped ==
  ASSUME IInv, Named, NEW F, FrontAt(F), pc = "work"
  PROVE  ~ DropCheckpoint
<1> SUFFICES ASSUME DropCheckpoint PROVE FALSE
  OBVIOUS
<1>1. /\ pending # <<>> /\ id \notin splits /\ id \in DOMAIN checkpoints
      /\ ~ Accepts(checkpoints[id].answer)
  BY DEF DropCheckpoint, AtTask, SplitBefore, HasCheckpoint, HasState, splits
<1>2. ~ Usable(checkpoints, here)
  <2>1. Given(leaves) = {leaves[i].answer : i \in DOMAIN leaves}
    BY Zenon DEF Given
  <2> QED
    BY <1>1, <2>1, HereFields DEF Usable, id, Accepts
<1>3. F = here
  BY <1>1, <1>2, Stuck DEF FrontAt
<1> QED
  BY <1>1, <1>3, Settled

(* While the working tree stays, every step keeps the process on the way   *)
(* to where the replay ends, and asks only there.                          *)
LEMMA FrontierStep ==
  ASSUME IInv, Named, Frontier, [Next]_vars
  PROVE  Frontier'
<1> SUFFICES ASSUME edits' = 0
             PROVE  /\ pc' # "execute" /\ (pc' # "idle" => started' /\ routes' = scanned')
                    /\ \E G : FrontAt(G)'
  BY DEF Frontier
<1>0. /\ edits \in Nat /\ pc \in {"idle", "work", "execute", "asking", "answered", "done"}
      /\ pc \in {"asking", "answered"} => pending # <<>> /\ id \notin splits
      /\ started \in BOOLEAN
  BY DEF IInv, Process, Files, HasState, splits
<1>1. edits = 0 /\ worktree' = worktree /\ ~ EditWorktree
  BY <1>0 DEF Next, Work, Launch, BeginCategory, Finish, FollowSplit, RejectSplit, RejectCheckpoint,
     ReuseCheckpoint, DropCheckpoint, BeginTask, SaveCheckpoint, CompleteTask, SplitTask,
     FailTask, Crash, EditWorktree, vars
<1>2. pc # "execute" /\ (pc # "idle" => started /\ routes = scanned)
  BY <1>1 DEF Frontier
<1>3. PICK F : FrontAt(F)
  BY <1>1 DEF Frontier
<1>4. plan' = plan /\ scanned' = scanned
  BY <1>1, KeepPlan DEF scanned
<1>5. CASE UNCHANGED vars
  <2>1. UNCHANGED <<pc, resume, started, routes, splits, checkpoints, here, start>>
    BY <1>5 DEF vars, disk, process, splits, here, start, Place
  <2>2. FrontAt(F)'
    BY <1>3, <1>4, <2>1 DEF FrontAt
  <2> QED
    BY <1>2, <1>4, <2>1, <2>2
<1>6. CASE Launch
  <2>1. /\ pc \in {"idle", "done"} /\ pc' = "work" /\ resume' = started /\ started' = TRUE
        /\ routes' = scanned /\ here' = start /\ UNCHANGED <<splits, checkpoints>>
    BY <1>6 DEF Launch, disk, splits, here, start, Place, scanned
  <2>2. FrontAt(F)'
    BY <1>0, <1>2, <1>3, <1>4, <2>1, Begins
  <2> QED
    BY <1>4, <2>1, <2>2
<1>7. CASE BeginCategory \/ FollowSplit \/ ReuseCheckpoint
  <2>1. /\ pc = "work" /\ pc' = "work"
        /\ UNCHANGED <<splits, checkpoints, resume, started, routes>>
    BY <1>7 DEF BeginCategory, FollowSplit, ReuseCheckpoint, AtTask, disk, splits
  <2>2. AddCategory \/ SplitCurrent \/ \E a \in Answers : AddLeaf(a)
    BY <1>7, StepKinds
  <2>3. Onward(here, here')
    BY <2>2, GoesOn
  <2>4. Replays(splits, checkpoints, plan, here, here')
    <3>1. CASE BeginCategory
      <4>1. /\ pending = <<>> /\ turn < 5
            /\ here' = LET c == categoryOrder[turn + 1]
                       IN  Place(turn + 1, IF Due(c) THEN categoryTaskSpecs(c) ELSE <<>>, leaves)
        BY <3>1 DEF BeginCategory, here, categoryOrder
      <4>2. categoryOrder[turn + 1] \in Categories
        BY <4>1, CategoriesType DEF IInv, Process
      <4>3. categoryTaskSpecs(categoryOrder[turn + 1]) = plan[categoryOrder[turn + 1]]
        BY <1>2, <2>1, <4>2, SamePlan
      <4>4. \A c : Due(c) <=> DueAfter(c, leaves)
        BY Zenon DEF Due, DueAfter, BackgroundSupported
      <4>5. here' = Entered(plan, here)
        BY <4>1, <4>3, <4>4, HereFields, Zenon DEF Entered
      <4> QED
        BY <4>1, <4>5, HereFields, Zenon DEF Replays
    <3>2. CASE FollowSplit
      <4>1. /\ pending # <<>> /\ id \in splits
            /\ here' = Place(turn, splitCategoryTaskSpec(current) \o Tail(pending), leaves)
        BY <3>2 DEF FollowSplit, AtTask, SplitBefore, HasState, splits, here
      <4> QED
        BY <4>1, HereFields, Zenon DEF Replays, Halved, id
    <3>3. CASE ReuseCheckpoint
      <4>1. /\ pending # <<>> /\ id \notin splits /\ id \in DOMAIN checkpoints
            /\ Accepts(checkpoints[id].answer)
            /\ here' = Place(turn, Tail(pending),
                             Append(leaves, Leaf(checkpoints[id].answer, checkpoints[id].candidates)))
        BY <3>3 DEF ReuseCheckpoint, AtTask, SplitBefore, HasCheckpoint, HasState, splits, here
      <4>2. Usable(checkpoints, here)
        <5>1. Given(leaves) = {leaves[i].answer : i \in DOMAIN leaves}
          BY Zenon DEF Given
        <5> QED
          BY <4>1, <5>1, HereFields DEF Usable, id, Accepts
      <4>3. here' = Taken(checkpoints, here)
        BY <4>1, HereFields, Zenon DEF Taken, Leaf, id
      <4> QED
        BY <4>1, <4>2, <4>3, HereFields, Zenon DEF Replays, id
    <3> QED
      BY <1>7, <3>1, <3>2, <3>3
  <2>5. \E G : FrontAt(G)'
    BY <1>2, <1>3, <1>4, <2>1, <2>3, <2>4, MoveOn
  <2> QED
    BY <1>2, <1>4, <2>1, <2>5
<1>8. CASE Finish
  <2>1. /\ pc = "work" /\ pc' = "done"
        /\ UNCHANGED <<resume, started, routes, splits, checkpoints, here, start>>
    BY <1>8 DEF Finish, disk, splits, here, start, Place
  <2>2. FrontAt(F)'
    BY <1>2, <1>3, <1>4, <2>1 DEF FrontAt
  <2> QED
    BY <1>2, <1>4, <2>1, <2>2
<1>9. CASE RejectSplit \/ RejectCheckpoint \/ FailTask \/ Crash
  <2>1. /\ pc # "idle" /\ pc' = "idle" /\ UNCHANGED <<checkpoints, started>>
    BY <1>9 DEF RejectSplit, RejectCheckpoint, FailTask, Crash, Stop, disk, AtTask
  <2>2. splits' = splits
    <3>1. CASE FailTask
      BY <1>0, <3>1, SplitsOf DEF FailTask
    <3>2. CASE ~ FailTask
      BY <1>9, <3>2 DEF RejectSplit, RejectCheckpoint, Crash, disk, splits
    <3> QED
      BY <3>1, <3>2
  <2>3. FrontAt(F)'
    BY <1>2, <1>3, <1>4, <2>1, <2>2, Ends
  <2> QED
    BY <2>1, <2>3
<1>10. CASE DropCheckpoint
  <2>1. pc = "work"
    BY <1>10 DEF DropCheckpoint, AtTask
  <2> QED
    BY <1>3, <1>10, <2>1, NoneDropped
<1>11. CASE BeginTask
  <2>1. pc = "work" /\ pc' = "asking" /\ UNCHANGED <<started, routes>>
    BY <1>2, <1>11 DEF BeginTask, AtTask
  <2>2. PICK G : G = here'
    OBVIOUS
  <2>3. FrontAt(G)'
    BY <1>2, <1>3, <1>4, <1>11, <2>1, <2>2, Asks
  <2> QED
    BY <1>2, <1>4, <2>1, <2>3
<1>12. CASE SaveCheckpoint
  <2>1. /\ pc = "asking" /\ pc' = "answered"
        /\ UNCHANGED <<splits, resume, started, turn, pending, leaves, routes>>
    BY <1>12 DEF SaveCheckpoint, splits
  <2>2. PICK x \in Answers :
          /\ Accepts(x)
          /\ checkpoints' = Put(checkpoints, id, [candidates |-> candidates(current), answer |-> x])
    BY <1>12 DEF SaveCheckpoint
  <2>3. FrontAt(here)
    BY <1>3, <2>1 DEF FrontAt
  <2>4. \E G : FrontAt(G)'
    BY <1>2, <1>4, <2>1, <2>2, <2>3, Extends
  <2> QED
    BY <1>2, <1>4, <2>1, <2>4
<1>13. CASE CompleteTask
  <2>1. pc = "answered" /\ pc' = "work" /\ UNCHANGED <<started, routes>>
    BY <1>13 DEF CompleteTask
  <2>2. FrontAt(F)'
    BY <1>2, <1>3, <1>4, <1>13, <2>1, Completes
  <2> QED
    BY <1>2, <1>4, <2>1, <2>2
<1>14. CASE SplitTask
  <2>1. /\ pc = "asking" /\ pc' = "work" /\ UNCHANGED <<checkpoints, resume, started, routes>>
        /\ states' = Put(states, id, State("split", current))
    BY <1>14 DEF SplitTask
  <2>2. splits' = splits \cup {id}
    BY <1>0, <2>1, SplitsOf
  <2>3. FrontAt(here) /\ SplitCurrent
    BY <1>3, <1>14, <2>1, StepKinds DEF FrontAt
  <2>4. \E G : FrontAt(G)'
    BY <1>2, <1>4, <2>1, <2>2, <2>3, Divides
  <2> QED
    BY <1>2, <1>4, <2>1, <2>4
<1> QED
  BY <1>1, <1>5, <1>6, <1>7, <1>8, <1>9, <1>10, <1>11, <1>12, <1>13, <1>14 DEF Next, Work

-----------------------------------------------------------------------------
(* No candidate stands twice in the listing, once as a route and once as   *)
(* an entity or twice as either.                                           *)
LEMMA ListingDistinct ==
  ASSUME RoutesOK, NEW p \in 1..Len(listing), NEW q \in 1..Len(listing), listing[p] = listing[q]
  PROVE  p = q
<1> DEFINE T == Range(Targets)
<1>1. /\ routes \in Seq(Candidates) /\ Len(routes) \in Nat
      /\ Len(listing) = Len(routes) + Len(ApiCandidates) /\ Len(ApiCandidates) \in Nat
      /\ ApiCandidates \in Seq(Candidates)
  BY RoutesType, ListingType
<1>2. ApiCandidates \in Seq(T)
  <2>1. ApiGroup(1) \in Seq(T) /\ ApiGroup(2) \in Seq(T) /\ ApiGroup(3) \in Seq(T)
    BY ApiGroupType
  <2> HIDE DEF T
  <2>2. ApiGroup(1) \o ApiGroup(2) \in Seq(T)
    BY <2>1, ConcatProperties
  <2>3. (ApiGroup(1) \o ApiGroup(2)) \o ApiGroup(3) \in Seq(T)
    BY <2>1, <2>2, ConcatProperties
  <2>4. <<>> \in Seq(T)
    OBVIOUS
  <2> QED
    BY <2>3, <2>4, Zenon DEF ApiCandidates
<1>3. \A i \in 1..Len(routes) : routes[i] \notin T
  <2>1. CASE routes = <<>>
    BY <2>1
  <2>2. CASE routes \in Worktrees
    <3>1. Range(routes) \cap T = {}
      BY <2>2, SurfaceAssumption
    <3>2. \A i \in 1..Len(routes) : routes[i] \in Range(routes)
      BY <1>1 DEF Range
    <3> QED
      BY <3>1, <3>2
  <2> QED
    BY <2>1, <2>2 DEF RoutesOK
<1> HIDE DEF T
<1>4. \A i \in 1..Len(listing) :
        IF i <= Len(routes) THEN listing[i] = routes[i] /\ i \in 1..Len(routes)
        ELSE listing[i] = ApiCandidates[i - Len(routes)] /\ i - Len(routes) \in 1..Len(ApiCandidates)
  BY <1>1, ConcatProperties DEF listing
<1>5. \A i \in 1..Len(listing) : i <= Len(routes) <=> listing[i] \notin T
  <2>1. \A i \in 1..Len(ApiCandidates) : ApiCandidates[i] \in T
    BY <1>2
  <2> QED
    BY <1>3, <1>4, <2>1
<1>6. p <= Len(routes) <=> q <= Len(routes)
  BY <1>5
<1>7. \A c : Names(p, c) <=> Names(q, c)
  BY <1>6, Zenon DEF Names
<1>8. \E c : Names(p, c)
  BY Zenon DEF Names
<1> QED
  BY <1>7, <1>8, ListingNames, Zenon

(* Nothing a checkpoint answers is asked again. *)
LEMMA AskedAnew ==
  ASSUME IInv, Named, Marks, Frontier
  PROVE  NothingAskedTwice
<1> SUFFICES ASSUME edits = 0, pc = "asking", NEW i \in DOMAIN checkpoints
             PROVE  i # id /\ Range(checkpoints[i].candidates) \cap Range(candidates(current)) = {}
  BY DEF NothingAskedTwice
<1>1. pending # <<>> /\ RoutesOK /\ AllLawful(DoneTasks) /\ LeavesCurrent /\ leaves \in Seq(LeafRecords)
  BY DEF IInv, Process, Coverage
<1>2. FrontAt(here)
  BY DEF Frontier, FrontAt
<1>3. i # id
  BY <1>1, <1>2, Settled
<1>4. PICK k \in DOMAIN leaves : leaves[k].askedFor = checkpoints[i].candidates
  BY <1>2, HereFields DEF FrontAt
<1> DEFINE t == leaves[k].task
<1>5. checkpoints[i].candidates = candidates(t)
  BY <1>1, <1>4 DEF LeavesCurrent
<1>6. Lawful(t) /\ Lawful(current) /\ t.hi < current.lo
  <2>1. DoneTasks[k] = t /\ Len(DoneTasks) = Len(leaves) /\ k \in 1..Len(leaves)
    BY <1>1 DEF DoneTasks
  <2>2. Lawful(t)
    BY <1>1, <2>1 DEF AllLawful
  <2>3. t.hi <= DoneUpTo
    BY DEF Marks
  <2>4. Lawful(current) /\ current.lo = DoneUpTo + 1 /\ DoneUpTo \in Nat
    BY <1>1, CurrentTask
  <2>5. t.hi \in Nat
    BY <2>2 DEF Lawful, LawfulIn, TaskRecords
  <2> QED
    BY <2>2, <2>3, <2>4, <2>5
<1> HIDE DEF t
<1>7. /\ \A x \in Range(candidates(t)) : \E p \in t.lo..t.hi : x = listing[p]
      /\ \A x \in Range(candidates(current)) : \E p \in current.lo..current.hi : x = listing[p]
  BY <1>1, <1>6, CandidatesOf
<1>8. /\ \A p \in t.lo..t.hi : p \in 1..Len(listing)
      /\ \A p \in current.lo..current.hi : p \in 1..Len(listing)
      /\ \A p \in t.lo..t.hi, q \in current.lo..current.hi : p # q
  <2>1. Len(listing) \in Nat
    BY <1>1, RoutesType, ListingType
  <2>2. /\ t.lo \in Nat /\ t.hi \in Nat /\ t.lo >= 1 /\ t.hi <= Len(listing)
        /\ current.lo \in Nat /\ current.hi \in Nat /\ current.lo >= 1 /\ current.hi <= Len(listing)
    BY <1>6 DEF Lawful, LawfulIn, TaskRecords
  <2> QED
    BY <1>6, <2>1, <2>2
<1>9. Range(candidates(t)) \cap Range(candidates(current)) = {}
  <2> SUFFICES ASSUME NEW x \in Range(candidates(t)), x \in Range(candidates(current)) PROVE FALSE
    OBVIOUS
  <2>1. PICK p \in t.lo..t.hi : x = listing[p]
    BY <1>7
  <2>2. PICK q \in current.lo..current.hi : x = listing[q]
    BY <1>7
  <2>3. p \in 1..Len(listing) /\ q \in 1..Len(listing) /\ p # q /\ listing[p] = listing[q]
    BY <1>8, <2>1, <2>2
  <2> QED
    BY <1>1, <2>3, ListingDistinct
<1> QED
  BY <1>3, <1>5, <1>9

(* While the working tree stays as it is, no task is asked whose           *)
(* candidates, or a part of them, a checkpoint of any earlier process      *)
(* answers: crashes, failures and splits between the two notwithstanding.  *)
THEOREM NothingIsAskedTwice == Spec => []NothingAskedTwice
<1>1. Init => Named /\ Marks /\ Frontier
  <2> SUFFICES ASSUME Init PROVE Named /\ Marks /\ Frontier
    OBVIOUS
  <2>1. /\ pending = <<>> /\ leaves = <<>> /\ turn = 0 /\ pc = "idle" /\ started = FALSE
        /\ DOMAIN states = {} /\ DOMAIN checkpoints = {}
        /\ Len(pending) = 0 /\ Len(leaves) = 0 /\ DOMAIN leaves = {}
    BY DEF Init
  <2>2. Named
    BY <2>1 DEF Named, Apart, Rooted
  <2>3. Marks
    BY <2>1 DEF Marks, DoneUpTo
  <2>4. splits = {}
    BY <2>1 DEF splits
  <2>5. FrontAt(start)
    BY <2>1, <2>4, LeadsStays DEF FrontAt
  <2> QED
    BY <2>1, <2>2, <2>3, <2>5 DEF Frontier
<1>2. IInv /\ Named /\ Marks /\ Frontier /\ [Next]_vars => Named' /\ Marks' /\ Frontier'
  BY NamedStep, MarksStep, FrontierStep
<1>3. IInv /\ Named /\ Marks /\ Frontier => NothingAskedTwice
  BY AskedAnew
<1> QED
  BY Invariance, <1>1, <1>2, <1>3, PTL DEF Spec
=============================================================================
