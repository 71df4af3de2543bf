---------------------- MODULE ContextCompactionProofs ----------------------
(***************************************************************************)
(* What holds of every request that is prepared from a conversation, for   *)
(* any budget, any sizes of messages and any length of the conversation.   *)
(***************************************************************************)
EXTENDS ContextCompaction, SequenceTheorems, FiniteSetTheorems, WellFoundedInduction, TLAPS

Roles == {"system", "user", "assistant", "tool"}
Messages ==
  [role : Roles, size : Nat, stub : Nat, args : Nat, calls : SUBSET Nat,
   submits : SUBSET Nat, answers : Nat, evidence : Nat]

Results(s, from, to) == \A k \in from..to : s[k].role = "tool"

(* A conversation a provider accepts: after the prompt, every result is in *)
(* the group of the message that called for it, and every call has one.    *)
Chat(s) ==
  /\ s \in Seq(Messages) /\ Len(s) >= 2
  /\ \A i \in 1..2 : s[i].role # "tool"
  /\ \A i \in 3..Len(s) : s[i].role = "tool" =>
       \E h \in 3..(i - 1) :
         s[h].role # "tool" /\ Results(s, h + 1, i) /\ s[i].answers \in s[h].calls
  /\ \A h \in 3..Len(s) : \A c \in s[h].calls :
       \E k \in (h + 1)..Len(s) : Results(s, h + 1, k) /\ s[k].answers = c

-----------------------------------------------------------------------------
(* A set of numbers has a least one. *)
LEMMA Least ==
  ASSUME NEW S \in SUBSET Nat, S # {}
  PROVE  \E n \in S : \A m \in S : n <= m
<1>1. PICK n \in S : \A m \in S : ~ (<<m, n>> \in OpToRel(<, Nat))
  BY NatLessThanWellFounded, WFMin
<1>2. \A m \in S : <<m, n>> \in Nat \X Nat
  OBVIOUS
<1>3. \A m \in S : ~ (m < n)
  BY <1>1, <1>2 DEF OpToRel
<1> QED
  BY <1>3

(* A group ends before the next message that is no result. *)
LEMMA GroupEndIs ==
  ASSUME NEW s \in Seq(Messages), NEW h \in 1..Len(s)
  PROVE  LET e == GroupEnd(s, h)
         IN  /\ e \in h..Len(s) /\ Results(s, h + 1, e)
             /\ e < Len(s) => s[e + 1].role # "tool"
<1> DEFINE Ends(j) == j = Len(s) \/ s[j + 1].role # "tool"
           S == {j \in h..Len(s) : Ends(j)}
<1>1. S \in SUBSET Nat /\ Len(s) \in S
  OBVIOUS
<1>2. PICK j \in S : \A k \in S : j <= k
  <2> HIDE DEF S
  <2> QED
    BY <1>1, Least
<1>3. Results(s, h + 1, j)
  <2> SUFFICES ASSUME NEW k \in (h + 1)..j, s[k].role # "tool"
               PROVE  FALSE
    BY DEF Results
  <2>1. k - 1 \in S /\ j \in Nat /\ k <= j
    BY <1>2
  <2>2. j <= k - 1
    BY <1>2, <2>1
  <2> QED
    BY <2>1, <2>2
<1>4. j \in h..Len(s) /\ (\A k \in (h + 1)..j : s[k].role = "tool") /\ Ends(j)
  BY <1>2, <1>3 DEF Results
<1> DEFINE e == GroupEnd(s, h)
<1>5. e \in h..Len(s) /\ (\A k \in (h + 1)..e : s[k].role = "tool") /\ Ends(e)
  BY <1>4, Zenon DEF GroupEnd
<1> HIDE DEF e
<1>6. e < Len(s) => s[e + 1].role # "tool"
  BY <1>5
<1> QED
  BY <1>5, <1>6 DEF Results, e

(* The groups of a conversation are complete, and hold all its results. *)
LEMMA ChatIsPaired ==
  ASSUME NEW s, Chat(s)
  PROVE  /\ \A i \in DOMAIN s : s[i].role = "tool" =>
              \E k \in GroupStarts(s) :
                i \in k..GroupEnd(s, k) /\ s[i].answers \in s[k].calls
         /\ \A i \in GroupStarts(s) : Complete(s, i)
<1>0. s \in Seq(Messages) /\ Len(s) \in Nat /\ DOMAIN s = 1..Len(s)
  BY DEF Chat
<1>1. ASSUME NEW i \in DOMAIN s, s[i].role = "tool"
      PROVE  \E k \in GroupStarts(s) : i \in k..GroupEnd(s, k) /\ s[i].answers \in s[k].calls
  <2>1. i \in 3..Len(s)
    BY <1>0, <1>1 DEF Chat
  <2>2. PICK h \in 3..(i - 1) :
          s[h].role # "tool" /\ Results(s, h + 1, i) /\ s[i].answers \in s[h].calls
    BY <1>1, <2>1 DEF Chat
  <2>3. h \in GroupStarts(s)
    BY <2>1, <2>2 DEF GroupStarts, StartsGroup
  <2> DEFINE e == GroupEnd(s, h)
  <2>4. e \in h..Len(s) /\ (e < Len(s) => s[e + 1].role # "tool")
    <3>1. h \in 1..Len(s)
      BY <2>1
    <3> QED
      BY <1>0, <3>1, GroupEndIs
  <2> HIDE DEF e
  <2>5. i \in h..e
    <3>1. e < i => e + 1 \in (h + 1)..i
      BY <1>0, <2>1, <2>2, <2>4
    <3>2. e < i => s[e + 1].role # "tool"
      BY <1>0, <2>1, <2>4
    <3>3. ~ (e < i)
      BY <2>2, <3>1, <3>2 DEF Results
    <3> QED
      BY <1>0, <2>1, <2>2, <2>4, <3>3
  <2> QED
    BY <2>2, <2>3, <2>5 DEF e
<1>2. ASSUME NEW h \in GroupStarts(s)
      PROVE  Complete(s, h)
  <2>1. h \in 3..Len(s)
    BY DEF GroupStarts, StartsGroup
  <2> DEFINE e == GroupEnd(s, h)
  <2>2. e \in h..Len(s) /\ (e < Len(s) => s[e + 1].role # "tool")
    <3>1. h \in 1..Len(s)
      BY <2>1
    <3> QED
      BY <1>0, <3>1, GroupEndIs
  <2>3. ASSUME NEW c \in s[h].calls
        PROVE  \E k \in (h + 1)..e : s[k].answers = c
    <3>1. PICK k \in (h + 1)..Len(s) : Results(s, h + 1, k) /\ s[k].answers = c
      BY <2>1 DEF Chat
    <3> HIDE DEF e
    <3>2. e < k => e + 1 \in (h + 1)..k
      BY <1>0, <2>1, <2>2
    <3>3. e < k => s[e + 1].role # "tool"
      BY <1>0, <2>1, <2>2
    <3>4. ~ (e < k)
      BY <3>1, <3>2, <3>3 DEF Results
    <3> QED
      BY <1>0, <2>1, <2>2, <3>1, <3>4
  <2> QED
    BY <2>3 DEF Complete
<1> QED
  BY <1>1, <1>2

-----------------------------------------------------------------------------
(* What is left when d messages after the prompt are taken out. *)
CutBy(t, s, d) ==
  /\ t \in Seq(Messages) /\ Len(t) + d = Len(s)
  /\ \A i \in 1..2 : t[i] = s[i]
  /\ \A i \in 3..Len(t) : t[i] = s[i + d]

(* A cut before the start of a group leaves a conversation. *)
LEMMA CutKeepsChat ==
  ASSUME NEW s, Chat(s), NEW d \in Nat, NEW t, CutBy(t, s, d), Len(t) >= 3,
         s[d + 3].role # "tool"
  PROVE  Chat(t)
<1>0. /\ s \in Seq(Messages) /\ Len(s) \in Nat /\ t \in Seq(Messages) /\ Len(t) \in Nat
      /\ Len(t) + d = Len(s)
  BY DEF Chat, CutBy
<1>1. \A i \in 1..2 : t[i].role # "tool"
  BY DEF Chat, CutBy
<1>2. \A i \in 3..Len(t) : i + d \in 3..Len(s) /\ t[i] = s[i + d]
  BY <1>0 DEF CutBy
<1>3. ASSUME NEW i \in 3..Len(t), t[i].role = "tool"
      PROVE  \E h \in 3..(i - 1) :
               t[h].role # "tool" /\ Results(t, h + 1, i) /\ t[i].answers \in t[h].calls
  <2>1. s[i + d].role = "tool" /\ i + d \in 3..Len(s)
    BY <1>2, <1>3
  <2>2. PICK g \in 3..(i + d - 1) : /\ s[g].role # "tool" /\ Results(s, g + 1, i + d)
                                    /\ s[i + d].answers \in s[g].calls
    <3>1. \A j \in 3..Len(s) : s[j].role = "tool" =>
            \E h \in 3..(j - 1) :
              s[h].role # "tool" /\ Results(s, h + 1, j) /\ s[j].answers \in s[h].calls
      BY Zenon DEF Chat
    <3> DEFINE last == i + d
    <3>2. s[last].role = "tool" /\ last \in 3..Len(s)
      BY <2>1
    <3> HIDE DEF last
    <3>3. \E h \in 3..(last - 1) : /\ s[h].role # "tool" /\ Results(s, h + 1, last)
                                    /\ s[last].answers \in s[h].calls
      BY <3>1, <3>2, Zenon
    <3> QED
      BY <3>3 DEF last
  <2>3. ~ (g < d + 3)
    <3>1. g < d + 3 => d + 3 \in (g + 1)..(i + d)
      BY <2>2
    <3> QED
      BY <2>2, <3>1 DEF Results
  <2> DEFINE h == g - d
  <2>4. h \in 3..(i - 1) /\ h \in 3..Len(t) /\ h + d = g
    BY <1>0, <2>2, <2>3
  <2>5. t[h] = s[g] /\ t[i] = s[i + d]
    BY <1>2, <2>4
  <2>6. ASSUME NEW k \in (h + 1)..i
        PROVE  t[k].role = "tool"
    <3>1. k \in 3..Len(t) /\ k + d \in (g + 1)..(i + d)
      BY <1>0, <2>4
    <3> QED
      BY <1>2, <2>2, <3>1 DEF Results
  <2> QED
    BY <2>2, <2>4, <2>5, <2>6 DEF Results
<1>4. ASSUME NEW h \in 3..Len(t), NEW c \in t[h].calls
      PROVE  \E k \in (h + 1)..Len(t) : Results(t, h + 1, k) /\ t[k].answers = c
  <2>1. h + d \in 3..Len(s) /\ c \in s[h + d].calls
    BY <1>2
  <2>2. PICK g \in (h + d + 1)..Len(s) : Results(s, h + d + 1, g) /\ s[g].answers = c
    BY <2>1 DEF Chat
  <2> DEFINE k == g - d
  <2>3. k \in (h + 1)..Len(t) /\ k \in 3..Len(t) /\ k + d = g
    BY <1>0, <2>2
  <2>4. t[k] = s[g]
    BY <1>2, <2>3
  <2>5. ASSUME NEW j \in (h + 1)..k
        PROVE  t[j].role = "tool"
    <3>1. j \in 3..Len(t) /\ j + d \in (h + d + 1)..g
      BY <1>0, <2>3
    <3> QED
      BY <1>2, <2>2, <3>1 DEF Results
  <2> QED
    BY <2>2, <2>3, <2>4, <2>5 DEF Results
<1> QED
  BY <1>0, <1>1, <1>3, <1>4 DEF Chat

(* The oldest group that may go is the first one, and a later one stays. *)
LEMMA OldestIsFirst ==
  ASSUME NEW s, Chat(s), NEW keep \in Nat \ {0}, Droppable(s, keep) # {}
  PROVE  /\ Len(s) >= 3
         /\ (CHOOSE i \in Droppable(s, keep) : \A k \in Droppable(s, keep) : i <= k) = 3
         /\ \E k \in 4..Len(s) : s[k].role # "tool"
<1> DEFINE G == GroupStarts(s)
           After(h) == {k \in G : k > h}
<1>0. s \in Seq(Messages) /\ Len(s) \in Nat /\ DOMAIN s = 1..Len(s)
  BY DEF Chat
<1>1. G \in SUBSET (3..Len(s)) /\ \A k \in 3..Len(s) : k \in G <=> s[k].role # "tool"
  BY <1>0 DEF GroupStarts, StartsGroup
<1>2. IsFiniteSet(G)
  <2>1. IsFiniteSet(3..Len(s))
    BY <1>0, FS_Interval
  <2> QED
    BY <1>1, <2>1, FS_Subset
<1>3. PICK h \in G : Cardinality(After(h)) >= keep
  BY DEF Droppable
<1>4. h \in 3..Len(s) /\ Len(s) >= 3
  BY <1>0, <1>1
<1>5. 3 \in G
  <2>1. s[3].role # "tool"
    BY <1>0, <1>4 DEF Chat
  <2> QED
    BY <1>0, <1>1, <1>4, <2>1
<1>6. Cardinality(After(3)) >= keep /\ After(3) # {}
  <2>1. After(h) \subseteq After(3) /\ After(3) \subseteq G
    BY <1>1, <1>4
  <2>2. IsFiniteSet(After(3))
    BY <1>2, <2>1, FS_Subset
  <2>3. /\ Cardinality(After(h)) <= Cardinality(After(3))
        /\ Cardinality(After(h)) \in Nat /\ Cardinality(After(3)) \in Nat
    <3>1. IsFiniteSet(After(h))
      BY <2>1, <2>2, FS_Subset
    <3> HIDE DEF After
    <3> QED
      BY <2>1, <2>2, <3>1, FS_Subset, FS_CardinalityType
  <2>4. Cardinality(After(3)) >= keep
    BY <1>3, <2>3
  <2> HIDE DEF After
  <2> QED
    BY <2>4, FS_EmptySet
<1>7. 3 \in Droppable(s, keep)
  BY <1>5, <1>6, ChatIsPaired DEF Droppable
<1>8. \A k \in Droppable(s, keep) : 3 <= k /\ k \in Int
  BY <1>1 DEF Droppable
<1>9. (CHOOSE i \in Droppable(s, keep) : \A k \in Droppable(s, keep) : i <= k) = 3
  <2> DEFINE first == CHOOSE i \in Droppable(s, keep) : \A k \in Droppable(s, keep) : i <= k
  <2>1. first \in Droppable(s, keep) /\ \A k \in Droppable(s, keep) : first <= k
    BY <1>7, <1>8
  <2> HIDE DEF first
  <2>2. first <= 3 /\ 3 <= first /\ first \in Int
    BY <1>7, <1>8, <2>1
  <2>3. first = 3
    BY <2>2
  <2> QED
    BY <2>3 DEF first
<1>10. \E k \in 4..Len(s) : s[k].role # "tool"
  <2>1. PICK k \in After(3) : TRUE
    BY <1>6
  <2>2. k \in 4..Len(s) /\ k \in 3..Len(s) /\ k \in G
    BY <1>0, <1>1, <2>1
  <2> QED
    BY <1>1, <2>2
<1> QED
  BY <1>4, <1>9, <1>10

(* Dropping it takes a group out right after the prompt. *)
LEMMA DropOldestCuts ==
  ASSUME NEW s, Chat(s), NEW keep \in Nat \ {0}, ~ Fits(s), Droppable(s, keep) # {}
  PROVE  /\ Chat(DropOldest(s, keep)) /\ Len(DropOldest(s, keep)) >= 3
         /\ \E d \in Nat \ {0} : CutBy(DropOldest(s, keep), s, d)
<1> DEFINE e == GroupEnd(s, 3)
           t == DropOldest(s, keep)
<1>0. s \in Seq(Messages) /\ Len(s) \in Nat /\ Len(s) >= 3
  BY OldestIsFirst DEF Chat
<1>1. e \in 3..Len(s) /\ Results(s, 4, e) /\ (e < Len(s) => s[e + 1].role # "tool")
  BY <1>0, GroupEndIs
<1>2. t = SubSeq(s, 1, 2) \o SubSeq(s, e + 1, Len(s))
  <2>1. t = Without(s, CHOOSE i \in Droppable(s, keep) : \A k \in Droppable(s, keep) : i <= k)
    BY Zenon DEF DropOldest
  <2>2. t = Without(s, 3)
    BY <2>1, OldestIsFirst, Zenon
  <2>3. 3 - 1 = 2
    OBVIOUS
  <2> QED
    BY <2>2, <2>3, Zenon DEF Without
<1> HIDE DEF e, t
<1>3. e < Len(s) /\ s[e + 1].role # "tool"
  <2>1. PICK k \in 4..Len(s) : s[k].role # "tool"
    BY OldestIsFirst
  <2>2. ~ (k <= e)
    BY <1>1, <2>1 DEF Results
  <2> QED
    BY <1>0, <1>1, <2>1, <2>2
<1> DEFINE a == SubSeq(s, 1, 2)
           b == SubSeq(s, e + 1, Len(s))
           d == e - 2
<1>4. /\ a \in Seq(Messages) /\ Len(a) = 2 /\ \A i \in 1..2 : a[i] = s[i]
      /\ b \in Seq(Messages) /\ Len(b) = Len(s) - e /\ \A i \in 1..Len(b) : b[i] = s[e + i]
  BY <1>0, <1>1, <1>3, SubSeqProperties
<1>5. /\ t \in Seq(Messages) /\ Len(t) = 2 + (Len(s) - e)
      /\ \A i \in 1..2 : t[i] = a[i]
      /\ \A i \in 3..Len(t) : t[i] = b[i - 2]
  <2> HIDE DEF a, b
  <2> QED
    BY <1>0, <1>1, <1>2, <1>4, ConcatProperties DEF a, b
<1> HIDE DEF a, b
<1>6. CutBy(t, s, d) /\ d \in Nat \ {0} /\ Len(t) >= 3
  <2>1. ASSUME NEW i \in 3..Len(t)
        PROVE  t[i] = s[i + d]
    <3>0. Len(t) = Len(b) + 2 /\ Len(b) \in Nat
      <4>1. Len(b) = Len(s) - e /\ Len(t) = 2 + (Len(s) - e) /\ b \in Seq(Messages)
        BY <1>4, <1>5, Zenon
      <4>2. Len(b) \in Nat
        BY <4>1, LenProperties
      <4> QED
        BY <4>1, <4>2
    <3>1. i - 2 \in 1..Len(b) /\ e + (i - 2) = i + d
      BY <1>1, <3>0
    <3>2. t[i] = b[i - 2]
      BY <1>5, Zenon
    <3>3. b[i - 2] = s[e + (i - 2)]
      BY <1>4, <3>1, Zenon
    <3> QED
      BY <3>1, <3>2, <3>3, Zenon
  <2> QED
    BY <1>0, <1>1, <1>3, <1>4, <1>5, <2>1 DEF CutBy
<1>7. Chat(t)
  <2>1. d + 3 = e + 1
    BY <1>1
  <2> HIDE DEF d
  <2> QED
    BY <1>3, <1>6, <2>1, CutKeepsChat
<1> QED
  BY <1>6, <1>7 DEF t

(* Groups are dropped one by one. *)
Dropping(f, s, keep, n) ==
  f = [k \in 0..n |-> IF k = 0 THEN s ELSE DropOldest(f[k - 1], keep)]

LEMMA DroppingExists ==
  ASSUME NEW s, NEW keep, NEW n \in Nat
  PROVE  \E f : Dropping(f, s, keep, n)
<1> DEFINE S == {k \in Nat : ~ \E f : Dropping(f, s, keep, k)}
<1> SUFFICES ASSUME S # {}
             PROVE  FALSE
  OBVIOUS
<1>1. PICK k \in S : \A m \in S : k <= m
  <2>1. S \in SUBSET Nat
    OBVIOUS
  <2> HIDE DEF S
  <2> QED
    BY <2>1, Least
<1>2. CASE k = 0
  <2>1. Dropping([i \in 0..0 |-> s], s, keep, 0)
    BY DEF Dropping
  <2> QED
    BY <1>1, <1>2, <2>1
<1>3. CASE k > 0
  <2>1. k \in Nat /\ k - 1 \in Nat /\ k - 1 \notin S
    BY <1>1, <1>3
  <2>2. PICK f : Dropping(f, s, keep, k - 1)
    BY <2>1
  <2> DEFINE next(i) == IF i = 0 THEN s ELSE DropOldest(f[i - 1], keep)
             g == [i \in 0..k |-> next(i)]
  <2>3. \A i \in 0..(k - 1) : f[i] = next(i)
    BY <2>2 DEF Dropping
  <2>4. \A i \in 0..(k - 1) : g[i] = f[i]
    <3> HIDE DEF next
    <3> QED
      BY <2>1, <2>3
  <2>5. \A i \in 1..k : g[i - 1] = f[i - 1]
    <3> HIDE DEF g
    <3> QED
      BY <2>1, <2>4
  <2>6. \A i \in 0..k : next(i) = IF i = 0 THEN s ELSE DropOldest(g[i - 1], keep)
    <3> HIDE DEF g
    <3> QED
      BY <2>1, <2>5
  <2>7. g = [i \in 0..k |-> IF i = 0 THEN s ELSE DropOldest(g[i - 1], keep)]
    BY <2>6
  <2>8. Dropping(g, s, keep, k)
    <3> HIDE DEF g
    <3> QED
      BY <2>7 DEF Dropping
  <2> QED
    BY <1>1, <2>8
<1> QED
  BY <1>1, <1>2, <1>3

LEMMA DropGroupsDef ==
  ASSUME NEW s, NEW keep, Len(s) \in Nat
  PROVE  \E f : Dropping(f, s, keep, Len(s)) /\ DropGroups(s, keep) = f[Len(s)]
<1> DEFINE left == CHOOSE f : Dropping(f, s, keep, Len(s))
<1>1. Dropping(left, s, keep, Len(s))
  BY DroppingExists
<1>2. DropGroups(s, keep) = left[Len(s)]
  BY DEF DropGroups, Dropping
<1> QED
  BY <1>1, <1>2

(* Cuts add up. *)
LEMMA CutAgain ==
  ASSUME NEW s \in Seq(Messages), NEW t, NEW u, NEW c \in Nat, NEW d \in Nat,
         CutBy(t, s, c), CutBy(u, t, d), Len(u) >= 2
  PROVE  CutBy(u, s, c + d)
<1>1. /\ Len(s) \in Nat /\ Len(t) \in Nat /\ Len(u) \in Nat
      /\ Len(t) + c = Len(s) /\ Len(u) + d = Len(t) /\ u \in Seq(Messages)
  BY DEF CutBy
<1>2. \A i \in 1..2 : u[i] = s[i]
  BY DEF CutBy
<1>3. ASSUME NEW i \in 3..Len(u)
      PROVE  u[i] = s[i + (c + d)]
  <2>1. u[i] = t[i + d] /\ i + d \in 3..Len(t)
    BY <1>1 DEF CutBy
  <2>2. t[i + d] = s[(i + d) + c] /\ (i + d) + c = i + (c + d)
    BY <2>1 DEF CutBy
  <2> QED
    BY <2>1, <2>2
<1>4. Len(u) + (c + d) = Len(s)
  BY <1>1
<1> QED
  BY <1>1, <1>2, <1>3, <1>4, Zenon DEF CutBy

(* What is left of a conversation is one, and it ends as it did; it fits,  *)
(* or only the newest groups are left.                                     *)
Stuck(t, keep) == Fits(t) \/ Droppable(t, keep) = {}

LEMMA DropGroupsCuts ==
  ASSUME NEW s, Chat(s), NEW keep \in Nat \ {0}
  PROVE  LET t == DropGroups(s, keep)
         IN  /\ Chat(t) /\ Stuck(t, keep) /\ (Fits(s) => t = s)
             /\ Len(s) >= 3 => Len(t) >= 3
             /\ \E d \in Nat : CutBy(t, s, d)
<1>0. s \in Seq(Messages) /\ Len(s) \in Nat
  BY DEF Chat
<1>1. PICK f : Dropping(f, s, keep, Len(s)) /\ DropGroups(s, keep) = f[Len(s)]
  BY <1>0, DropGroupsDef
<1>2. f[0] = s /\ \A n \in 1..Len(s) : f[n] = DropOldest(f[n - 1], keep)
  BY <1>0, <1>1 DEF Dropping
<1> DEFINE Shorter(n) == Stuck(f[n], keep) \/ Len(f[n]) + n <= Len(s)
           Good(n) == /\ Chat(f[n]) /\ (Fits(s) => f[n] = s)
                      /\ Len(s) >= 3 => Len(f[n]) >= 3
                      /\ \E d \in Nat : CutBy(f[n], s, d)
                      /\ Shorter(n)
           Bad == {n \in 0..Len(s) : ~ Good(n)}
<1>3. Bad = {}
  <2> SUFFICES ASSUME Bad # {}
               PROVE  FALSE
    OBVIOUS
  <2>1. PICK n \in Bad : \A m \in Bad : n <= m
    <3>1. Bad \in SUBSET Nat
      BY <1>0
    <3> HIDE DEF Bad
    <3> QED
      BY <3>1, Least
  <2>2. CASE n = 0
    <3>1. CutBy(s, s, 0)
      BY <1>0 DEF CutBy
    <3>2. Len(s) + 0 <= Len(s)
      BY <1>0
    <3>3. Good(0)
      BY <1>2, <3>1, <3>2
    <3> HIDE DEF Good
    <3> QED
      BY <2>1, <2>2, <3>3
  <2>3. CASE n # 0
    <3>1. n - 1 \in 0..Len(s) /\ n \in 1..Len(s)
      BY <1>0, <2>1, <2>3
    <3>2. Good(n - 1)
      <4> HIDE DEF Good
      <4> QED
        BY <2>1, <3>1
    <3> DEFINE x == f[n - 1]
    <3>3. f[n] = DropOldest(x, keep)
      BY <1>2, <3>1
    <3>4. CASE Stuck(x, keep)
      <4>1. f[n] = x
        BY <3>3, <3>4 DEF DropOldest, Stuck
      <4>2. Good(n)
        BY <3>2, <3>4, <4>1
      <4> HIDE DEF Good
      <4> QED
        BY <2>1, <4>2
    <3>5. CASE ~ Stuck(x, keep)
      <4>1. Chat(x) /\ ~ Fits(x) /\ Droppable(x, keep) # {}
        BY <3>2, <3>5 DEF Stuck
      <4>2. PICK d \in Nat \ {0} : CutBy(f[n], x, d)
        <5> HIDE DEF x
        <5> QED
          BY <3>3, <4>1, DropOldestCuts
      <4>3. Chat(f[n]) /\ Len(f[n]) >= 3
        <5> HIDE DEF x
        <5> QED
          BY <3>3, <4>1, DropOldestCuts
      <4>4. PICK c \in Nat : CutBy(x, s, c)
        BY <3>2
      <4>5. CutBy(f[n], s, c + d) /\ c + d \in Nat
        <5> HIDE DEF x
        <5> QED
          BY <1>0, <4>2, <4>3, <4>4, CutAgain
      <4>6. Len(f[n]) + n <= Len(s)
        <5>1. Len(x) + (n - 1) <= Len(s)
          BY <3>2, <3>5
        <5>2. Len(f[n]) + d = Len(x) /\ Len(f[n]) \in Nat /\ Len(x) \in Nat
          <6> HIDE DEF x
          <6>1. f[n] \in Seq(Messages) /\ x \in Seq(Messages)
            BY <4>1, <4>3 DEF Chat
          <6>2. Len(f[n]) + d = Len(x)
            BY <4>2 DEF CutBy
          <6> QED
            BY <6>1, <6>2
        <5> HIDE DEF x
        <5> QED
          BY <1>0, <3>1, <5>1, <5>2
      <4>7. ~ Fits(s)
        BY <3>2, <4>1
      <4>8. Good(n)
        BY <4>3, <4>5, <4>6, <4>7
      <4> HIDE DEF Good
      <4> QED
        BY <2>1, <4>8
    <3> QED
      BY <3>4, <3>5
  <2> QED
    BY <2>2, <2>3
<1>4. Good(Len(s))
  <2> HIDE DEF Good
  <2> QED
    BY <1>0, <1>3
<1>5. Stuck(f[Len(s)], keep)
  <2>1. Len(f[Len(s)]) >= 2 /\ Len(f[Len(s)]) \in Nat
    BY <1>4 DEF Chat
  <2> QED
    BY <1>0, <1>4, <2>1
<1> QED
  BY <1>1, <1>4, <1>5

(* Of a conversation that is left with no group to drop, only the newest   *)
(* groups are left.                                                        *)
LEMMA FewGroups ==
  ASSUME NEW s, Chat(s), NEW keep \in Nat \ {0}, Droppable(s, keep) = {}
  PROVE  Cardinality(GroupStarts(s)) <= keep
<1> DEFINE G == GroupStarts(s)
<1>0. s \in Seq(Messages) /\ Len(s) \in Nat /\ G \subseteq 3..Len(s)
  BY DEF Chat, GroupStarts, StartsGroup
<1>1. IsFiniteSet(G)
  <2>1. IsFiniteSet(3..Len(s))
    BY <1>0, FS_Interval
  <2> QED
    BY <1>0, <2>1, FS_Subset
<1>2. \A i \in G : Complete(s, i)
  BY ChatIsPaired
<1>3. CASE G = {}
  <2> HIDE DEF G
  <2>1. Cardinality(G) = 0
    BY <1>3, FS_EmptySet
  <2> QED
    BY <2>1 DEF G
<1>4. CASE G # {}
  <2>1. PICK i \in G : \A k \in G : i <= k
    <3>1. G \in SUBSET Nat
      BY <1>0
    <3> HIDE DEF G
    <3> QED
      BY <1>4, <3>1, Least
  <2>2. {k \in G : k > i} = G \ {i}
    <3>1. \A k \in G : k > i <=> k # i
      <4>1. \A k \in G : k \in Int /\ i \in Int /\ i <= k
        BY <1>0, <2>1
      <4> HIDE DEF G
      <4> QED
        BY <4>1
    <3> HIDE DEF G
    <3> QED
      BY <3>1
  <2>3. ~ (Cardinality({k \in G : k > i}) >= keep)
    BY <1>2, <2>1 DEF Droppable
  <2> HIDE DEF G
  <2>4. Cardinality(G \ {i}) = Cardinality(G) - 1 /\ Cardinality(G) \in Nat
    BY <1>1, <2>1, FS_RemoveElement, FS_CardinalityType
  <2>5. ~ (Cardinality(G \ {i}) >= keep)
    BY <2>2, <2>3, Zenon
  <2>6. Cardinality(G) <= keep
    BY <2>4, <2>5
  <2> QED
    BY <2>6 DEF G
<1> QED
  BY <1>3, <1>4

-----------------------------------------------------------------------------
(* What becomes of messages that are compacted: the prompt stays, and      *)
(* every message keeps its role and its calls.                             *)
Compacted(t, s) ==
  /\ t \in Seq(Messages) /\ Len(t) = Len(s)
  /\ \A i \in 1..Len(s) :
       /\ t[i].role = s[i].role /\ t[i].calls = s[i].calls /\ t[i].answers = s[i].answers
       /\ t[i].stub > 0 => s[i].stub > 0
  /\ \A i \in 1..2 : t[i] = s[i]

LEMMA CompactedAgain ==
  ASSUME NEW s \in Seq(Messages), Len(s) >= 2, NEW t, NEW u, Compacted(t, s), Compacted(u, t)
  PROVE  Compacted(u, s)
<1>1. Len(t) = Len(s) /\ Len(u) = Len(s) /\ u \in Seq(Messages)
  BY DEF Compacted
<1>2. ASSUME NEW i \in 1..Len(s)
      PROVE  /\ u[i].role = s[i].role /\ u[i].calls = s[i].calls /\ u[i].answers = s[i].answers
             /\ u[i].stub > 0 => s[i].stub > 0
  BY <1>1 DEF Compacted
<1>3. \A i \in 1..2 : u[i] = s[i]
  BY DEF Compacted
<1> QED
  BY <1>1, <1>2, <1>3 DEF Compacted

LEMMA CompactedChat ==
  ASSUME NEW s, Chat(s), NEW t, Compacted(t, s)
  PROVE  Chat(t)
<1>1. /\ t \in Seq(Messages) /\ Len(t) = Len(s) /\ Len(t) >= 2 /\ Len(t) \in Nat
      /\ \A i \in 1..2 : t[i].role # "tool"
  BY DEF Chat, Compacted
<1>2. \A i \in 1..Len(t) :
        t[i].role = s[i].role /\ t[i].calls = s[i].calls /\ t[i].answers = s[i].answers
  BY <1>1 DEF Compacted
<1>3. \A h, i \in Nat : h >= 1 /\ i <= Len(t) => (Results(t, h, i) <=> Results(s, h, i))
  BY <1>1, <1>2 DEF Results
<1>4. ASSUME NEW i \in 3..Len(t), t[i].role = "tool"
      PROVE  \E h \in 3..(i - 1) :
               t[h].role # "tool" /\ Results(t, h + 1, i) /\ t[i].answers \in t[h].calls
  <2>1. i \in 3..Len(s) /\ i \in 1..Len(t) /\ s[i].role = "tool"
    BY <1>1, <1>2, <1>4
  <2>2. PICK h \in 3..(i - 1) :
          s[h].role # "tool" /\ Results(s, h + 1, i) /\ s[i].answers \in s[h].calls
    BY <2>1 DEF Chat
  <2>3. h \in 1..Len(t) /\ h + 1 \in Nat /\ i \in Nat /\ h + 1 >= 1 /\ i <= Len(t)
    BY <1>1
  <2>4. Results(t, h + 1, i)
    BY <1>3, <2>2, <2>3
  <2> QED
    BY <1>2, <2>1, <2>2, <2>3, <2>4
<1>5. ASSUME NEW h \in 3..Len(t), NEW c \in t[h].calls
      PROVE  \E k \in (h + 1)..Len(t) : Results(t, h + 1, k) /\ t[k].answers = c
  <2>1. h \in 3..Len(s) /\ h \in 1..Len(t) /\ c \in s[h].calls
    BY <1>1, <1>2
  <2>2. PICK k \in (h + 1)..Len(s) : Results(s, h + 1, k) /\ s[k].answers = c
    BY <2>1 DEF Chat
  <2>3. k \in (h + 1)..Len(t) /\ k \in 1..Len(t) /\ h + 1 \in Nat /\ k \in Nat /\ h + 1 >= 1
    BY <1>1
  <2>4. Results(t, h + 1, k)
    BY <1>3, <2>2, <2>3
  <2> QED
    BY <1>2, <2>2, <2>3, <2>4
<1> QED
  BY <1>1, <1>4, <1>5 DEF Chat

Stubbed(m) == [m EXCEPT !.size = m.stub, !.stub = 0]
Bare(m) == [m EXCEPT !.args = 0]

LEMMA StubbedIs ==
  ASSUME NEW m \in Messages
  PROVE  /\ Stubbed(m) \in Messages /\ Stubbed(m).role = m.role
         /\ Stubbed(m).calls = m.calls /\ Stubbed(m).answers = m.answers
         /\ Stubbed(m).stub = 0
  BY DEF Messages, Stubbed

LEMMA BareIs ==
  ASSUME NEW m \in Messages
  PROVE  /\ Bare(m) \in Messages /\ Bare(m).role = m.role
         /\ Bare(m).calls = m.calls /\ Bare(m).answers = m.answers
         /\ Bare(m).stub = m.stub /\ (m.args = 0 => Bare(m) = m)
  BY DEF Messages, Bare

LEMMA ShrinkCompacts ==
  ASSUME NEW s \in Seq(Messages), NEW set \in SUBSET (3..Len(s)), Len(s) >= 2
  PROVE  /\ Compacted(Shrink(s, set), s)
         /\ \A i \in (1..Len(s)) \ set : Shrink(s, set)[i] = s[i]
         /\ \A i \in set : Shrink(s, set)[i].stub = 0
<1> DEFINE t == Shrink(s, set)
<1>0. Len(s) \in Nat /\ DOMAIN s = 1..Len(s) /\ \A i \in 1..Len(s) : s[i] \in Messages
  OBVIOUS
<1>1. \A i \in 1..Len(s) :
        t[i] = IF i \in set THEN Stubbed(s[i]) ELSE s[i]
  BY <1>0 DEF Shrink, Stubbed
<1>2. \A i \in set : s[i] \in Messages /\ t[i] = Stubbed(s[i])
  BY <1>0, <1>1
<1>3. DOMAIN t = 1..Len(s)
  BY <1>0 DEF Shrink
<1>4. t = [i \in 1..Len(s) |-> t[i]]
  BY <1>0 DEF Shrink
<1> HIDE DEF t
<1>5. \A i \in 1..Len(s) : t[i] \in Messages
  BY <1>0, <1>1, StubbedIs
<1>6. t \in Seq(Messages) /\ Len(t) = Len(s)
  <2>1. t \in [1..Len(s) -> Messages]
    BY <1>4, <1>5
  <2> QED
    BY <1>0, <2>1, SeqDef
<1>7. \A i \in (1..Len(s)) \ set : t[i] = s[i]
  BY <1>1
<1>8. \A i \in set : t[i].stub = 0
  BY <1>2, StubbedIs
<1>9. ASSUME NEW i \in 1..Len(s)
      PROVE  /\ t[i].role = s[i].role /\ t[i].calls = s[i].calls
             /\ t[i].answers = s[i].answers /\ (t[i].stub > 0 => s[i].stub > 0)
  <2>1. CASE i \in set
    <3>1. s[i] \in Messages /\ t[i] = Stubbed(s[i]) /\ t[i].stub = 0
      BY <1>2, <1>8, <2>1
    <3>2. ~ (t[i].stub > 0)
      BY <3>1
    <3> QED
      BY <3>1, <3>2, StubbedIs
  <2>2. CASE i \notin set
    BY <1>7, <2>2
  <2> QED
    BY <2>1, <2>2
<1>10. Compacted(t, s)
  BY <1>0, <1>6, <1>7, <1>9 DEF Compacted
<1> QED
  BY <1>7, <1>8, <1>10 DEF t

LEMMA PassIs ==
  ASSUME NEW s, NEW set
  PROVE  Pass(s, set) =
           IF Enough(s, set) = {} THEN Shrink(s, set)
           ELSE Shrink(s, Oldest(set, CHOOSE n \in Enough(s, set) :
                                        \A k \in Enough(s, set) : n <= k))
  BY DEF Pass

(* A pass compacts messages of its set only, and all of them if the rest   *)
(* does not fit; it does nothing if nothing is too long.                   *)
LEMMA PassCompacts ==
  ASSUME NEW s \in Seq(Messages), NEW set \in SUBSET (3..Len(s)), Len(s) >= 2
  PROVE  LET t == Pass(s, set)
         IN  /\ Compacted(t, s)
             /\ \A i \in (1..Len(s)) \ set : t[i] = s[i]
             /\ ~ Fits(t) => ~ Fits(s) /\ \A i \in set : t[i].stub = 0
<1> DEFINE enough == Enough(s, set)
           t == Pass(s, set)
<1>1. IsFiniteSet(set) /\ Cardinality(set) \in Nat
  <2>1. IsFiniteSet(3..Len(s))
    BY FS_Interval
  <2> QED
    BY <2>1, FS_Subset, FS_CardinalityType
<1>2. CASE enough = {}
  <2>1. t = Shrink(s, set)
    BY <1>2, PassIs
  <2>2. ~ Fits(s)
    <3>1. Oldest(set, 0) = {}
      <4>1. \A i \in set : Cardinality({k \in set : k < i}) \in Nat
        BY <1>1, FS_Subset, FS_CardinalityType
      <4>2. \A i \in set : ~ (Cardinality({k \in set : k < i}) < 0)
        BY <4>1
      <4> QED
        BY <4>2, Zenon DEF Oldest
    <3>2. Shrink(s, {}) = s
      BY DEF Shrink
    <3>3. 0 \in 0..Cardinality(set)
      BY <1>1
    <3> QED
      BY <1>2, <3>1, <3>2, <3>3 DEF Enough
  <2> HIDE DEF t
  <2> QED
    BY <2>1, <2>2, ShrinkCompacts DEF t
<1>3. CASE enough # {}
  <2> DEFINE n == CHOOSE n \in enough : \A k \in enough : n <= k
             part == Oldest(set, n)
  <2>1. n \in enough
    <3>1. enough \in SUBSET Nat
      BY <1>1 DEF Enough
    <3> HIDE DEF enough
    <3> QED
      BY <1>3, <3>1, Least
  <2>2. t = Shrink(s, part)
    BY <1>3, PassIs
  <2>3. Fits(t)
    BY <2>1, <2>2 DEF Enough
  <2>4. part \in SUBSET set /\ part \in SUBSET (3..Len(s))
    BY DEF Oldest
  <2> HIDE DEF t, part
  <2>5. Compacted(t, s) /\ \A i \in (1..Len(s)) \ part : t[i] = s[i]
    BY <2>2, <2>4, ShrinkCompacts
  <2> QED
    BY <2>3, <2>4, <2>5 DEF t
<1> QED
  BY <1>2, <1>3

(* Arguments of submissions are no part of what makes a conversation. *)
LEMMA WithoutArgsCompacts ==
  ASSUME NEW s \in Seq(Messages), Len(s) >= 2, s[1].args = 0, s[2].args = 0
  PROVE  /\ Compacted(WithoutArgs(s), s)
         /\ \A i \in 1..Len(s) : s[i].args = 0 => WithoutArgs(s)[i] = s[i]
<1> DEFINE t == WithoutArgs(s)
<1>0. Len(s) \in Nat /\ DOMAIN s = 1..Len(s) /\ \A i \in 1..Len(s) : s[i] \in Messages
  OBVIOUS
<1>1. \A i \in 1..Len(s) : t[i] = Bare(s[i])
  BY <1>0 DEF WithoutArgs, Bare
<1>2. \A i \in 1..Len(s) :
        /\ t[i] \in Messages /\ t[i].role = s[i].role /\ t[i].calls = s[i].calls
        /\ t[i].answers = s[i].answers /\ t[i].stub = s[i].stub
        /\ s[i].args = 0 => t[i] = s[i]
  BY <1>0, <1>1, BareIs
<1>3. t = [i \in 1..Len(s) |-> t[i]]
  BY <1>0 DEF WithoutArgs
<1> HIDE DEF t
<1>4. \A i \in 1..Len(s) : t[i] \in Messages
  BY <1>2
<1>5. t \in Seq(Messages) /\ Len(t) = Len(s)
  <2>1. t \in [1..Len(s) -> Messages]
    BY <1>3, <1>4
  <2> QED
    BY <1>0, <2>1, SeqDef
<1>6. \A i \in 1..Len(s) : s[i].args = 0 => t[i] = s[i]
  BY <1>2
<1>7. \A i \in 1..2 : t[i] = s[i]
  BY <1>0, <1>6
<1>8. \A i \in 1..Len(s) :
        /\ t[i].role = s[i].role /\ t[i].calls = s[i].calls /\ t[i].answers = s[i].answers
        /\ t[i].stub > 0 => s[i].stub > 0
  BY <1>2
<1> QED
  BY <1>5, <1>6, <1>7, <1>8 DEF Compacted, t

-----------------------------------------------------------------------------
(* The conversation as it grows: a conversation that begins with the       *)
(* prompt; a result answers a call that was made before no other was       *)
(* answered; only what the model or a tool said can be compacted, and only *)
(* the model submits.                                                      *)
Talk(s) ==
  /\ Chat(s) /\ s[1] = Start[1] /\ s[2] = Start[2]
  /\ \A i \in 1..Len(s) : /\ s[i].answers <= Len(s)
                          /\ s[i].role # "tool" => s[i].answers = 0
                          /\ s[i].stub > 0 => s[i].role \in {"tool", "assistant"}
                          /\ s[i].role # "assistant" => s[i].args = 0
  /\ \A i, k \in 1..Len(s) :
       i < k /\ s[i].role = "tool" /\ s[k].role = "tool" => s[i].answers < s[k].answers

(* A message that says why an answer was rejected. *)
Why(s, i) == s[i].role = "user" \/ (s[i].role = "tool" /\ s[i].answers \in SubmitCalls(s))

Keep(purpose) == IF purpose = "repair" THEN 2 ELSE 4
Spared(s, purpose) == IF purpose = "repair" THEN SubmitCalls(s) ELSE {}

(* What the passes over results and prose do to a conversation.            *)
LEMMA PassesCompact ==
  ASSUME NEW s \in Seq(Messages), Len(s) >= 2, NEW to \in 2..Len(s), NEW spared
  PROVE  /\ Compacted(ToolPass(s, to, spared), s) /\ Compacted(ProsePass(s, to), s)
         /\ \A i \in 1..Len(s) :
              s[i].role # "tool" \/ s[i].answers \in spared => ToolPass(s, to, spared)[i] = s[i]
         /\ \A i \in 1..Len(s) : s[i].role # "assistant" => ProsePass(s, to)[i] = s[i]
         /\ ~ Fits(ToolPass(s, to, spared)) =>
              /\ ~ Fits(s)
              /\ \A i \in 3..to : s[i].role = "tool" /\ s[i].answers \notin spared
                                  => ToolPass(s, to, spared)[i].stub = 0
         /\ ~ Fits(ProsePass(s, to)) =>
              /\ ~ Fits(s)
              /\ \A i \in 3..to : s[i].role = "assistant" => ProsePass(s, to)[i].stub = 0
<1> DEFINE a == Tools(s, to, spared)
           t == ToolPass(s, to, spared)
           b == ProseOf(s, to)
           u == ProsePass(s, to)
<1>0. Len(s) \in Nat /\ \A i \in 1..Len(s) : s[i].stub \in Nat
  <2>1. \A m \in Messages : m.stub \in Nat
    BY DEF Messages
  <2> QED
    BY <2>1
<1>1. /\ a \in SUBSET (3..Len(s))
      /\ \A i \in 3..to :
           i \in a <=> s[i].role = "tool" /\ s[i].stub > 0 /\ s[i].answers \notin spared
      /\ \A i \in a : s[i].role = "tool" /\ s[i].answers \notin spared
  BY <1>0 DEF Tools
<1>2. /\ b \in SUBSET (3..Len(s))
      /\ \A i \in 3..to : i \in b <=> s[i].role = "assistant" /\ s[i].stub > 0
      /\ \A i \in b : s[i].role = "assistant"
  BY <1>0 DEF ProseOf
<1>3. t = Pass(s, a) /\ u = Pass(s, b)
  BY DEF ToolPass, ProsePass
<1> HIDE DEF a, b, t, u
<1>4. /\ Compacted(t, s) /\ \A i \in (1..Len(s)) \ a : t[i] = s[i]
      /\ ~ Fits(t) => ~ Fits(s) /\ \A i \in a : t[i].stub = 0
  BY <1>1, <1>3, PassCompacts
<1>5. /\ Compacted(u, s) /\ \A i \in (1..Len(s)) \ b : u[i] = s[i]
      /\ ~ Fits(u) => ~ Fits(s) /\ \A i \in b : u[i].stub = 0
  BY <1>2, <1>3, PassCompacts
<1>6. ASSUME ~ Fits(t), NEW i \in 3..to, s[i].role = "tool", s[i].answers \notin spared
      PROVE  t[i].stub = 0
  <2>1. CASE i \in a
    BY <1>4, <1>6, <2>1
  <2>2. CASE i \notin a
    <3>1. i \in 1..Len(s) /\ ~ (s[i].stub > 0)
      BY <1>0, <1>1, <1>6, <2>2
    <3>2. s[i].stub = 0
      BY <1>0, <3>1
    <3> QED
      BY <1>4, <2>2, <3>1, <3>2
  <2> QED
    BY <2>1, <2>2
<1>7. ASSUME ~ Fits(u), NEW i \in 3..to, s[i].role = "assistant"
      PROVE  u[i].stub = 0
  <2>1. CASE i \in b
    BY <1>5, <1>7, <2>1
  <2>2. CASE i \notin b
    <3>1. i \in 1..Len(s) /\ ~ (s[i].stub > 0)
      BY <1>0, <1>2, <1>7, <2>2
    <3>2. s[i].stub = 0
      BY <1>0, <3>1
    <3> QED
      BY <1>5, <2>2, <3>1, <3>2
  <2> QED
    BY <2>1, <2>2
<1>8. \A i \in 1..Len(s) : s[i].role # "tool" \/ s[i].answers \in spared => t[i] = s[i]
  BY <1>1, <1>4
<1>9. \A i \in 1..Len(s) : s[i].role # "assistant" => u[i] = s[i]
  BY <1>2, <1>5
<1> QED
  BY <1>4, <1>5, <1>6, <1>7, <1>8, <1>9 DEF t, u

(* What is prepared of a conversation is the newest part of it, compacted. *)
Cutoff(s, purpose) == IF Len(s) > Keep(purpose) + 2 THEN Len(s) - Keep(purpose) ELSE 2
Begun(s, purpose) == IF purpose = "repair" THEN WithoutArgs(s) ELSE s
AllTools(s, purpose) ==
  ToolPass(ToolPass(Begun(s, purpose), Cutoff(s, purpose), Spared(s, purpose)), Len(s),
           Spared(s, purpose))
AllProse(s, purpose) ==
  ProsePass(ProsePass(AllTools(s, purpose), Cutoff(s, purpose)), Len(s))

LEMMA PreparedDef ==
  ASSUME NEW s, NEW purpose
  PROVE  Prepared(s, purpose) =
           IF Fits(Begun(s, purpose)) THEN Begun(s, purpose)
           ELSE DropGroups(AllProse(s, purpose), Keep(purpose))
  BY DEF Prepared, Begun, AllProse, AllTools, Cutoff, Spared, Keep

(* Before groups are dropped: everything is compacted if it does not fit,  *)
(* but for the errors of submissions in a repair.                          *)
LEMMA AllProseIs ==
  ASSUME NEW s, Talk(s), NEW purpose \in {"investigate", "repair"}
  PROVE  LET b == Begun(s, purpose)
             t == AllProse(s, purpose)
         IN  /\ Compacted(b, s) /\ Compacted(t, s)
             /\ purpose = "repair" =>
                  \A i \in 3..Len(s) : Why(s, i) => b[i] = s[i] /\ t[i] = s[i]
             /\ ~ Fits(t) => \A i \in 3..Len(s) :
                  t[i].stub > 0 => t[i].answers \in Spared(s, purpose)
<1> DEFINE last == Len(s)
           cut == Cutoff(s, purpose)
           kept == Spared(s, purpose)
           b == Begun(s, purpose)
           t1 == ToolPass(b, cut, kept)
           t2 == ToolPass(t1, last, kept)
           p1 == ProsePass(t2, cut)
           p2 == ProsePass(p1, last)
<1>0. /\ s \in Seq(Messages) /\ last \in Nat /\ last >= 2 /\ DOMAIN s = 1..last
      /\ s[1].args = 0 /\ s[2].args = 0
  BY DEF Talk, Chat, Start, Message
<1>1. cut \in 2..last /\ last \in 2..last
  BY <1>0 DEF Cutoff, Keep
<1>2. AllProse(s, purpose) = p2
  BY DEF AllProse, AllTools
<1> HIDE DEF cut, kept
<1>3. /\ Compacted(b, s)
      /\ purpose = "repair" => \A i \in 3..last : Why(s, i) => b[i] = s[i]
  <2>1. CASE purpose = "repair"
    <3>1. b = WithoutArgs(s)
      BY <2>1 DEF Begun
    <3>2. \A i \in 3..last : i \in 1..last /\ (Why(s, i) => s[i].args = 0)
      BY <1>0 DEF Why, Talk
    <3> QED
      BY <1>0, <3>1, <3>2, WithoutArgsCompacts
  <2>2. CASE purpose # "repair"
    <3>1. b = s
      BY <2>2 DEF Begun
    <3> QED
      BY <1>0, <2>2, <3>1 DEF Compacted
  <2> QED
    BY <2>1, <2>2
<1> HIDE DEF b
<1>4. /\ b \in Seq(Messages) /\ Len(b) = last
      /\ \A i \in 1..last : b[i].role = s[i].role /\ b[i].answers = s[i].answers
  BY <1>3 DEF Compacted
<1>5. Compacted(t1, b)
  BY <1>0, <1>1, <1>4, PassesCompact
<1>6. /\ t1 \in Seq(Messages) /\ Len(t1) = last
      /\ \A i \in 1..last : t1[i].role = s[i].role /\ t1[i].answers = s[i].answers
  BY <1>4, <1>5 DEF Compacted
<1>7. Compacted(t2, t1)
  <2> HIDE DEF t1
  <2> QED
    BY <1>0, <1>1, <1>6, PassesCompact
<1>8. /\ t2 \in Seq(Messages) /\ Len(t2) = last
      /\ \A i \in 1..last : t2[i].role = s[i].role /\ t2[i].answers = s[i].answers
  BY <1>6, <1>7 DEF Compacted
<1>9. Compacted(p1, t2)
  <2> HIDE DEF t2
  <2> QED
    BY <1>0, <1>1, <1>8, PassesCompact
<1>10. /\ p1 \in Seq(Messages) /\ Len(p1) = last
       /\ \A i \in 1..last : p1[i].role = s[i].role /\ p1[i].answers = s[i].answers
  BY <1>8, <1>9 DEF Compacted
<1>11. Compacted(p2, p1)
  <2> HIDE DEF p1
  <2> QED
    BY <1>0, <1>1, <1>10, PassesCompact
<1>12. /\ p2 \in Seq(Messages) /\ Len(p2) = last
       /\ \A i \in 1..last : p2[i].role = s[i].role /\ p2[i].answers = s[i].answers
  BY <1>10, <1>11 DEF Compacted
<1>13. Compacted(p2, s)
  <2> HIDE DEF t1, t2, p1, p2
  <2>1. Compacted(t1, s)
    BY <1>0, <1>3, <1>5, CompactedAgain
  <2>2. Compacted(t2, s)
    BY <1>0, <1>7, <2>1, CompactedAgain
  <2>3. Compacted(p1, s)
    BY <1>0, <1>9, <2>2, CompactedAgain
  <2> QED
    BY <1>0, <1>11, <2>3, CompactedAgain
<1>14. ASSUME purpose = "repair", NEW i \in 3..last, Why(s, i)
       PROVE  p2[i] = s[i]
  <2>1. i \in 1..last
    BY <1>0
  <2>2. s[i].role # "tool" \/ s[i].answers \in kept
    BY <1>14 DEF Why, kept, Spared
  <2>3. s[i].role # "assistant"
    BY <1>14 DEF Why
  <2>4. t1[i] = b[i]
    BY <1>0, <1>1, <1>4, <2>1, <2>2, PassesCompact
  <2>5. t2[i] = t1[i]
    <3> HIDE DEF t1
    <3> QED
      BY <1>0, <1>1, <1>6, <2>1, <2>2, PassesCompact
  <2>6. p1[i] = t2[i]
    <3> HIDE DEF t2
    <3>1. t2 \in Seq(Messages) /\ Len(t2) >= 2 /\ cut \in 2..Len(t2) /\ i \in 1..Len(t2)
      BY <1>0, <1>1, <1>8, <2>1
    <3>2. t2[i].role # "assistant"
      BY <1>8, <2>1, <2>3
    <3>3. \A k \in 1..Len(t2) : t2[k].role # "assistant" => ProsePass(t2, cut)[k] = t2[k]
      BY <3>1, PassesCompact
    <3> QED
      BY <3>1, <3>2, <3>3
  <2>7. p2[i] = p1[i]
    <3> HIDE DEF p1
    <3>1. p1 \in Seq(Messages) /\ Len(p1) >= 2 /\ last \in 2..Len(p1) /\ i \in 1..Len(p1)
      BY <1>0, <1>1, <1>10, <2>1
    <3>2. p1[i].role # "assistant"
      BY <1>10, <2>1, <2>3
    <3>3. \A k \in 1..Len(p1) : p1[k].role # "assistant" => ProsePass(p1, last)[k] = p1[k]
      BY <3>1, PassesCompact
    <3> QED
      BY <3>1, <3>2, <3>3
  <2> QED
    BY <1>3, <1>14, <2>4, <2>5, <2>6, <2>7
<1>15. ASSUME ~ Fits(p2), NEW i \in 3..last, p2[i].stub > 0
       PROVE  p2[i].answers \in kept
  <2>0. i \in 1..last /\ p2[i].stub # 0
    BY <1>0, <1>15
  <2>1. ~ Fits(p1) /\ (p1[i].role = "assistant" => p2[i].stub = 0)
    <3> HIDE DEF p1
    <3>1. p1 \in Seq(Messages) /\ Len(p1) >= 2 /\ last \in 2..Len(p1)
      BY <1>0, <1>1, <1>10
    <3>2. /\ ~ Fits(p1)
          /\ \A j \in 3..last : p1[j].role = "assistant" => ProsePass(p1, last)[j].stub = 0
      BY <1>15, <3>1, PassesCompact
    <3> QED
      BY <3>2
  <2>2. ~ Fits(t2)
    <3> HIDE DEF t2
    <3> QED
      BY <1>0, <1>1, <1>8, <2>1, PassesCompact
  <2>3. t1[i].role = "tool" /\ t1[i].answers \notin kept => t2[i].stub = 0
    <3> HIDE DEF t1
    <3> QED
      BY <1>0, <1>1, <1>6, <2>2, PassesCompact
  <2> HIDE DEF t1, t2, p1, p2
  <2>4. p1[i].stub > 0 /\ s[i].stub > 0
    BY <1>0, <1>10, <1>11, <1>13, <1>15, <2>0 DEF Compacted
  <2>5. t2[i].stub > 0
    BY <1>0, <1>8, <1>9, <2>0, <2>4 DEF Compacted
  <2>6. s[i].role = "tool"
    BY <1>10, <2>0, <2>1, <2>4 DEF Talk
  <2>7. t2[i].stub # 0
    BY <2>5
  <2> QED
    BY <1>6, <1>12, <2>0, <2>3, <2>6, <2>7
<1> QED
  BY <1>2, <1>3, <1>13, <1>14, <1>15 DEF b, kept

MadeFrom(q, s, purpose) ==
  /\ Chat(q) /\ q[1] = Start[1] /\ q[2] = Start[2]
  /\ Len(s) >= 3 => Len(q) >= 3
  /\ \E d \in Nat :
       /\ Len(q) + d = Len(s)
       /\ \A i \in 3..Len(q) :
            /\ q[i].answers = s[i + d].answers /\ q[i].role = s[i + d].role
            /\ purpose = "repair" /\ Why(s, i + d) => q[i] = s[i + d]
  /\ purpose = "investigate" /\ Fits(s) => q = s
  /\ ~ Fits(q) =>
       /\ Cardinality(GroupStarts(q)) <= Keep(purpose)
       /\ \A i \in 3..Len(q) : q[i].stub > 0 => q[i].answers \in Spared(s, purpose)

LEMMA PreparedIs ==
  ASSUME NEW s, Talk(s), NEW purpose \in {"investigate", "repair"}
  PROVE  MadeFrom(Prepared(s, purpose), s, purpose)
<1> DEFINE b == Begun(s, purpose)
           t == AllProse(s, purpose)
           q == Prepared(s, purpose)
           keep == Keep(purpose)
<1>0. /\ s \in Seq(Messages) /\ Len(s) \in Nat /\ Len(s) >= 2 /\ Chat(s)
      /\ s[1] = Start[1] /\ s[2] = Start[2] /\ keep \in Nat \ {0}
  BY DEF Talk, Chat, Keep
<1>1. /\ Compacted(b, s) /\ Compacted(t, s)
      /\ purpose = "repair" =>
           \A i \in 3..Len(s) : Why(s, i) => b[i] = s[i] /\ t[i] = s[i]
      /\ ~ Fits(t) => \A i \in 3..Len(s) : t[i].stub > 0 => t[i].answers \in Spared(s, purpose)
  BY AllProseIs
<1>2. purpose = "investigate" => b = s
  BY DEF Begun
<1>3. q = IF Fits(b) THEN b ELSE DropGroups(t, keep)
  BY PreparedDef
<1> HIDE DEF b, t, q, keep
<1>4. Chat(b) /\ Chat(t)
  BY <1>0, <1>1, CompactedChat
<1>5. CASE Fits(b)
  <2>1. q = b /\ Len(b) = Len(s) /\ b[1] = s[1] /\ b[2] = s[2]
    BY <1>1, <1>3, <1>5 DEF Compacted
  <2>2. \A i \in 3..Len(q) :
          /\ q[i].answers = s[i + 0].answers /\ q[i].role = s[i + 0].role
          /\ purpose = "repair" /\ Why(s, i + 0) => q[i] = s[i + 0]
    <3>1. \A i \in 3..Len(q) : i \in 1..Len(s) /\ i \in 3..Len(s) /\ i + 0 = i
      BY <1>0, <2>1
    <3> QED
      BY <1>1, <2>1, <3>1 DEF Compacted
  <2>3. Len(q) + 0 = Len(s)
    BY <1>0, <2>1
  <2> QED
    BY <1>0, <1>1, <1>2, <1>4, <1>5, <2>1, <2>2, <2>3 DEF q, MadeFrom
<1>6. CASE ~ Fits(b)
  <2>1. q = DropGroups(t, keep)
    BY <1>3, <1>6
  <2>2. /\ Chat(q) /\ Stuck(q, keep) /\ (Fits(t) => q = t)
        /\ Len(t) >= 3 => Len(q) >= 3
    BY <1>0, <1>4, <2>1, DropGroupsCuts
  <2>3. PICK d \in Nat : CutBy(q, t, d)
    BY <1>0, <1>4, <2>1, DropGroupsCuts
  <2>4. /\ Len(t) = Len(s) /\ Len(q) + d = Len(s) /\ Len(q) \in Nat
        /\ q[1] = s[1] /\ q[2] = s[2]
    BY <1>1, <2>2, <2>3 DEF Compacted, CutBy, Chat
  <2>5. \A i \in 3..Len(q) : i + d \in 3..Len(s) /\ q[i] = t[i + d]
    BY <1>0, <2>3, <2>4 DEF CutBy
  <2>6. \A i \in 3..Len(q) :
          /\ q[i].answers = s[i + d].answers /\ q[i].role = s[i + d].role
          /\ purpose = "repair" /\ Why(s, i + d) => q[i] = s[i + d]
    <3>1. \A i \in 3..Len(s) : t[i].answers = s[i].answers /\ t[i].role = s[i].role
      BY <1>0, <1>1 DEF Compacted
    <3> QED
      BY <1>1, <2>5, <3>1
  <2>7. Len(s) >= 3 => Len(q) >= 3
    BY <2>2, <2>4
  <2>8. ASSUME ~ Fits(q)
        PROVE  /\ Cardinality(GroupStarts(q)) <= keep
               /\ \A i \in 3..Len(q) : q[i].stub > 0 => q[i].answers \in Spared(s, purpose)
    <3>1. Droppable(q, keep) = {}
      BY <2>2, <2>8 DEF Stuck
    <3>2. ~ Fits(t)
      BY <2>2, <2>8
    <3> QED
      BY <1>0, <1>1, <2>2, <2>5, <3>1, <3>2, FewGroups
  <2>9. purpose = "investigate" => ~ Fits(s)
    BY <1>2, <1>6
  <2> QED
    BY <1>0, <2>2, <2>4, <2>6, <2>7, <2>8, <2>9 DEF q, keep, MadeFrom
<1> QED
  BY <1>5, <1>6

-----------------------------------------------------------------------------
(* What is said in a turn: one message, and the results of its calls. *)
Turn(g, n) ==
  /\ g \in Seq(Messages) /\ Len(g) >= 1
  /\ g[1].role # "tool" /\ g[1].answers = 0
  /\ g[1].role # "assistant" => g[1].stub = 0 /\ g[1].args = 0
  /\ \A j \in 2..Len(g) : /\ g[j].role = "tool" /\ g[j].calls = {} /\ g[j].answers \in g[1].calls
                         /\ g[j].args = 0
                         /\ n < g[j].answers /\ g[j].answers <= n + Len(g)
  /\ \A c \in g[1].calls : \E j \in 2..Len(g) : g[j].answers = c
  /\ \A j, k \in 2..Len(g) : j < k => g[j].answers < g[k].answers

LEMMA TalkGoesOn ==
  ASSUME NEW s, Talk(s), NEW g, Turn(g, Len(s))
  PROVE  Talk(s \o g)
<1> DEFINE n == Len(s)
           t == s \o g
           At(i) == i - n
<1>0. /\ s \in Seq(Messages) /\ g \in Seq(Messages) /\ n \in Nat /\ n >= 2
      /\ Len(g) \in Nat /\ Len(g) >= 1
  BY DEF Talk, Chat, Turn
<1>1. /\ t \in Seq(Messages) /\ Len(t) = n + Len(g)
      /\ \A i \in 1..n : t[i] = s[i]
      /\ \A i \in (n + 1)..(n + Len(g)) : t[i] = g[At(i)]
  BY <1>0, ConcatProperties
<1> HIDE DEF t
<1>2. \A i \in (n + 1)..(n + Len(g)) : At(i) \in 1..Len(g) /\ (i # n + 1 => At(i) \in 2..Len(g))
  BY <1>0
<1>3. At(n + 1) = 1 /\ n + 1 \in (n + 1)..(n + Len(g)) /\ t[n + 1] = g[1]
  <2>1. At(n + 1) = 1 /\ n + 1 \in (n + 1)..(n + Len(g))
    BY <1>0
  <2> HIDE DEF At
  <2> QED
    BY <1>1, <2>1
<1>4. \A i \in (n + 2)..(n + Len(g)) : At(i) \in 2..Len(g) /\ t[i] = g[At(i)]
  BY <1>0, <1>1
<1>5. \A i \in (n + 2)..(n + Len(g)) :
        /\ t[i].role = "tool" /\ t[i].calls = {} /\ t[i].answers \in t[n + 1].calls
        /\ t[i].args = 0
        /\ n < t[i].answers /\ t[i].answers <= n + Len(g)
  <2> TAKE i \in (n + 2)..(n + Len(g))
  <2>1. At(i) \in 2..Len(g) /\ t[i] = g[At(i)]
    BY <1>4
  <2> HIDE DEF At
  <2> QED
    BY <1>3, <2>1 DEF Turn
<1>6. \A i \in 1..Len(t) : i \in 1..n \/ i = n + 1 \/ i \in (n + 2)..(n + Len(g))
  BY <1>0, <1>1
<1>7. ASSUME NEW h \in Nat, NEW i \in Nat, h >= 1, i <= n
      PROVE  Results(t, h, i) <=> Results(s, h, i)
  <2>1. \A k \in h..i : k \in 1..n /\ t[k] = s[k]
    BY <1>0, <1>1, <1>7
  <2> QED
    BY <2>1 DEF Results
<1>8. t[n + 1].role # "tool"
  BY <1>3 DEF Turn
<1>9. ASSUME NEW i \in 3..Len(t), t[i].role = "tool"
      PROVE  \E h \in 3..(i - 1) :
               t[h].role # "tool" /\ Results(t, h + 1, i) /\ t[i].answers \in t[h].calls
  <2>1. CASE i \in 1..n
    <3>1. i \in 3..n /\ s[i].role = "tool" /\ t[i] = s[i]
      BY <1>1, <1>9, <2>1
    <3>2. PICK h \in 3..(i - 1) :
            s[h].role # "tool" /\ Results(s, h + 1, i) /\ s[i].answers \in s[h].calls
      BY <3>1 DEF Talk, Chat
    <3>3. h \in 1..n /\ h + 1 \in Nat /\ i \in Nat /\ h + 1 >= 1 /\ i <= n
      BY <3>1
    <3> QED
      BY <1>1, <1>7, <3>1, <3>2, <3>3
  <2>2. CASE i \in (n + 2)..(n + Len(g))
    <3>1. Results(t, n + 2, i)
      BY <1>0, <1>5, <2>2 DEF Results
    <3>2. n + 1 \in 3..(i - 1) /\ (n + 1) + 1 = n + 2
      BY <1>0, <2>2
    <3> QED
      BY <1>5, <1>8, <2>2, <3>1, <3>2
  <2> QED
    BY <1>0, <1>1, <1>6, <1>8, <1>9, <2>1, <2>2
<1>10. ASSUME NEW h \in 3..Len(t), NEW c \in t[h].calls
       PROVE  \E k \in (h + 1)..Len(t) : Results(t, h + 1, k) /\ t[k].answers = c
  <2>1. CASE h \in 1..n
    <3>1. h \in 3..n /\ c \in s[h].calls
      BY <1>1, <2>1
    <3>2. PICK k \in (h + 1)..n : Results(s, h + 1, k) /\ s[k].answers = c
      BY <3>1 DEF Talk, Chat
    <3>3. /\ k \in 1..n /\ h + 1 \in Nat /\ k \in Nat /\ h + 1 >= 1 /\ k <= n
          /\ k \in (h + 1)..Len(t)
      BY <1>0, <1>1, <3>1
    <3> QED
      BY <1>1, <1>7, <3>2, <3>3
  <2>2. CASE h = n + 1
    <3>1. PICK j \in 2..Len(g) : g[j].answers = c
      BY <1>3, <2>2 DEF Turn
    <3> DEFINE k == n + j
    <3>2. k \in (n + 2)..(n + Len(g)) /\ At(k) = j /\ h + 1 = n + 2 /\ k \in (h + 1)..Len(t)
      BY <1>0, <1>1, <2>2
    <3>3. Results(t, n + 2, k)
      BY <1>0, <1>5, <3>2 DEF Results
    <3>4. t[k].answers = c
      BY <1>4, <3>1, <3>2
    <3> QED
      BY <3>2, <3>3, <3>4
  <2>3. CASE h \in (n + 2)..(n + Len(g))
    BY <1>5, <2>3
  <2>4. h \in 1..n \/ h = n + 1 \/ h \in (n + 2)..(n + Len(g))
    <3>1. h \in 1..Len(t)
      BY <1>0, <1>1
    <3> QED
      BY <1>6, <3>1
  <2> QED
    BY <2>1, <2>2, <2>3, <2>4, Zenon
<1>11. Chat(t) /\ t[1] = Start[1] /\ t[2] = Start[2]
  <2>1. \A i \in 1..2 : i \in 1..n /\ t[i] = s[i]
    BY <1>0, <1>1
  <2>2. \A i \in 1..2 : t[i].role # "tool"
    BY <2>1 DEF Talk, Chat
  <2> QED
    BY <1>0, <1>1, <1>9, <1>10, <2>1, <2>2 DEF Chat, Talk
<1>12. ASSUME NEW i \in 1..Len(t)
       PROVE  /\ t[i].answers <= Len(t) /\ (t[i].role # "tool" => t[i].answers = 0)
              /\ t[i].stub > 0 => t[i].role \in {"tool", "assistant"}
              /\ t[i].role # "assistant" => t[i].args = 0
  <2>1. CASE i \in 1..n
    <3>1. t[i] = s[i] /\ s[i] \in Messages
      BY <1>0, <1>1, <2>1
    <3>2. s[i].answers \in Nat /\ s[i].answers <= n
      <4>1. \A m \in Messages : m.answers \in Nat
        BY DEF Messages
      <4> QED
        BY <2>1, <3>1, <4>1 DEF Talk
    <3>3. t[i].answers <= Len(t)
      BY <1>0, <1>1, <3>1, <3>2
    <3> QED
      BY <2>1, <3>1, <3>3 DEF Talk
  <2>2. CASE i = n + 1
    BY <1>0, <1>1, <1>3, <2>2 DEF Turn
  <2>3. CASE i \in (n + 2)..(n + Len(g))
    BY <1>1, <1>5, <2>3
  <2> QED
    BY <1>6, <2>1, <2>2, <2>3
<1>13. ASSUME NEW i \in 1..Len(t), NEW k \in 1..Len(t), i < k,
              t[i].role = "tool", t[k].role = "tool"
       PROVE  t[i].answers < t[k].answers
  <2>1. CASE k \in 1..n
    <3>1. i \in 1..n
      BY <1>0, <1>13, <2>1
    <3> QED
      BY <1>1, <1>13, <2>1, <3>1 DEF Talk
  <2>2. CASE k \in (n + 2)..(n + Len(g)) /\ i \in 1..n
    <3>1. t[i] = s[i] /\ s[i] \in Messages /\ t[k] \in Messages
      BY <1>0, <1>1, <2>2
    <3>2. s[i].answers \in Nat /\ t[k].answers \in Nat
      <4>1. \A m \in Messages : m.answers \in Nat
        BY DEF Messages
      <4> QED
        BY <3>1, <4>1
    <3>3. s[i].answers <= n /\ n < t[k].answers
      BY <1>5, <2>2 DEF Talk
    <3> QED
      BY <1>0, <3>1, <3>2, <3>3
  <2>3. CASE k \in (n + 2)..(n + Len(g)) /\ i \in (n + 2)..(n + Len(g))
    <3>1. At(i) \in 2..Len(g) /\ At(k) \in 2..Len(g) /\ At(i) < At(k)
      BY <1>0, <1>13, <2>3
    <3>2. t[i] = g[At(i)] /\ t[k] = g[At(k)]
      BY <1>4, <2>3
    <3>3. \A a, b \in 2..Len(g) : a < b => g[a].answers < g[b].answers
      BY DEF Turn
    <3> HIDE DEF At
    <3> QED
      BY <3>1, <3>2, <3>3
  <2> QED
    BY <1>6, <1>8, <1>13, <2>1, <2>2, <2>3
<1> QED
  BY <1>11, <1>12, <1>13 DEF Talk, t

(* A message that stands alone is a turn. *)
LEMMA TurnOfOne ==
  ASSUME NEW m \in Messages, NEW n \in Nat, m.role # "tool", m.answers = 0, m.calls = {},
         m.role # "assistant" => m.stub = 0 /\ m.args = 0
  PROVE  Turn(<<m>>, n)
<1>1. /\ <<m>> \in Seq(Messages) /\ Len(<<m>>) = 1 /\ <<m>>[1] = m /\ 2..1 = {}
  OBVIOUS
<1> QED
  BY <1>1 DEF Turn

(* So are calls and the answers to them. *)
LEMMA TurnOfCalls ==
  ASSUME NEW N \in Nat, NEW n \in 1..2, NEW a \in Messages, NEW b \in [1..n -> Messages],
         a.role = "assistant", a.answers = 0, a.calls = {N + 1 + k : k \in 1..n},
         \A k \in 1..n : /\ b[k].role = "tool" /\ b[k].answers = N + 1 + k
                         /\ b[k].calls = {} /\ b[k].args = 0
  PROVE  Turn(<<a>> \o b, N)
<1> DEFINE g == <<a>> \o b
<1>1. b \in Seq(Messages) /\ Len(b) = n
  BY SeqDef
<1>2. /\ g \in Seq(Messages) /\ Len(g) = n + 1 /\ g[1] = a
      /\ \A j \in 2..(n + 1) : g[j] = b[j - 1]
  <2>1. <<a>> \in Seq(Messages) /\ Len(<<a>>) = 1 /\ <<a>>[1] = a
    OBVIOUS
  <2> QED
    BY <1>1, <2>1, ConcatProperties
<1> HIDE DEF g
<1>3. \A j \in 2..(n + 1) : /\ g[j].role = "tool" /\ g[j].calls = {} /\ g[j].args = 0
                           /\ g[j].answers = N + j /\ g[j].answers \in a.calls
  <2> TAKE j \in 2..(n + 1)
  <2> DEFINE k == j - 1
  <2>1. k \in 1..n /\ N + 1 + k = N + j /\ g[j] = b[k]
    BY <1>2
  <2> HIDE DEF k
  <2>2. N + 1 + k \in a.calls
    BY <2>1
  <2>3. /\ b[k].role = "tool" /\ b[k].answers = N + 1 + k
        /\ b[k].calls = {} /\ b[k].args = 0
    BY <2>1
  <2> QED
    BY <2>1, <2>2, <2>3, Zenon
<1>4. \A c \in a.calls : \E j \in 2..(n + 1) : g[j].answers = c
  <2> TAKE c \in a.calls
  <2>1. PICK k \in 1..n : c = N + 1 + k
    OBVIOUS
  <2>2. k + 1 \in 2..(n + 1) /\ N + (k + 1) = c
    BY <2>1
  <2> QED
    BY <1>3, <2>2
<1>5. \A j \in 2..(n + 1) : N < N + j /\ N + j <= N + (n + 1)
  OBVIOUS
<1>6. \A j, k \in 2..(n + 1) : j < k => g[j].answers < g[k].answers
  BY <1>3
<1>7. Turn(g, N)
  BY <1>2, <1>3, <1>4, <1>5, <1>6 DEF Turn
<1> QED
  BY <1>7 DEF g

LEMMA TalkOfTwo ==
  ASSUME NEW s, Talk(s), NEW a, NEW b, Turn(<<a>>, Len(s)), Turn(<<b>>, Len(s) + 1)
  PROVE  Talk(s \o <<a, b>>)
<1>1. /\ s \in Seq(Messages) /\ <<a>> \in Seq(Messages) /\ <<b>> \in Seq(Messages)
      /\ Len(s) \in Nat
  BY DEF Talk, Chat, Turn
<1>2. Talk(s \o <<a>>) /\ Len(s \o <<a>>) = Len(s) + 1
  BY <1>1, TalkGoesOn, ConcatProperties
<1>3. Talk((s \o <<a>>) \o <<b>>)
  BY <1>2, TalkGoesOn
<1>4. <<a>> \o <<b>> = <<a, b>>
  <2>1. /\ Len(<<a>>) = 1 /\ <<a>>[1] = a /\ Len(<<b>>) = 1 /\ <<b>>[1] = b
        /\ Len(<<a, b>>) = 2 /\ <<a, b>>[1] = a /\ <<a, b>>[2] = b
    OBVIOUS
  <2>2. a \in Messages /\ b \in Messages
    <3>1. 1 \in 1..Len(<<a>>) /\ 1 \in 1..Len(<<b>>)
      OBVIOUS
    <3> QED
      BY <1>1, <2>1, <3>1, ElementOfSeq
  <2>3. <<a, b>> \in Seq(Messages)
    BY <2>2
  <2> DEFINE u == <<a>> \o <<b>>
  <2>4. u \in Seq(Messages) /\ Len(u) = 2 /\ u[1] = a /\ u[2] = b
    BY <1>1, <2>1, ConcatProperties
  <2> DEFINE v == <<a, b>>
  <2>5. v \in Seq(Messages) /\ Len(v) = 2 /\ v[1] = a /\ v[2] = b
    BY <2>1, <2>3
  <2> HIDE DEF u, v
  <2>6. u = v
    BY <2>4, <2>5, SeqEqual
  <2> QED
    BY <2>6 DEF u, v
<1>5. (s \o <<a>>) \o <<b>> = s \o (<<a>> \o <<b>>)
  BY <1>1, ConcatAssociative
<1> QED
  BY <1>3, <1>4, <1>5

(* The messages that are said. *)
LEMMA UserSays ==
  ASSUME CompactionAssumption, NEW size \in Sizes \cup {1}
  PROVE  LET m == Message("user", size)
         IN  /\ m \in Messages /\ m.role = "user" /\ m.answers = 0 /\ m.calls = {}
             /\ m.stub = 0 /\ m.args = 0
<1>1. size \in Nat
  BY DEF CompactionAssumption
<1> QED
  BY <1>1 DEF Message, Messages, Roles

LEMMA AssistantSays ==
  ASSUME CompactionAssumption, NEW size \in Sizes \cup {1}
  PROVE  LET m == Prose(size)
         IN  /\ m \in Messages /\ m.role = "assistant" /\ m.answers = 0 /\ m.calls = {}
             /\ m.args = 0
<1>1. size \in Nat /\ StubOf(size) \in Nat
  BY DEF CompactionAssumption, StubOf
<1> QED
  BY <1>1 DEF Prose, Message, Messages, Roles

Calling(ids) == [Prose(1) EXCEPT !.calls = ids]
Submitting(ids, submits) ==
  [Prose(1) EXCEPT !.calls = ids, !.submits = submits,
     !.args = IF submits = {} THEN 0 ELSE Submitted]
Refusal(size, id) == [Message("tool", size) EXCEPT !.stub = StubOf(size), !.answers = id]
Found(size, id) ==
  [Message("tool", size) EXCEPT !.stub = StubOf(size), !.answers = id, !.evidence = id]

LEMMA AssistantCalls ==
  ASSUME CompactionAssumption, NEW ids \in SUBSET Nat
  PROVE  LET m == Calling(ids)
         IN  m \in Messages /\ m.role = "assistant" /\ m.answers = 0 /\ m.calls = ids
<1>1. 1 \in Nat /\ StubOf(1) \in Nat
  BY DEF CompactionAssumption, StubOf
<1> QED
  BY <1>1 DEF Calling, Prose, Message, Messages, Roles

LEMMA AssistantSubmits ==
  ASSUME CompactionAssumption, NEW ids \in SUBSET Nat, NEW submits \in SUBSET Nat
  PROVE  LET m == Submitting(ids, submits)
         IN  m \in Messages /\ m.role = "assistant" /\ m.answers = 0 /\ m.calls = ids
<1>1. 1 \in Nat /\ StubOf(1) \in Nat /\ (IF submits = {} THEN 0 ELSE Submitted) \in Nat
  BY DEF CompactionAssumption, StubOf
<1> QED
  BY <1>1 DEF Submitting, Prose, Message, Messages, Roles

LEMMA ToolAnswers ==
  ASSUME CompactionAssumption, NEW size \in Sizes, NEW id \in Nat
  PROVE  \A m \in {Refusal(size, id), Found(size, id)} :
           /\ m \in Messages /\ m.role = "tool" /\ m.answers = id /\ m.calls = {}
           /\ m.args = 0
<1>1. size \in Nat /\ StubOf(size) \in Nat
  BY DEF CompactionAssumption, StubOf
<1>2. LET m == Refusal(size, id)
      IN  /\ m \in Messages /\ m.role = "tool" /\ m.answers = id /\ m.calls = {}
          /\ m.args = 0
  BY <1>1 DEF Refusal, Message, Messages, Roles
<1>3. LET m == Found(size, id)
      IN  /\ m \in Messages /\ m.role = "tool" /\ m.answers = id /\ m.calls = {}
          /\ m.args = 0
  BY <1>1 DEF Found, Message, Messages, Roles
<1> QED
  BY <1>2, <1>3, Zenon

-----------------------------------------------------------------------------
(* The invariant: the conversation is one, and the request was prepared    *)
(* from it.                                                                *)
Conv ==
  /\ mode \in {"investigate", "repair"}
  /\ Talk(messages)
  /\ request = Prepared(messages, mode)

LEMMA InitConv == CompactionAssumption /\ Init => Conv
<1> SUFFICES ASSUME CompactionAssumption, Init
             PROVE  Conv
  OBVIOUS
<1>1. Prompt \in Nat
  BY DEF CompactionAssumption
<1>2. /\ Start \in Seq(Messages) /\ Len(Start) = 2
      /\ Start[1].role = "system" /\ Start[2].role = "user"
      /\ \A i \in 1..2 : Start[i].answers = 0 /\ Start[i].stub = 0 /\ Start[i].args = 0
  BY <1>1 DEF Start, Message, Messages, Roles
<1>3. Chat(Start)
  BY <1>2 DEF Chat
<1>4. Talk(Start)
  BY <1>2, <1>3 DEF Talk
<1> QED
  BY <1>4 DEF Init, Conv

LEMMA StepConv ==
  ASSUME CompactionAssumption, Conv, [Next]_vars
  PROVE  Conv'
<1> DEFINE N == Len(messages)
<1>0. messages \in Seq(Messages) /\ N \in Nat /\ Talk(messages)
  BY DEF Conv, Talk, Chat
<1>1. ASSUME NEW purpose \in {"investigate", "repair"}, NEW more, Say(purpose, more),
             Talk(messages \o more)
      PROVE  Conv'
  BY <1>1 DEF Say, Conv
<1>2. CASE CallTools
  <2>1. PICK n \in 1..2 : \E results \in [1..n -> Sizes] :
          Say(mode, <<Calling({NewCall + k : k \in DOMAIN results})>>
                    \o [k \in DOMAIN results |-> Found(results[k], NewCall + k)])
    BY <1>2 DEF CallTools, Calling, Found
  <2>2. PICK results \in [1..n -> Sizes] :
          Say(mode, <<Calling({NewCall + k : k \in DOMAIN results})>>
                    \o [k \in DOMAIN results |-> Found(results[k], NewCall + k)])
    BY <2>1
  <2> DEFINE ids == {NewCall + k : k \in DOMAIN results}
             a == Calling(ids)
             result(k) == Found(results[k], NewCall + k)
             b == [k \in DOMAIN results |-> result(k)]
             g == <<a>> \o b
  <2>3. ids \in SUBSET Nat /\ NewCall \in Nat /\ NewCall = N + 1 /\ DOMAIN results = 1..n
    BY <1>0 DEF NewCall
  <2>4. ids = {NewCall + k : k \in 1..n}
    BY <2>3
  <2> HIDE DEF ids
  <2>5. a \in Messages /\ a.role = "assistant" /\ a.answers = 0 /\ a.calls = ids
    BY <2>3, AssistantCalls
  <2>6. \A k \in 1..n : /\ result(k) \in Messages /\ result(k).role = "tool"
                       /\ result(k).answers = NewCall + k /\ result(k).calls = {}
                       /\ result(k).args = 0
    <3> TAKE k \in 1..n
    <3>1. results[k] \in Sizes /\ NewCall + k \in Nat
      BY <2>3
    <3> QED
      BY <3>1, ToolAnswers
  <2> HIDE DEF a, result
  <2>7. Talk(messages \o g)
    <3>1. b = [k \in 1..n |-> result(k)]
      BY <2>3
    <3>2. b \in [1..n -> Messages]
      BY <2>6, <3>1
    <3>3. \A k \in 1..n : /\ b[k].role = "tool" /\ b[k].answers = N + 1 + k
                          /\ b[k].calls = {} /\ b[k].args = 0
      BY <2>3, <2>6, <3>1
    <3> HIDE DEF b
    <3>4. a.calls = {N + 1 + k : k \in 1..n}
      BY <2>3, <2>4, <2>5
    <3>5. Turn(g, N)
      BY <1>0, <2>5, <3>2, <3>3, <3>4, TurnOfCalls
    <3> QED
      BY <1>0, <3>5, TalkGoesOn
  <2>8. mode = "investigate"
    BY <1>2 DEF CallTools
  <2>9. Say(mode, g)
    BY <2>2 DEF a, result, ids
  <2> QED
    BY <1>1, <2>7, <2>8, <2>9
<1>3. CASE Write
  <2>1. PICK size \in Sizes : Say(mode, <<Prose(size), Message("user", 1)>>)
    BY <1>3 DEF Write
  <2>2. Turn(<<Prose(size)>>, N) /\ Turn(<<Message("user", 1)>>, N + 1)
    <3>1. N + 1 \in Nat
      BY <1>0
    <3> QED
      BY <1>0, <3>1, AssistantSays, UserSays, TurnOfOne
  <2>3. Talk(messages \o <<Prose(size), Message("user", 1)>>)
    BY <1>0, <2>2, TalkOfTwo
  <2>4. mode = "investigate"
    BY <1>3 DEF Write
  <2> QED
    BY <1>1, <2>1, <2>3, <2>4
<1>4. CASE RejectCall
  <2>0. PICK error \in Sizes, n \in 1..2 : \E submits \in SUBSET (NewCall + 1..NewCall + n) :
          Say("repair", <<Submitting({NewCall + k : k \in 1..n}, submits)>>
                        \o [k \in 1..n |-> Refusal(error, NewCall + k)])
    BY <1>4 DEF RejectCall, Submitting, Refusal
  <2>1. PICK submits \in SUBSET (NewCall + 1..NewCall + n) :
          Say("repair", <<Submitting({NewCall + k : k \in 1..n}, submits)>>
                        \o [k \in 1..n |-> Refusal(error, NewCall + k)])
    BY <2>0
  <2> DEFINE ids == {NewCall + k : k \in 1..n}
             a == Submitting(ids, submits)
             answer(k) == Refusal(error, NewCall + k)
             b == [k \in 1..n |-> answer(k)]
             g == <<a>> \o b
  <2>2. /\ ids \in SUBSET Nat /\ submits \in SUBSET Nat
        /\ NewCall \in Nat /\ NewCall = N + 1
    BY <1>0 DEF NewCall
  <2>3. ids = {N + 1 + k : k \in 1..n}
    BY <2>2
  <2> HIDE DEF ids
  <2>4. a \in Messages /\ a.role = "assistant" /\ a.answers = 0 /\ a.calls = ids
    BY <2>2, AssistantSubmits
  <2>5. \A k \in 1..n : /\ answer(k) \in Messages /\ answer(k).role = "tool"
                       /\ answer(k).answers = N + 1 + k /\ answer(k).calls = {}
                       /\ answer(k).args = 0
    <3> TAKE k \in 1..n
    <3>1. NewCall + k \in Nat /\ NewCall + k = N + 1 + k
      BY <2>2
    <3> QED
      BY <3>1, ToolAnswers
  <2> HIDE DEF a, answer
  <2>6. Talk(messages \o g)
    <3>1. b \in [1..n -> Messages]
      BY <2>5
    <3>2. \A k \in 1..n : b[k] = answer(k)
      OBVIOUS
    <3> HIDE DEF b
    <3>3. \A k \in 1..n : /\ b[k].role = "tool" /\ b[k].answers = N + 1 + k
                          /\ b[k].calls = {} /\ b[k].args = 0
      BY <2>5, <3>2
    <3>4. a.calls = {N + 1 + k : k \in 1..n}
      BY <2>3, <2>4
    <3>5. Turn(g, N)
      BY <1>0, <2>4, <3>1, <3>3, <3>4, TurnOfCalls
    <3> QED
      BY <1>0, <3>5, TalkGoesOn
  <2>7. Say("repair", g)
    BY <2>1 DEF a, answer, ids
  <2> QED
    BY <1>1, <2>6, <2>7
<1>5. CASE RejectText
  <2>1. PICK text \in Sizes, error \in Sizes :
          Say("repair", <<Prose(text), Message("user", error)>>)
    BY <1>5 DEF RejectText
  <2> DEFINE a == Prose(text)
             b == Message("user", error)
             t == messages \o <<a, b>>
  <2>2. /\ a \in Messages /\ a.role = "assistant" /\ a.answers = 0 /\ a.calls = {}
        /\ b \in Messages /\ b.role = "user" /\ b.answers = 0 /\ b.calls = {}
        /\ b.stub = 0 /\ b.args = 0
    BY AssistantSays, UserSays
  <2> HIDE DEF a, b
  <2>3. Turn(<<a>>, N) /\ Turn(<<b>>, N + 1)
    <3>1. N + 1 \in Nat
      BY <1>0
    <3> QED
      BY <1>0, <2>2, <3>1, TurnOfOne
  <2>4. Talk(t)
    BY <1>0, <2>3, TalkOfTwo
  <2>5. Say("repair", <<a, b>>)
    BY <2>1 DEF a, b
  <2> QED
    BY <1>1, <2>4, <2>5
<1>6. CASE UNCHANGED vars
  BY <1>6 DEF vars, Conv
<1> QED
  BY <1>2, <1>3, <1>4, <1>5, <1>6 DEF Next

LEMMA Invariance ==
  ASSUME CompactionAssumption
  PROVE  Spec => []Conv
<1>1. Init => Conv
  BY InitConv
<1>2. Conv /\ [Next]_vars => Conv'
  BY StepConv
<1> QED
  BY <1>1, <1>2, PTL DEF Spec

LEMMA ConvRequest ==
  ASSUME Conv
  PROVE  /\ Chat(messages) /\ messages[1] = Start[1] /\ messages[2] = Start[2]
         /\ Chat(request) /\ request[1] = Start[1] /\ request[2] = Start[2]
         /\ Len(messages) >= 3 => Len(request) >= 3
         /\ \E d \in Nat :
              /\ Len(request) + d = Len(messages)
              /\ \A i \in 3..Len(request) :
                   /\ request[i].answers = messages[i + d].answers
                   /\ request[i].role = messages[i + d].role
                   /\ mode = "repair" /\ Why(messages, i + d) => request[i] = messages[i + d]
         /\ mode = "investigate" /\ Fits(messages) => request = messages
         /\ ~ Fits(request) =>
              /\ Cardinality(GroupStarts(request)) <= Keep(mode)
              /\ \A i \in 3..Len(request) :
                   request[i].stub > 0 => request[i].answers \in Spared(messages, mode)
<1>1. Chat(messages) /\ messages[1] = Start[1] /\ messages[2] = Start[2]
  BY DEF Conv, Talk
<1>2. /\ Talk(messages) /\ mode \in {"investigate", "repair"}
      /\ request = Prepared(messages, mode)
  BY DEF Conv
<1>3. MadeFrom(request, messages, mode)
  BY <1>2, PreparedIs
<1> QED
  BY <1>1, <1>3 DEF MadeFrom

LEMMA ConvTypes == Conv => TypeOK
<1> SUFFICES ASSUME Conv
             PROVE  TypeOK
  OBVIOUS
<1>1. ASSUME NEW s, Chat(s), s[1] = Start[1], s[2] = Start[2]
      PROVE  /\ Len(s) >= 2 /\ SubSeq(s, 1, 2) = Start
             /\ \A i \in DOMAIN s : s[i].role \in {"system", "user", "assistant", "tool"}
  <2>1. /\ s \in Seq(Messages) /\ Len(s) \in Nat /\ Len(s) >= 2 /\ DOMAIN s = 1..Len(s)
    BY <1>1 DEF Chat
  <2>2. \A m \in Messages : m.role \in {"system", "user", "assistant", "tool"}
    BY DEF Messages, Roles
  <2>3. \A i \in DOMAIN s : s[i] \in Messages
    BY <2>1
  <2> DEFINE u == SubSeq(s, 1, 2)
  <2>4. u \in Seq(Messages) /\ Len(u) = 2 /\ u[1] = s[1] /\ u[2] = s[2]
    BY <2>1, SubSeqProperties
  <2>5. Start \in Seq(Messages) /\ Len(Start) = 2
    <3> DEFINE a == Message("system", Prompt)
               b == Message("user", Prompt)
    <3>1. Start = <<a, b>> /\ Start[1] = a /\ Start[2] = b /\ Len(<<a, b>>) = 2
      BY DEF Start
    <3>2. 1 \in DOMAIN s /\ 2 \in DOMAIN s
      BY <2>1
    <3> HIDE DEF a, b
    <3>3. a \in Messages /\ b \in Messages
      BY <1>1, <2>3, <3>1, <3>2
    <3> QED
      BY <3>1, <3>3
  <2> HIDE DEF u
  <2>6. u = Start
    <3>1. \A i \in 1..Len(u) : u[i] = Start[i]
      BY <1>1, <2>4
    <3> QED
      BY <2>4, <2>5, <3>1, SeqEqual
  <2> QED
    BY <2>1, <2>2, <2>3, <2>6 DEF u
<1>2. Len(request) <= Len(messages)
  <2>1. Len(request) \in Nat /\ Len(messages) \in Nat
    BY ConvRequest DEF Chat
  <2> QED
    BY <2>1, ConvRequest
<1>3. mode \in {"investigate", "repair"}
  BY DEF Conv
<1> QED
  BY <1>1, <1>2, <1>3, ConvRequest DEF TypeOK

(* The newest group is in the request, and a repair leaves in it what says *)
(* why the answer was rejected.                                            *)
LEMMA ConvRejectionKept == Conv => RejectionKept
<1> SUFFICES ASSUME Conv, mode = "repair", NEW i \in 3..Len(messages),
                    \A k \in (i + 1)..Len(messages) : messages[k].role = "tool",
                    SaysWhy(messages[i])
             PROVE  /\ i - (Len(messages) - Len(request)) \in 3..Len(request)
                    /\ request[i - (Len(messages) - Len(request))] = messages[i]
  BY DEF RejectionKept
<1>0. /\ Len(messages) \in Nat /\ Len(request) \in Nat /\ Len(request) >= 3 /\ Chat(request)
  <2>1. Chat(messages) /\ Chat(request) /\ (Len(messages) >= 3 => Len(request) >= 3)
    BY ConvRequest
  <2>2. Len(messages) \in Nat /\ Len(request) \in Nat
    BY <2>1 DEF Chat
  <2> QED
    BY <2>1, <2>2
<1>1. PICK d \in Nat :
        /\ Len(request) + d = Len(messages)
        /\ \A k \in 3..Len(request) :
             /\ request[k].answers = messages[k + d].answers
             /\ request[k].role = messages[k + d].role
             /\ mode = "repair" /\ Why(messages, k + d) => request[k] = messages[k + d]
  BY ConvRequest
<1>2. request[3].role # "tool" /\ 3 \in 3..Len(request)
  <2>1. 3 \in 3..Len(request) /\ 3..(3 - 1) = {}
    BY <1>0
  <2> QED
    BY <1>0, <2>1 DEF Chat
<1>3. messages[3 + d].role # "tool"
  BY <1>1, <1>2
<1>4. ~ (i < 3 + d)
  <2>1. i < 3 + d => 3 + d \in (i + 1)..Len(messages)
    BY <1>0, <1>1
  <2> QED
    BY <1>3, <2>1
<1> DEFINE k == i - d
<1>5. k \in 3..Len(request) /\ k + d = i /\ k = i - (Len(messages) - Len(request))
  <2>1. Len(request) + d = Len(messages) /\ d \in Nat
    BY <1>1
  <2> QED
    BY <1>0, <1>4, <2>1
<1>6. Why(messages, i)
  BY DEF SaysWhy, Why
<1> HIDE DEF k
<1>7. request[k] = messages[i]
  BY <1>1, <1>5, <1>6
<1> QED
  BY <1>5, <1>7

(* Whatever was said so far, what is sent to the model fits the budget,    *)
(* pairs every result with its call, and tells a repair why the answer was *)
(* rejected.                                                               *)
THEOREM RequestsAreValid ==
  ASSUME CompactionAssumption
  PROVE  Spec => []RequestValid
<1>1. Conv => RequestValid
  <2> SUFFICES ASSUME Conv
               PROVE  RequestValid
    OBVIOUS
  <2>1. TypeOK
    BY ConvTypes
  <2>2. WithinBudget
    BY DEF WithinBudget, Sent, Refused, Fits
  <2>3. Paired
    BY ConvRequest, ChatIsPaired DEF Paired
  <2>4. RejectionKept
    BY ConvRejectionKept
  <2> QED
    BY <2>1, <2>2, <2>3, <2>4 DEF RequestValid
<1> QED
  BY <1>1, Invariance, PTL

LEMMA ConvOldestDropped == Conv => OldestDropped
<1> SUFFICES ASSUME Conv, NEW a \in Answered(messages) \ Answered(request),
                    NEW b \in Answered(request)
             PROVE  a < b
  BY DEF OldestDropped
<1>0. /\ messages \in Seq(Messages) /\ request \in Seq(Messages)
      /\ Len(messages) \in Nat /\ Len(request) \in Nat /\ Len(request) >= 2
      /\ DOMAIN messages = 1..Len(messages) /\ DOMAIN request = 1..Len(request)
  BY ConvRequest DEF Chat
<1>1. PICK d \in Nat : /\ Len(request) + d = Len(messages)
                       /\ \A i \in 3..Len(request) :
                            request[i].answers = messages[i + d].answers
  <2>1. \E d \in Nat :
          /\ Len(request) + d = Len(messages)
          /\ \A i \in 3..Len(request) :
               /\ request[i].answers = messages[i + d].answers
               /\ request[i].role = messages[i + d].role
               /\ mode = "repair" /\ Why(messages, i + d) => request[i] = messages[i + d]
    BY ConvRequest
  <2> QED
    BY <2>1
<1>2. \A i \in 1..2 : request[i].answers = 0 /\ messages[i].answers = 0
  <2>1. \A i \in 1..2 : Start[i].answers = 0
    BY DEF Start, Message
  <2> QED
    BY <2>1, ConvRequest
<1>3. PICK i \in 1..Len(messages) : messages[i].answers = a /\ a # 0
  BY <1>0 DEF Answered
<1>4. PICK k \in 1..Len(request) : request[k].answers = b /\ b # 0
  BY <1>0 DEF Answered
<1>5. i \in 3..Len(messages) /\ k \in 3..Len(request)
  <2>1. i # 1 /\ i # 2 /\ k # 1 /\ k # 2
    BY <1>2, <1>3, <1>4
  <2> QED
    BY <1>0, <2>1
<1>6. i < k + d
  <2> SUFFICES ASSUME ~ (i < k + d)
               PROVE  FALSE
    OBVIOUS
  <2>1. i - d \in 3..Len(request) /\ (i - d) + d = i
    BY <1>0, <1>1, <1>5
  <2>2. i - d \in DOMAIN request /\ request[i - d].answers = a
    BY <1>0, <1>1, <1>3, <2>1
  <2> QED
    BY <1>3, <2>2 DEF Answered
<1>7. k + d \in 1..Len(messages) /\ messages[k + d].answers = b
  BY <1>0, <1>1, <1>4, <1>5
<1>8. messages[i].role = "tool" /\ messages[k + d].role = "tool"
  BY <1>3, <1>4, <1>7 DEF Conv, Talk
<1> QED
  BY <1>3, <1>6, <1>7, <1>8 DEF Conv, Talk

(* And of what was said, the oldest results are left out, nothing while    *)
(* everything fits, and a request is refused only when all that may be     *)
(* compacted is, and no group but the newest is left.                      *)
THEOREM OnlyNeededIsLeftOut ==
  ASSUME CompactionAssumption
  PROVE  Spec => []OnlyNeeded
<1>1. Conv => OnlyNeeded
  <2> SUFFICES ASSUME Conv
               PROVE  OnlyNeeded
    OBVIOUS
  <2>1. OldestDropped
    BY ConvOldestDropped
  <2>2. mode = "investigate" /\ Fits(messages) => request = messages
    BY ConvRequest
  <2>3. ASSUME Refused(request)
        PROVE  /\ \A i \in 3..Len(request) : request[i].stub > 0 =>
                    mode = "repair" /\ request[i].answers \in SubmitCalls(messages)
               /\ Cardinality(GroupStarts(request)) <= (IF mode = "repair" THEN 2 ELSE 4)
    BY <2>3, ConvRequest DEF Refused, Keep, Spared
  <2>4. Needed
    BY <2>2, <2>3 DEF Needed
  <2> QED
    BY <2>1, <2>4 DEF OnlyNeeded
<1> QED
  BY <1>1, Invariance, PTL
=============================================================================
