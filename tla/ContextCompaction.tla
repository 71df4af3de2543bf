------------------------- MODULE ContextCompaction --------------------------
(***************************************************************************)
(* The conversation of an investigation and the request that is prepared   *)
(* from it for the model: prepareMessages while the agent investigates,    *)
(* prepareRepairMessages after a rejected submission.  The conversation    *)
(* only grows; the request is compacted until it fits the budget.          *)
(*                                                                         *)
(* A message has a size in place of its text, and stub, the size of what   *)
(* it would be replaced by; a compacted message has no stub left (0).  A   *)
(* tool call has an identifier; a tool message answers one.  The calls of  *)
(* submit_investigation_result are in submits as well, and args is the     *)
(* size of what they submit.                                               *)
(***************************************************************************)
EXTENDS Naturals, Sequences, FiniteSets

CONSTANTS
  Budget,          (* contextMessageByteBudget                             *)
  Stub,            (* the size of a compacted tool result or prose         *)
  Prompt,          (* the size of the system prompt and of the objective   *)
  Sizes,           (* of tool results, prose and errors                    *)
  Submitted,       (* the size of the arguments of submissions             *)
  MaxRepairs,      (* MaxFormatRepairs and MaxSemanticRepairs together     *)
  MaxGroups        (* bound on the groups of the conversation              *)

CompactionAssumption ==
  /\ {Budget, Stub, Prompt, Submitted, MaxGroups} \cup Sizes \subseteq Nat \ {0}
  /\ MaxRepairs \in Nat
  /\ \E n \in Sizes : n > Stub

VARIABLES
  messages,        (* the conversation                                     *)
  mode,            (* "repair" once a submission was rejected              *)
  repairs,         (* formatRepairs and semanticRepairs together           *)
  request          (* what was prepared of it for the next turn            *)

vars == <<messages, mode, repairs, request>>

Message(role, size) ==
  [role |-> role, size |-> size, stub |-> 0, args |-> 0, calls |-> {}, submits |-> {},
   answers |-> 0, evidence |-> 0]

Total(s) ==
  LET sum[i \in 0..Len(s)] == IF i = 0 THEN 0 ELSE sum[i - 1] + s[i].size + s[i].args
  IN sum[Len(s)]
Fits(s) == Total(s) <= Budget

-----------------------------------------------------------------------------
(* completeMessageGroups: an assistant message with the tool messages that *)
(* follow it, or any other message alone.  The prompt is no group.         *)
StartsGroup(s, i) == i > 2 /\ s[i].role # "tool"
GroupStarts(s) == {i \in DOMAIN s : StartsGroup(s, i)}
GroupEnd(s, i) ==
  CHOOSE j \in i..Len(s) :
    /\ \A k \in (i + 1)..j : s[k].role = "tool"
    /\ j = Len(s) \/ s[j + 1].role # "tool"
Complete(s, i) == s[i].calls \subseteq {s[k].answers : k \in (i + 1)..GroupEnd(s, i)}

(* The first n of a set of messages. *)
Oldest(set, n) == {i \in set : Cardinality({k \in set : k < i}) < n}

Shrink(s, set) ==
  [i \in DOMAIN s |-> IF i \in set THEN [s[i] EXCEPT !.size = s[i].stub, !.stub = 0] ELSE s[i]]

(* Every pass goes on from the oldest until the messages fit, or to its    *)
(* end.                                                                    *)
Enough(s, set) == {n \in 0..Cardinality(set) : Fits(Shrink(s, Oldest(set, n)))}
Pass(s, set) ==
  LET enough == Enough(s, set)
  IN IF enough = {} THEN Shrink(s, set)
     ELSE Shrink(s, Oldest(set, CHOOSE n \in enough : \A k \in enough : n <= k))

(* A repair takes the arguments of earlier submissions out, whatever their *)
(* size, and never touches the errors that answered them.                  *)
SubmitCalls(s) == UNION {s[i].submits : i \in DOMAIN s}
WithoutArgs(s) == [i \in DOMAIN s |-> [s[i] EXCEPT !.args = 0]]

Tools(s, to, spared) ==
  {i \in 3..to : s[i].role = "tool" /\ s[i].stub > 0 /\ s[i].answers \notin spared}
ProseOf(s, to) == {i \in 3..to : s[i].role = "assistant" /\ s[i].stub > 0}

ToolPass(s, to, spared) == Pass(s, Tools(s, to, spared))
ProsePass(s, to) == Pass(s, ProseOf(s, to))

(* The oldest complete group goes, one after the other until the messages  *)
(* fit, and never one of the newest.                                       *)
Droppable_OneLess(s, keep) ==                                  (* mutant *)
  {i \in GroupStarts(s) : Complete(s, i) /\ Cardinality({k \in GroupStarts(s) : k > i}) > keep}
Droppable(s, keep) ==
  {i \in GroupStarts(s) : Complete(s, i) /\ Cardinality({k \in GroupStarts(s) : k > i}) >= keep}

Without_CallOnly(s, i) == SubSeq(s, 1, i - 1) \o SubSeq(s, i + 1, Len(s))         (* mutant *)
Without(s, i) == SubSeq(s, 1, i - 1) \o SubSeq(s, GroupEnd(s, i) + 1, Len(s))

DropOldest(s, keep) ==
  LET set == Droppable(s, keep)
  IN IF Fits(s) \/ set = {} THEN s
     ELSE Without(s, CHOOSE i \in set : \A k \in set : i <= k)

DropGroups(s, keep) ==
  LET left[n \in 0..Len(s)] == IF n = 0 THEN s ELSE DropOldest(left[n - 1], keep)
  IN left[Len(s)]

(* prepareMessagesWithOptions; what it returns fits, or it is an error.    *)
Prepared(history, purpose) ==
  LET keep   == IF purpose = "repair" THEN 2 ELSE 4
      start  == IF purpose = "repair" THEN WithoutArgs(history) ELSE history
      last   == Len(history)
      cutoff == IF last > keep + 2 THEN last - keep ELSE 2
      spared == IF purpose = "repair" THEN SubmitCalls(history) ELSE {}
      tools  == ToolPass(ToolPass(start, cutoff, spared), last, spared)
      prose  == ProsePass(ProsePass(tools, cutoff), last)
  IN IF Fits(start) THEN start ELSE DropGroups(prose, keep)

Refused(s) == ~ Fits(s)

-----------------------------------------------------------------------------
Start == <<Message("system", Prompt), Message("user", Prompt)>>

Init ==
  /\ messages = Start /\ mode = "investigate" /\ repairs = 0
  /\ request = Prepared(Start, "investigate")

Say(purpose, more) ==
  /\ mode' = purpose
  /\ messages' = messages \o more
  /\ request' = Prepared(messages \o more, purpose)
  /\ repairs' = IF purpose = "repair" THEN repairs + 1 ELSE repairs

Groups == Cardinality(GroupStarts(messages))
StubOf(size) == IF size > Stub THEN Stub ELSE 0
Prose(size) == [Message("assistant", size) EXCEPT !.stub = StubOf(size)]
NewCall == Len(messages) + 1

(* A turn of the model: it calls tools, each of which is answered, or it   *)
(* only writes, and is told to continue.                                   *)
CallTools ==
  /\ Groups < MaxGroups /\ mode = "investigate"
  /\ \E results \in UNION {[1..n -> Sizes] : n \in 1..2} :
       Say(mode, <<[Prose(1) EXCEPT !.calls = {NewCall + k : k \in DOMAIN results}]>>
         \o [k \in DOMAIN results |->
              [Message("tool", results[k]) EXCEPT !.stub = StubOf(results[k]),
                 !.answers = NewCall + k, !.evidence = NewCall + k]])

Write ==
  /\ Groups + 1 < MaxGroups /\ mode = "investigate"
  /\ \E prose \in Sizes : Say(mode, <<Prose(prose), Message("user", 1)>>)

(* An answer that is rejected: it calls tools, which the submit tool alone *)
(* should be, once, and the error answers every call; or it is structured  *)
(* text, or calls nothing, and the error is the next message.              *)
RejectCall ==
  /\ Groups < MaxGroups /\ repairs < MaxRepairs
  /\ \E error \in Sizes, n \in 1..2 : \E submits \in SUBSET (NewCall + 1..NewCall + n) :
       Say("repair",
         <<[Prose(1) EXCEPT !.calls = {NewCall + k : k \in 1..n}, !.submits = submits,
              !.args = IF submits = {} THEN 0 ELSE Submitted]>>
         \o [k \in 1..n |->
              [Message("tool", error) EXCEPT !.stub = StubOf(error), !.answers = NewCall + k]])

RejectText ==
  /\ Groups + 1 < MaxGroups /\ repairs < MaxRepairs
  /\ \E text, error \in Sizes : Say("repair", <<Prose(text), Message("user", error)>>)

Next == CallTools \/ Write \/ RejectCall \/ RejectText

Spec == Init /\ [][Next]_vars

-----------------------------------------------------------------------------
Sent == ~ Refused(request)

(* The conversation and the request keep their shape. *)
TypeOK ==
  /\ mode \in {"investigate", "repair"}
  /\ \A s \in {messages, request} :
       /\ Len(s) >= 2 /\ SubSeq(s, 1, 2) = Start
       /\ \A i \in DOMAIN s : s[i].role \in {"system", "user", "assistant", "tool"}
  /\ Len(request) <= Len(messages)

(* What is sent is within the budget. *)
WithinBudget == Sent => Total(request) <= Budget

(* "OpenAI-compatible APIs still see a valid sequence": each tool message  *)
(* follows the message that called it, and every call is answered.         *)
Paired ==
  /\ \A i \in DOMAIN request : request[i].role = "tool" =>
       \E k \in GroupStarts(request) :
         i \in k..GroupEnd(request, k) /\ request[i].answers \in request[k].calls
  /\ \A i \in GroupStarts(request) : Complete(request, i)

(* A repair is told why the last answer was rejected, in full: of the      *)
(* newest group, the errors that answer a submission, or the error that is *)
(* a message of its own, are in the request as they were said.             *)
SaysWhy(m) == m.role = "user" \/ (m.role = "tool" /\ m.answers \in SubmitCalls(messages))
RejectionKept ==
  LET dropped == Len(messages) - Len(request)
      newest  == {i \in 3..Len(messages) :
                    \A k \in (i + 1)..Len(messages) : messages[k].role = "tool"}
  IN mode = "repair" =>
       \A i \in newest : SaysWhy(messages[i]) =>
         i - dropped \in 3..Len(request) /\ request[i - dropped] = messages[i]

(* What the model still sees is the recent past: of two tool calls, the    *)
(* older is never kept, or kept in full, where the newer one is dropped.   *)
Answered(s) == {s[i].answers : i \in DOMAIN s} \ {0}
OldestDropped ==
  \A a \in Answered(messages) \ Answered(request), b \in Answered(request) : a < b

(* Nothing is lost without need, and no request is refused before all that *)
(* may be compacted is, and all but the newest groups are dropped.         *)
Needed ==
  /\ mode = "investigate" /\ Fits(messages) => request = messages
  /\ Refused(request) =>
       /\ \A i \in 3..Len(request) : request[i].stub > 0 =>
            mode = "repair" /\ request[i].answers \in SubmitCalls(messages)
       /\ Cardinality(GroupStarts(request)) <= (IF mode = "repair" THEN 2 ELSE 4)

(* Whatever was said so far, what is sent to the model is a conversation a *)
(* provider accepts, and a repair says what is to be repaired.             *)
RequestValid == TypeOK /\ WithinBudget /\ Paired /\ RejectionKept

(* And of what was said, it leaves out the oldest, and no more than it     *)
(* must.                                                                   *)
OnlyNeeded == OldestDropped /\ Needed

(* compactToolContent: "Preserve the evidence IDs so the model can still   *)
(* use evidence gathered earlier in the investigation".                    *)
Evidence(s) == {s[i].evidence : i \in DOMAIN s}
EvidenceKept ==
  mode = "investigate" /\ Sent => Evidence(messages) = Evidence(request)
=============================================================================
