------------------------- MODULE InvestigationRunner ------------------------
(***************************************************************************)
(* Runner.Run: one investigation task.  The model inspects the repository  *)
(* with tools for a bounded number of turns, then is asked for its result, *)
(* as structured output or, if the provider does not support that, as the  *)
(* call of a submit tool; a rejected result is sent back for repair, with  *)
(* a budget for format errors and one for semantic errors.                 *)
(*                                                                         *)
(* A message is its role and the tool calls it makes or answers.  A result *)
(* is the verdict on it: "valid", "format" or "semantic".  Compacting the  *)
(* history for a request leaves the history alone; that it can fail is one *)
(* of the errors of the action Fail.                                       *)
(***************************************************************************)
EXTENDS Integers, Sequences

CONSTANTS
  (* task.Budget; zero asks for the default *)
  BudgetTurns, BudgetFinalizeTurns, BudgetToolCalls,
  BudgetFormatRepairs, BudgetSemanticRepairs,
  MaxCalls       (* bound: tool calls in one message of the model          *)

ASSUME BudgetAssumption ==
  /\ BudgetTurns \in Nat /\ BudgetFinalizeTurns \in Nat /\ BudgetToolCalls \in Nat
  /\ BudgetFormatRepairs \in Nat /\ BudgetSemanticRepairs \in Nat
  /\ MaxCalls \in Nat \ {0}

OrDefault(n, default) == IF n = 0 THEN default ELSE n

MaxTurns     == OrDefault(BudgetTurns, 25)
MaxToolCalls == OrDefault(BudgetToolCalls, 100)
MaxRepairs   == [format   |-> OrDefault(BudgetFormatRepairs, 2),
                 semantic |-> OrDefault(BudgetSemanticRepairs, 2)]
FinalizeTurns ==
  LET n == OrDefault(BudgetFinalizeTurns, 2) IN IF n >= MaxTurns THEN 1 ELSE n

finalizationTurn == MaxTurns - FinalizeTurns + 1

VARIABLES
  phase,      (* "investigate", "tools", "ask", "repair" or how it ended   *)
  turn,
  messages,   (* the conversation                                          *)
  todo,       (* calls of the last message that are still to be executed   *)
  toolCalls,
  mode,       (* "structured" or "legacy_tool"                             *)
  lastErr,    (* verdict on the last rejected result; "none" at first      *)
  repairs,    (* repairs[k]: repair attempts counted against k's budget    *)
  (* history *)
  requests,   (* requests made to the model                                *)
  rejected    (* rejected[k]: results rejected with verdict k              *)

counters == <<turn, toolCalls, repairs, requests, rejected>>
vars == <<phase, messages, todo, mode, lastErr, counters>>

Kinds == {"format", "semantic"}
Ended == {"accepted", "failed", "tool_limit", "repair_limit", "split_required"}

Message(role, calls) == [role |-> role, calls |-> calls]
Prompt    == Message("user", <<>>)
Reply     == Message("assistant", <<>>)

(* A call is named by the position of its message and its place in it. *)
Calls(n)  == [k \in 1..n |-> <<Len(messages) + 1, k>>]
ToolResponses(calls) == [k \in 1..Len(calls) |-> Message("tool", <<calls[k]>>)]

-----------------------------------------------------------------------------
Init ==
  /\ phase = "investigate" /\ turn = 1
  /\ messages = << Message("system", <<>>), Prompt >>
  /\ todo = <<>> /\ toolCalls = 0
  /\ mode = "structured" /\ lastErr = "none"
  /\ repairs  = [k \in Kinds |-> 0]
  /\ rejected = [k \in Kinds |-> 0]
  /\ requests = 0

InvestigationTurn == phase = "investigate" /\ turn < finalizationTurn

ReplyWithoutCalls ==
  /\ InvestigationTurn
  /\ requests' = requests + 1 /\ turn' = turn + 1
  /\ messages' = messages \o << Reply, Prompt >>
  /\ UNCHANGED <<phase, todo, toolCalls, mode, lastErr, repairs, rejected>>

ReplyWithCalls ==
  /\ InvestigationTurn
  /\ requests' = requests + 1
  /\ \E n \in 1..MaxCalls :
       /\ messages' = Append(messages, Message("assistant", Calls(n)))
       /\ todo' = Calls(n)
  /\ phase' = "tools"
  /\ UNCHANGED <<turn, toolCalls, mode, lastErr, repairs, rejected>>

(* One call of the message: too many calls end the task; otherwise it is   *)
(* answered, with the tool's result and the evidence recorded for it, or   *)
(* with the tool's error.                                                  *)
WithinToolLimit == toolCalls < MaxToolCalls

ExceedToolLimit ==
  /\ phase = "tools" /\ todo # <<>> /\ ~ WithinToolLimit
  /\ toolCalls' = toolCalls + 1
  /\ phase' = "tool_limit"
  /\ UNCHANGED <<turn, messages, todo, mode, lastErr, repairs, requests, rejected>>

AnswerCall ==
  /\ phase = "tools" /\ todo # <<>> /\ WithinToolLimit
  /\ toolCalls' = toolCalls + 1
  /\ messages' = messages \o ToolResponses(<<Head(todo)>>)
  /\ todo' = Tail(todo)
  /\ UNCHANGED <<phase, turn, mode, lastErr, repairs, requests, rejected>>

EndTurn ==
  /\ phase = "tools" /\ todo = <<>>
  /\ phase' = "investigate" /\ turn' = turn + 1
  /\ UNCHANGED <<messages, todo, toolCalls, mode, lastErr, repairs, requests,
                 rejected>>

BeginFinalization ==
  /\ phase = "investigate" /\ turn >= finalizationTurn
  /\ messages' = Append(messages, Prompt)
  /\ phase' = "ask"
  /\ UNCHANGED <<turn, todo, toolCalls, mode, lastErr, repairs, requests, rejected>>

-----------------------------------------------------------------------------
(* The verdict on an answer: the result, or an error to be repaired. *)
Accept == phase' = "accepted" /\ UNCHANGED <<lastErr, rejected>>

Reject(kind) ==
  /\ phase' = "repair" /\ lastErr' = kind
  /\ rejected' = [rejected EXCEPT ![kind] = @ + 1]

(* A structured answer that is cut off, or larger than the task allows, is *)
(* neither accepted nor repaired: the caller may split the task.           *)
AnswerStructured ==
  /\ phase = "ask" /\ mode = "structured"
  /\ requests' = requests + 1
  /\ \/ Accept /\ messages' = Append(messages, Reply)
     \/ \E kind \in Kinds : Reject(kind) /\ messages' = messages \o << Reply, Prompt >>
     \/ phase' = "split_required" /\ UNCHANGED <<messages, lastErr, rejected>>
  /\ UNCHANGED <<turn, todo, toolCalls, mode, repairs>>

(* The submit tool must be the only call of the answer; whatever calls it  *)
(* makes, each one is answered with the error.                             *)
LegacyErrorResponses_FirstCall(calls) ==                       (* mutant *)
  IF calls = <<>> THEN << Prompt >> ELSE ToolResponses(<<calls[1]>>)
LegacyErrorResponses(calls) ==
  IF calls = <<>> THEN << Prompt >> ELSE ToolResponses(calls)

AnswerLegacy ==
  /\ phase = "ask" /\ mode = "legacy_tool"
  /\ requests' = requests + 1
  /\ \E n \in 0..MaxCalls :
       LET message == Message("assistant", Calls(n)) IN
       \/ n = 1 /\ Accept /\ messages' = Append(messages, message)
       \/ \E kind \in Kinds :
            /\ kind = "semantic" => n = 1
            /\ Reject(kind)
            /\ messages' = Append(messages, message) \o LegacyErrorResponses(Calls(n))
  /\ UNCHANGED <<turn, todo, toolCalls, mode, repairs>>

(* The provider turns out not to support structured output.  Found out     *)
(* during a repair, the attempt is given back and counted again in the     *)
(* other mode.                                                             *)
Refunded_Not == repairs                                        (* mutant *)
Refunded == IF lastErr = "none" THEN repairs ELSE [repairs EXCEPT ![lastErr] = @ - 1]

FallBack_StaysStructured ==                                    (* mutant *)
  /\ phase = "ask" /\ mode = "structured"
  /\ requests' = requests + 1
  /\ messages' = Append(messages, Prompt)
  /\ repairs' = Refunded
  /\ phase' = IF lastErr = "none" THEN "ask" ELSE "repair"
  /\ UNCHANGED <<turn, todo, toolCalls, mode, lastErr, rejected>>
FallBack ==
  /\ phase = "ask" /\ mode = "structured"
  /\ requests' = requests + 1
  /\ mode' = "legacy_tool"
  /\ messages' = Append(messages, Prompt)
  /\ repairs' = Refunded
  /\ phase' = IF lastErr = "none" THEN "ask" ELSE "repair"
  /\ UNCHANGED <<turn, todo, toolCalls, lastErr, rejected>>

RepairLeft == repairs[lastErr] < MaxRepairs[lastErr]

BeginRepair ==
  /\ phase = "repair" /\ RepairLeft
  /\ repairs' = [repairs EXCEPT ![lastErr] = @ + 1]
  /\ phase' = "ask"
  /\ UNCHANGED <<turn, messages, todo, toolCalls, mode, lastErr, requests, rejected>>

ExceedRepairLimit ==
  /\ phase = "repair" /\ ~ RepairLeft
  /\ phase' = "repair_limit"
  /\ UNCHANGED <<messages, todo, mode, lastErr, counters>>

(* A request that fails or times out, a history that cannot be compacted,  *)
(* evidence that cannot be written.                                        *)
Fail ==
  /\ phase \in {"investigate", "tools", "ask"}
  /\ phase' = "failed"
  /\ UNCHANGED <<messages, todo, mode, lastErr, counters>>

(* The task is over. *)
Return == phase \in Ended /\ UNCHANGED vars

Next ==
  \/ ReplyWithoutCalls \/ ReplyWithCalls
  \/ ExceedToolLimit \/ AnswerCall \/ EndTurn
  \/ BeginFinalization
  \/ AnswerStructured \/ AnswerLegacy \/ FallBack
  \/ BeginRepair \/ ExceedRepairLimit
  \/ Fail
  \/ Return

Spec == Init /\ [][Next]_vars

-----------------------------------------------------------------------------
Conversation ==
  Seq([role : {"system", "user", "assistant", "tool"}, calls : Seq(Nat \X Nat)])

(* Every variable keeps its shape, and no counter passes its limit. *)
TypeOK ==
  /\ phase \in {"investigate", "tools", "ask", "repair"} \cup Ended
  /\ turn \in 1..finalizationTurn
  /\ messages \in Conversation /\ todo \in Seq(Nat \X Nat)
  /\ toolCalls \in 0..(MaxToolCalls + 1)
  /\ mode \in {"structured", "legacy_tool"} /\ lastErr \in Kinds \cup {"none"}
  /\ \A k \in Kinds : repairs[k] \in 0..MaxRepairs[k]
  /\ rejected \in [Kinds -> Nat] /\ requests \in Nat

(* The conversation as the provider must see it at each request: right     *)
(* after an assistant message come the responses to its calls, in order,   *)
(* and there are no other tool messages.                                   *)
AwaitsModel == phase = "ask" \/ InvestigationTurn

Answered(p) ==
  \A k \in 1..Len(messages[p].calls) :
    /\ p + k <= Len(messages)
    /\ messages[p + k] = Message("tool", <<messages[p].calls[k]>>)

WellFormed ==
  AwaitsModel =>
    \A p \in 1..Len(messages) :
      /\ messages[p].role = "assistant" => Answered(p)
      /\ messages[p].role = "tool" =>
           LET q == messages[p].calls[1][1]
           IN  messages[q].role = "assistant" /\ p \in (q + 1)..(q + Len(messages[q].calls))

(* However the two kinds of error alternate, and whether or not the mode   *)
(* changes on the way, a task is given up for one kind of error only after *)
(* exactly that kind's repairs were used up, and the other kind's never    *)
(* count against it.                                                       *)
RepairBudgetsExact ==
  phase = "repair_limit" => rejected[lastErr] = MaxRepairs[lastErr] + 1

(* Results rejected, repairs counted and the repair under way agree.       *)
RepairsCounted ==
  \A k \in Kinds :
    rejected[k] = repairs[k] + IF phase \in {"repair", "repair_limit"} /\ lastErr = k
                               THEN 1 ELSE 0

(* A task makes a bounded number of requests, whatever the provider does:  *)
(* one per investigation turn, the first result, the repairs of both       *)
(* kinds, and one that finds structured output unsupported.                *)
RequestsBounded ==
  requests <= (finalizationTurn - 1) + 2 + MaxRepairs["format"] + MaxRepairs["semantic"]
=============================================================================
