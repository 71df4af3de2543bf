---------------------- MODULE InvestigationRunnerProofs ----------------------
(***************************************************************************)
(* What holds of an investigation task for every budget it may be given:   *)
(* the shape of its state, the exactness of its two repair budgets, the    *)
(* bound on the requests it makes and the form of the conversation.        *)
(***************************************************************************)
EXTENDS MCInvestigation, SequenceTheorems, TLAPS

Asking   == {"ask", "repair", "repair_limit"}
Rejected == rejected["format"] + rejected["semantic"]
Fallback == IF mode = "legacy_tool" THEN 1 ELSE 0

(* The functions and sequences TypeOK speaks of, where it names only their *)
(* values, and the limits the phases keep.                                 *)
Shape ==
  /\ TypeOK
  /\ repairs \in [Kinds -> Nat]
  /\ phase \in {"repair", "repair_limit"} => lastErr \in Kinds
  /\ phase \in {"investigate", "tools", "ask", "repair"} => toolCalls <= MaxToolCalls

(* Before the result is asked for, nothing was rejected.  Afterwards, a    *)
(* repair under way has been counted, and a task given up for one kind of  *)
(* error has none of that kind's repairs left.                             *)
Repairs ==
  /\ RepairsCounted
  /\ phase \in {"investigate", "tools"} =>
       lastErr = "none" /\ mode = "structured" /\ Rejected = 0
  /\ phase = "ask" /\ lastErr # "none" => repairs[lastErr] > 0
  /\ phase = "repair_limit" => repairs[lastErr] = MaxRepairs[lastErr]

(* Where the requests went: one for each turn of the investigation, one    *)
(* for each rejected result, one that found out about the fallback, and    *)
(* one more for a result that was not rejected.                            *)
Requests ==
  /\ phase = "investigate" => requests = turn - 1
  /\ phase = "tools" => requests = turn /\ turn < finalizationTurn
  /\ phase \in Asking => requests = (finalizationTurn - 1) + Rejected + Fallback
  /\ phase \in {"accepted", "split_required"} =>
       requests = finalizationTurn + Rejected + Fallback
  /\ phase \in {"failed", "tool_limit"} =>
       requests <= (finalizationTurn - 1) + Rejected + Fallback

IInv == Shape /\ Repairs /\ Requests

-----------------------------------------------------------------------------
(* The limits derived from any budget are sensible: runner.go leaves at    *)
(* least one turn for the result, and never a negative number of repairs.  *)
LEMMA LimitsType ==
  /\ finalizationTurn \in Nat \ {0}
  /\ MaxToolCalls \in Nat
  /\ MaxRepairs["format"] \in Nat
  /\ MaxRepairs["semantic"] \in Nat
<1>1. MaxTurns \in Nat \ {0} /\ MaxToolCalls \in Nat
  BY BudgetAssumption DEF MaxTurns, MaxToolCalls, OrDefault
<1>2. FinalizeTurns \in 1..MaxTurns
  BY <1>1, BudgetAssumption DEF FinalizeTurns, OrDefault
<1>3. finalizationTurn \in Nat \ {0}
  BY <1>1, <1>2 DEF finalizationTurn
<1>4. MaxRepairs["format"] \in Nat /\ MaxRepairs["semantic"] \in Nat
  BY BudgetAssumption DEF MaxRepairs, OrDefault
<1> QED
  BY <1>1, <1>3, <1>4

(* The messages of a conversation: what the program appends is one. *)
Messages ==
  [role : {"system", "user", "assistant", "tool"}, calls : Seq(Nat \X Nat)]

LEMMA MessageType ==
  /\ Prompt \in Messages /\ Reply \in Messages
  /\ Message("system", <<>>) \in Messages
  /\ \A calls \in Seq(Nat \X Nat) :
       /\ Message("assistant", calls) \in Messages
       /\ ToolResponses(calls) \in Seq(Messages)
  /\ \A n \in Nat : messages \in Seq(Messages) => Calls(n) \in Seq(Nat \X Nat)
<1>1. ASSUME NEW calls \in Seq(Nat \X Nat)
      PROVE  ToolResponses(calls) \in Seq(Messages)
  <2>1. \A k \in 1..Len(calls) : <<calls[k]>> \in Seq(Nat \X Nat)
    OBVIOUS
  <2>2. \A k \in 1..Len(calls) : Message("tool", <<calls[k]>>) \in Messages
    BY <2>1 DEF Message, Messages
  <2> QED
    BY <2>2, Len(calls) \in Nat DEF ToolResponses
<1>2. ASSUME NEW n \in Nat, messages \in Seq(Messages)
      PROVE  Calls(n) \in Seq(Nat \X Nat)
  BY <1>2, Len(messages) \in Nat DEF Calls
<1> QED
  BY <1>1, <1>2 DEF Prompt, Reply, Message, Messages

-----------------------------------------------------------------------------
(* Init establishes the invariant. *)
LEMMA InitInv == Init => IInv
<1> SUFFICES ASSUME Init PROVE IInv
  OBVIOUS
<1>1. messages \in Conversation
  BY MessageType DEF Init, Conversation, Messages
<1>2. Shape
  BY <1>1, LimitsType DEF Init, Shape, TypeOK, Kinds, Ended
<1>3. Repairs
  BY DEF Init, Repairs, RepairsCounted, Rejected, Kinds
<1>4. Requests
  BY DEF Init, Requests, Asking
<1> QED
  BY <1>2, <1>3, <1>4 DEF IInv

(* The conversation and the calls still to be executed keep their shape. *)
LEMMA ConversationStep ==
  ASSUME IInv, [Next]_vars
  PROVE  messages' \in Seq(Messages) /\ todo' \in Seq(Nat \X Nat)
<1>1. messages \in Seq(Messages) /\ todo \in Seq(Nat \X Nat)
  BY DEF IInv, Shape, TypeOK, Conversation, Messages
<1>2. CASE ReplyWithoutCalls
  BY <1>1, <1>2, MessageType DEF ReplyWithoutCalls
<1>3. CASE ReplyWithCalls
  <2>1. PICK n \in 1..MaxCalls :
          messages' = Append(messages, Message("assistant", Calls(n))) /\ todo' = Calls(n)
    BY <1>3 DEF ReplyWithCalls
  <2>2. Calls(n) \in Seq(Nat \X Nat)
    BY <1>1, n \in Nat, BudgetAssumption, MessageType
  <2> QED
    BY <1>1, <2>1, <2>2, MessageType
<1>4. CASE AnswerCall
  <2>1. <<Head(todo)>> \in Seq(Nat \X Nat) /\ Tail(todo) \in Seq(Nat \X Nat)
    BY <1>1, <1>4 DEF AnswerCall
  <2>2. ToolResponses(<<Head(todo)>>) \in Seq(Messages)
    BY <2>1, MessageType
  <2> QED
    BY <1>1, <1>4, <2>1, <2>2 DEF AnswerCall
<1>5. CASE BeginFinalization
  BY <1>1, <1>5, MessageType DEF BeginFinalization
<1>6. CASE AnswerStructured
  <2>1. \/ messages' = Append(messages, Reply)
        \/ messages' = messages \o << Reply, Prompt >>
        \/ messages' = messages
    BY <1>6 DEF AnswerStructured
  <2>2. << Reply, Prompt >> \in Seq(Messages)
    BY MessageType
  <2>3. messages \o << Reply, Prompt >> \in Seq(Messages)
    BY <1>1, <2>2, ConcatProperties
  <2>4. Append(messages, Reply) \in Seq(Messages)
    BY <1>1, MessageType
  <2> QED
    BY <1>1, <1>6, <2>1, <2>3, <2>4 DEF AnswerStructured
<1>7. CASE AnswerLegacy
  <2>1. PICK n \in 0..MaxCalls :
          \/ messages' = Append(messages, Message("assistant", Calls(n)))
          \/ messages' = Append(messages, Message("assistant", Calls(n)))
                           \o LegacyErrorResponses(Calls(n))
    BY <1>7 DEF AnswerLegacy
  <2>2. Calls(n) \in Seq(Nat \X Nat)
    BY <1>1, n \in Nat, BudgetAssumption, MessageType
  <2>3. LegacyErrorResponses(Calls(n)) \in Seq(Messages)
    BY <2>2, MessageType DEF LegacyErrorResponses
  <2>4. Append(messages, Message("assistant", Calls(n))) \in Seq(Messages)
    BY <1>1, <2>2, MessageType
  <2>5. messages' \in Seq(Messages)
    BY <2>1, <2>3, <2>4, ConcatProperties
  <2> QED
    BY <1>1, <1>7, <2>5 DEF AnswerLegacy
<1>8. CASE FallBack
  BY <1>1, <1>8, MessageType DEF FallBack
<1>9. CASE \/ ExceedToolLimit \/ EndTurn \/ BeginRepair \/ ExceedRepairLimit
           \/ Fail \/ Return \/ UNCHANGED vars
  BY <1>1, <1>9
  DEF ExceedToolLimit, EndTurn, BeginRepair, ExceedRepairLimit, Fail, Return, vars
<1> QED
  BY <1>2, <1>3, <1>4, <1>5, <1>6, <1>7, <1>8, <1>9 DEF Next

(* No counter passes its limit. *)
LEMMA ShapeStep ==
  ASSUME IInv, [Next]_vars
  PROVE  Shape'
<1> USE LimitsType DEF Kinds, Ended
<1>1. messages' \in Conversation /\ todo' \in Seq(Nat \X Nat)
  BY ConversationStep DEF Conversation, Messages
<1>2. CASE ReplyWithoutCalls
  BY <1>1, <1>2 DEF ReplyWithoutCalls, InvestigationTurn, IInv, Shape, TypeOK
<1>3. CASE ReplyWithCalls
  <2>1. /\ phase' = "tools" /\ requests' = requests + 1
        /\ UNCHANGED <<turn, toolCalls, mode, lastErr, repairs, rejected>>
    BY <1>3 DEF ReplyWithCalls
  <2> QED
    BY <1>1, <1>3, <2>1 DEF ReplyWithCalls, InvestigationTurn, IInv, Shape, TypeOK
<1>4. CASE ExceedToolLimit
  BY <1>1, <1>4 DEF ExceedToolLimit, IInv, Shape, TypeOK
<1>5. CASE AnswerCall
  BY <1>1, <1>5 DEF AnswerCall, WithinToolLimit, IInv, Shape, TypeOK
<1>6. CASE EndTurn
  BY <1>1, <1>6 DEF EndTurn, IInv, Shape, TypeOK, Requests
<1>7. CASE BeginFinalization
  BY <1>1, <1>7 DEF BeginFinalization, IInv, Shape, TypeOK
<1>8. CASE AnswerStructured
  <2>1. /\ phase = "ask" /\ requests' = requests + 1
        /\ UNCHANGED <<turn, todo, toolCalls, mode, repairs>>
    BY <1>8 DEF AnswerStructured
  <2>2. CASE Accept
    BY <1>1, <2>1, <2>2 DEF Accept, IInv, Shape, TypeOK
  <2>3. ASSUME NEW kind \in Kinds, Reject(kind)
        PROVE  Shape'
    BY <1>1, <2>1, <2>3 DEF Reject, IInv, Shape, TypeOK
  <2>4. CASE phase' = "split_required" /\ UNCHANGED <<messages, lastErr, rejected>>
    BY <1>1, <2>1, <2>4 DEF IInv, Shape, TypeOK
  <2> QED
    BY <1>8, <2>2, <2>3, <2>4, Zenon DEF AnswerStructured
<1>9. CASE AnswerLegacy
  BY <1>1, <1>9 DEF AnswerLegacy, Accept, Reject, IInv, Shape, TypeOK
<1>10. CASE FallBack
  BY <1>1, <1>10 DEF FallBack, Refunded, IInv, Shape, TypeOK, Repairs
<1>11. CASE BeginRepair
  <2>1. lastErr \in Kinds /\ repairs \in [Kinds -> Nat]
    BY <1>11 DEF BeginRepair, IInv, Shape
  <2>2. repairs' \in [Kinds -> Nat]
    BY <1>11, <2>1 DEF BeginRepair
  <2>3. \A k \in Kinds : repairs'[k] \in 0..MaxRepairs[k]
    BY <1>11, <2>1 DEF BeginRepair, RepairLeft, IInv, Shape, TypeOK
  <2>4. /\ phase' = "ask" /\ phase = "repair"
        /\ UNCHANGED <<turn, toolCalls, mode, lastErr, requests, rejected>>
    BY <1>11 DEF BeginRepair
  <2>5. toolCalls <= MaxToolCalls
    BY <2>4 DEF IInv, Shape
  <2> QED
    BY <1>1, <2>2, <2>3, <2>4, <2>5 DEF IInv, Shape, TypeOK
<1>12. CASE ExceedRepairLimit \/ Fail \/ Return \/ UNCHANGED vars
  BY <1>1, <1>12
  DEF ExceedRepairLimit, Fail, Return, vars, counters, IInv, Shape, TypeOK
<1> QED
  BY <1>2, <1>3, <1>4, <1>5, <1>6, <1>7, <1>8, <1>9, <1>10, <1>11, <1>12 DEF Next

(* Each rejected result is charged to its own kind, once. *)
LEMMA RepairsStep ==
  ASSUME IInv, [Next]_vars
  PROVE  Repairs'
<1> USE DEF Kinds
<1>0. /\ repairs \in [Kinds -> Nat] /\ rejected \in [Kinds -> Nat]
      /\ lastErr \in Kinds \cup {"none"}
  BY DEF IInv, Shape, TypeOK
<1>1. CASE ReplyWithoutCalls \/ ReplyWithCalls \/ AnswerCall \/ EndTurn
  BY <1>1
  DEF ReplyWithoutCalls, ReplyWithCalls, AnswerCall, EndTurn, InvestigationTurn,
      IInv, Repairs, RepairsCounted, Rejected
<1>2. CASE ExceedToolLimit \/ BeginFinalization \/ Fail \/ Return \/ UNCHANGED vars
  BY <1>2
  DEF ExceedToolLimit, BeginFinalization, Fail, Return, vars, counters,
      IInv, Repairs, RepairsCounted, Rejected, Ended
<1>3. CASE AnswerStructured \/ AnswerLegacy
  BY <1>0, <1>3
  DEF AnswerStructured, AnswerLegacy, Accept, Reject, IInv, Repairs, RepairsCounted
<1>4. CASE FallBack
  BY <1>0, <1>4 DEF FallBack, Refunded, IInv, Repairs, RepairsCounted
<1>5. CASE BeginRepair
  BY <1>0, <1>5 DEF BeginRepair, IInv, Shape, Repairs, RepairsCounted
<1>6. CASE ExceedRepairLimit
  BY <1>0, <1>6, LimitsType
  DEF ExceedRepairLimit, RepairLeft, counters, IInv, Shape, TypeOK, Repairs, RepairsCounted
<1> QED
  BY <1>1, <1>2, <1>3, <1>4, <1>5, <1>6 DEF Next

(* Each request is accounted for. *)
LEMMA RequestsStep ==
  ASSUME IInv, [Next]_vars
  PROVE  Requests'
<1> USE LimitsType DEF Kinds
<1>0. /\ repairs \in [Kinds -> Nat] /\ rejected \in [Kinds -> Nat]
      /\ turn \in 1..finalizationTurn /\ requests \in Nat
      /\ mode \in {"structured", "legacy_tool"} /\ lastErr \in Kinds \cup {"none"}
  BY DEF IInv, Shape, TypeOK
<1>1. CASE ReplyWithoutCalls \/ ReplyWithCalls \/ AnswerCall \/ EndTurn
  <2>1. \/ /\ phase = "investigate" /\ turn < finalizationTurn /\ requests' = requests + 1
           /\ \/ phase' = "investigate" /\ turn' = turn + 1
              \/ phase' = "tools" /\ turn' = turn
        \/ /\ phase = "tools" /\ requests' = requests
           /\ \/ phase' = "tools" /\ turn' = turn
              \/ phase' = "investigate" /\ turn' = turn + 1
    BY <1>1
    DEF ReplyWithoutCalls, ReplyWithCalls, AnswerCall, EndTurn, InvestigationTurn
  <2> QED
    BY <1>0, <2>1 DEF IInv, Requests, Asking
<1>2. CASE ExceedToolLimit \/ BeginFinalization \/ Fail
  <2>1. Rejected \in Nat /\ Fallback \in {0, 1}
    BY <1>0 DEF Rejected, Fallback
  <2>2. phase \in {"investigate", "tools"} => Rejected = 0 /\ Fallback = 0
    BY DEF IInv, Repairs, Fallback
  <2>3. Rejected' = Rejected /\ Fallback' = Fallback
    BY <1>2 DEF ExceedToolLimit, BeginFinalization, Fail, counters, Rejected, Fallback
  <2> QED
    BY <1>0, <1>2, <2>1, <2>2, <2>3
    DEF ExceedToolLimit, BeginFinalization, Fail, counters, IInv, Requests, Asking
<1>3. CASE AnswerStructured \/ AnswerLegacy
  <2>1. /\ phase = "ask" /\ requests' = requests + 1 /\ mode' = mode /\ turn' = turn
        /\ \/ phase' \in {"accepted", "split_required"} /\ rejected' = rejected
           \/ \E kind \in Kinds :
                phase' = "repair" /\ rejected' = [rejected EXCEPT ![kind] = @ + 1]
    BY <1>3 DEF AnswerStructured, AnswerLegacy, Accept, Reject
  <2>2. \/ phase' \in {"accepted", "split_required"} /\ Rejected' = Rejected
        \/ phase' = "repair" /\ Rejected' = Rejected + 1
    BY <1>0, <2>1 DEF Rejected
  <2>3. Fallback' = Fallback /\ Fallback \in {0, 1} /\ Rejected \in Nat
    BY <1>0, <2>1 DEF Rejected, Fallback
  <2> QED
    BY <1>0, <2>1, <2>2, <2>3 DEF IInv, Requests, Asking
<1>4. CASE FallBack
  BY <1>0, <1>4 DEF FallBack, IInv, Requests, Asking, Rejected, Fallback
<1>5. CASE BeginRepair \/ ExceedRepairLimit \/ Return \/ UNCHANGED vars
  BY <1>0, <1>5
  DEF BeginRepair, ExceedRepairLimit, Return, vars, counters, IInv, Requests, Asking,
      Rejected, Fallback
<1> QED
  BY <1>1, <1>2, <1>3, <1>4, <1>5 DEF Next

LEMMA Invariance == Spec => []IInv
<1>1. IInv /\ [Next]_vars => IInv'
  BY ShapeStep, RepairsStep, RequestsStep DEF IInv
<1> QED
  BY InitInv, <1>1, PTL DEF Spec

-----------------------------------------------------------------------------
(* Every variable keeps its shape, and no counter of a task passes its     *)
(* limit: at most one tool call is counted beyond the budget, and none is  *)
(* executed (runner.go, Run).                                              *)
THEOREM TypeCorrect == Spec => []TypeOK
<1>1. IInv => TypeOK
  BY DEF IInv, Shape
<1> QED
  BY Invariance, <1>1, PTL

(* Rejected results and repair attempts agree at every point, also across  *)
(* the refund when structured output turns out to be unsupported           *)
(* (runner.go, repairResult).                                              *)
THEOREM RepairsAgree == Spec => []RepairsCounted
<1>1. IInv => RepairsCounted
  BY DEF IInv, Repairs
<1> QED
  BY Invariance, <1>1, PTL

(* A task is given up for one kind of error only after that kind's budget  *)
(* was used up to the last repair, whatever the other kind used.           *)
THEOREM BudgetsExact == Spec => []RepairBudgetsExact
<1>1. ASSUME IInv PROVE RepairBudgetsExact
  BY <1>1 DEF IInv, Shape, Repairs, RepairsCounted, RepairBudgetsExact
<1> QED
  BY Invariance, <1>1, PTL

(* The number of requests a task makes is bounded by its budget alone.     *)
THEOREM RequestsAreBounded == Spec => []RequestsBounded
<1>1. ASSUME IInv PROVE RequestsBounded
  <2>1. /\ repairs["format"] \in 0..MaxRepairs["format"]
        /\ repairs["semantic"] \in 0..MaxRepairs["semantic"]
        /\ rejected \in [Kinds -> Nat] /\ turn \in 1..finalizationTurn
        /\ requests \in Nat /\ mode \in {"structured", "legacy_tool"}
        /\ phase \in {"investigate", "tools", "ask", "repair"} \cup Ended
    BY <1>1 DEF IInv, Shape, TypeOK, Kinds
  <2>3. Rejected <= MaxRepairs["format"] + MaxRepairs["semantic"] + 1
    BY <1>1, <2>1, LimitsType DEF IInv, Repairs, RepairsCounted, Rejected, Kinds
  <2>4. phase \notin {"repair", "repair_limit"} =>
          Rejected <= MaxRepairs["format"] + MaxRepairs["semantic"]
    BY <1>1, <2>1, LimitsType DEF IInv, Repairs, RepairsCounted, Rejected, Kinds
  <2>5. Fallback \in {0, 1}
    BY DEF Fallback
  <2>6. Rejected \in Nat
    BY <2>1 DEF Rejected, Kinds
  <2> QED
    BY <1>1, <2>1, <2>3, <2>4, <2>5, <2>6, LimitsType
    DEF IInv, Requests, Asking, RequestsBounded, Ended
<1> QED
  BY Invariance, <1>1, PTL

-----------------------------------------------------------------------------
(* The conversation between two requests.  A message's calls are answered  *)
(* up to n when their responses follow it, in order; a tool message is in  *)
(* its place when it is among the responses of the message it names.       *)
AnsweredUpTo(m, p, n) ==
  \A k \in 1..n : p + k <= Len(m) /\ m[p + k] = Message("tool", <<m[p].calls[k]>>)

InPlace(m, p) ==
  LET q == m[p].calls[1][1]
  IN  q \in 1..Len(m) /\ m[q].role = "assistant" /\ p \in (q + 1)..(q + Len(m[q].calls))

Settled(m, p) ==
  /\ m[p].role = "assistant" => AnsweredUpTo(m, p, Len(m[p].calls))
  /\ m[p].role = "tool" => InPlace(m, p)

(* No call is open. *)
Closed(m) == \A p \in 1..Len(m) : Settled(m, p)

(* Only the last calls of the last assistant message are open: calls are   *)
(* executed in order, and their responses end the conversation.            *)
CallsOf(p, n) == [k \in 1..n |-> <<p, k>>]

OpenFrom(m, rest, p, done) ==
  /\ p \in 1..Len(m) /\ done \in Nat /\ Len(m) = p + done
  /\ m[p] = Message("assistant", CallsOf(p, done + Len(rest)))
  /\ AnsweredUpTo(m, p, done)
  /\ \A k \in 1..Len(rest) : rest[k] = <<p, done + k>>
  /\ \A i \in (1..Len(m)) \ {p} : Settled(m, i)

Open(m, rest) == \E p, done \in Nat : OpenFrom(m, rest, p, done)

Dialog ==
  /\ phase \in {"investigate", "ask", "repair"} => Closed(messages)
  /\ phase = "tools" => Open(messages, todo)

(* What is settled in a conversation stays settled when it goes on. *)
LEMMA SettledStays ==
  ASSUME NEW m \in Seq(Messages), NEW x \in Seq(Messages), NEW p \in 1..Len(m),
         Settled(m, p)
  PROVE  Settled(m \o x, p)
<1> DEFINE mx == m \o x
<1>1. /\ mx \in Seq(Messages) /\ Len(mx) = Len(m) + Len(x)
      /\ \A i \in 1..Len(m) : mx[i] = m[i]
  BY ConcatProperties
<1>2. Len(m) \in Nat /\ Len(x) \in Nat /\ m[p] \in Messages
  OBVIOUS
<1>3. m[p].calls \in Seq(Nat \X Nat)
  BY <1>2 DEF Messages
<1>4. ASSUME m[p].role = "assistant"
      PROVE  AnsweredUpTo(mx, p, Len(mx[p].calls))
  <2>1. AnsweredUpTo(m, p, Len(m[p].calls)) /\ Len(m[p].calls) \in Nat /\ mx[p] = m[p]
    BY <1>1, <1>3, <1>4 DEF Settled
  <2> QED
    BY <1>1, <1>2, <2>1 DEF AnsweredUpTo
<1>5. ASSUME m[p].role = "tool"
      PROVE  InPlace(mx, p)
  <2> DEFINE q == m[p].calls[1][1]
  <2>1. q \in 1..Len(m) /\ m[q].role = "assistant" /\ p \in (q + 1)..(q + Len(m[q].calls))
    BY <1>5 DEF Settled, InPlace
  <2>2. mx[p] = m[p] /\ mx[q] = m[q] /\ q \in 1..Len(mx)
    BY <1>1, <1>2, <2>1
  <2> QED
    BY <2>1, <2>2 DEF InPlace
<1> QED
  BY <1>1, <1>4, <1>5 DEF Settled

(* A message that neither makes nor answers a call closes nothing. *)
LEMMA PlainMessageClosed ==
  ASSUME NEW m \in Seq(Messages), Closed(m),
         NEW x \in Messages, x.role # "tool", x.calls = <<>>
  PROVE  Closed(Append(m, x)) /\ Append(m, x) \in Seq(Messages)
<1>1. Append(m, x) = m \o <<x>> /\ <<x>> \in Seq(Messages)
  OBVIOUS
<1>2. \A p \in 1..Len(m) : Settled(Append(m, x), p)
  BY <1>1, SettledStays DEF Closed
<1>3. Len(Append(m, x)) = Len(m) + 1 /\ Append(m, x)[Len(m) + 1] = x /\ Len(m) \in Nat
  OBVIOUS
<1>4. Settled(Append(m, x), Len(m) + 1)
  BY <1>3 DEF Settled, AnsweredUpTo
<1> QED
  BY <1>2, <1>3, <1>4 DEF Closed

(* A message with calls opens them. *)
LEMMA CallsOpen ==
  ASSUME NEW m \in Seq(Messages), Closed(m), NEW n \in Nat
  PROVE  Open(Append(m, Message("assistant", CallsOf(Len(m) + 1, n))), CallsOf(Len(m) + 1, n))
<1> DEFINE p == Len(m) + 1
           c == CallsOf(p, n)
           x == Message("assistant", c)
           mx == Append(m, x)
<1>1. p \in Nat /\ p >= 1 /\ Len(m) \in Nat
  OBVIOUS
<1>2. c \in Seq(Nat \X Nat) /\ Len(c) = n
  BY <1>1 DEF CallsOf
<1>3. x \in Messages
  BY <1>2 DEF Message, Messages
<1>4. mx = m \o <<x>> /\ <<x>> \in Seq(Messages) /\ Len(mx) = p /\ mx[p] = x
  BY <1>3
<1>5. \A i \in 1..Len(m) : Settled(mx, i)
  BY <1>4, SettledStays DEF Closed
<1>6. \A i \in (1..Len(mx)) \ {p} : Settled(mx, i)
  BY <1>1, <1>4, <1>5
<1>7. \A k \in 1..Len(c) : c[k] = <<p, 0 + k>>
  BY <1>2 DEF CallsOf
<1>8. AnsweredUpTo(mx, p, 0)
  BY DEF AnsweredUpTo
<1>9. mx[p] = Message("assistant", CallsOf(p, 0 + Len(c)))
  BY <1>2, <1>4
<1>10. OpenFrom(mx, c, p, 0)
  BY <1>1, <1>4, <1>6, <1>7, <1>8, <1>9 DEF OpenFrom
<1> QED
  BY <1>1, <1>10 DEF Open

LEMMA OneMore ==
  ASSUME NEW m \in Seq(Messages), NEW x \in Messages
  PROVE  /\ m \o <<x>> \in Seq(Messages) /\ Len(m \o <<x>>) = Len(m) + 1 /\ Len(m) \in Nat
         /\ (m \o <<x>>)[Len(m) + 1] = x /\ \A i \in 1..Len(m) : (m \o <<x>>)[i] = m[i]
  OBVIOUS

LEMMA OneResponse ==
  ASSUME NEW c
  PROVE  ToolResponses(<<c>>) = <<Message("tool", <<c>>)>>
  BY DEF ToolResponses

(* A response to the first open call leaves the others open. *)
LEMMA ResponseAnswers ==
  ASSUME NEW m \in Seq(Messages), NEW rest \in Seq(Nat \X Nat), rest # <<>>,
         Open(m, rest)
  PROVE  Open(m \o ToolResponses(<<Head(rest)>>), Tail(rest))
<1>1. PICK p \in Nat, done \in Nat : OpenFrom(m, rest, p, done)
  BY DEF Open
<1> DEFINE x == Message("tool", <<Head(rest)>>)
           mx == m \o ToolResponses(<<Head(rest)>>)
<1>2. /\ p \in 1..Len(m) /\ Len(m) = p + done
      /\ m[p] = Message("assistant", CallsOf(p, done + Len(rest)))
      /\ AnsweredUpTo(m, p, done)
      /\ \A k \in 1..Len(rest) : rest[k] = <<p, done + k>>
      /\ \A i \in (1..Len(m)) \ {p} : Settled(m, i)
  BY <1>1 DEF OpenFrom
<1>3. Len(rest) \in Nat /\ Len(rest) >= 1 /\ Head(rest) \in Nat \X Nat /\ Head(rest) = rest[1]
  OBVIOUS
<1>4. Head(rest) = <<p, done + 1>>
  BY <1>2, <1>3
<1>5. x \in Messages
  BY <1>3 DEF Message, Messages
<1>6. ToolResponses(<<Head(rest)>>) = <<x>>
  BY OneResponse, Zenon DEF x
<1>7. /\ mx \in Seq(Messages) /\ Len(mx) = Len(m) + 1 /\ Len(m) \in Nat
      /\ mx[Len(m) + 1] = x /\ \A i \in 1..Len(m) : mx[i] = m[i]
      /\ \A i \in 1..Len(m) : Settled(m, i) => Settled(mx, i)
  <2>1. mx = m \o <<x>>
    BY <1>6
  <2>2. <<x>> \in Seq(Messages)
    BY <1>5
  <2> HIDE DEF x, mx
  <2>3. \A i \in 1..Len(m) : Settled(m, i) => Settled(mx, i)
    BY <2>1, <2>2, SettledStays, Zenon
  <2> QED
    BY <1>5, <2>1, <2>3, OneMore, Zenon
<1>8. /\ Len(Tail(rest)) = Len(rest) - 1
      /\ \A k \in 1..Len(Tail(rest)) : Tail(rest)[k] = <<p, (done + 1) + k>>
  <2>1. /\ Len(Tail(rest)) = Len(rest) - 1
        /\ \A k \in 1..Len(Tail(rest)) : Tail(rest)[k] = rest[k + 1]
    BY HeadTailProperties
  <2>2. ASSUME NEW k \in 1..Len(Tail(rest))
        PROVE  Tail(rest)[k] = <<p, (done + 1) + k>>
    <3>1. k + 1 \in 1..Len(rest) /\ done + (k + 1) = (done + 1) + k
      BY <1>3, <2>1
    <3>2. rest[k + 1] = <<p, done + (k + 1)>>
      BY <1>2, <3>1
    <3> QED
      BY <2>1, <3>1, <3>2
  <2> QED
    BY <2>1, <2>2
<1> HIDE DEF mx, x
<1>9. mx[p] = m[p] /\ m[p] = Message("assistant", CallsOf(p, (done + 1) + Len(Tail(rest))))
  <2>1. done + Len(rest) = (done + 1) + Len(Tail(rest))
    BY <1>3, <1>8
  <2> QED
    BY <1>2, <1>7, <2>1
<1>10. /\ m[p].role = "assistant" /\ m[p].calls = CallsOf(p, done + Len(rest))
       /\ m[p].calls[done + 1] = <<p, done + 1>> /\ Len(m[p].calls) = done + Len(rest)
  BY <1>2, <1>3 DEF CallsOf, Message
<1>11. AnsweredUpTo(mx, p, done + 1)
  <2> SUFFICES ASSUME NEW k \in 1..(done + 1)
               PROVE  p + k <= Len(mx) /\ mx[p + k] = Message("tool", <<mx[p].calls[k]>>)
    BY DEF AnsweredUpTo
  <2>1. CASE k = done + 1
    <3>1. p + k = Len(m) + 1 /\ mx[p].calls[k] = <<p, done + 1>>
      <4>1. p + k = Len(m) + 1 /\ Len(m) + 1 <= Len(mx)
        BY <1>2, <1>7, <2>1
      <4>2. mx[p].calls[k] = <<p, done + 1>>
        BY <1>9, <1>10, <2>1, Zenon
      <4> QED
        BY <4>1, <4>2
    <3>2. x = Message("tool", << <<p, done + 1>> >>)
      BY <1>4 DEF x
    <3>3. p + k <= Len(mx)
      BY <1>2, <1>7, <2>1
    <3>4. mx[p + k] = x /\ <<mx[p].calls[k]>> = << <<p, done + 1>> >>
      BY <1>7, <3>1, Zenon
    <3> QED
      BY <3>2, <3>3, <3>4, Zenon
  <2>2. CASE k # done + 1
    <3>1. k \in 1..done /\ p + k \in 1..Len(m)
      BY <1>2, <2>2
    <3>2. m[p + k] = Message("tool", <<m[p].calls[k]>>)
      BY <1>2, <3>1, Zenon DEF AnsweredUpTo
    <3>3. mx[p + k] = m[p + k] /\ mx[p] = m[p] /\ p + k <= Len(mx)
      BY <1>7, <1>9, <3>1
    <3> QED
      BY <3>2, <3>3, Zenon
  <2> QED
    BY <2>1, <2>2
<1>12. Settled(mx, Len(mx))
  <2>1. x.role = "tool" /\ x.calls = << <<p, done + 1>> >> /\ x.calls[1][1] = p
    BY <1>4 DEF Message, x
  <2>2. Len(mx) \in (p + 1)..(p + Len(m[p].calls))
    <3>1. Len(mx) = (p + done) + 1
      BY <1>2, <1>7, Zenon
    <3>2. Len(m[p].calls) = done + Len(rest)
      BY <1>10
    <3> QED
      BY <1>3, <3>1, <3>2, SMTT(60)
  <2>3. mx[Len(mx)] = x /\ p \in 1..Len(mx)
    BY <1>2, <1>7
  <2> QED
    BY <1>9, <1>10, <2>1, <2>2, <2>3 DEF Settled, InPlace
<1>13. \A i \in (1..Len(mx)) \ {p} : Settled(mx, i)
  <2> TAKE i \in (1..Len(mx)) \ {p}
  <2>1. CASE i \in 1..Len(m)
    BY <1>2, <1>7, <2>1
  <2>2. CASE i = Len(mx)
    BY <1>12, <2>2
  <2> QED
    BY <1>2, <1>7, <2>1, <2>2
<1>14. Len(mx) = p + (done + 1) /\ p \in 1..Len(mx)
  BY <1>2, <1>7
<1>15. OpenFrom(mx, Tail(rest), p, done + 1)
  BY <1>8, <1>9, <1>11, <1>13, <1>14 DEF OpenFrom
<1> QED
  BY <1>15 DEF Open, mx

(* When no call is open any more, the conversation is closed. *)
LEMMA AllAnsweredCloses ==
  ASSUME NEW m \in Seq(Messages), Open(m, <<>>)
  PROVE  Closed(m)
<1>1. PICK p \in Nat, done \in Nat : OpenFrom(m, <<>>, p, done)
  BY DEF Open
<1>2. m[p] = Message("assistant", CallsOf(p, done)) /\ AnsweredUpTo(m, p, done)
  BY <1>1 DEF OpenFrom
<1>3. m[p].role = "assistant" /\ Len(m[p].calls) = done
  BY <1>2 DEF Message, CallsOf
<1>4. Settled(m, p)
  BY <1>2, <1>3 DEF Settled
<1> QED
  BY <1>1, <1>4 DEF Closed, OpenFrom

(* A message whose calls are all answered at once leaves none open. *)
LEMMA CallsAnsweredClose ==
  ASSUME NEW m \in Seq(Messages), Closed(m), NEW n \in Nat
  PROVE  Closed(Append(m, Message("assistant", CallsOf(Len(m) + 1, n)))
                  \o ToolResponses(CallsOf(Len(m) + 1, n)))
<1> DEFINE q == Len(m) + 1
           c == CallsOf(q, n)
           ma == Append(m, Message("assistant", c))
           t == ToolResponses(c)
           mx == ma \o t
<1>1. Len(m) \in Nat /\ q \in Nat
  OBVIOUS
<1>2. c \in Seq(Nat \X Nat) /\ Len(c) = n /\ \A k \in 1..n : c[k] = <<q, k>>
  BY <1>1 DEF CallsOf
<1>3. Message("assistant", c) \in Messages /\ t \in Seq(Messages)
  BY <1>2, MessageType
<1> HIDE DEF c
<1>4. Len(t) = n /\ \A k \in 1..n : t[k] = Message("tool", << <<q, k>> >>)
  <2>1. Len(t) = n /\ \A k \in 1..n : t[k] = Message("tool", <<c[k]>>)
    BY <1>2 DEF ToolResponses
  <2> QED
    BY <1>2, <2>1
<1> HIDE DEF t
<1>5. /\ ma \in Seq(Messages) /\ Len(ma) = q /\ ma[q] = Message("assistant", c)
      /\ \A i \in 1..Len(m) : Settled(ma, i)
  <2>1. ma = m \o <<Message("assistant", c)>> /\ <<Message("assistant", c)>> \in Seq(Messages)
    BY <1>3
  <2>2. \A i \in 1..Len(m) : Settled(ma, i)
    BY <2>1, SettledStays DEF Closed
  <2> QED
    BY <1>3, <2>2, AppendProperties
<1> HIDE DEF ma
<1>6. /\ mx \in Seq(Messages) /\ Len(mx) = q + n
      /\ \A i \in 1..(q + n) : mx[i] = IF i <= q THEN ma[i] ELSE t[i - q]
  <2>1. /\ mx \in Seq(Messages) /\ Len(mx) = Len(ma) + Len(t)
        /\ \A i \in 1..(Len(ma) + Len(t)) : mx[i] = IF i <= Len(ma) THEN ma[i] ELSE t[i - Len(ma)]
    BY <1>3, <1>5, ConcatProperties
  <2> QED
    BY <1>4, <1>5, <2>1
<1>7. \A i \in 1..Len(m) : Settled(mx, i)
  <2> TAKE i \in 1..Len(m)
  <2>1. i \in 1..Len(ma) /\ Settled(ma, i)
    BY <1>1, <1>5
  <2> QED
    BY <1>3, <1>5, <2>1, SettledStays
<1> HIDE DEF mx
<1>8. mx[q].role = "assistant" /\ mx[q].calls = c
  BY <1>1, <1>5, <1>6 DEF Message
<1>9. \A k \in 1..n : q + k <= Len(mx) /\ mx[q + k] = Message("tool", << <<q, k>> >>)
  <2> TAKE k \in 1..n
  <2>1. q + k \in 1..(q + n) /\ ~ (q + k <= q) /\ (q + k) - q = k
    BY <1>1
  <2> QED
    BY <1>4, <1>6, <2>1
<1>10. Settled(mx, q)
  BY <1>2, <1>8, <1>9 DEF Settled, AnsweredUpTo
<1>11. \A k \in 1..n : Settled(mx, q + k)
  <2> TAKE k \in 1..n
  <2>1. /\ mx[q + k].role = "tool" /\ mx[q + k].calls = << <<q, k>> >>
        /\ mx[q + k].calls[1][1] = q
    <3>1. mx[q + k] = Message("tool", << <<q, k>> >>)
      BY <1>9
    <3> HIDE DEF q
    <3> QED
      BY <3>1 DEF Message
  <2>2. q \in 1..Len(mx) /\ q + k \in (q + 1)..(q + Len(mx[q].calls))
    BY <1>1, <1>2, <1>6, <1>8
  <2> QED
    BY <1>8, <2>1, <2>2 DEF Settled, InPlace
<1>12. ASSUME NEW i \in 1..Len(mx)
       PROVE  i \in 1..Len(m) \/ i = q \/ \E k \in 1..n : i = q + k
  <2>1. CASE i > q
    <3>1. i - q \in 1..n /\ i = q + (i - q)
      BY <1>1, <1>6, <2>1
    <3> QED
      BY <3>1
  <2>2. CASE ~ (i > q)
    BY <1>1, <1>6, <2>2
  <2> QED
    BY <2>1, <2>2
<1>13. Closed(mx)
  BY <1>7, <1>10, <1>11, <1>12 DEF Closed
<1> QED
  BY <1>13 DEF mx, ma, t, c

(* The conversation starts closed, and is closed at every request. *)
LEMMA DialogInit == Init => Dialog
<1> SUFFICES ASSUME Init PROVE Dialog
  OBVIOUS
<1>1. << >> \in Seq(Messages) /\ Closed(<< >>)
  BY DEF Closed
<1>2. \A x \in Messages : x.role # "tool" /\ x.calls = <<>> =>
        Closed(Append(<< >>, x)) /\ Append(<< >>, x) \in Seq(Messages)
  BY <1>1, PlainMessageClosed
<1>3. Message("system", <<>>) \in Messages /\ Prompt \in Messages
  BY MessageType
<1>4. Closed(<< Message("system", <<>>) >>) /\ << Message("system", <<>>) >> \in Seq(Messages)
  BY <1>2, <1>3 DEF Message
<1>5. Closed(Append(<< Message("system", <<>>) >>, Prompt))
  BY <1>3, <1>4, PlainMessageClosed DEF Prompt, Message
<1>6. ASSUME NEW a \in Messages, NEW b \in Messages
      PROVE  Append(<<a>>, b) = <<a, b>>
  <2>1. <<a>> \in Seq(Messages) /\ <<a, b>> \in Seq(Messages)
    OBVIOUS
  <2>2. Append(<<a>>, b) \in Seq(Messages) /\ Len(Append(<<a>>, b)) = 2
    BY <2>1, AppendProperties
  <2>3. \A i \in 1..2 : Append(<<a>>, b)[i] = <<a, b>>[i]
    BY <2>1, AppendProperties
  <2> QED
    BY <2>1, <2>2, <2>3, SeqEqual
<1> QED
  BY <1>3, <1>5, <1>6 DEF Init, Dialog

(* Each operation leaves no call open, or only the last message's.        *)
LEMMA DialogStep ==
  ASSUME IInv, Dialog, [Next]_vars
  PROVE  Dialog'
<1>1. messages \in Seq(Messages) /\ todo \in Seq(Nat \X Nat)
  BY DEF IInv, Shape, TypeOK, Conversation, Messages
<1>2. ASSUME NEW m \in Seq(Messages), Closed(m)
      PROVE  /\ Append(m, Prompt) \in Seq(Messages) /\ Closed(Append(m, Prompt))
             /\ Append(m, Reply) \in Seq(Messages) /\ Closed(Append(m, Reply))
  BY <1>2, MessageType, PlainMessageClosed DEF Prompt, Reply, Message
<1>3. messages \o << Reply, Prompt >> = Append(Append(messages, Reply), Prompt)
  <2>1. ASSUME NEW a \in Messages, NEW b \in Messages
        PROVE  messages \o <<a, b>> = Append(Append(messages, a), b)
    BY <1>1
  <2> QED
    BY <2>1, MessageType
<1>4. Closed(messages) => /\ Closed(Append(messages, Prompt))
                          /\ Closed(messages \o << Reply, Prompt >>)
  BY <1>1, <1>2, <1>3
<1>5. CASE ReplyWithoutCalls
  BY <1>4, <1>5 DEF ReplyWithoutCalls, InvestigationTurn, Dialog
<1>6. CASE ReplyWithCalls
  <2>1. PICK n \in 1..MaxCalls :
          messages' = Append(messages, Message("assistant", Calls(n))) /\ todo' = Calls(n)
    BY <1>6 DEF ReplyWithCalls
  <2>2. n \in Nat /\ Calls(n) = CallsOf(Len(messages) + 1, n)
    BY BudgetAssumption DEF Calls, CallsOf
  <2>3. Closed(messages) /\ phase' = "tools"
    BY <1>6 DEF ReplyWithCalls, InvestigationTurn, Dialog
  <2>4. Open(messages', todo')
    BY <1>1, <2>1, <2>2, <2>3, CallsOpen
  <2> QED
    BY <2>3, <2>4 DEF Dialog
<1>7. CASE AnswerCall
  BY <1>1, <1>7, ResponseAnswers DEF AnswerCall, Dialog
<1>8. CASE EndTurn
  BY <1>1, <1>8, AllAnsweredCloses DEF EndTurn, Dialog
<1>9. CASE BeginFinalization
  BY <1>4, <1>9 DEF BeginFinalization, Dialog
<1>10. CASE AnswerStructured
  BY <1>4, <1>10 DEF AnswerStructured, Accept, Reject, Dialog
<1>11. CASE AnswerLegacy
  <2>1. PICK n \in 0..MaxCalls :
          \/ phase' = "accepted"
          \/ /\ phase' = "repair"
             /\ messages' = Append(messages, Message("assistant", Calls(n)))
                              \o LegacyErrorResponses(Calls(n))
    BY <1>11 DEF AnswerLegacy, Accept, Reject
  <2>2. n \in Nat /\ Calls(n) = CallsOf(Len(messages) + 1, n) /\ Closed(messages)
    BY <1>11, BudgetAssumption DEF Calls, CallsOf, AnswerLegacy, Dialog
  <2>3. Closed(Append(messages, Message("assistant", Calls(n))) \o LegacyErrorResponses(Calls(n)))
    <3>1. CASE n = 0
      <4>1. Calls(n) = <<>>
        BY <3>1 DEF Calls
      <4>2. /\ Append(messages, Reply) \in Seq(Messages)
            /\ Append(messages, Reply) \o << Prompt >> = Append(Append(messages, Reply), Prompt)
        BY <1>1, <1>2, <2>2, MessageType, AppendIsConcat
      <4> QED
        BY <1>1, <1>2, <2>2, <4>1, <4>2 DEF LegacyErrorResponses, Reply
    <3>2. CASE n # 0
      <4>1. Calls(n) # <<>>
        BY <2>2, <3>2, Len(<<>>) = 0, Len(Calls(n)) = n DEF Calls
      <4> QED
        BY <1>1, <2>2, <4>1, CallsAnsweredClose DEF LegacyErrorResponses
    <3> QED
      BY <3>1, <3>2
  <2> QED
    BY <2>1, <2>3 DEF Dialog
<1>12. CASE FallBack
  BY <1>4, <1>12 DEF FallBack, Dialog
<1>13. CASE \/ ExceedToolLimit \/ BeginRepair \/ ExceedRepairLimit
            \/ Fail \/ Return \/ UNCHANGED vars
  BY <1>13
  DEF ExceedToolLimit, BeginRepair, ExceedRepairLimit, Fail, Return, vars, Dialog, Ended
<1> QED
  BY <1>5, <1>6, <1>7, <1>8, <1>9, <1>10, <1>11, <1>12, <1>13 DEF Next

(* The conversation a provider is given is well formed at every request:   *)
(* each call of an assistant message is answered, in order and right after *)
(* it, and there are no other tool messages (runner.go, Run, executeTools  *)
(* and legacyErrorResponses), for any number of turns, calls and repairs.  *)
THEOREM RequestsAreWellFormed == Spec => []WellFormed
<1>1. IInv /\ Dialog /\ [Next]_vars => Dialog'
  BY DialogStep
<1>2. ASSUME Dialog PROVE WellFormed
  <2>1. AwaitsModel => Closed(messages)
    BY <1>2 DEF AwaitsModel, InvestigationTurn, Dialog
  <2>2. \A p \in 1..Len(messages) : Settled(messages, p) =>
          /\ messages[p].role = "assistant" => Answered(p)
          /\ messages[p].role = "tool" =>
               LET q == messages[p].calls[1][1]
               IN  messages[q].role = "assistant" /\ p \in (q + 1)..(q + Len(messages[q].calls))
    BY DEF Settled, AnsweredUpTo, InPlace, Answered
  <2> QED
    BY <2>1, <2>2 DEF Closed, WellFormed
<1> QED
  BY Invariance, DialogInit, <1>1, <1>2, PTL DEF Spec

-----------------------------------------------------------------------------
(* The compaction of the requests, for every budget and every size of what *)
(* is said: the theorems of ContextCompactionProofs, for the machine that  *)
(* is checked beside the runner.  The steps of the runner are stutters of  *)
(* that machine.                                                           *)
LEMMA CompactionRuns == MCSpec => Compaction!Spec
<1>1. MCInit => Compaction!Init
  BY Zenon DEF MCInit
<1>2. [MCNext]_<<scene, vars, compactionVars>> => [Compaction!Next]_(Compaction!vars)
  BY Zenon DEF MCNext, compactionVars, Compaction!vars
<1> QED
  BY <1>1, <1>2, PTL DEF MCSpec, Compaction!Spec

(* Whatever was said so far, what is sent to the model is a conversation a *)
(* provider accepts, within the budget, and a repair says what is to be    *)
(* repaired.                                                               *)
THEOREM SentRequestsAreValid == MCSpec => []RequestValid
<1>1. Compaction!Spec => []Compaction!RequestValid
  BY SizesAssumption, Compaction!RequestsAreValid, Zenon
<1>2. Compaction!RequestValid => RequestValid
  BY Zenon DEF RequestValid
<1> QED
  BY CompactionRuns, <1>1, <1>2, PTL

(* It leaves out the oldest, and no more than it must.                     *)
THEOREM SentRequestsLeaveOnlyWhatTheyMustOut == MCSpec => []OnlyNeeded
<1>1. Compaction!Spec => []Compaction!OnlyNeeded
  BY SizesAssumption, Compaction!OnlyNeededIsLeftOut, Zenon
<1>2. Compaction!OnlyNeeded => OnlyNeeded
  BY Zenon DEF OnlyNeeded
<1> QED
  BY CompactionRuns, <1>1, <1>2, PTL
=============================================================================
