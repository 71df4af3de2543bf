--------------------------- MODULE MCInvestigation ---------------------------
(* One instance for the two machines of an investigation: the runner, and   *)
(* the compaction of its requests.  They share no variable, so a behaviour  *)
(* moves one of them and leaves the other in its initial state.             *)
EXTENDS InvestigationRunner

CONSTANTS
  ContextBudget, CompactedSize, PromptSize, MessageSizes, SubmittedSize,
  RejectionBudget, ConversationGroups

VARIABLES
  scene,                         (* "runner" or "compaction"                *)
  transcript, purpose, attempts, prepared  (* of ContextCompaction          *)

Compaction == INSTANCE ContextCompactionProofs WITH
  Budget <- ContextBudget, Stub <- CompactedSize, Prompt <- PromptSize,
  Sizes <- MessageSizes, Submitted <- SubmittedSize,
  MaxRepairs <- RejectionBudget, MaxGroups <- ConversationGroups,
  messages <- transcript, mode <- purpose, repairs <- attempts, request <- prepared

ASSUME SizesAssumption == Compaction!CompactionAssumption

compactionVars == <<transcript, purpose, attempts, prepared>>

MCInit ==
  /\ scene \in {"runner", "compaction"}
  /\ Init /\ Compaction!Init

MCNext ==
  \/ scene = "runner" /\ Next /\ UNCHANGED <<scene, compactionVars>>
  \/ scene = "compaction" /\ Compaction!Next /\ UNCHANGED <<scene, vars>>

MCSpec == MCInit /\ [][MCNext]_<<scene, vars, compactionVars>>

(* What the runner sends, and what it leaves out of it, is as stated in     *)
(* ContextCompaction.                                                       *)
RequestValid == Compaction!RequestValid
OnlyNeeded   == Compaction!OnlyNeeded
=============================================================================
