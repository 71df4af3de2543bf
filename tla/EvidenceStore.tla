---------------------------- MODULE EvidenceStore ---------------------------
(***************************************************************************)
(* The evidence of a discovery run: evidence.jsonl, one record a line,     *)
(* which processes append to one after another; the records the process    *)
(* at work knows; and the results on disk that cite them.  A record is its *)
(* ID, which is always a fresh one.                                        *)
(***************************************************************************)
EXTENDS Naturals, Sequences, FiniteSets

CONSTANTS
  MaxRecords,    (* bound: records drafted over the life of the run        *)
  MaxBatch,      (* bound: drafts of one tool result                       *)
  MaxFailures    (* bound: failed processes                                *)

ASSUME EvidenceAssumption ==
  MaxRecords \in Nat /\ MaxBatch \in Nat \ {0} /\ MaxFailures \in Nat

VARIABLES
  file,       (* what the writes to evidence.jsonl left there, in order    *)
  saved,      (* IDs that results saved in the run directory cite          *)
  pc,         (* "new", "idle", "work" or "append"                         *)
  records,    (* the store in memory                                       *)
  drafts,     (* drafts of the tool result still to be written             *)
  nextID, outcome, failures

vars == <<file, saved, pc, records, drafts, nextID, outcome, failures>>

(* A write of a record ends with the newline ("line"), before it           *)
(* ("unterminated"), or within the record ("cut").                         *)
Parts == {"line", "unterminated", "cut"}

(* OpenStore decodes every line: each must hold exactly one record. *)
Decodes == \A i \in DOMAIN file :
             \/ file[i].part = "line"
             \/ file[i].part = "unterminated" /\ i = Len(file)

Loaded == {file[i].id : i \in DOMAIN file}

Init ==
  /\ file = <<>> /\ saved = {} /\ pc = "new" /\ records = {} /\ drafts = 0
  /\ nextID = 1 /\ outcome = "none" /\ failures = 0

(* NewStore for a new run, OpenStore for a resumed one. *)
StartRun ==
  /\ pc = "new"
  /\ pc' = "work" /\ records' = {}
  /\ UNCHANGED <<file, saved, drafts, nextID, outcome, failures>>

OpenStore_SkipsLast ==                                         (* mutant *)
  /\ pc = "idle" /\ Decodes
  /\ pc' = "work" /\ outcome' = "none"
  /\ records' = {file[i].id : i \in 1..(Len(file) - 1)}
  /\ UNCHANGED <<file, saved, drafts, nextID, failures>>
OpenStore ==
  /\ pc = "idle" /\ Decodes
  /\ pc' = "work" /\ outcome' = "none"
  /\ records' = Loaded
  /\ UNCHANGED <<file, saved, drafts, nextID, failures>>

RefuseStore ==
  /\ pc = "idle" /\ ~ Decodes
  /\ outcome' = "undecodable"
  /\ UNCHANGED <<file, saved, pc, records, drafts, nextID, failures>>

(* AddDrafts: the records of a tool result, written one by one; a write    *)
(* that fails ends the process, whatever part of the record it got out.    *)
AddDrafts ==
  /\ pc = "work"
  /\ \E n \in 1..MaxBatch :
       /\ nextID + n <= MaxRecords + 1
       /\ drafts' = n
  /\ pc' = "append"
  /\ UNCHANGED <<file, saved, records, nextID, outcome, failures>>

WriteRecord ==
  /\ pc = "append" /\ drafts > 0
  /\ file' = Append(file, [id |-> nextID, part |-> "line"])
  /\ records' = records \cup {nextID}
  /\ nextID' = nextID + 1 /\ drafts' = drafts - 1
  /\ UNCHANGED <<saved, pc, outcome, failures>>

ReturnRecords ==
  /\ pc = "append" /\ drafts = 0
  /\ pc' = "work"
  /\ UNCHANGED <<file, saved, records, drafts, nextID, outcome, failures>>

Stop ==
  /\ pc' = "idle" /\ records' = {} /\ drafts' = 0
  /\ outcome' = "failed" /\ failures' = failures + 1

WriteFails ==
  /\ pc = "append" /\ drafts > 0 /\ failures < MaxFailures
  /\ \E part \in Parts \ {"line"} : file' = Append(file, [id |-> nextID, part |-> part])
  /\ nextID' = nextID + 1
  /\ Stop
  /\ UNCHANGED saved

(* A validated result: it cites records that exist, of this process or of  *)
(* an earlier one, and is saved as a checkpoint or a stage output.         *)
SaveResult ==
  /\ pc = "work"
  /\ \E cited \in SUBSET records : saved' = saved \cup cited
  /\ UNCHANGED <<file, pc, records, drafts, nextID, outcome, failures>>

Crash ==
  /\ pc \in {"work", "append"} /\ failures < MaxFailures
  /\ Stop
  /\ UNCHANGED <<file, saved, nextID>>

Next ==
  \/ StartRun \/ OpenStore \/ RefuseStore
  \/ AddDrafts \/ WriteRecord \/ ReturnRecords \/ WriteFails
  \/ SaveResult \/ Crash

Spec == Init /\ [][Next]_vars

-----------------------------------------------------------------------------
(* Every variable keeps its shape; no ID is written twice.                 *)
TypeOK ==
  /\ file \in Seq([id : 1..MaxRecords, part : Parts])
  /\ \A i, j \in DOMAIN file : file[i].id = file[j].id => i = j
  /\ saved \subseteq 1..MaxRecords /\ records \subseteq 1..MaxRecords
  /\ pc \in {"new", "idle", "work", "append"} /\ drafts \in 0..MaxBatch
  /\ nextID \in 1..(MaxRecords + 1) /\ failures \in 0..MaxFailures
  /\ outcome \in {"none", "failed", "undecodable"}

(* Each process knows all the evidence the saved results cite: however the *)
(* earlier processes ended, no checkpoint fails its revalidation for a     *)
(* record that was handed to the model and then lost.                      *)
CitedEvidenceKnown == pc \in {"work", "append"} => saved \subseteq records

(* cmd/noescope/main.go: --resume says it will "resume a compatible failed *)
(* discovery run".  No failure of a process leaves a store behind that the *)
(* next one refuses to open.                                               *)
FailedRunOpens == outcome # "undecodable"
=============================================================================
