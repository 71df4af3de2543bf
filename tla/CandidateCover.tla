--------------------------- MODULE CandidateCover ---------------------------
(***************************************************************************)
(* What the Surface coordinator promises about the candidates it finds     *)
(* (web routes and API entities): each is put into one task's findings and *)
(* into no other's, and the findings are handed on only when none is left. *)
(* How candidates are grouped, split, retried and checkpointed does not    *)
(* show here.                                                              *)
(***************************************************************************)
EXTENDS Naturals

CONSTANT Candidate

VARIABLES
  phase,     (* "none", "open" while a process works, "closed" at the end   *)
  claims     (* claims[c], for each candidate c the process found: the      *)
             (* number of merged findings that are about c                  *)

coverVars == <<phase, claims>>

CoverInit == phase = "none" /\ claims = << >>

Open ==
  /\ phase # "open"
  /\ phase' = "open"
  /\ \E wanted \in SUBSET Candidate : claims' = [c \in wanted |-> 0]

Claim ==
  /\ phase = "open"
  /\ \E S \in SUBSET {c \in DOMAIN claims : claims[c] = 0} :
       claims' = [c \in DOMAIN claims |-> IF c \in S THEN 1 ELSE claims[c]]
  /\ UNCHANGED phase

Close ==
  /\ phase = "open" /\ \A c \in DOMAIN claims : claims[c] = 1
  /\ phase' = "closed"
  /\ UNCHANGED claims

Abandon ==
  /\ phase = "open"
  /\ phase' = "none" /\ claims' = << >>

CoverNext == Open \/ Claim \/ Close \/ Abandon

CoverSpec == CoverInit /\ [][CoverNext]_coverVars
=============================================================================
