--------------------------- MODULE MCDiscoveryRun ---------------------------
(* Constants of the model-checked instances of DiscoveryRun. *)
EXTENDS DiscoveryRun, TLC

CONSTANTS a1, a2

MCAnswers == {a1, a2}

(* An answer is only compared with answers. *)
AnswerSymmetry == Permutations(MCAnswers)
=============================================================================
