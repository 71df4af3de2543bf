-------------------------- MODULE MCSurfaceShards --------------------------
(* Instances of SurfaceShards for TLC.                                      *)
EXTENDS SurfaceShards

CONSTANTS r1, r2, r3, r4,   (* web routes                                   *)
          e1, e2, e3, e4,   (* entities                                     *)
          plain, old, new   (* answers; the last two conflict               *)

MCAnswers == {plain, old, new}

(* An answer that conflicts with an earlier one does not validate; `plain`  *)
(* always does.                                                             *)
MCAccepted ==
  [prior \in SUBSET MCAnswers |->
     {plain} \cup (IF new \in prior THEN {} ELSE {old})
             \cup (IF old \in prior THEN {} ELSE {new})]

MCBackgroundAnswers == {new}

(* Two groups of routes (of three and one); a tree with one route renamed   *)
(* in the first group; and one that has lost the second group.              *)
OneTree    == {<<r1, r2, r3>>}
ThreeTrees == {<<r1, r2, r3, r4>>, <<r1, r2, r4>>, <<r1, r2, r3>>}

OneTarget   == <<e1>>
FourTargets == <<e1, e2, e3, e4>>

WebAndAPI     == {Web, API}
WithoutWeb    == {API, CLI, Integrations}
=============================================================================
