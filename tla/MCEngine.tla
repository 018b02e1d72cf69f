------------------------------ MODULE MCEngine ------------------------------
(***************************************************************************)
(* Engine for TLC: every graph on four objects and every set of faulty     *)
(* ones. The target is node 1, or an object that is not in the graph.      *)
(* Node 4 is in another namespace, and node 3 may be a placeholder. Edges  *)
(* are generated from the smaller to the larger node: the traversal uses   *)
(* them in both directions.                                                *)
(***************************************************************************)
EXTENDS Engine

MCNode == 1..4
MCEdges == {e \in MCNode \X MCNode : e[1] < e[2]}

MCInputs ==
  [node        : {MCNode},
   edge        : SUBSET MCEdges,
   target      : {1},
   faulty      : SUBSET MCNode,
   placeholder : {{}, {3}},
   namespace   : {[n \in MCNode |-> IF n = 4 THEN "other" ELSE "home"]},
   maxDepth    : {0, 1, 2},
   scan        : BOOLEAN]
  \cup
  [node        : {MCNode},
   edge        : {MCEdges},
   target      : {0},
   faulty      : {MCNode},
   placeholder : {{}},
   namespace   : {[n \in MCNode |-> "home"]},
   maxDepth    : {0},
   scan        : {TRUE}]
=============================================================================
