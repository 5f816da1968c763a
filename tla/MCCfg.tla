------------------------------- MODULE MCCfg -------------------------------
(***************************************************************************)
(* All functions of MaxBlocks blocks: a block ends in a return, a jump or  *)
(* a branch to two different blocks.  Unreachable blocks, self loops and   *)
(* irreducible loops are among them.  Naming blocks in the order they are  *)
(* first entered, the lower target of a branch is tried first or the order *)
(* is of no account, so only those branches are taken.  An edit may turn   *)
(* the end of any one block into any other.                                *)
(***************************************************************************)
EXTENDS CfgInv

CONSTANT MaxBlocks

MCBlocks == 0 .. MaxBlocks - 1

Targets == MCBlocks \ {0}

MCTerminators ==
  {<<>>} \cup {<<b>> : b \in Targets}
         \cup {<<e[1], e[2]>> : e \in {e \in Targets \X Targets : e[1] < e[2]}}
=============================================================================
