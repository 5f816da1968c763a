--------------------------- MODULE MCDominators ---------------------------
(***************************************************************************)
(* All analysed graphs over the blocks 0 .. MaxBlocks - 1.  A block ends   *)
(* in a return, a jump or a branch, so it has at most two successors, and  *)
(* none of them is the entry.  Blocks are named by their reverse postorder *)
(* number, which loses no graph up to renaming; a function whose last      *)
(* blocks are unreachable is one with a smaller count.  Predecessor arrays *)
(* are in the order ir_analyze_cfg fills them.                             *)
(***************************************************************************)
EXTENDS DominatorsInv, SequencesExt

CONSTANT MaxBlocks

MCBlocks == 0 .. MaxBlocks - 1

Succs == {S \in SUBSET (MCBlocks \ {0}) : Cardinality(S) <= 2}

GraphOf(n, succ) ==
  [ count |-> n,
    rpo   |-> [k \in 0 .. n - 1 |-> k],
    index |-> [x \in MCBlocks |-> IF x < n THEN x ELSE -1],
    preds |-> [y \in MCBlocks |->
                 SelectSeq([k \in 1..n |-> k-1], LAMBDA x : y \in succ[x])] ]

MCGraphs ==
  { GraphOf(n, [x \in MCBlocks |-> IF x < n THEN s[x] ELSE {}]) :
      n \in {MaxBlocks - 1, MaxBlocks},
      s \in { t \in [MCBlocks -> Succs] :
                \A y \in MCBlocks \ {0} : \E x \in 0 .. y - 1 : y \in t[x] } }

MCAnalysed == {gr \in MCGraphs : Analysed(gr)}
=============================================================================
