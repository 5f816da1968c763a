----------------------------- MODULE FlowGraph -----------------------------
(***************************************************************************)
(* The vocabulary of control-flow graphs that every analysis of the IR is  *)
(* judged by: which blocks control can reach, which blocks every path to a *)
(* block must cross, and where the influence of a block stops.             *)
(*                                                                         *)
(* Nothing here is an algorithm of the compiler.  The operators are the    *)
(* definitions that src/src/ir/dom.c states in prose at its top, given as  *)
(* least closed sets so that they can be evaluated on small graphs and     *)
(* reasoned about for all graphs.  An edge set E is a set of pairs         *)
(* <<from, to>> of blocks.  The last section is the contract between the   *)
(* analysis that builds a graph and those that read it.                    *)
(***************************************************************************)
EXTENDS Integers, Sequences, FiniteSets

CONSTANTS
  Blocks,   \* the basic blocks of one function (struct ir_block)
  Entry,    \* the block control enters at (ir_func.entry)
  NULL      \* the null pointer

ASSUME EntryIsBlock == Entry \in Blocks
ASSUME NullIsNoBlock == NULL \notin Blocks
ASSUME BlocksFinite == IsFiniteSet(Blocks)

(***************************************************************************)
(* S contains everything one step away from it, except that no step may    *)
(* enter block a.  With a = NULL no block is excluded.                     *)
(***************************************************************************)
ClosedAvoiding(E, a, S) ==
  \A x \in S, y \in Blocks : <<x, y>> \in E /\ y # a => y \in S

(* The blocks some path from the entry reaches without ever entering a. *)
ReachableAvoiding(E, a) ==
  {x \in Blocks :
     \A S \in SUBSET Blocks :
       /\ Entry # a => Entry \in S
       /\ ClosedAvoiding(E, a, S)
       => x \in S}

Reachable(E) == ReachableAvoiding(E, NULL)

(* Every path from the entry to b goes through a. *)
Dominates(E, a, b) == b \notin ReachableAvoiding(E, a)

StrictlyDominates(E, a, b) == a # b /\ Dominates(E, a, b)

(* The merge points where the dominance of a stops. *)
DominanceFrontier(E, a) ==
  {b \in Reachable(E) :
     /\ ~ StrictlyDominates(E, a, b)
     /\ \E p \in Reachable(E) : <<p, b>> \in E /\ Dominates(E, a, p)}

-----------------------------------------------------------------------------
(***************************************************************************)
(* The contract between src/src/ir/cfg.c and src/src/ir/dom.c: the form in *)
(* which ir_analyze_cfg hands the control-flow graph of a function to the  *)
(* passes that read it.  Module Cfg establishes it, module Dominators      *)
(* starts from it.                                                         *)
(*                                                                         *)
(* What ir_analyze_cfg promises.  rpo[k] is the block with rpo_index k.    *)
(* Every block but the entry was first reached from a block that is        *)
(* numbered before it; nothing branches back to the entry (verify.c checks *)
(* it, lowering and opt_tail_calls never do it).                           *)
(***************************************************************************)
RpoBlocks(g) == {g.rpo[k] : k \in 0 .. g.count - 1}

PredSet(g, b) == {g.preds[b][k] : k \in 1 .. Len(g.preds[b])}

Edges(g) == {e \in Blocks \X Blocks : e[1] \in PredSet(g, e[2])}

Analysed(g) ==
  /\ g.count \in Nat \ {0}
  /\ g.rpo \in [0 .. g.count - 1 -> Blocks]
  /\ g.rpo[0] = Entry
  /\ g.index \in [Blocks -> Int]
  /\ \A k \in 0 .. g.count - 1 : g.index[g.rpo[k]] = k
  /\ \A b \in Blocks \ RpoBlocks(g) : g.index[b] = -1
  /\ g.preds \in [Blocks -> Seq(Blocks)]
  /\ \A b \in Blocks : PredSet(g, b) \subseteq RpoBlocks(g)
  /\ \A b \in Blocks : PredSet(g, b) # {} => b \in RpoBlocks(g)
  /\ \A b \in RpoBlocks(g) \ {Entry} :
       \E q \in PredSet(g, b) : g.index[q] < g.index[b]
  /\ PredSet(g, Entry) = {}
=============================================================================
