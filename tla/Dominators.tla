---------------------------- MODULE Dominators ----------------------------
(***************************************************************************)
(* src/src/ir/dom.c: ir_compute_dominators and ir_compute_frontiers, one   *)
(* action per step of their loops.                                         *)
(*                                                                         *)
(* The Cooper-Harvey-Kennedy formulation keeps the dominator tree as idom  *)
(* parent pointers and repairs it in place while sweeping the blocks in    *)
(* reverse postorder.  The hazards are those of an in-place fixed point:   *)
(* the inner walk follows pointers that the same sweep is still rewriting  *)
(* and that start out null, and the result is only an answer once a sweep  *)
(* finds nothing to change.                                                *)
(*                                                                         *)
(* The graph is what ir_analyze_cfg leaves behind (module Cfg): the        *)
(* reachable blocks numbered in reverse postorder, and for every block the *)
(* array of its predecessors.                                              *)
(***************************************************************************)
EXTENDS FlowGraph

CONSTANT Graphs    \* the analysed graphs the pass may be run on

ASSUME GraphsAnalysed == \A g \in Graphs : Analysed(g)

VARIABLES
  graph,     \* the analysed graph; never written here
  idom,      \* ir_block.idom
  pc,        \* the loop the pass is in
  changed,   \* the sweep has moved some idom
  i,         \* position in func->rpo
  p,         \* position in block->preds
  newIdom,   \* the candidate built up from the predecessors seen so far
  fa, fb,    \* the two fingers of intersect()
  frontier,  \* ir_block.frontier
  runner     \* the block walking up in ir_compute_frontiers

vars == <<graph, idom, pc, changed, i, p, newIdom, fa, fb, frontier, runner>>

Block == graph.rpo[i]
PredCount == Len(graph.preds[Block])
Pred == graph.preds[Block][p]

Init ==
  /\ graph \in Graphs
  /\ idom = [x \in Blocks |-> IF x = Entry THEN Entry ELSE NULL]
  /\ pc = "while"
  /\ changed = TRUE
  /\ i = 1
  /\ p = 1
  /\ newIdom = NULL
  /\ fa = NULL
  /\ fb = NULL
  /\ frontier = [x \in Blocks |-> <<>>]
  /\ runner = NULL

-----------------------------------------------------------------------------
(* ir_compute_dominators *)

(* while (changed) { changed = 0; ... *)
StartSweep ==
  /\ pc = "while" /\ changed
  /\ changed' = FALSE
  /\ i' = 1
  /\ pc' = "block"
  /\ UNCHANGED <<graph, idom, p, newIdom, fa, fb, frontier, runner>>

EndSweep ==
  /\ pc = "block" /\ i = graph.count
  /\ pc' = "while"
  /\ UNCHANGED <<graph, idom, changed, i, p, newIdom, fa, fb, frontier, runner>>

(* Slip: the predecessor array indexed from the wrong end. *)
NextBlockFromZero ==
  /\ pc = "block" /\ i < graph.count
  /\ newIdom' = NULL
  /\ p' = 0
  /\ pc' = "preds"
  /\ UNCHANGED <<graph, idom, changed, i, fa, fb, frontier, runner>>

NextBlock ==
  /\ pc = "block" /\ i < graph.count
  /\ newIdom' = NULL
  /\ p' = 1
  /\ pc' = "preds"
  /\ UNCHANGED <<graph, idom, changed, i, fa, fb, frontier, runner>>

(* A predecessor with no dominator yet has not been processed: skip it. *)
SkipPred ==
  /\ pc = "preds" /\ p <= PredCount
  /\ idom[Pred] = NULL
  /\ p' = p + 1
  /\ UNCHANGED <<graph, idom, pc, changed, i, newIdom, fa, fb, frontier, runner>>

FirstPred ==
  /\ pc = "preds" /\ p <= PredCount
  /\ idom[Pred] # NULL
  /\ newIdom = NULL
  /\ newIdom' = Pred
  /\ p' = p + 1
  /\ UNCHANGED <<graph, idom, pc, changed, i, fa, fb, frontier, runner>>

(* Slip: meeting with a predecessor that has no dominator yet. *)
StartIntersectUnprocessed ==
  /\ pc = "preds" /\ p <= PredCount
  /\ newIdom # NULL
  /\ fa' = Pred
  /\ fb' = newIdom
  /\ pc' = "meet"
  /\ UNCHANGED <<graph, idom, changed, i, p, newIdom, frontier, runner>>

(* new_idom = intersect(pred, new_idom) *)
StartIntersect ==
  /\ pc = "preds" /\ p <= PredCount
  /\ idom[Pred] # NULL
  /\ newIdom # NULL
  /\ fa' = Pred
  /\ fb' = newIdom
  /\ pc' = "meet"
  /\ UNCHANGED <<graph, idom, changed, i, p, newIdom, frontier, runner>>

(* The finger with the larger reverse-postorder number moves up the tree. *)
WalkA ==
  /\ pc = "meet" /\ fa # fb
  /\ graph.index[fa] > graph.index[fb]
  /\ fa' = idom[fa]
  /\ UNCHANGED <<graph, idom, pc, changed, i, p, newIdom, fb, frontier, runner>>

WalkB ==
  /\ pc = "meet" /\ fa # fb
  /\ graph.index[fb] > graph.index[fa]
  /\ fb' = idom[fb]
  /\ UNCHANGED <<graph, idom, pc, changed, i, p, newIdom, fa, frontier, runner>>

(* Slip: the meeting point is computed and the predecessor kept. *)
MeetKeepsPred ==
  /\ pc = "meet" /\ fa = fb
  /\ newIdom' = Pred
  /\ p' = p + 1
  /\ pc' = "preds"
  /\ UNCHANGED <<graph, idom, changed, i, fa, fb, frontier, runner>>

Meet ==
  /\ pc = "meet" /\ fa = fb
  /\ newIdom' = fa
  /\ p' = p + 1
  /\ pc' = "preds"
  /\ UNCHANGED <<graph, idom, changed, i, fa, fb, frontier, runner>>

(* Slip: a store that does not ask for another sweep. *)
StoreIdomUnnoticed ==
  /\ pc = "preds" /\ p > PredCount
  /\ idom' = [idom EXCEPT ![Block] = IF newIdom # NULL THEN newIdom ELSE @]
  /\ i' = i + 1
  /\ pc' = "block"
  /\ UNCHANGED <<graph, changed, p, newIdom, fa, fb, frontier, runner>>

(* Slip: every store asks for another sweep, even of the value already there. *)
StoreIdomAlways ==
  /\ pc = "preds" /\ p > PredCount
  /\ idom' = [idom EXCEPT ![Block] = IF newIdom # NULL THEN newIdom ELSE @]
  /\ changed' = TRUE
  /\ i' = i + 1
  /\ pc' = "block"
  /\ UNCHANGED <<graph, p, newIdom, fa, fb, frontier, runner>>

StoreIdom ==
  /\ pc = "preds" /\ p > PredCount
  /\ IF newIdom # NULL /\ idom[Block] # newIdom
       THEN /\ idom' = [idom EXCEPT ![Block] = newIdom]
            /\ changed' = TRUE
       ELSE UNCHANGED <<idom, changed>>
  /\ i' = i + 1
  /\ pc' = "block"
  /\ UNCHANGED <<graph, p, newIdom, fa, fb, frontier, runner>>

(* The entry's self-dominance was scaffolding; from here NULL is the root. *)
FinishDominators ==
  /\ pc = "while" /\ ~ changed
  /\ idom' = [idom EXCEPT ![Entry] = NULL]
  /\ i' = 0
  /\ p' = 1
  /\ pc' = "merge"
  /\ UNCHANGED <<graph, changed, newIdom, fa, fb, frontier, runner>>

-----------------------------------------------------------------------------
(* ir_compute_frontiers, run straight after by every caller *)

(* Slip: an off-by-one in what counts as a merge point. *)
NotAMergeOfTwo ==
  /\ pc = "merge" /\ i < graph.count
  /\ PredCount <= 2
  /\ i' = i + 1
  /\ UNCHANGED <<graph, idom, pc, changed, p, newIdom, fa, fb, frontier, runner>>

NotAMerge ==
  /\ pc = "merge" /\ i < graph.count
  /\ PredCount < 2
  /\ i' = i + 1
  /\ UNCHANGED <<graph, idom, pc, changed, p, newIdom, fa, fb, frontier, runner>>

StartRunner ==
  /\ pc = "merge" /\ i < graph.count
  /\ PredCount >= 2 /\ p <= PredCount
  /\ runner' = Pred
  /\ pc' = "run"
  /\ UNCHANGED <<graph, idom, changed, i, p, newIdom, fa, fb, frontier>>

(* add_frontier keeps each member once. *)
Climb ==
  /\ pc = "run"
  /\ runner # NULL /\ runner # idom[Block]
  /\ frontier' =
       IF \E k \in 1 .. Len(frontier[runner]) : frontier[runner][k] = Block
         THEN frontier
         ELSE [frontier EXCEPT ![runner] = Append(@, Block)]
  /\ runner' = idom[runner]
  /\ UNCHANGED <<graph, idom, pc, changed, i, p, newIdom, fa, fb>>

EndRunner ==
  /\ pc = "run"
  /\ runner = NULL \/ runner = idom[Block]
  /\ p' = p + 1
  /\ pc' = "merge"
  /\ UNCHANGED <<graph, idom, changed, i, newIdom, fa, fb, frontier, runner>>

EndMerge ==
  /\ pc = "merge" /\ i < graph.count
  /\ PredCount >= 2 /\ p > PredCount
  /\ i' = i + 1
  /\ p' = 1
  /\ UNCHANGED <<graph, idom, pc, changed, newIdom, fa, fb, frontier, runner>>

Finish ==
  /\ pc = "merge" /\ i = graph.count
  /\ pc' = "done"
  /\ UNCHANGED <<graph, idom, changed, i, p, newIdom, fa, fb, frontier, runner>>

Next ==
  \/ StartSweep \/ EndSweep \/ NextBlock
  \/ SkipPred \/ FirstPred \/ StartIntersect
  \/ WalkA \/ WalkB \/ Meet
  \/ StoreIdom \/ FinishDominators
  \/ NotAMerge \/ StartRunner \/ Climb \/ EndRunner \/ EndMerge \/ Finish

(* One thread runs the pass to completion: every enabled step is taken. *)
Spec == Init /\ [][Next]_vars /\ WF_vars(Next)

-----------------------------------------------------------------------------
(***************************************************************************)
(* ir_dominates(x, y): walk idom pointers up from y and stop at x.  The    *)
(* walk visits exactly the least set that holds y and is closed under the  *)
(* parent pointers f.                                                      *)
(***************************************************************************)
ClosedUnder(f, S) == \A y \in S : f[y] # NULL => f[y] \in S

Ancestor(f, x, y) ==
  \A S \in SUBSET Blocks : y \in S /\ ClosedUnder(f, S) => x \in S

IrDominates(x, y) == Ancestor(idom, x, y)

-----------------------------------------------------------------------------
Pcs == {"while", "block", "preds", "meet", "merge", "run", "done"}

TypeOK ==
  /\ Analysed(graph)
  /\ idom \in [Blocks -> Blocks \cup {NULL}]
  /\ pc \in Pcs
  /\ changed \in BOOLEAN
  /\ i \in 0 .. graph.count
  /\ p \in Nat \ {0}
  /\ newIdom \in Blocks \cup {NULL}
  /\ fa \in Blocks \cup {NULL}
  /\ fb \in Blocks \cup {NULL}
  /\ frontier \in [Blocks -> Seq(Blocks)]
  /\ runner \in Blocks \cup {NULL}

(***************************************************************************)
(* intersect() dereferences both fingers without a null check.  It may: a  *)
(* finger only ever stands on a block that already has a dominator, even   *)
(* in the first sweep, when most idom pointers are still null.             *)
(***************************************************************************)
WalkNeverNull ==
  pc = "meet" => /\ fa # NULL /\ idom[fa] # NULL
                 /\ fb # NULL /\ idom[fb] # NULL

(***************************************************************************)
(* Once the sweeps have settled, walking idom pointers answers dominance:  *)
(* ir_dominates(x, y) holds exactly when every path from the entry to y    *)
(* crosses x.  CSE, LICM, SSA renaming and the verifier all rest on it.    *)
(***************************************************************************)
DominatorsCorrect ==
  pc = "done" =>
    LET E == Edges(graph) IN
      \A x, y \in RpoBlocks(graph) : IrDominates(x, y) <=> Dominates(E, x, y)

(***************************************************************************)
(* The recorded frontiers are the dominance frontiers, each member once:   *)
(* skipping blocks with fewer than two predecessors loses nothing.         *)
(***************************************************************************)
FrontiersCorrect ==
  pc = "done" =>
    LET E == Edges(graph) IN
      \A x \in RpoBlocks(graph) :
        LET f == frontier[x] IN
          /\ {f[k] : k \in 1 .. Len(f)} = DominanceFrontier(E, x)
          /\ \A j, k \in 1 .. Len(f) : f[j] = f[k] => j = k

(***************************************************************************)
(* A store to idom only ever moves a block's parent towards the entry.     *)
(* This is why the sweeps end: an idom that could move back down would     *)
(* let two blocks chase each other.                                        *)
(***************************************************************************)
IdomOnlyClimbs ==
  [][\A x \in Blocks \ {Entry} :
       idom[x] # NULL /\ idom'[x] # idom[x] =>
         graph.index[idom'[x]] < graph.index[idom[x]]]_vars

(* The sweeps, the walks inside them and the frontier climbs all end. *)
Terminates == <>(pc = "done")
=============================================================================
