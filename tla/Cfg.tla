-------------------------------- MODULE Cfg --------------------------------
(***************************************************************************)
(* src/src/ir/cfg.c: ir_analyze_cfg, and the depth-first search inside it, *)
(* one action per call and return of postorder().                          *)
(*                                                                         *)
(* The analysis runs again and again on the same function: after lowering, *)
(* after promotion and after every pass that moves an edge.  Each run must *)
(* undo what the previous one left in the blocks (marks, numbers, arrays   *)
(* that are kept allocated and only emptied), on a function whose edges    *)
(* have changed and which may have more blocks or reach fewer.             *)
(***************************************************************************)
EXTENDS FlowGraph

CONSTANTS
  Terminators,   \* what ir_successors may return for a block
  MaxEdits       \* bound: how often the function is edited and analysed again

(***************************************************************************)
(* At most two different blocks, in the order of the branch, and never the *)
(* entry: nothing branches back to it.                                     *)
(***************************************************************************)
ASSUME TerminatorsTyped ==
  /\ Terminators \subseteq Seq(Blocks \ {Entry})
  /\ \A t \in Terminators : \A j, k \in 1 .. Len(t) : t[j] = t[k] => j = k
ASSUME NothingIsReturn == <<>> \in Terminators
ASSUME MaxEditsNat == MaxEdits \in Nat

VARIABLES
  succ,      \* the successors each block's terminator names
  visited,   \* ir_block.visited, as the set of marked blocks
  preds,     \* ir_block.preds, its first pred_count entries
  index,     \* ir_block.rpo_index
  rpo,       \* func->rpo
  pc,        \* the part of ir_analyze_cfg that runs next
  calling,   \* the argument of the call of postorder() being made
  stack,     \* its active calls: the block and how many successors it has tried
  order,     \* the blocks recorded so far
  i,         \* position in func->rpo while the reverse edges are recorded
  edits      \* counter for MaxEdits

vars == <<succ, visited, preds, index, rpo, pc, calling, stack, order, i, edits>>

(* Lowering has just built the function: xcalloc left the blocks all zero. *)
Init ==
  /\ succ \in [Blocks -> Terminators]
  /\ visited = {}
  /\ preds = [b \in Blocks |-> <<>>]
  /\ index = [b \in Blocks |-> 0]
  /\ rpo = <<>>
  /\ pc = "reset"
  /\ calling = NULL
  /\ stack = <<>>
  /\ order = <<>>
  /\ i = 1
  /\ edits = 0

Frames == [block : Blocks, tried : Nat]

Top == stack[Len(stack)]
Pop == SubSeq(stack, 1, Len(stack) - 1)

-----------------------------------------------------------------------------
(* Slip: the arrays are kept, as their capacity is, and so is their length. *)
ResetMarksOnly ==
  /\ pc = "reset"
  /\ visited' = {}
  /\ index' = [b \in Blocks |-> -1]
  /\ pc' = "search"
  /\ calling' = Entry
  /\ order' = <<>>
  /\ UNCHANGED <<succ, preds, rpo, stack, i, edits>>

(* Forget the previous analysis and search from the entry. *)
Reset ==
  /\ pc = "reset"
  /\ visited' = {}
  /\ preds' = [b \in Blocks |-> <<>>]
  /\ index' = [b \in Blocks |-> -1]
  /\ pc' = "search"
  /\ calling' = Entry
  /\ order' = <<>>
  /\ UNCHANGED <<succ, rpo, stack, i, edits>>

(* postorder() of a block already visited returns at once. *)
ReturnVisited ==
  /\ pc = "search" /\ calling # NULL
  /\ calling \in visited
  /\ calling' = NULL
  /\ UNCHANGED <<succ, visited, preds, index, rpo, pc, stack, order, i, edits>>

(* Slip: the mark is not set. *)
EnterUnmarked ==
  /\ pc = "search" /\ calling # NULL
  /\ calling \notin visited
  /\ stack' = Append(stack, [block |-> calling, tried |-> 0])
  /\ calling' = NULL
  /\ UNCHANGED <<succ, visited, preds, index, rpo, pc, order, i, edits>>

Enter ==
  /\ pc = "search" /\ calling # NULL
  /\ calling \notin visited
  /\ visited' = visited \cup {calling}
  /\ stack' = Append(stack, [block |-> calling, tried |-> 0])
  /\ calling' = NULL
  /\ UNCHANGED <<succ, preds, index, rpo, pc, order, i, edits>>

(* Slip: the index of the loop is not advanced. *)
CallSame ==
  /\ pc = "search" /\ calling = NULL /\ stack # <<>>
  /\ Top.tried < Len(succ[Top.block])
  /\ calling' = succ[Top.block][Top.tried + 1]
  /\ UNCHANGED <<succ, visited, preds, index, rpo, pc, stack, order, i, edits>>

(* The loop over the successors calls postorder() for the next one. *)
CallNext ==
  /\ pc = "search" /\ calling = NULL /\ stack # <<>>
  /\ Top.tried < Len(succ[Top.block])
  /\ calling' = succ[Top.block][Top.tried + 1]
  /\ stack' = [stack EXCEPT ![Len(stack)].tried = @ + 1]
  /\ UNCHANGED <<succ, visited, preds, index, rpo, pc, order, i, edits>>

(* All successors have returned: the block is recorded after them. *)
Record ==
  /\ pc = "search" /\ calling = NULL /\ stack # <<>>
  /\ Top.tried = Len(succ[Top.block])
  /\ order' = Append(order, Top.block)
  /\ stack' = Pop
  /\ UNCHANGED <<succ, visited, preds, index, rpo, pc, calling, i, edits>>

Position(seq, b) == CHOOSE k \in 1 .. Len(seq) : seq[k] = b

(* Slip: numbered in the order of the search. *)
NumberUnreversed ==
  /\ pc = "search" /\ calling = NULL /\ stack = <<>>
  /\ rpo' = order
  /\ index' = [b \in Blocks |->
                 IF \E k \in 1 .. Len(order) : order[k] = b
                   THEN Position(order, b) - 1
                   ELSE index[b]]
  /\ pc' = "drop"
  /\ UNCHANGED <<succ, visited, preds, calling, stack, order, i, edits>>

(* Reversed in place and numbered from 0; unreached blocks keep -1. *)
Number ==
  /\ pc = "search" /\ calling = NULL /\ stack = <<>>
  /\ rpo' = [k \in 1 .. Len(order) |-> order[Len(order) + 1 - k]]
  /\ index' = [b \in Blocks |->
                 IF \E k \in 1 .. Len(order) : order[k] = b
                   THEN Len(order) - Position(order, b)
                   ELSE index[b]]
  /\ pc' = "drop"
  /\ UNCHANGED <<succ, visited, preds, calling, stack, order, i, edits>>

(* Slip: the blocks themselves are dropped instead of what they hold. *)
UnlinkUnreached ==
  /\ pc = "drop"
  /\ succ' = [b \in {x \in Blocks : index[x] >= 0} |-> succ[b]]
  /\ i' = 1
  /\ pc' = "edges"
  /\ UNCHANGED <<visited, preds, index, rpo, calling, stack, order, edits>>

(* Slip: unreached blocks keep their code, and with it their edges. *)
KeepUnreached ==
  /\ pc = "drop"
  /\ i' = 1
  /\ pc' = "edges"
  /\ UNCHANGED <<succ, visited, preds, index, rpo, calling, stack, order, edits>>

(* Blocks the search never reached lose their instructions. *)
DropUnreached ==
  /\ pc = "drop"
  /\ succ' = [b \in Blocks |-> IF index[b] >= 0 THEN succ[b] ELSE <<>>]
  /\ i' = 1
  /\ pc' = "edges"
  /\ UNCHANGED <<visited, preds, index, rpo, calling, stack, order, edits>>

IsSuccOf(b, x) == \E k \in 1 .. Len(succ[x]) : succ[x][k] = b

(* The block becomes a predecessor of each of its successors. *)
AddPreds ==
  /\ pc = "edges" /\ i <= Len(rpo)
  /\ preds' = [b \in Blocks |-> IF IsSuccOf(b, rpo[i]) THEN Append(preds[b], rpo[i])
                                                       ELSE preds[b]]
  /\ i' = i + 1
  /\ UNCHANGED <<succ, visited, index, rpo, pc, calling, stack, order, edits>>

EndAnalysis ==
  /\ pc = "edges" /\ i > Len(rpo)
  /\ pc' = "done"
  /\ UNCHANGED <<succ, visited, preds, index, rpo, calling, stack, order, i, edits>>

(***************************************************************************)
(* A pass redirects the edges of a block, or lays out a new one (a block   *)
(* that holds nothing and that nothing reaches stands for one not laid out *)
(* yet), and asks for the analysis again.                                  *)
(***************************************************************************)
Edit ==
  /\ pc = "done" /\ edits < MaxEdits
  /\ \E b \in Blocks, t \in Terminators : succ' = [succ EXCEPT ![b] = t]
  /\ edits' = edits + 1
  /\ pc' = "reset"
  /\ UNCHANGED <<visited, preds, index, rpo, calling, stack, order, i>>

Next ==
  \/ Reset \/ ReturnVisited \/ Enter \/ CallNext \/ Record
  \/ Number \/ DropUnreached \/ AddPreds \/ EndAnalysis
  \/ Edit

(* One thread runs the analysis to its end; whether a pass edits is open. *)
Analysis == Next /\ pc # "done"

Spec == Init /\ [][Next]_vars /\ WF_vars(Analysis)

-----------------------------------------------------------------------------
SuccEdges == {e \in Blocks \X Blocks : IsSuccOf(e[2], e[1])}

OnStack == {stack[k].block : k \in 1 .. Len(stack)}
Recorded == {order[k] : k \in 1 .. Len(order)}

TypeOK ==
  /\ succ \in [Blocks -> Terminators]
  /\ visited \in SUBSET Blocks
  /\ preds \in [Blocks -> Seq(Blocks)]
  /\ index \in [Blocks -> Int]
  /\ rpo \in Seq(Blocks)
  /\ pc \in {"reset", "search", "drop", "edges", "done"}
  /\ calling \in Blocks \cup {NULL}
  /\ stack \in Seq(Frames)
  /\ order \in Seq(Blocks)
  /\ i \in Nat \ {0}
  /\ edits \in 0 .. MaxEdits

(* The function as the later passes see it. *)
Result ==
  [ count |-> Len(rpo),
    rpo   |-> [k \in 0 .. Len(rpo) - 1 |-> rpo[k + 1]],
    index |-> index,
    preds |-> preds ]

(***************************************************************************)
(* The contract dom.c, ssa.c and the optimiser start from, after the first *)
(* analysis and after every later one: numbers and arrays describe the     *)
(* function as it is now and nothing is left of how it was.                *)
(***************************************************************************)
HandsOverAnalysed == pc = "done" => Analysed(Result)

(***************************************************************************)
(* Nothing is lost on the way: the numbered blocks are those control can   *)
(* reach, and the reverse edges are the edges between them, once each.     *)
(***************************************************************************)
FindsTheGraph ==
  pc = "done" =>
    /\ RpoBlocks(Result) = Reachable(SuccEdges)
    /\ Edges(Result) = SuccEdges
    /\ \A b \in Blocks : \A j, k \in 1 .. Len(preds[b]) :
         preds[b][j] = preds[b][k] => j = k

(* Control can get from block y to block x. *)
Reaches(y, x) ==
  \A S \in SUBSET Blocks :
    y \in S /\ ClosedAvoiding(SuccEdges, NULL, S) => x \in S

(***************************************************************************)
(* An edge against the numbering closes a cycle: the block it goes to is   *)
(* one whose call was still active, which reaches the block it comes from. *)
(* This is what makes loop headers come before their bodies and lets one   *)
(* sweep of dom.c suffice outside loops.                                   *)
(***************************************************************************)
BackEdgesCloseCycles ==
  pc = "done" =>
    \A e \in Edges(Result) :
      index[e[1]] >= index[e[2]] => Reaches(e[2], e[1])

(***************************************************************************)
(* order is allocated with block_count entries and written without a       *)
(* check: no block is recorded twice, whatever the edges.                  *)
(***************************************************************************)
OrderFits == Len(order) <= Cardinality(Blocks)

(* The recursion ends although the graph has cycles. *)
AnalysisEnds == pc = "reset" ~> pc = "done"
=============================================================================
