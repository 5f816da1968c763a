------------------------------ MODULE CfgInv ------------------------------
(***************************************************************************)
(* The inductive invariant behind HandsOverAnalysed, FindsTheGraph and     *)
(* BackEdgesCloseCycles.  What the numbering promises is a fact about the  *)
(* finished order; what each call and return of postorder() preserves is   *)
(* about the calls still active:                                           *)
(*   - the active calls form a path from the entry,                        *)
(*   - a recorded block hangs below an active call or a later record,      *)
(*   - and everything a recorded block leads to was recorded before it or  *)
(*     was still active then, and so leads back to it.                     *)
(***************************************************************************)
EXTENDS Cfg

Searching == pc = "search"
Numbered  == pc \in {"drop", "edges", "done"}

Numbers == 1 .. Len(rpo)
InRpo(b) == \E k \in Numbers : rpo[k] = b

(* A block is marked once, when its call begins, and recorded once. *)
MarkInv ==
  Searching =>
    /\ visited = OnStack \cup Recorded
    /\ \A j, k \in 1 .. Len(stack) : stack[j].block = stack[k].block => j = k
    /\ \A j, k \in 1 .. Len(order) : order[j] = order[k] => j = k
    /\ \A j \in 1 .. Len(stack), k \in 1 .. Len(order) : stack[j].block # order[k]

(* The active calls are a path from the entry. *)
PathInv ==
  Searching =>
    /\ stack # <<>> => stack[1].block = Entry
    /\ \A j, k \in 1 .. Len(stack) : j <= k => Reaches(stack[j].block, stack[k].block)
    /\ \A k \in 2 .. Len(stack) : IsSuccOf(stack[k].block, stack[k-1].block)

(* A successor an active call has tried is marked, or its call is just made. *)
TriedInv ==
  Searching =>
    \A k \in 1 .. Len(stack) :
      /\ stack[k].tried <= Len(succ[stack[k].block])
      /\ \A t \in 1 .. stack[k].tried :
           LET y == succ[stack[k].block][t] IN y \in visited \/ y = calling

CallInv ==
  Searching =>
    /\ calling # NULL /\ stack = <<>> => calling = Entry /\ order = <<>>
    /\ calling # NULL /\ stack # <<>> => IsSuccOf(calling, Top.block)
    /\ calling = NULL /\ stack = <<>> => Entry \in Recorded

(* What is known of the k-th recorded block. *)
OrderInv ==
  Searching =>
    \A k \in 1 .. Len(order) :
      /\ order[k] = Entry => k = Len(order) /\ stack = <<>>
      /\ order[k] # Entry =>
           \/ \E j \in 1 .. Len(stack) : IsSuccOf(order[k], stack[j].block)
           \/ \E j \in k + 1 .. Len(order) : IsSuccOf(order[k], order[j])
      /\ \A y \in Blocks : IsSuccOf(y, order[k]) =>
           \/ \E j \in 1 .. k - 1 : order[j] = y
           \/ y \in visited /\ Reaches(y, order[k])

(* Only blocks control can reach are marked. *)
SoundInv == Searching => visited \subseteq Reachable(SuccEdges)

(* The same facts once the order is reversed and numbered. *)
NumberInv ==
  Numbered =>
    /\ Len(rpo) >= 1 /\ rpo[1] = Entry
    /\ \A k \in Numbers : index[rpo[k]] = k - 1
    /\ \A b \in Blocks : ~ InRpo(b) => index[b] = -1
    /\ \A k \in 2 .. Len(rpo) : \E j \in 1 .. k - 1 : IsSuccOf(rpo[k], rpo[j])
    /\ \A k \in Numbers : \A y \in Blocks : IsSuccOf(y, rpo[k]) =>
         \E j \in Numbers : rpo[j] = y /\ (j > k \/ Reaches(y, rpo[k]))
    /\ \A k \in Numbers : rpo[k] \in Reachable(SuccEdges)

DropInv ==
  pc \in {"edges", "done"} => \A b \in Blocks : ~ InRpo(b) => succ[b] = <<>>

(* The blocks before position i have been entered into the arrays. *)
PredsInv ==
  /\ pc \in {"search", "drop"} => preds = [b \in Blocks |-> <<>>]
  /\ pc \in {"edges", "done"} =>
       /\ i \in 1 .. Len(rpo) + 1
       /\ \A b \in Blocks :
            /\ \A k \in 1 .. Len(preds[b]) :
                 \E j \in 1 .. i - 1 : preds[b][k] = rpo[j] /\ IsSuccOf(b, rpo[j])
            /\ \A j \in 1 .. i - 1 : IsSuccOf(b, rpo[j]) =>
                 \E k \in 1 .. Len(preds[b]) : preds[b][k] = rpo[j]
            /\ \A j, k \in 1 .. Len(preds[b]) : preds[b][j] = preds[b][k] => j = k
  /\ pc = "done" => i = Len(rpo) + 1

(* Between analyses no call is active. *)
IdleInv ==
  /\ ~ Searching => stack = <<>> /\ calling = NULL
  /\ Searching => index = [b \in Blocks |-> -1]

CfgInvariant ==
  /\ TypeOK
  /\ MarkInv /\ PathInv /\ TriedInv /\ CallInv /\ OrderInv /\ SoundInv
  /\ NumberInv /\ DropInv /\ PredsInv /\ IdleInv
=============================================================================
