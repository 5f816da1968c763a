------------------------------ MODULE SsaBuild ------------------------------
(***************************************************************************)
(* src/src/ir/ssa.c: promotion of frame slots to values, one function of   *)
(* the program after another as main() does it.                            *)
(*                                                                         *)
(* The renaming walk is recursive over the dominator tree and keeps one    *)
(* stack of definitions per slot; here the recursion is the sequence path. *)
(* What is easy to get wrong is all in the order: a store is only visible  *)
(* below its block, a sibling subtree must find the stacks as its parent   *)
(* left them, and a load that is gone may be what a later store stored.    *)
(* Values are numbered in layout order where the code numbers them in the  *)
(* order of its worklist.                                                  *)
(***************************************************************************)
EXTENDS Ir

CONSTANT Programs   \* the lowered programs the compiler may be given

ASSUME ProgramsLowered == \A P \in Programs : AsLowered(P)

VARIABLES
  prog,    \* the program: a sequence of functions
  cur,     \* the function being worked on
  an,      \* its analyses
  pc,      \* the stage of the compilation
  slots,   \* ssa_ctx.promotions: the promoted slots, in entry order
  phiOf,   \* promotion.phis: for each slot and block the phi placed there
  stack,   \* promotion.stack
  zero,    \* promotion.undefined
  repl,    \* ssa_ctx.replacement: removed load -> value it read
  path     \* the activations of rename_block

ssaVars == <<slots, phiOf, stack, zero, repl, path>>

fn == prog[cur]
Replace(f) == prog' = [prog EXCEPT ![cur] = f]

SsaInit ==
  /\ prog \in Programs
  /\ cur = 1
  /\ an = Analyses(prog[1])
  /\ pc = "analyse"
  /\ slots = <<>> /\ phiOf = <<>> /\ stack = <<>> /\ zero = <<>>
  /\ repl = <<>> /\ path = <<>>

(* main(): ir_analyze_cfg, ir_compute_dominators, ir_compute_frontiers.    *)
Analyse ==
  /\ pc = "analyse"
  /\ Replace(DropUnreachable(fn))
  /\ an' = Analyses(DropUnreachable(fn))
  /\ pc' = "promote"
  /\ UNCHANGED <<cur, ssaVars>>

(* is_promotable: the address only ever feeds loads and stores through it. *)
IsPromotable(f, i) ==
  /\ i.op = "alloca" /\ i.ty \in {"ptr", "ptrptr"}
  /\ \A s \in Sites(f) : LET use == InstrAt(f, s) IN
       \A a \in DOMAIN use.args :
         use.args[a] = i.dst => use.op \in {"load", "store"} /\ a = 1

Promote ==
  /\ pc = "promote"
  /\ LET entry == fn.code[EntryBlock]
         taken == KeptAt(entry, {k \in DOMAIN entry : IsPromotable(fn, entry[k])})
     IN /\ slots' = [j \in DOMAIN taken |-> taken[j].dst]
        /\ stack' = [j \in DOMAIN taken |-> <<>>]
        /\ zero'  = [j \in DOMAIN taken |-> NoValue]
        /\ pc' = IF taken = <<>> THEN "built" ELSE "place"
  /\ phiOf' = <<>>
  /\ repl' = [v \in 1 .. fn.values |-> NoValue]
  /\ path' = <<>>
  /\ UNCHANGED <<prog, cur, an>>

-----------------------------------------------------------------------------
(* place_phis *)

StoringBlocks(f, v) ==
  {b \in BlocksOf(f) : \E k \in DOMAIN f.code[b] :
                         f.code[b][k].op = "store" /\ f.code[b][k].args[1] = v}

(* A phi is itself a definition, so the block it lands in counts as well. *)
PhiBlocks(f, v) ==
  LET P[n \in 0 .. Len(f.code)] ==
        IF n = 0 THEN {}
        ELSE UNION {FrontierOf(an, b) : b \in StoringBlocks(f, v) \cup P[n - 1]}
  IN P[Len(f.code)]

(* promotion.ty: what the slot holds. *)
SlotType(f, j) == IF Def(f, slots[j]).ty = "ptrptr" THEN "ptr" ELSE "int"

PlacePhis ==
  /\ pc = "place" /\ Len(phiOf) < Len(slots)
  /\ LET merges == PhiBlocks(fn, slots[Len(phiOf) + 1])
         ty == SlotType(fn, Len(phiOf) + 1)
         phi(b) == fn.values + Cardinality({c \in merges : c <= b})
     IN /\ Replace([fn EXCEPT !.values = @ + Cardinality(merges),
                              !.code = [b \in DOMAIN @ |->
                                 IF b \in merges THEN <<TypedPhi(phi(b), ty)>> \o @[b]
                                 ELSE @[b]]])
        /\ phiOf' = Append(phiOf, [b \in BlocksOf(fn) |->
                                     IF b \in merges THEN phi(b) ELSE NoValue])
  /\ UNCHANGED <<cur, an, pc, slots, stack, zero, repl, path>>

-----------------------------------------------------------------------------
(* rename_block *)

(* Entering a block, its phis define their slots from here down. *)
Enter(b, callers) ==
  LET pushed == [j \in DOMAIN slots |-> IF phiOf[j][b] # NoValue THEN 1 ELSE 0]
  IN /\ path' = Append(callers, [b |-> b, filled |-> FALSE, todo |-> <<>>, pushed |-> pushed])
     /\ stack' = [j \in DOMAIN slots |->
                    IF pushed[j] = 1 THEN Append(stack[j], phiOf[j][b]) ELSE stack[j]]

StartRename ==
  /\ pc = "place" /\ Len(phiOf) = Len(slots)
  /\ pc' = "rename"
  /\ Enter(EntryBlock, <<>>)
  /\ UNCHANGED <<prog, cur, an, slots, phiOf, zero, repl>>

Depth == Len(path)
Here  == path[Depth].b

SlotIndex(v) == SelectInSeq(slots, LAMBDA w : w = v)

IsPromotedAccess(i) == i.op \in {"load", "store"} /\ SlotIndex(i.args[1]) # 0

(* The next load or store of a promoted slot in this block, or 0. *)
NextAccess == SelectInSeq(fn.code[Here], IsPromotedAccess)

(* current_def: what reaches here, or a zero made for the slot when nothing *)
(* has been stored on the way down.                                        *)
Missing(J) == {j \in J : stack[j] = <<>> /\ zero[j] = NoValue}

WithZeros(f, J) ==
  LET zeros == Ascending(Missing(J), Len(slots))
  IN [f EXCEPT !.values = @ + Len(zeros),
               !.code[EntryBlock] =
                 [n \in DOMAIN zeros |-> Const(f.values + n, 0, SlotType(f, zeros[n]))] \o @]

ZerosAfter(f, J) ==
  LET zeros == Ascending(Missing(J), Len(slots))
  IN [j \in DOMAIN zero |-> IF j \in Missing(J)
                              THEN f.values + SelectInSeq(zeros, LAMBDA m : m = j)
                              ELSE zero[j]]

CurrentDef(f, j) == IF stack[j] # <<>> THEN Last(stack[j]) ELSE ZerosAfter(f, {j})[j]

RenameLoad ==
  /\ pc = "rename" /\ Depth > 0 /\ NextAccess # 0
  /\ LET i == fn.code[Here][NextAccess]
         j == SlotIndex(i.args[1])
     IN /\ i.op = "load"
        /\ repl' = [repl EXCEPT ![i.dst] = CurrentDef(fn, j)]
        /\ zero' = ZerosAfter(fn, {j})
        /\ Replace(WithZeros(RemoveSite(fn, <<Here, NextAccess>>), {j}))
  /\ UNCHANGED <<cur, an, pc, slots, phiOf, stack, path>>

RenameStore ==
  /\ pc = "rename" /\ Depth > 0 /\ NextAccess # 0
  /\ LET i == fn.code[Here][NextAccess]
         j == SlotIndex(i.args[1])
     IN /\ i.op = "store"
        /\ stack' = [stack EXCEPT ![j] = Append(@, i.args[2])]
        /\ path' = [path EXCEPT ![Depth].pushed[j] = @ + 1]
        /\ Replace(RemoveSite(fn, <<Here, NextAccess>>))
  /\ UNCHANGED <<cur, an, pc, slots, phiOf, zero, repl>>

(* Each successor's phis learn what arrives along the edge from here. *)
FillSuccessors ==
  /\ pc = "rename" /\ Depth > 0 /\ NextAccess = 0
  /\ ~ path[Depth].filled
  /\ LET succ == Successors(fn, Here)
         J    == {j \in DOMAIN slots : \E t \in succ : phiOf[j][t] # NoValue}
         zeros == ZerosAfter(fn, J)
         arriving(j) == IF stack[j] # <<>> THEN Last(stack[j]) ELSE zeros[j]
         Filled(i) ==
           LET j == CHOOSE k \in J : \E t \in succ : phiOf[k][t] = i.dst
           IN IF i.op = "phi" /\ \E k \in J, t \in succ : phiOf[k][t] = i.dst
                THEN [i EXCEPT !.args = Append(@, arriving(j)), !.from = Append(@, Here)]
                ELSE i
     IN /\ Replace(WithZeros(EditInstrs(fn, Filled), J))
        /\ zero' = zeros
  /\ path' = [path EXCEPT ![Depth].filled = TRUE, ![Depth].todo = Children(an, Here)]
  /\ UNCHANGED <<cur, an, pc, slots, phiOf, stack, repl>>

Descend ==
  /\ pc = "rename" /\ Depth > 0
  /\ path[Depth].todo # <<>>
  /\ Enter(Head(path[Depth].todo), [path EXCEPT ![Depth].todo = Tail(@)])
  /\ UNCHANGED <<prog, cur, an, pc, slots, phiOf, zero, repl>>

(* Leaving a block ends the scope of everything defined in it. *)
Leave ==
  /\ pc = "rename" /\ Depth > 0
  /\ path[Depth].filled /\ path[Depth].todo = <<>>
  /\ stack' = [j \in DOMAIN slots |->
                 SubSeq(stack[j], 1, Len(stack[j]) - path[Depth].pushed[j])]
  /\ path' = Front(path)
  /\ UNCHANGED <<prog, cur, an, pc, slots, phiOf, zero, repl>>

-----------------------------------------------------------------------------
(* resolve: a replacement may itself have been replaced. *)
Replaced == {v \in DOMAIN repl : repl[v] # NoValue}

Resolve(v) ==
  LET R[n \in 0 .. Cardinality(Replaced)] ==
        IF n = 0 THEN v
        ELSE LET w == R[n - 1] IN IF w \in Replaced THEN repl[w] ELSE w
  IN R[Cardinality(Replaced)]

ApplyReplacements ==
  /\ pc = "rename" /\ Depth = 0
  /\ LET Resolved(i) == [i EXCEPT !.args = [a \in DOMAIN @ |-> Resolve(@[a])]]
         resolved == EditInstrs(fn, Resolved)
     IN Replace([resolved EXCEPT !.code[EntryBlock] =
                   KeptAt(@, {k \in DOMAIN @ : @[k].dst \notin Range(slots)})])
  /\ pc' = "built"
  /\ UNCHANGED <<cur, an, ssaVars>>

SsaNext ==
  \/ Analyse \/ Promote
  \/ PlacePhis \/ StartRename
  \/ RenameLoad \/ RenameStore \/ FillSuccessors \/ Descend \/ Leave
  \/ ApplyReplacements
=============================================================================
