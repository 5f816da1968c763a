--------------------------------- MODULE Ir ---------------------------------
(***************************************************************************)
(* The intermediate representation (src/include/ir/ir.h, src/src/ir/ir.c)  *)
(* as a value: what a pass can read of a function and how it edits it.     *)
(*                                                                         *)
(* A function is [code, values]: code[b] is the instruction list of block  *)
(* b, in layout order and with block 1 the entry; values counts the values *)
(* ever created, which are numbered from 1.  A value is defined by the     *)
(* instruction whose dst it is, so a value whose instruction was removed   *)
(* has no definition left.  Pointers to instructions become sites          *)
(* <<block, position>>.                                                    *)
(***************************************************************************)
EXTENDS Lists, FiniteSets

NoValue == 0
EntryBlock == 1

(* struct ir_instr: ty is the type of dst, from is phi_blocks, to lists    *)
(* target, or then_block and else_block.  imm also stands for the symbol   *)
(* of a global (the number of the function it names).  Types tell apart    *)
(* what the passes do: a number's name, a pointer to a number ("ptr"), and *)
(* a pointer to a pointer ("ptrptr"), which is the slot of a pointer.      *)
Instr(op, dst, args) ==
  [op |-> op, dst |-> dst, args |-> args, imm |-> 0, ty |-> "int",
   to |-> <<>>, from |-> <<>>]

TypedPhi(v, ty) == [Instr("phi", v, <<>>) EXCEPT !.ty = ty]
Const(v, n, ty) == [Instr("const", v, <<>>) EXCEPT !.imm = n, !.ty = ty]
Jump(b)         == [Instr("jmp", NoValue, <<>>) EXCEPT !.to = <<b>>]

BlocksOf(f) == DOMAIN f.code

Sites(f) == UNION {{b} \X DOMAIN f.code[b] : b \in BlocksOf(f)}

InstrAt(f, s) == f.code[s[1]][s[2]]

(* Layout order: the order every walk over the function takes. *)
IsBefore(s, t) == s[1] < t[1] \/ (s[1] = t[1] /\ s[2] < t[2])

FirstOf(S) == CHOOSE s \in S : \A t \in S : s = t \/ IsBefore(s, t)

IsDefined(f, v) == \E s \in Sites(f) : InstrAt(f, s).dst = v
DefSite(f, v)   == CHOOSE s \in Sites(f) : InstrAt(f, s).dst = v
Def(f, v)       == InstrAt(f, DefSite(f, v))

IsConst(f, v) == IsDefined(f, v) /\ Def(f, v).op = "const"

IsTerminator(op) == op \in {"jmp", "br", "ret"}

(* The instructions of a list that are among some kinds, and the others. *)
Only(c, ops)    == KeptAt(c, {k \in DOMAIN c : c[k].op \in ops})
Without(c, ops) == KeptAt(c, {k \in DOMAIN c : c[k].op \notin ops})

-----------------------------------------------------------------------------
(* Editing *)

Emit(f, b, i)      == [f EXCEPT !.code[b] = Append(@, i)]
EmitBefore(f, s, i) == [f EXCEPT !.code[s[1]] = InsertAt(@, s[2], i)]
RemoveSite(f, s)   == [f EXCEPT !.code[s[1]] = RemoveAt(@, s[2])]

(* A new value, and a new block laid out last. *)
FreshValue(f) == f.values + 1
NewBlock(f)   == [f EXCEPT !.code = Append(@, <<>>)]
LastBlock(f)  == Len(f.code)

EditInstrs(f, Edit(_)) ==
  [f EXCEPT !.code = [b \in DOMAIN @ |-> [k \in DOMAIN @[b] |-> Edit(@[b][k])]]]

ReplaceUses(f, v, w) ==
  LET Redirect(i) ==
        [i EXCEPT !.args = [a \in DOMAIN @ |-> IF @[a] = v THEN w ELSE @[a]]]
  IN EditInstrs(f, Redirect)

(* The values something still reads: those ir_count_uses finds a use of. *)
UsedValues(f) == UNION {Range(InstrAt(f, s).args) : s \in Sites(f)}

HasSideEffects(i) == i.op \in {"store", "memcpy", "call", "param"} \/ IsTerminator(i.op)

IsPure(i) ==
  ~ HasSideEffects(i) /\ i.dst # NoValue /\ i.op \notin {"load", "alloca", "phi"}

-----------------------------------------------------------------------------
(* The analyses, as the snapshots ir_analyze_cfg and                       *)
(* ir_compute_dominators leave in the blocks.  Edits do not touch a        *)
(* snapshot; a pass that needs a current one asks for it again.  Their     *)
(* algorithms are the subject of module Dominators.                        *)

(* Read out of the terminator; a branch with equal arms is one edge. *)
Successors(f, b) == IF f.code[b] = <<>> THEN {} ELSE Range(Last(f.code[b]).to)

(* The edges, which are all the analyses look at. *)
EdgesOf(f) == [b \in BlocksOf(f) |-> Successors(f, b)]

ReachedAvoiding(edges, a) ==
  LET R[n \in 0 .. Cardinality(DOMAIN edges)] ==
        IF n = 0 THEN {EntryBlock} \ {a}
        ELSE LET S == R[n - 1] IN S \cup ((UNION {edges[b] : b \in S}) \ {a})
  IN R[Cardinality(DOMAIN edges)]

(* rpo_index >= 0 *)
ReachedBlocks(f) == ReachedAvoiding(EdgesOf(f), 0)

(* The predecessor lists. *)
Predecessors(edges, reach) ==
  [b \in DOMAIN edges |-> {q \in reach : b \in edges[q]}]

(* The blocks each block has on its idom path. *)
DominatorSets(edges, reach) ==
  LET avoid == [a \in reach |-> ReachedAvoiding(edges, a)]
  IN [b \in DOMAIN edges |-> IF b \in reach THEN {a \in reach : b \notin avoid[a]} ELSE {}]

AnalysesOn(edges, reach) ==
  [reach |-> reach, preds |-> Predecessors(edges, reach), doms |-> DominatorSets(edges, reach)]

Analyses(f) == AnalysesOn(EdgesOf(f), ReachedBlocks(f))

(* ir_analyze_cfg: unreachable blocks lose their instructions. *)
DropUnreachable(f) ==
  LET reached == ReachedBlocks(f)
  IN [f EXCEPT !.code = [b \in DOMAIN @ |-> IF b \in reached THEN @[b] ELSE <<>>]]

WithCfg(an, f) ==
  [an EXCEPT !.reach = ReachedBlocks(f), !.preds = Predecessors(EdgesOf(f), ReachedBlocks(f))]

Dominates(an, a, b) == a \in an.doms[b]

HasIdom(an, b) == an.doms[b] \ {b} # {}
Idom(an, b) == CHOOSE a \in an.doms[b] \ {b} : an.doms[a] = an.doms[b] \ {b}

FrontierOf(an, a) ==
  {b \in an.reach : /\ a \notin an.doms[b] \ {b}
                    /\ \E q \in an.preds[b] : a \in an.doms[q]}

(* The dominator-tree children of a block, in layout order. *)
Children(an, b) ==
  Ascending({c \in an.reach : HasIdom(an, c) /\ Idom(an, c) = b}, Len(an.doms))

(* ir_fix_phis: the phis at the top of each reachable block keep only the  *)
(* arguments whose edge still exists.                                      *)
FixPhis(f, an) ==
  LET IsTopPhi(b, k) == \A j \in 1 .. k : f.code[b][j].op = "phi"
      Kept(b, i) == Ascending({a \in DOMAIN i.args : i.from[a] \in an.preds[b]}, Len(i.args))
      Fixed(b, i) == LET kept == Kept(b, i) IN
                     [i EXCEPT !.args = [a \in DOMAIN kept |-> @[kept[a]]],
                               !.from = [a \in DOMAIN kept |-> @[kept[a]]]]
  IN [f EXCEPT !.code =
        [b \in DOMAIN @ |-> [k \in DOMAIN @[b] |->
           IF b \in an.reach /\ IsTopPhi(b, k) THEN Fixed(b, @[b][k]) ELSE @[b][k]]]]

-----------------------------------------------------------------------------
(* The shape every walk over the lists relies on, of reachable code or     *)
(* not: what ends a block is its last instruction and defines nothing,     *)
(* nothing else names a block to go to, a jump names one, a branch two,    *)
(* and they are blocks of the function.                                    *)

InstrFields == {"op", "dst", "args", "imm", "ty", "to", "from"}

IsInstr(i) ==
  /\ DOMAIN i = InstrFields
  /\ IF IsTerminator(i.op) THEN i.dst = NoValue ELSE i.to = <<>>
  /\ i.op = "jmp" => DOMAIN i.to = 1 .. 1
  /\ i.op = "br" => DOMAIN i.to = 1 .. 2

IsBlock(c) ==
  /\ IsSeq(c)
  /\ \A k \in DOMAIN c : IsInstr(c[k]) /\ (IsTerminator(c[k].op) => k = Len(c))

IsFunction(f) ==
  /\ DOMAIN f = {"code", "values"}
  /\ IsSeq(f.code) /\ f.code # <<>>
  /\ \A b \in BlocksOf(f) : IsBlock(f.code[b]) /\ Successors(f, b) \subseteq BlocksOf(f)

-----------------------------------------------------------------------------
(* ir_verify: the invariants every pass may assume. *)

RequiredArgs(i) ==
  CASE i.op \in {"const", "global", "alloca", "param", "jmp"} -> Len(i.args) = 0
    [] i.op \in {"load", "copy", "neg", "complement", "lognot", "cast", "br"} -> Len(i.args) = 1
    [] i.op = "call" -> Len(i.args) >= 1
    [] i.op \in {"ret", "phi"} -> TRUE
    [] OTHER -> Len(i.args) = 2

(* What an instruction reads and defines are values of its function, as    *)
(* many as its kind takes; a phi has a block for each.  Only a store, a    *)
(* copy of memory, a call and what ends a block may define nothing.        *)
IsNumbered(i, values) ==
  /\ i.dst \in NoValue .. values
  /\ i.dst = NoValue => IsTerminator(i.op) \/ i.op \in {"store", "memcpy", "call"}
  /\ IsSeq(i.args) /\ Range(i.args) \subseteq 1 .. values
  /\ RequiredArgs(i)
  /\ i.op = "phi" => IsSeq(i.from) /\ Len(i.from) = Len(i.args)

(* Every value has one definition, whatever has been moved or copied. *)
SingleAssignment(f) ==
  \A s, t \in Sites(f) :
    InstrAt(f, s).dst # NoValue /\ InstrAt(f, s).dst = InstrAt(f, t).dst => s = t

Numbered(f) ==
  /\ f.values \in Nat
  /\ \A s \in Sites(f) : IsNumbered(InstrAt(f, s), f.values)
  /\ SingleAssignment(f)

(* A frame slot is an address, so the alloca of it defines a value. *)
SlotsNamed(f) ==
  \A k \in DOMAIN f.code[EntryBlock] :
    f.code[EntryBlock][k].op = "alloca" => f.code[EntryBlock][k].dst # NoValue

(* A program is functions as lower_function leaves them; where control     *)
(* reaches, their values are as ir_verify, which main() runs on them under *)
(* --dump-ir, asks of each instruction.                                    *)
AsLowered(P) ==
  /\ IsSeq(P) /\ P # <<>>
  /\ \A k \in DOMAIN P : /\ IsFunction(P[k]) /\ SlotsNamed(P[k])
                         /\ Numbered(DropUnreachable(P[k]))

(* The definition of v has run whenever site s is reached. *)
DefReaches(f, an, v, s) ==
  /\ v # NoValue /\ IsDefined(f, v)
  /\ LET d == DefSite(f, v) IN
       IF d[1] = s[1] THEN d[2] <= s[2] ELSE Dominates(an, d[1], s[1])

PhiOk(f, an, b, i) ==
  /\ Len(i.args) = Cardinality(an.preds[b])
  /\ \A a \in DOMAIN i.args :
       /\ i.from[a] \in an.preds[b]
       /\ DefReaches(f, an, i.args[a], <<i.from[a], Len(f.code[i.from[a]])>>)

BlockOk(f, an, b) ==
  /\ f.code[b] # <<>> /\ IsTerminator(Last(f.code[b]).op)
  /\ \A k \in DOMAIN f.code[b] :
       LET i == f.code[b][k] IN
         /\ IsTerminator(i.op) => k = Len(f.code[b])
         /\ RequiredArgs(i)
         /\ i.op = "jmp" => DOMAIN i.to = 1 .. 1
         /\ i.op = "br" => DOMAIN i.to = 1 .. 2
         /\ i.op = "phi" => /\ \A j \in 1 .. k - 1 : f.code[b][j].op = "phi"
                            /\ PhiOk(f, an, b, i)
         /\ i.op # "phi" =>
              /\ \A a \in DOMAIN i.args : DefReaches(f, an, i.args[a], <<b, k>>)
              /\ i.dst # NoValue => DefSite(f, i.dst) = <<b, k>>

Verifies(f, an) ==
  an.preds[EntryBlock] = {} /\ \A b \in an.reach : BlockOk(f, an, b)
=============================================================================
