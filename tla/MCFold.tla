------------------------------- MODULE MCFold -------------------------------
(***************************************************************************)
(* opt_fold on its own, walking functions of one block: every operator on  *)
(* every kind of operand, with another operation on what it computes.      *)
(***************************************************************************)
EXTENDS Fold, IrSemantics

CONSTANTS
  Cases,    \* the functions opt_fold is given
  Inputs    \* lists of arguments for them

VARIABLES
  before,   \* the function opt_fold was given
  f,        \* the function now
  at        \* where the walk is

vars == <<before, f, at>>

Init == before \in Cases /\ f = before /\ at = 1

Foldable == {k \in DOMAIN f.code[EntryBlock] : k >= at /\ FoldAt(f, <<EntryBlock, k>>) # {}}

(* The walk of opt_fold goes on to the next instruction it can rewrite. *)
Next ==
  /\ Foldable # {}
  /\ LET k == Min(Foldable) IN
       \E g \in FoldAt(f, <<EntryBlock, k>>) :
         /\ f' = g
         /\ at' = k + 1 + Len(g.code[EntryBlock]) - Len(f.code[EntryBlock])
  /\ UNCHANGED before

Spec == Init /\ [][Next]_vars /\ WF_vars(Next)

(* A constant is a number of its type: what later folds compute with it.   *)
IsNumberOf(n, ty) ==
  IF Width[ty] < HostWidth THEN n = ValueIn(n, ty) ELSE n = Host(n)

TypeOK ==
  /\ at \in 1 .. Len(f.code[EntryBlock])
  /\ \A k \in DOMAIN f.code[EntryBlock] :
       LET i == f.code[EntryBlock][k] IN i.op = "const" => IsNumberOf(i.imm, i.ty)

(***************************************************************************)
(* "Folding has to agree with not folding" (fold.c:24), after every single *)
(* rewrite, for every argument: a sum that overflowed a narrow type, a     *)
(* comparison of unsigned numbers, a shift for a division that rounds the  *)
(* other way.                                                              *)
(***************************************************************************)
FoldingAgrees == \A args \in Inputs : Preserves(<<before>>, <<f>>, 1, args)

(***************************************************************************)
(* A division by zero is left alone "and the program still traps at run    *)
(* time exactly where it would have" (fold.c:88-92).                       *)
(***************************************************************************)
DivisionStillTraps ==
  \A args \in Inputs :
    (Outcome(<<before>>, 1, args, Doublings).status = "trap")
      <=> (Outcome(<<f>>, 1, args, Doublings + 1).status = "trap")

-----------------------------------------------------------------------------
(***************************************************************************)
(* int and uint are narrower than the compiler's long long, long and ulong *)
(* as wide.  A case is                                                     *)
(*      result = left op right; return next(result);                       *)
(* where an operand is a parameter or a constant, both operands may be the *)
(* same value, and next compares the result with a constant, casts it to   *)
(* another type or does nothing.  Constants are the numbers around which   *)
(* the rules of fold.c change: the smallest, the largest, zero, one, minus *)
(* one, a power of two.                                                    *)
(***************************************************************************)

MCWidth == [ty \in {"int", "uint", "long", "ulong"} |-> IF ty \in {"int", "uint"} THEN 3 ELSE 5]
MCTypes == DOMAIN MCWidth
MCUnsigned == {"uint", "ulong"}

Lowest(ty)  == IF ty \in MCUnsigned THEN 0 ELSE -2^(MCWidth[ty] - 1)
Highest(ty) == IF ty \in MCUnsigned THEN 2^MCWidth[ty] - 1 ELSE 2^(MCWidth[ty] - 1) - 1

Operands == {"param", "lowest", "highest", "-1", "0", "1", "2"}

(* Operand number n; imm holds the bits of an unsigned number too large.   *)
Operand(kind, v, n, ty) ==
  LET number == CASE kind = "lowest"  -> Lowest(ty)
                  [] kind = "highest" -> Highest(ty)
                  [] kind = "-1" -> -1
                  [] kind = "0"  -> 0
                  [] kind = "1"  -> 1
                  [] kind = "2"  -> 2
  IN IF kind = "param" THEN [Instr("param", v, <<>>) EXCEPT !.imm = n, !.ty = ty]
                       ELSE Const(v, IF MCWidth[ty] < HostWidth THEN ValueIn(number, ty) ELSE Host(number), ty)

Typed(i, ty) == [i EXCEPT !.ty = ty]

ResultType(op, ty) ==
  IF op \in {"eq", "ne", "lt", "le", "gt", "ge", "lognot"} THEN "int" ELSE ty

Nexts == {"return", "lt 1", "cast to int", "cast to ulong"}

Next3(next, ty) ==
  CASE next = "return"        -> <<>>
    [] next = "lt 1"          -> <<Const(4, 1, ty), Instr("lt", 5, <<3, 4>>)>>
    [] next = "cast to int"   -> <<Typed(Instr("cast", 5, <<3>>), "int")>>
    [] next = "cast to ulong" -> <<Typed(Instr("cast", 5, <<3>>), "ulong")>>

Case(l, r, op, args, ty, next) ==
  LET rty == ResultType(op, ty) IN
  [code |-> << <<Operand(l, 1, 0, ty), Operand(r, 2, 1, ty), Typed(Instr(op, 3, args), rty)>>
               \o Next3(next, rty)
               \o <<Instr("ret", NoValue, <<IF next = "return" THEN 3 ELSE 5>>)>> >>,
   values |-> 5]

(* The host traps on this one, and the program itself has no meaning. *)
TrapsOnHost(l, r, op, ty) ==
  op \in {"div", "mod"} /\ ty = "long" /\ l = "lowest" /\ r = "-1"

(* A right shift of unsigned constants is a case of its own. *)
MCCases ==
  {Case(c[1], c[2], c[3], <<1, 2>>, c[4], next) :
     c \in {d \in Operands \X Operands \X (BinaryOps \ {"shr"}) \X MCTypes :
               ~ TrapsOnHost(d[1], d[2], d[3], d[4])},
     next \in Nexts}
    \cup {Case(l, r, "shr", <<1, 2>>, ty, next) : l \in Operands, r \in Operands,
                                                  ty \in MCTypes \ MCUnsigned, next \in Nexts}
    \cup {Case(l, "0", op, <<1, 1>>, ty, next) : l \in Operands, op \in BinaryOps \ {"shr"},
                                                 ty \in MCTypes, next \in Nexts}
    \cup {Case(l, "0", op, <<1>>, ty, next) : l \in Operands, ty \in MCTypes, next \in Nexts,
                                              op \in {"neg", "complement", "lognot", "cast"}}

ShiftCases ==
  {Case(l, r, "shr", <<1, 2>>, "uint", "return") : l \in Operands, r \in Operands}

MCInputs == {<<0, 2>>, <<1, 0>>, <<-1, 1>>, <<-4, 3>>, <<3, -1>>, <<-16, 4>>, <<15, 2>>}
=============================================================================
