-------------------------------- MODULE Fold --------------------------------
(***************************************************************************)
(* src/src/opt/fold.c: what opt_fold does to one instruction.              *)
(*                                                                         *)
(* Constants travel through the compiler as a long long (ir_instr.imm)     *)
(* whatever the type of the value, so folding is host arithmetic followed  *)
(* by truncate_to.                                                         *)
(***************************************************************************)
EXTENDS Ir, Arithmetic

Host(n)         == Wrap(n, HostWidth, FALSE)
HostUnsigned(n) == Wrap(n, HostWidth, TRUE)

TypeOf(f, v)     == Def(f, v).ty
ConstOf(f, v)    == Def(f, v).imm
IsEqual(f, v, n) == IsConst(f, v) /\ ConstOf(f, v) = n

(* Slip: the arithmetic of the host is taken as it is. *)
KeepAllBits(n, ty) == n

TruncateTo(n, ty) == IF Width[ty] < HostWidth THEN ValueIn(n, ty) ELSE n

BecomeConst(i, n) ==
  [i EXCEPT !.op = "const", !.imm = TruncateTo(n, i.ty), !.args = <<>>]

(* fold_binary: the set holds the result, or nothing when it returns 0.    *)
(* On the host the lowest number divided by -1 traps (fold.c:107, 113);    *)
(* here it wraps, and no program of a run comes to it.                     *)
FoldBinary(op, left, right, unsigned) ==
  LET l == IF unsigned THEN HostUnsigned(left) ELSE left
      r == IF unsigned THEN HostUnsigned(right) ELSE right
      inRange == right \in 0 .. HostWidth - 1
      exact == CASE op = "add" -> {left + right}
                 [] op = "sub" -> {left - right}
                 [] op = "mul" -> {left * right}
                 [] op = "div" -> IF right = 0 THEN {} ELSE {Quotient(l, r)}
                 [] op = "mod" -> IF right = 0 THEN {} ELSE {Remainder(l, r)}
                 [] op = "shl" -> IF inRange THEN {left * 2^right} ELSE {}
                 [] op = "shr" -> IF inRange THEN {(IF unsigned THEN r ELSE left) \div 2^right}
                                  ELSE {}
                 [] op \in {"and", "or", "xor"} -> {Bitwise(op, left, right, HostWidth)}
                 [] op = "eq" -> {Truth(left = right)}
                 [] op = "ne" -> {Truth(left # right)}
                 [] op = "lt" -> {Truth(l < r)}
                 [] op = "le" -> {Truth(l <= r)}
                 [] op = "gt" -> {Truth(l > r)}
                 [] op = "ge" -> {Truth(l >= r)}
                 [] OTHER -> {}
  IN {Host(n) : n \in exact}

FoldUnary(op, n) ==
  CASE op = "neg"        -> {Host(-n)}
    [] op = "complement" -> {-n - 1}
    [] op = "lognot"     -> {Truth(n = 0)}
    [] op = "cast"       -> {n}
    [] OTHER             -> {}

(* The constant an instruction over constants computes. *)
FoldedValue(f, i) ==
  IF \A a \in DOMAIN i.args : IsConst(f, i.args[a])
    THEN CASE Len(i.args) = 2 -> FoldBinary(i.op, ConstOf(f, i.args[1]), ConstOf(f, i.args[2]),
                                            IsUnsigned(TypeOf(f, i.args[1])))
           [] Len(i.args) = 1 -> FoldUnary(i.op, ConstOf(f, i.args[1]))
           [] OTHER -> {}
    ELSE {}

(* simplify_identity, and the cast to the type a value already has: the    *)
(* operand the instruction is only another name for.                       *)
SameAsOperand(f, i) ==
  LET l == i.args[1]
      r == i.args[2]
      Keeps(v) == i.ty = TypeOf(f, v)
      isLeft  == \/ i.op \in {"add", "sub", "or", "xor", "shl", "shr"} /\ IsEqual(f, r, 0)
                 \/ i.op \in {"mul", "div"} /\ IsEqual(f, r, 1)
                 \/ i.op \in {"and", "or"} /\ l = r
      isRight == \/ i.op \in {"add", "or", "xor"} /\ IsEqual(f, l, 0)
                 \/ i.op = "mul" /\ IsEqual(f, l, 1)
  IN IF (i.op = "cast" \/ (i.op \in BinaryOps /\ isLeft)) /\ Keeps(l) THEN {l}
     ELSE IF i.op \in BinaryOps /\ isRight /\ Keeps(r) THEN {r}
     ELSE {}

(* Slip: a division of a value by itself is taken for an identity too. *)
AlwaysOne(f, i) ==
  IF i.op \in {"div", "eq", "le", "ge"} /\ i.args[1] = i.args[2] THEN {1} ELSE {}

(* simplify_identity: the constant the instruction computes whatever its   *)
(* operands are.                                                           *)
AlwaysConst(f, i) ==
  IF i.op \notin BinaryOps THEN {}
  ELSE LET l == i.args[1]
           r == i.args[2]
           absorbs == i.op \in {"mul", "and"} /\ (IsEqual(f, l, 0) \/ IsEqual(f, r, 0))
       IN IF absorbs \/ (l = r /\ i.op \in {"sub", "xor", "ne", "lt", "gt"}) THEN {0}
          ELSE IF l = r /\ i.op \in {"eq", "le", "ge"} THEN {1}
          ELSE {}

(* Slip: signed division becomes a shift as well. *)
CheaperUnlessSlower(f, i) ==
  IF i.op \in {"mul", "div"} /\ IsConst(f, i.args[2])
    THEN {<<IF i.op = "mul" THEN "shl" ELSE "shr", bit>> :
            bit \in {k \in 1 .. HostWidth - 2 : ConstOf(f, i.args[2]) = 2^k}}
    ELSE {}

(* strength_reduce: the opcode and the new right operand. *)
Cheaper(f, i) ==
  IF i.op \in {"mul", "div", "mod"} /\ IsConst(f, i.args[2])
    THEN LET divisor == ConstOf(f, i.args[2]) IN
         UNION { CASE i.op = "mul"                        -> {<<"shl", bit>>}
                   [] i.op = "div" /\ IsUnsigned(i.ty)    -> {<<"shr", bit>>}
                   [] i.op = "mod" /\ IsUnsigned(i.ty)    -> {<<"and", divisor - 1>>}
                   [] OTHER                               -> {}
                 : bit \in {k \in 1 .. HostWidth - 2 : divisor = 2^k} }
    ELSE {}

ReduceStrength(f, s, op, n) ==
  LET i == InstrAt(f, s)
      v == FreshValue(f)
      edited == [f EXCEPT !.values = v,
                          !.code[s[1]][s[2]] = [i EXCEPT !.op = op, !.args[2] = v]]
  IN EmitBefore(edited, s, Const(v, n, TypeOf(f, i.args[2])))

(* One iteration of the loop of opt_fold: the function it leaves, or       *)
(* nothing when no rewrite applies.                                        *)
FoldAt(f, s) ==
  LET i == InstrAt(f, s)
      Rewritten(n) == [f EXCEPT !.code[s[1]][s[2]] = BecomeConst(i, n)]
  IN IF i.dst = NoValue THEN {}
     ELSE IF FoldedValue(f, i) # {}   THEN {Rewritten(n) : n \in FoldedValue(f, i)}
     ELSE IF SameAsOperand(f, i) # {} THEN {ReplaceUses(f, i.dst, v) : v \in SameAsOperand(f, i)}
     ELSE IF AlwaysConst(f, i) # {}   THEN {Rewritten(n) : n \in AlwaysConst(f, i)}
     ELSE {ReduceStrength(f, s, c[1], c[2]) : c \in Cheaper(f, i)}
=============================================================================
