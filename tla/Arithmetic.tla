----------------------------- MODULE Arithmetic -----------------------------
(***************************************************************************)
(* Integers of a fixed width: what C's operators compute on them.  Types   *)
(* are names; the widths are parameters, because all that matters to the   *)
(* compiler is which types are as wide as its own long long and which are  *)
(* narrower.                                                               *)
(***************************************************************************)
EXTENDS Integers, FiniteSetsExt

CONSTANTS
  Width,          \* type -> bits it occupies (struct Type.size)
  UnsignedTypes,  \* the types with is_unsigned set
  HostWidth       \* bits of the compiler's own long long

ASSUME WidthAssumption ==
  /\ HostWidth \in Nat \ {0, 1}
  /\ \A ty \in DOMAIN Width : Width[ty] \in 2 .. HostWidth

IsUnsigned(ty) == ty \in UnsignedTypes

(* The low bits of n, read as a signed or an unsigned number. *)
Wrap(n, bits, unsigned) ==
  LET m == n % 2^bits
  IN IF unsigned \/ m < 2^(bits - 1) THEN m ELSE m - 2^bits

(* n as a value of a type. *)
ValueIn(n, ty) == Wrap(n, Width[ty], IsUnsigned(ty))

Magnitude(n) == IF n < 0 THEN -n ELSE n
Sign(n)      == IF n < 0 THEN -1 ELSE 1

(* C division rounds toward zero. *)
Quotient(l, r)  == Sign(l) * Sign(r) * (Magnitude(l) \div Magnitude(r))
Remainder(l, r) == l - r * Quotient(l, r)

Truth(c) == IF c THEN 1 ELSE 0

(* The low bits of l and r combined bit by bit. *)
BitOf(n, k) == (n \div 2^k) % 2
Bitwise(op, l, r, bits) ==
  LET Sets(a, b) == CASE op = "and" -> a = 1 /\ b = 1
                      [] op = "or"  -> a = 1 \/ b = 1
                      [] op = "xor" -> a # b
  IN SumSet({2^k : k \in {j \in 0 .. bits - 1 : Sets(BitOf(l, j), BitOf(r, j))}})

-----------------------------------------------------------------------------
(* The language's own answer, to compare the compiler with: operands of    *)
(* type ty, a result of type rty.  The set is empty where C leaves the     *)
(* result undefined.                                                       *)
BinaryOps == {"add", "sub", "mul", "div", "mod", "shl", "shr", "and", "or", "xor",
              "eq", "ne", "lt", "le", "gt", "ge"}

Machine(op, left, right, ty, rty) ==
  LET l == ValueIn(left, ty)
      r == ValueIn(right, ty)
      inRange == right \in 0 .. Width[ty] - 1
      divides == r # 0 /\ ~ (l = -2^(Width[ty] - 1) /\ r = -1)
      exact == CASE op = "add" -> {l + r}
                 [] op = "sub" -> {l - r}
                 [] op = "mul" -> {l * r}
                 [] op = "div" -> IF divides THEN {Quotient(l, r)} ELSE {}
                 [] op = "mod" -> IF divides THEN {Remainder(l, r)} ELSE {}
                 [] op = "shl" -> IF inRange THEN {l * 2^right} ELSE {}
                 [] op = "shr" -> IF inRange THEN {l \div 2^right} ELSE {}
                 [] op \in {"and", "or", "xor"} -> {Bitwise(op, l, r, Width[ty])}
                 [] op = "eq" -> {Truth(l = r)}
                 [] op = "ne" -> {Truth(l # r)}
                 [] op = "lt" -> {Truth(l < r)}
                 [] op = "le" -> {Truth(l <= r)}
                 [] op = "gt" -> {Truth(l > r)}
                 [] op = "ge" -> {Truth(l >= r)}
  IN {ValueIn(n, rty) : n \in exact}
=============================================================================
