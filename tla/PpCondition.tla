----------------------------- MODULE PpCondition -----------------------------
(***************************************************************************)
(* src/src/frontend/pp_cond.c: the value of an #if line whose macros have  *)
(* been replaced, by precedence climbing.  The C functions advance an      *)
(* index; here each returns the value, the next position and whether an    *)
(* error was reported.                                                     *)
(***************************************************************************)
EXTENDS Integers, SequencesExt

LOCAL INSTANCE TLC
LOCAL INSTANCE Bitwise

Digits == <<"0", "1", "2", "3", "4", "5", "6", "7", "8", "9">>

(* strtol of a decimal number; its text is a sequence of digits. *)
NumberIn(text) ==
  FoldLeft(LAMBDA n, d : 10 * n + (CHOOSE k \in DOMAIN Digits : Digits[k] = d) - 1, 0, text)

TruthOf(b) == IF b THEN 1 ELSE 0

(* binary_precedence; 0 for what is no binary operator. *)
BinaryPrecedence(t) ==
  IF t.kind # "punct" THEN 0
  ELSE LET op == t.text[1] IN
    CASE op = "||" -> 1 [] op = "&&" -> 2
      [] op = "|" -> 3 [] op = "^" -> 4 [] op = "&" -> 5 [] op \in {"<<", ">>"} -> 8
      [] op \in {"==", "!="} -> 6 [] op \in {"<", "<=", ">", ">="} -> 7
      [] op \in {"+", "-"} -> 9 [] op \in {"*", "/", "%"} -> 10
      [] OTHER -> 0

(* C divides towards zero. *)
Towards0(l, r) == IF (l >= 0) = (r > 0) THEN l \div r ELSE -((-l) \div r)
Quotient0(l, r) == IF r < 0 THEN Towards0(-l, -r) ELSE Towards0(l, r)

(* The bits of a long, of which the values here need no more than these.   *)
LongBits == 16
Bits(v)   == v % 2 ^ LongBits
Signed(b) == IF b >= 2 ^ (LongBits - 1) THEN b - 2 ^ LongBits ELSE b

(* apply_binary *)
ApplyBinary(op, l, r) ==
  CASE op = "||" -> TruthOf(l # 0 \/ r # 0)
    [] op = "&&" -> TruthOf(l # 0 /\ r # 0)
    [] op = "==" -> TruthOf(l = r)   [] op = "!=" -> TruthOf(l # r)
    [] op = "<"  -> TruthOf(l < r)   [] op = "<=" -> TruthOf(l <= r)
    [] op = ">"  -> TruthOf(l > r)   [] op = ">=" -> TruthOf(l >= r)
    [] op = "+"  -> l + r            [] op = "-"  -> l - r
    [] op = "*"  -> l * r
    [] op = "|"  -> Signed(Bits(l) | Bits(r))
    [] op = "&"  -> Signed(Bits(l) & Bits(r))
    [] op = "^"  -> Signed(Bits(l) ^^ Bits(r))
    [] op = "<<" -> l * 2 ^ r        [] op = ">>" -> l \div 2 ^ r
    [] op = "/"  -> IF r = 0 THEN 0 ELSE Quotient0(l, r)
    [] op = "%"  -> IF r = 0 THEN 0 ELSE l - r * Quotient0(l, r)

DividesByZero(op, r) == op \in {"/", "%"} /\ r = 0

Value(val, next, bad) == [val |-> val, next |-> next, bad |-> bad]

HasPunct(ts, i, s) == i <= Len(ts) /\ ts[i].kind = "punct" /\ ts[i].text = <<s>>

(* The one element; a value bound by it is evaluated once. *)
Only(set) == CHOOSE v \in set : TRUE

RECURSIVE CondPrimary(_, _)
RECURSIVE CondExpression(_, _, _)
RECURSIVE CondRest(_, _, _)

ApplyUnary(op, x) ==
  [x EXCEPT !.val = CASE op = "-" -> -@ [] op = "+" -> @ [] op = "!" -> TruthOf(@ = 0) [] op = "~" -> -@ - 1]

(* A name that is left was never defined and is 0. *)
CondPrimary(ts, i) ==
  CASE i > Len(ts)         -> Value(0, i, FALSE)
    [] i <= Len(ts) /\ ts[i].kind = "num" -> Value(NumberIn(ts[i].text), i + 1, FALSE)
    [] i <= Len(ts) /\ ts[i].kind = "id"  -> Value(0, i + 1, FALSE)
    [] HasPunct(ts, i, "(") ->
         Only({IF HasPunct(ts, e.next, ")") THEN [e EXCEPT !.next = @ + 1] ELSE [e EXCEPT !.bad = TRUE] :
                 e \in {CondExpression(ts, i + 1, 0)}})
    [] i <= Len(ts) /\ ts[i].kind = "punct" /\ ts[i].text[1] \in {"-", "+", "!", "~"} ->
         ApplyUnary(ts[i].text[1], CondPrimary(ts, i + 1))
    [] OTHER -> Value(0, i + 1, TRUE)

(* The loop of cond_expression, with what it has so far. *)
CondRest(ts, left, min) ==
  LET i == left.next
      precedence == IF i <= Len(ts) THEN BinaryPrecedence(ts[i]) ELSE 0
      Alternative(then) == IF HasPunct(ts, then.next, ":") THEN then.next + 1 ELSE then.next
      Chosen(then, else) ==
        Value(IF left.val # 0 THEN then.val ELSE else.val, else.next,
              left.bad \/ then.bad \/ else.bad \/ ~ HasPunct(ts, then.next, ":"))
      Applied(right) ==
        Value(ApplyBinary(ts[i].text[1], left.val, right.val), right.next,
              left.bad \/ right.bad \/ DividesByZero(ts[i].text[1], right.val))
  IN IF HasPunct(ts, i, "?") /\ min = 0
       THEN Only(UNION {{CondRest(ts, v, min) : v \in {Chosen(then, else) :
              else \in {CondExpression(ts, Alternative(then), 0)}}} : then \in {CondExpression(ts, i + 1, 0)}})
     ELSE IF precedence = 0 \/ precedence < min THEN left
     ELSE Only({CondRest(ts, v, min) :
            v \in {Applied(right) : right \in {CondExpression(ts, i + 1, precedence + 1)}}})

CondExpression(ts, i, min) == Only({CondRest(ts, left, min) : left \in {CondPrimary(ts, i)}})

(* What comes after the expression is not looked at. *)
PpEvaluate(ts) == Only({[val |-> e.val, bad |-> e.bad] : e \in {CondExpression(ts, 1, 0)}})
=============================================================================
