---------------------------- MODULE MCOptimizer -----------------------------
(***************************************************************************)
(* The optimiser on single functions of every shape the statements of the  *)
(* language give a control-flow graph: branches, loops that may run zero   *)
(* times, nested loops, loops entered in two places by goto, code nothing  *)
(* reaches, and self-recursion in tail position.  Pairs of functions, the  *)
(* first calling the second from every kind of place: callees with several *)
(* returns, with a loop, recursive, writing through a pointer, leaving     *)
(* without a value.  What every rewrite has to preserve is stated here,    *)
(* where the IR is run.                                                    *)
(***************************************************************************)
EXTENDS Optimizer, IrSemantics

CONSTANT
  Inputs       \* argument lists of the first function

(***************************************************************************)
(* Every rewrite keeps what the program does: result and output are those  *)
(* of the program as lowered, whenever C says what those are.  A division  *)
(* hoisted out of a loop that does not run, a store seen by the wrong      *)
(* subtree or a phi argument on the wrong edge shows here.                 *)
(***************************************************************************)
EveryRewritePreserves ==
  ~ Building => \A args \in Inputs : Preserves(orig, prog, 1, args)

-----------------------------------------------------------------------------
(* Functions in the form src/src/ir/lower.c leaves them in: every variable *)
(* a frame slot allocated in the entry, every parameter stored to its slot *)
(* there, every statement loading what it reads and storing what it        *)
(* writes.  A function has parameters n and m and a local x.  A statement  *)
(* is named by the C it stands for; statement j of block b numbers its     *)
(* values from First(b, j).                                                *)

ParamN == 1
ParamM == 2
SlotN  == 3
SlotM  == 4
SlotX  == 5
First(b, j) == 6 + 24 * (b - 1) + 5 * (j - 1)
EndOf(b)    == First(b, 4)

LoadOf(v, slot)   == Instr("load", v, <<slot>>)
StoreTo(slot, v)  == Instr("store", NoValue, <<slot, v>>)
Number(v, n)      == Const(v, n, "int")
Address(v, n)     == [Instr("global", v, <<>>) EXCEPT !.imm = n, !.ty = "ptr"]
Branch(v, t, e)   == [Instr("br", NoValue, <<v>>) EXCEPT !.to = <<t, e>>]
Return(v)         == Instr("ret", NoValue, <<v>>)

(* slot = left op right, where the operands are instructions. *)
Assign(slot, op, left, right, v) ==
  <<left, right, Instr(op, v + 2, <<v, v + 1>>), StoreTo(slot, v + 2)>>

(* x = g(first, m), where g is the second function of the program. *)
CallOfG(first, v) ==
  <<Address(v, 2), first, LoadOf(v + 2, SlotM), Instr("call", v + 3, <<v, v + 1, v + 2>>),
    StoreTo(SlotX, v + 3)>>

Statement(s, v) ==
  CASE s = "skip"  -> <<>>
    [] s = "x=5"   -> <<Number(v, 5), StoreTo(SlotX, v)>>
    [] s = "x=m"   -> <<LoadOf(v, SlotM), StoreTo(SlotX, v)>>
    [] s = "x=x+m" -> Assign(SlotX, "add", LoadOf(v, SlotX), LoadOf(v + 1, SlotM), v)
    [] s = "x=n+m" -> Assign(SlotX, "add", LoadOf(v, SlotN), LoadOf(v + 1, SlotM), v)
    [] s = "x=x*1" -> Assign(SlotX, "mul", LoadOf(v, SlotX), Number(v + 1, 1), v)
    [] s = "x=m*4" -> Assign(SlotX, "mul", LoadOf(v, SlotM), Number(v + 1, 4), v)
    [] s = "x=6/m" -> Assign(SlotX, "div", Number(v, 6), LoadOf(v + 1, SlotM), v)
    [] s = "n=n-1" -> Assign(SlotN, "sub", LoadOf(v, SlotN), Number(v + 1, 1), v)
    [] s = "m=m-1" -> Assign(SlotM, "sub", LoadOf(v, SlotM), Number(v + 1, 1), v)
    [] s = "print(x)" -> <<Address(v, 0), LoadOf(v + 1, SlotX),
                           Instr("call", v + 2, <<v, v + 1>>)>>
    [] s = "x=g(n,m)" -> CallOfG(LoadOf(v + 1, SlotN), v)
    [] s = "x=g(x,m)" -> CallOfG(LoadOf(v + 1, SlotX), v)
    [] s = "g(n,m)"   -> Front(CallOfG(LoadOf(v + 1, SlotN), v))
    [] s = "g(&x,m)"  -> <<Address(v, 2), LoadOf(v + 1, SlotM),
                           Instr("call", NoValue, <<v, SlotX, v + 1>>)>>
    [] s = "*n=m"  -> <<[LoadOf(v, SlotN) EXCEPT !.ty = "ptr"], LoadOf(v + 1, SlotM),
                        StoreTo(v, v + 1)>>

Condition(c, v, t, e) ==
  CASE c = "n"   -> <<LoadOf(v, SlotN), Branch(v, t, e)>>
    [] c = "m"   -> <<LoadOf(v, SlotM), Branch(v, t, e)>>
    [] c = "0"   -> <<Number(v, 0), Branch(v, t, e)>>
    [] c = "n>1" -> <<LoadOf(v, SlotN), Number(v + 1, 1), Instr("gt", v + 2, <<v, v + 1>>),
                      Branch(v + 2, t, e)>>

Statements(b, stmts) ==
  FlattenSeq([j \in DOMAIN stmts |-> Statement(stmts[j], First(b, j))])

Goto(b, stmts, t)      == Statements(b, stmts) \o <<Jump(t)>>
If(b, stmts, c, t, e)  == Statements(b, stmts) \o Condition(c, EndOf(b), t, e)
ReturnX(b, stmts)      == Statements(b, stmts) \o <<LoadOf(EndOf(b), SlotX), Return(EndOf(b))>>

(* return; or running off the end *)
ReturnNothing(b, stmts) == Statements(b, stmts) \o <<Instr("ret", NoValue, <<>>)>>

(* return f(n - 1, m), or with the arguments the other way round *)
ReturnCall(b, stmts, f, swapped) ==
  LET v == EndOf(b) IN
  Statements(b, stmts) \o
    <<Address(v, f), LoadOf(v + 1, SlotN), Number(v + 2, 1),
      Instr("sub", v + 3, <<v + 1, v + 2>>), LoadOf(v + 4, SlotM),
      Instr("call", v + 5, IF swapped THEN <<v, v + 4, v + 3>> ELSE <<v, v + 3, v + 4>>),
      Return(v + 5)>>

Slot(v) == [Instr("alloca", v, <<>>) EXCEPT !.ty = "ptr"]

Prologue ==
  <<Slot(SlotX), Slot(SlotM), Slot(SlotN),
    Instr("param", ParamN, <<>>), StoreTo(SlotN, ParamN),
    [Instr("param", ParamM, <<>>) EXCEPT !.imm = 1], StoreTo(SlotM, ParamM)>>

Function(blocks) ==
  [code |-> [blocks EXCEPT ![EntryBlock] = Prologue \o @], values |-> First(Len(blocks) + 1, 1) - 1]

(* The same with n a pointer. *)
PointerFunction(blocks) ==
  LET f == Function(blocks)
      IsParamN(i) == i.dst = ParamN
      IsSlotN(i) == i.dst = SlotN
  IN [f EXCEPT !.code[EntryBlock][SelectInSeq(f.code[EntryBlock], IsParamN)].ty = "ptr",
               !.code[EntryBlock][SelectInSeq(f.code[EntryBlock], IsSlotN)].ty = "ptrptr"]

-----------------------------------------------------------------------------
(* s1; if (c) s2; s3; return x; *)
IfPrograms ==
  { Function(<<If(1, <<s1>>, c, 2, 3), Goto(2, <<s2>>, 3), ReturnX(3, <<s3>>)>>) :
      s1 \in {"skip", "x=5"}, c \in {"n", "0"},
      s2 \in {"x=5", "x=m*4", "print(x)"}, s3 \in {"x=m*4", "x=x*1"} }

(* if (n) s1 else s2; s3; return x; *)
IfElsePrograms ==
  { Function(<<If(1, <<>>, "n", 2, 3), Goto(2, <<s1>>, 4), Goto(3, <<s2>>, 4), ReturnX(4, <<s3>>)>>) :
      s1 \in {"x=5", "x=m*4"}, s2 \in {"x=5", "x=m*4", "x=m"},
      s3 \in {"x=m*4", "skip", "x=6/m"} }

(* x = 5; while (n) { s1; n--; } s2; return x; *)
WhilePrograms ==
  { Function(<<Goto(1, <<"x=5">>, 2), If(2, <<>>, "n", 3, 4),
               Goto(3, <<s1, "n=n-1">>, 2), ReturnX(4, <<s2>>)>>) :
      s1 \in {"x=m*4", "x=6/m", "x=x+m", "print(x)", "x=5"}, s2 \in {"skip", "x=m*4"} }

(* x = 5; while (n) { if (c) s1; s2; n--; } return x; *)
BranchInLoopPrograms ==
  { Function(<<Goto(1, <<"x=5">>, 2), If(2, <<>>, "n", 3, 6), If(3, <<>>, c, 4, 5),
               Goto(4, <<s1>>, 5), Goto(5, <<s2, "n=n-1">>, 2), ReturnX(6, <<>>)>>) :
      c \in {"m", "0"}, s1 \in {"x=6/m", "x=m*4"}, s2 \in {"x=x+m", "x=6/m"} }

(* do { s1; do { s2; n--; } while (n > 1); m--; } while (m); return x; *)
NestedPrograms ==
  { Function(<<Goto(1, <<>>, 2), Goto(2, <<s1>>, 3), If(3, <<s2, "n=n-1">>, "n>1", 3, 4),
               If(4, <<"m=m-1">>, "m", 2, 5), ReturnX(5, <<>>)>>) :
      s1 \in {"x=m*4", "x=n+m"}, s2 \in {"x=x+m", "x=m*4"} }

(* if (n) goto inside; for (; n > 1; ) { inside: s1; n--; } return x; *)
TwoEntryPrograms ==
  { Function(<<If(1, <<"x=5">>, "n", 2, 3), Goto(2, <<s1, "n=n-1">>, 3),
               If(3, <<>>, "n>1", 2, 4), ReturnX(4, <<>>)>>) :
      s1 \in {"x=m*4", "x=x+m"} }

(* x = 5; goto out; s1; out: return x; *)
UnreachedPrograms ==
  { Function(<<Goto(1, <<"x=5">>, 3), Goto(2, <<s1>>, 3), ReturnX(3, <<>>)>>) :
      s1 \in {"x=m*4", "print(x)"} }

(* x = 5; if (n) { s1; return f(n - 1, m); } s2; return x; *)
TailPrograms ==
  { Function(<<If(1, <<"x=5">>, "n", 2, 3), ReturnCall(2, <<s1>>, 1, swapped), ReturnX(3, <<s2>>)>>) :
      s1 \in {"skip", "print(x)", "x=m*4"}, s2 \in {"skip", "x=n+m"}, swapped \in BOOLEAN }

SinglePrograms ==
  { <<f>> : f \in IfPrograms \cup IfElsePrograms \cup WhilePrograms \cup BranchInLoopPrograms
                    \cup NestedPrograms \cup TwoEntryPrograms \cup UnreachedPrograms
                    \cup TailPrograms }

(* s1; s2; return x; *)
Straight(s1, s2) == Function(<<ReturnX(1, <<s1, s2>>)>>)

(* x = 5; if (n) s; return x; -- the join has a phi naming the block split *)
Joined(s) == Function(<<If(1, <<"x=5">>, "n", 2, 3), Goto(2, <<s>>, 3), ReturnX(3, <<>>)>>)

(* x = 5; while (n) { s; n--; } return x; *)
Looping(s) ==
  Function(<<Goto(1, <<"x=5">>, 2), If(2, <<>>, "n", 3, 4), Goto(3, <<s, "n=n-1">>, 2), ReturnX(4, <<>>)>>)

Callers ==
  {Straight("x=g(n,m)", s) : s \in {"x=g(x,m)", "x=m*4"}}
    \cup {F : F \in {Joined("x=g(n,m)"), Looping("x=g(x,m)"), Looping("x=g(n,m)")}}

(* if (n) return n + m; s; return x; *)
TwoReturns(s) ==
  Function(<<If(1, <<>>, "n", 2, 3), ReturnX(2, <<"x=n+m">>), ReturnX(3, <<s>>)>>)

(* if (n) return call(n - 1, m); x = 5; return x; *)
Calling(callee) ==
  Function(<<If(1, <<>>, "n", 2, 3), ReturnCall(2, <<>>, callee, FALSE), ReturnX(3, <<"x=5">>)>>)

(* int g() { if (n) print(x = m); } *)
WithoutValue ==
  Function(<<If(1, <<>>, "n", 2, 3), Goto(2, <<"x=m", "print(x)">>, 3), ReturnNothing(3, <<>>)>>)

Callees ==
  {Straight("x=m", "x=x*1"), TwoReturns("x=6/m"), Looping("x=x+m"), Calling(2), Calling(1)}

CallingPrograms ==
  {<<f, g>> : f \in Callers, g \in Callees}
    \cup {<<f, WithoutValue>> : f \in {Straight("g(n,m)", "x=5"), Joined("x=g(n,m)")}}
    \cup {<<f, PointerFunction(<<ReturnNothing(1, <<"*n=m">>)>>)>> :
            f \in {Straight("x=5", "g(&x,m)"), Looping("g(&x,m)")}}
    \cup {<<Calling(2), Calling(1)>>}

MCPrograms == SinglePrograms \cup CallingPrograms

(* x = 5; while (n) { x = x + m; n--; } if (m) return f(n - 1, m); return x; *)
(* Self-recursion in tail position in a function that begins with a loop:    *)
(* promotion has put phis in the loop's header, which name the entry as the  *)
(* block control arrives from, when split_entry moves the entry's end.       *)
LoopFirst ==
  Function(<<Goto(1, <<"x=5">>, 2), If(2, <<>>, "n", 3, 4), Goto(3, <<"x=x+m", "n=n-1">>, 2),
             If(4, <<>>, "m", 5, 6), ReturnCall(5, <<>>, 1, FALSE), ReturnX(6, <<>>)>>)

TailcallPrograms == {<<LoopFirst>>}

MCWidth  == [ty \in {"int", "ptr"} |-> IF ty = "int" THEN 8 ELSE 12]
TailcallInputs == {<<0, 0>>}
MCInputs == {<<0, 0>>, <<2, 1>>, <<1, 3>>}
=============================================================================
