------------------------------- MODULE MCLower -------------------------------
(***************************************************************************)
(* Programs for Lower: every kind of expression once, and every loop and   *)
(* switch nested in every other with every way of leaving it.  Lowering is *)
(* held against the meaning of the source: what the IR does when it runs   *)
(* is what C says the program does.                                        *)
(***************************************************************************)
EXTENDS Lower, SourceSemantics, IrSemantics

CONSTANTS
  Inputs,   \* argument lists of the first function
  Fuel      \* bound: repetitions after which a source program is not compared

AgreesWith(meant, does) ==
  /\ meant.status = "ret"  => does = meant
  /\ meant.status = "trap" => does.status = "trap" /\ does.out = meant.out

(***************************************************************************)
(* The first function called with any of the inputs returns the same value *)
(* and passes the same arguments out of the program, or divides by zero    *)
(* at the same point, whenever C defines what it does.                     *)
(***************************************************************************)
LoweredMeansSource ==
  Done => \A args \in Inputs : AgreesWith(Meaning(source, 1, args, Fuel),
                                         Outcome(program, 1, args, Doublings))

-----------------------------------------------------------------------------

MCWidth == [ty \in {"int", "char", "long", "ptr", "uint", "ulong"} |->
              CASE ty = "char" -> 4 [] ty \in {"int", "uint"} -> 10 [] OTHER -> 22]

RECURSIVE Subtrees(_)
Subtrees(node) == {node} \cup UNION {Subtrees(sub) : sub \in Beneath(node)}
MCNodesOf == [fn \in AllFunctions |-> Subtrees(fn.body)]

MCInputs == {<<0, 0>>, <<1, 1>>, <<3, 2>>, <<2, 5>>}

S2 == StructOf(IntType, 2)
n  == Symbol("param", "n", IntType, 1)
m  == Symbol("param", "m", IntType, 2)
x  == Symbol("local", "x", IntType, 3)
i  == Symbol("local", "i", IntType, 4)
c  == Symbol("local", "c", CharType, 5)
p  == Symbol("local", "p", PointerTo(IntType), 6)
a  == Symbol("local", "a", ArrayOf(IntType, 2), 7)
s  == Symbol("local", "s", S2, 8)
t  == Symbol("local", "t", S2, 9)
x2 == Symbol("local", "x", IntType, 10)   \* an inner x
fp == Symbol("param", "fp", PointerTo(FunctionType(IntType)), 1)
g  == Symbol("global", "g", IntType, 60)
print  == Symbol("function", "print", IntType, 0)
helper == Symbol("function", "helper", IntType, 2)

Num(k)     == Literal(k, IntType)
N == Name(n)
M == Name(m)
X == Name(x)
I == Name(i)
Op(op, l, r) == Binary(op, l, r, IntType)
Set(l, r)  == Do(Assign(l, r))
AddX(k)    == Set(X, Op("add", Op("mul", X, Num(3)), Num(k)))
Show(e)   == Do(Call(print, <<e>>, IntType))
Into(e)    == Set(X, e)

(* Where the analysis does not give C's type, these trees have the one it  *)
(* gives: sizeof is an unsigned int, and a struct loses its tag when it is *)
(* assigned or returned by a call (MakeS).                                 *)
UnsignedSize(e)  == [SizeOf(e) EXCEPT !.ty = UIntType]
CopyStruct(l, r) == [Assign(l, r) EXCEPT !.ty = IntType]

Wrapped(stmts) == Block(<<Declare(x, Num(0))>> \o stmts \o <<Show(X), Return(X)>>)
OneFunction(stmts) == <<Function(<<n, m>>, Wrapped(stmts))>>

-----------------------------------------------------------------------------
(* Expressions *)

Bump(sym) == IncDec(Name(sym), "add", FALSE)

Expressions == {
  Op("sub", Op("mul", N, Num(2)), M), Op("div", Num(6), M), Op("mod", N, M),
  Unary("neg", N), Unary("complement", M), Unary("lognot", N),
  And(Op("div", N, M), Bump(n)), Or(M, Comma(Bump(n), N)), And(Or(N, M), And(N, Bump(m))),
  Conditional(N, Op("div", Num(8), N), Op("add", M, Num(1))),
  Conditional(And(N, M), Conditional(M, Num(5), N), Or(N, M)),
  Assign(Name(m), Assign(N, Op("add", N, Num(1)))),
  Comma(Assign(Name(m), Num(2)), Op("mul", M, M)),
  IncDec(N, "add", TRUE), Op("add", IncDec(N, "sub", FALSE), IncDec(M, "sub", TRUE)),
  Comma(Assign(Name(g), N), Op("add", Name(g), Name(g))),
  Cast(IntType, Cast(CharType, Op("mul", N, Num(7)))), Cast(IntType, N),
  Op("add", Cast(IntType, UnsignedSize(M)), N) }

(* Objects in memory, one after the other. *)
Objects == <<
  Declare(c, Cast(CharType, N)), Do(IncDec(Name(c), "add", TRUE)),
  AddX(1), Into(Op("add", X, Cast(IntType, Name(c)))),
  Declare(a, Braces(<<Designated(2, N), Designated(1, Op("add", N, M))>>)),
  Declare(p, Name(a)), Do(Bump(p)),
  Set(At(Name(p)), Op("sub", At(Binary("sub", Name(p), Num(1), PointerTo(IntType))), Num(1))),
  Into(Op("add", X, Index(Name(a), Num(1)))),
  Into(Op("add", X, Cast(IntType, Binary("sub", Name(p), Name(a), IntType)))),
  Do(Assign(Name(p), AddressOf(N))), Set(At(Name(p)), Num(4)), Into(Op("add", X, N)),
  Do(Assign(Name(p), Binary("add", Num(1), Name(a), PointerTo(IntType)))),
  Do(IncDec(Name(p), "sub", FALSE)), Into(Op("add", X, At(Name(p)))),
  Declare(s, Braces(<<Item(N), Item(M)>>)), Declare(t, Name(s)),
  Set(Member(Name(t), 2), Op("add", Member(Name(t), 1), Num(1))),
  Into(Op("sub", Op("add", X, Member(Name(t), 2)), Member(Name(s), 2))),
  Do(CopyStruct(Name(s), Name(t))), Into(Op("add", X, Member(Name(s), 2))),
  Block(<<Declare(x2, Num(9)), Set(Name(x2), N)>>),
  Show(X) >>

(* int helper(int n, int m) { if (n) return helper(n - 1, m) + m; return; } *)
Helper == Function(<<n, m>>, Block(<<
  If(N, Return(Op("add", Call(helper, <<Op("sub", N, Num(1)), M>>, IntType), M)), Nothing),
  Return(Num(1)), Show(N)>>))

Calls == <<
  Into(Call(helper, <<N, Op("add", M, Num(1))>>, IntType)),
  Into(Op("sub", X, Call(helper, <<Call(helper, <<Num(1), M>>, IntType), Num(2)>>, IntType))) >>

(* A function that returns a struct and one that returns nothing, which    *)
(* the back end has to say how, and one that calls what it is handed:      *)
(* these are verified and not compared.                                    *)
makeS == Symbol("function", "makeS", S2, 2)
MakeS(e) == Call(makeS, <<e>>, IntType)
run   == Symbol("function", "run", VoidType, 3)
StructCalls == <<
  Function(<<n, m>>, Block(<<
    Declare(s, MakeS(N)), Declare(t, Nothing), Do(CopyStruct(Name(t), MakeS(M))),
    Do(Call(run, <<>>, VoidType)), For(Nothing, Nothing, Nothing, Block(<<>>)) >>)),
  Function(<<n>>, Block(<<Declare(s, Braces(<<Item(N), Item(N)>>)), Return(Name(s))>>)),
  Function(<<>>, Block(<<If(Name(g), Return(Nothing), Nothing), Do(Call(run, <<>>, VoidType))>>)),
  Function(<<fp, m>>, Return(Op("sub", M, Call(fp, <<Call(helper, <<M>>, IntType)>>, IntType)))) >>

-----------------------------------------------------------------------------
(* Control flow *)

Downto(v)  == Op("gt", IncDec(v, "sub", FALSE), Num(0))
(* Inside a loop over v or a switch on v, which has it twice: body and     *)
(* again differ in what their case labels are.                             *)
Loop(kind, id, v, body, again) ==
  CASE kind = "while"  -> While(Downto(v), body)
    [] kind = "do"     -> DoWhile(body, Downto(v))
    [] kind = "for"    -> For(Assign(I, Num(0)), Op("lt", I, v), IncDec(I, "add", FALSE), body)
    [] kind = "forever" -> For(Declare(i, Num(0)), Nothing, Nothing,
                              Block(<<If(Op("gt", IncDec(I, "add", TRUE), v), Break, Nothing), body>>))
    [] kind = "switch" -> Switch(v, Block(<<
                              Case(id, 1, AddX(1)), body, AddX(2),
                              Case(id + 1, 3, Nothing), Case(id + 2, 2, again), Default(id + 3, AddX(5))>>))

Kinds == {"while", "do", "for", "forever", "switch"}

Leaves == {
  AddX(1),
  Continue,
  Break,
  If(Op("gt", X, Num(4)), Block(<<Break, AddX(7)>>), AddX(2)),
  If(Op("eq", M, Num(2)), Block(<<AddX(3), Continue>>), Nothing),
  Return(Op("add", X, Num(20))),
  Goto("out") }

Inner(inner, id, leaf, after) ==
  LET body == Block(<<leaf, AddX(1)>>) IN Block(<<Loop(inner, id, M, body, body), after>>)

Nested == {
  OneFunction(<<Declare(i, Nothing),
    Loop(outer, 1, N, Inner(inner, 5, leaf, after), Inner(inner, 9, leaf, after)),
    Label("out", AddX(6))>>) :
  outer \in Kinds, inner \in Kinds, leaf \in Leaves, after \in {AddX(4), Break, Continue} }

(* Labels reached before and after they are mentioned, into and out of     *)
(* loops; cases inside a loop inside their switch; code nothing reaches.   *)
Jumps == {
  <<Label("again", AddX(1)), If(Downto(N), Goto("again"), Nothing)>>,
  <<If(M, Goto("inside"), Nothing),
    While(Downto(N), Block(<<AddX(1), Label("inside", AddX(2))>>))>>,
  <<Goto("end"), Label("dead", AddX(1)), Label("end", AddX(2)), If(Downto(N), Goto("dead"), Nothing)>>,
  <<Switch(N, Block(<<Case(1, 0, Nothing),
      DoWhile(Block(<<AddX(1), Case(2, 3, AddX(2)), Case(3, 2, AddX(3))>>), Downto(M))>>))>>,
  <<Switch(N, Block(<<AddX(9), Default(1, AddX(1)), Case(2, 1, Switch(M, Block(<<
      Case(3, 1, AddX(2)), Break, Default(4, AddX(3))>>))), AddX(4), Case(5, 3, Break), AddX(5)>>))>>,
  <<While(Downto(N), Block(<<Declare(x2, N), Into(Op("add", X, Name(x2)))>>))>>,
  <<Switch(M, Nothing), Return(Num(3)), While(N, AddX(1))>>,
  <<Switch(M, If(N, Case(1, 2, AddX(1)), Default(2, AddX(2))))>>,
  <<While(Or(Downto(N), And(M, Op("gt", IncDec(M, "sub", TRUE), Num(1)))),
      Into(Conditional(Op("gt", X, Num(9)), Op("sub", X, Num(5)), Op("add", X, Num(4)))))>> }

(* Brace initialisers that leave something out or have no name, the size   *)
(* of what is no int, and the address of a function.                       *)
Gaps == {
  <<Declare(a, Braces(<<Item(N)>>)), Into(Index(Name(a), Num(1)))>>,
  <<Declare(a, Braces(<<Designated(2, N)>>)), Into(Index(Name(a), Num(0)))>>,
  <<Declare(s, Braces(<<Designated(1, M)>>)), Into(Member(Name(s), 2))>>,
  <<Declare(s, Braces(<<Item(N), Item(M)>>)), Do(CopyStruct(Name(s), Compound(t, <<Item(M), Item(N)>>))),
    Into(Member(Name(s), 1))>>,
  <<Into(Cast(IntType, UnsignedSize(Name(p))))>>,
  <<Declare(p, Name(helper))>>,
  <<Declare(s, Braces(<<>>)), While(Downto(N), Into(Op("add", Member(Name(s), 1), Num(1))))>> }
MCGaps == {OneFunction(stmts) : stmts \in Gaps}

MCSources ==
  {OneFunction(<<Into(e), Show(N)>>) : e \in Expressions}
  \cup {OneFunction(j) : j \in Jumps}
  \cup {OneFunction(Objects), OneFunction(Calls) \o <<Helper>>, StructCalls}
  \cup Nested
=============================================================================
