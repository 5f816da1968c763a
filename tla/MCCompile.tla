------------------------------ MODULE MCCompile ------------------------------
(***************************************************************************)
(* Units for Compile: blocks with declarations of every size, loops and    *)
(* switches nested in each other, every kind of expression, conversion and *)
(* call, and units that break one rule each.                               *)
(***************************************************************************)
EXTENDS Compile

MCWidth == [ty \in {"char", "uchar", "short", "ushort", "int", "uint", "long", "ulong", "ptr"} |->
              CASE ty \in {"char", "uchar"} -> 3 [] ty \in {"short", "ushort"} -> 6
                [] ty \in {"int", "uint"} -> 12 [] OTHER -> 24]

MCInputs == {<<0, 0>>, <<1, 3>>, <<3, 2>>}

Local(name, ty, k) == Symbol("local", name, ty, k)
Param(name, ty, k) == Symbol("param", name, ty, k)

S2 == StructOf(IntType, 2)
S3 == StructWith(<<CharType, IntType, CharType>>)
S4 == StructOf(IntType, 4)
n  == Param("n", IntType, 1)
m  == Param("m", IntType, 2)
x  == Local("x", IntType, 3)
i  == Local("i", IntType, 4)
c  == Local("c", CharType, 5)
p  == Local("p", PointerTo(IntType), 6)
a  == Local("a", ArrayOf(IntType, 3), 7)
s  == Local("s", S2, 8)
t  == Local("t", S2, 9)
g  == Symbol("global", "g", IntType, 0)
print == Symbol("function", "print", IntType, 0)
main  == Symbol("function", "main", IntType, 1)
f     == Symbol("function", "f", IntType, 2)

Num(k)     == Literal(k, IntType)
N == Name(n)
M == Name(m)
X == Name(x)
I == Name(i)
Calc(op, l, r) == Binary(op, l, r, IntType)
Set(l, r)  == Do(Assign(l, r))
AddX(k)    == Set(X, Calc("add", Calc("mul", X, Num(3)), Num(k)))
Gain(e)    == Set(X, Calc("add", Calc("mul", X, Num(2)), e))
Show(e)    == Do(Call(print, <<e>>, IntType))
Wide(e)    == Convert(IntType, e)
ToInt(e)   == Cast(IntType, e)
Char(e)    == Convert(CharType, e)

PrintItem == PrototypeItem(print, <<Param("k", IntType, 1)>>)
Main(stmts) == FunctionItem(main, <<n, m>>, Block(stmts))
Body(stmts) == <<Declare(x, Num(0))>> \o stmts \o <<Show(X), Return(X)>>
UnitOf(stmts) == <<PrintItem, Main(Body(stmts))>>

-----------------------------------------------------------------------------
(* Scopes and frames: declarations of every size around and in blocks that *)
(* come and go, all of them read when all have been written.               *)

Types == <<CharType, IntType, LongType, PointerTo(IntType), S3, ArrayOf(CharType, 3)>>

(* Gives object sym the value k and takes it into x. *)
Fills(sym, k) ==
  CASE sym.ty = CharType -> <<Set(Name(sym), Char(Num(k)))>>
    [] sym.ty = IntType  -> <<Set(Name(sym), Num(k))>>
    [] sym.ty = LongType -> <<Set(Name(sym), Convert(LongType, Num(k)))>>
    [] sym.ty = S3       -> <<Set(Member(Name(sym), 1), Char(Num(k))), Set(Member(Name(sym), 2), Num(k)),
                              Set(Member(Name(sym), 3), Char(Num(k)))>>
    [] sym.ty.kind = "array"   -> <<Set(Index(Name(sym), Num(0)), Char(Num(k))),
                                    Set(Index(Name(sym), Num(2)), Char(Num(k)))>>
    [] sym.ty.kind = "pointer" -> <<Set(Name(sym), AddressOf(N))>>
Takes(sym) ==
  CASE sym.ty = CharType -> <<Gain(Wide(Name(sym)))>>
    [] sym.ty = LongType -> <<Gain(ToInt(Name(sym)))>>
    [] sym.ty = IntType -> <<Gain(Name(sym))>>
    [] sym.ty = S3      -> <<Gain(Wide(Member(Name(sym), 1))), Gain(Member(Name(sym), 2)),
                             Gain(Wide(Member(Name(sym), 3)))>>
    [] sym.ty.kind = "array"   -> <<Gain(Wide(Index(Name(sym), Num(0)))), Gain(Wide(Index(Name(sym), Num(2))))>>
    [] sym.ty.kind = "pointer" -> <<Gain(At(Name(sym)))>>

(* The innermost object has the name of the outermost. *)
Frames == {
  LET o == Local("o", Types[outer], 10)
      q == Local("q", Types[inner], 12)
      h == Local("o", Types[hiding], 14)
      l == Local("l", Types[later], 16)
      e == Local("q", Types[hiding], 18)
      D(sym) == Declare(sym, Nothing)
  IN <<D(o)>> \o Fills(o, 1)
       \o <<Block(<<D(q)>> \o Fills(q, 2)
              \o <<If(N, Block(<<D(h)>> \o Fills(h, 3) \o Takes(h)), Nothing)>> \o Takes(q))>>
       \o <<D(l)>> \o Fills(l, 2) 
       \o <<Block(<<D(e)>> \o Fills(e, 1) \o Takes(e))>> \o Takes(o) \o Takes(l) :
  outer \in {1, 2, 5}, inner \in 1 .. 6, hiding \in {3, 6}, later \in {1, 4, 5} }

-----------------------------------------------------------------------------
(* Control flow *)

Downto(v)  == Calc("gt", IncDec(v, "sub", FALSE), Num(0))
Loop(kind, id, v, body) ==
  CASE kind = "while"  -> While(Downto(v), body)
    [] kind = "do"     -> DoWhile(body, Downto(v))
    [] kind = "for"    -> For(Assign(I, Num(0)), Calc("lt", I, v), IncDec(I, "add", FALSE), body)
    [] kind = "forever" -> LET k == Local("j", IntType, 30 + id)
                          IN For(Declare(k, Num(0)), Nothing, Nothing,
                              Block(<<If(Calc("gt", IncDec(Name(k), "add", TRUE), v), Break, Nothing), body>>))
    [] kind = "switch" -> Switch(v, Block(<<
                              Case(id, 1, AddX(1)), Default(id + 1, body), AddX(2),
                              Case(id + 2, 3, Nothing), Case(id + 3, 2, AddX(3))>>))
Kinds == {"while", "do", "for", "forever", "switch"}

x2 == Local("x", IntType, 20)
Leaves == {
  Block(<<Continue, AddX(1)>>),
  If(Calc("gt", X, Num(4)), Block(<<Break, AddX(7)>>), 
     Block(<<Declare(x2, N), Do(IncDec(Name(x2), "add", TRUE)), Show(Name(x2))>>)),
  Goto("out") }

(* A continue in a switch in no loop is not C. *)
Nested == {
  <<Declare(i, Nothing),
    Loop(outer, 1, N, Block(<<Loop(inner, 5, M, Block(<<leaf, AddX(1)>>)), AddX(4)>>)),
    Label("out", AddX(6))>> :
  outer \in Kinds \ {"switch"}, inner \in Kinds, leaf \in Leaves }

Jumps == {
  <<Label("again", AddX(1)), If(Downto(N), Goto("again"), Nothing)>>,
  <<If(M, Goto("inside"), Nothing), While(Downto(N), Block(<<AddX(1), Label("inside", AddX(2))>>))>>,
  <<Switch(N, Block(<<Case(1, 0, Nothing),
      DoWhile(Block(<<AddX(1), Case(2, 3, AddX(2)), Case(3, 2, AddX(3))>>), Downto(M))>>))>>,
  <<Switch(N, Block(<<AddX(9), Default(1, AddX(1)), Case(2, 1, Switch(M, Block(<<
      Case(3, 3, AddX(2)), Break, Default(4, AddX(3))>>))), AddX(4), Case(5, 3, Break), AddX(5)>>))>>,
  <<Switch(M, Nothing), Return(Num(3))>> }

-----------------------------------------------------------------------------
(* Expressions *)

Bump(e) == IncDec(e, "add", FALSE)
u  == Local("u", UIntType, 21)
U  == Name(u)
uc == Local("uc", UCharType, 22)
sh == Local("sh", ShortType, 23)
us == Local("us", UShortType, 31)
l  == Local("l", LongType, 24)
UCalc(op, e, d) == Binary(op, e, d, UIntType)
Unsigned(e) == Convert(UIntType, e)

Numbers == {
  Calc("sub", Calc("mul", N, Num(2)), M), Calc("div", Num(6), M), Calc("mod", Calc("sub", N, Num(7)), M),
  Calc("xor", Calc("and", N, Num(6)), Calc("or", M, Num(9))),
  Calc("shr", Calc("shl", Calc("sub", N, Num(9)), M), Num(1)), Unary("neg", Unary("complement", N)),
  And(Calc("div", N, M), Bump(N)), Or(M, Comma(Bump(N), N)), And(Or(N, M), Unary("lognot", Bump(M))),
  Conditional(N, Calc("div", Num(8), N), Calc("add", M, Num(1))),
  Assign(M, Assign(N, Calc("add", N, Num(1)))),
  Calc("add", IncDec(N, "sub", FALSE), IncDec(M, "sub", TRUE)),
  Calc("le", Calc("mul", M, M), Calc("ge", N, M)), Calc("add", Calc("eq", N, M), Calc("lt", M, N)) }

Conversions == <<
  Declare(c, Char(Calc("sub", N, Num(6)))), Gain(Wide(Name(c))), Do(IncDec(Name(c), "sub", TRUE)),
  Gain(Wide(Bump(Name(c)))), Gain(Unary("neg", Wide(Name(c)))),
  Declare(uc, Convert(UCharType, Calc("sub", N, Num(2)))), Gain(Calc("lt", Wide(Name(uc)), Num(0))),
  Gain(Calc("sub", Wide(Name(uc)), Wide(Name(c)))),
  Declare(sh, Convert(ShortType, Calc("mul", M, Num(40)))), Gain(Wide(Name(sh))),
  Gain(Calc("sub", Unary("neg", Wide(Name(sh))), Calc("shl", Wide(Name(sh)), Wide(Name(c))))),
  Declare(us, Convert(UShortType, Calc("sub", N, Num(2)))), Gain(Calc("lt", Wide(Name(us)), Num(0))),
  Gain(Calc("shr", Wide(IncDec(Name(us), "sub", TRUE)), Num(2))),
  Gain(Wide(Cast(UShortType, Calc("mul", N, Num(50))))),
  Declare(u, Unsigned(Calc("sub", N, Num(2)))),
  Gain(Binary("gt", U, Unsigned(Num(5)), IntType)), Gain(ToInt(UCalc("shr", U, Num(9)))),
  Gain(ToInt(UCalc("div", U, Unsigned(Num(7))))), Gain(ToInt(UCalc("mod", Unsigned(M), U))),
  Declare(l, Convert(LongType, Calc("sub", N, Num(2)))), Gain(ToInt(Name(l))),
  Gain(Binary("lt", Name(l), Convert(LongType, M), IntType)),
  Set(U, Convert(UIntType, Name(l))), Gain(ToInt(UCalc("shr", U, Num(10)))),
  Gain(Calc("add", Wide(Cast(CharType, Calc("mul", N, Num(3)))), Num(1))) >>

(* A struct is reached through a pointer, and the elements of an array of  *)
(* structs by subscripts.                                                  *)
ps == Local("ps", PointerTo(S2), 32)
sv == Local("sv", ArrayOf(S2, 2), 33)
Q  == Name(p)
Plus(e, k) == Binary("add", e, k, PointerTo(IntType))
Objects == <<
  Declare(a, Braces(<<Designated(2, N), Designated(1, Calc("add", N, M))>>)),
  Declare(p, Nothing), Set(Q, Plus(AddressOf(Index(Name(a), Num(0))), Num(0))),
  Set(At(Plus(Q, Num(2))), Calc("sub", Index(Name(a), Num(1)), Num(1))),
  Gain(Index(Name(a), Num(2))), Gain(Index(Name(a), Num(0))), Gain(Bump(Index(Name(a), Num(1)))),
  Gain(IncDec(Index(Name(a), Num(1)), "sub", TRUE)), Gain(Index(Q, Num(1))),
  Gain(ToInt(Binary("sub", Plus(Q, Num(2)), Q, LongType))), Set(Q, Plus(Num(1), Q)),
  Set(Q, Binary("sub", Q, Num(1), PointerTo(IntType))), Gain(At(Q)),
  Declare(s, Braces(<<Item(N), Item(M)>>)), Declare(t, Braces(<<Designated(2, M)>>)),
  Set(Name(t), Name(s)), Do(IncDec(Member(Name(t), 2), "add", FALSE)), Gain(Member(Name(t), 2)),
  Gain(Member(Name(s), 2)), Set(Name(s), Compound(Local("", S2, 25), <<Item(Num(4)), Item(N)>>)),
  Gain(Calc("sub", Member(Name(s), 1), Member(Name(s), 2))),
  Gain(Cast(IntType, SizeOf(Name(s)))),
  Declare(ps, AddressOf(Name(s))), Gain(Member(At(Name(ps)), 2)), Set(Member(At(Name(ps)), 1), M),
  Declare(sv, Nothing), Set(Name(ps), AddressOf(Index(Name(sv), Num(1)))),
  Set(Member(Index(Name(sv), Num(1)), 2), Member(Name(s), 1)), Gain(Member(At(Name(ps)), 2)) >>

-----------------------------------------------------------------------------
(* Calls: in registers and on the stack, structs in and out, by pointer.   *)

CallOf(sym, args) == Call(sym, args, sym.ty)
Pay(k, ty) == Param(<<"a", "b", "c", "d", "e", "k", "q", "r">>[k], ty, k)
Weighted(params, count) ==
  LET sum[k \in 1 .. count] == IF k = 1 THEN Name(params[1])
                               ELSE Calc("add", Calc("mul", sum[k - 1], Num(2)), Name(params[k]))
  IN sum[count]
Ints(count) == [k \in 1 .. count |-> Pay(k, IntType)]

(* A callee that calls on, with count parameters and a frame of its own.   *)
Many(count) ==
  LET x9 == Local("x", IntType, 9)
  IN FunctionItem(f, Ints(count), Block(<<Declare(x9, Weighted(Ints(count), count)),
                                          Show(Name(x9)), Return(Name(x9))>>))

CallsMany == {
  <<PrintItem,
    Main(Body(<<Set(X, CallOf(f, [k \in 1 .. count |-> Calc("add", IF k = 1 THEN N ELSE Num(k), M)])),
                Show(X)>>)),
    Many(count)>> : count \in {1, 6, 7, 8} }

sp   == Param("s", S2, 10)
tp   == Param("t", S3, 11)
swap == Symbol("function", "swap", S2, 2)
sum  == Symbol("function", "sum", IntType, 3)
S4t  == Local("w", S4, 26)
four == Symbol("function", "four", S4, 4)
back == Symbol("function", "back", S2, 5)
Four == FunctionItem(four, <<n>>, Block(<<
  Declare(S4t, Braces(<<Item(N), Item(Num(7)), Designated(4, Calc("add", N, Num(1)))>>)),
  Return(Name(S4t))>>))
StructCalls == <<
  StructItem(S2), StructItem(S3), StructItem(S4), PrintItem,
  Main(Body(<<
    Declare(s, Braces(<<Item(N), Item(M)>>)), Declare(t, CallOf(swap, <<Name(s)>>)),
    Gain(Member(Name(t), 1)), Set(Name(s), CallOf(back, <<Name(t)>>)), Gain(Member(Name(s), 1)),
    Declare(Local("d", S3, 27), Nothing), Set(Member(Name(Local("d", S3, 27)), 2), M),
    Set(Member(Name(Local("d", S3, 27)), 1), Char(Num(3))), Set(Member(Name(Local("d", S3, 27)), 3), Char(N)),
    Gain(CallOf(sum, <<Name(s), Name(Local("d", S3, 27)), Num(5)>>)),
    Declare(S4t, CallOf(four, <<N>>)), Gain(Member(Name(S4t), 4)), Gain(Member(Name(S4t), 1)),
    Gain(Member(Name(s), 2)),
    Gain(CallOf(sum, <<Compound(Local("", S2, 28), <<Designated(2, Num(3))>>),
                       Name(Local("d", S3, 27)), Num(1)>>)) >>)),
  FunctionItem(swap, <<sp>>, Block(<<
    Declare(t, Braces(<<Item(Member(Name(sp), 2)), Item(Member(Name(sp), 1))>>)), Return(Name(t))>>)),
  FunctionItem(sum, <<sp, tp, m>>, Block(<<
    Return(Calc("add", Calc("add", Calc("mul", Member(Name(sp), 1), Num(3)), Member(Name(tp), 2)),
                Calc("mul", Calc("add", M, Wide(Member(Name(tp), 3))), Num(2))))>>)),
  Four,
  FunctionItem(back, <<sp>>, Block(<<Return(CallOf(swap, <<Name(sp)>>))>>)) >>

fp    == Local("fp", PointerTo(FunctionType(IntType)), 29)
lp    == Param("l", LongType, 12)
cp    == Param("c", CharType, 13)
tiny  == Symbol("function", "tiny", CharType, 3)
quiet == Symbol("function", "quiet", VoidType, 4)
fact  == Symbol("function", "fact", IntType, 5)
past  == Symbol("function", "past", PointerTo(IntType), 6)
pp    == Param("p", PointerTo(IntType), 14)
OtherCalls == <<
  PrototypeItem(fact, <<n>>), PrintItem, PrintItem,
  Main(Body(<<
    Declare(fp, Name(f)), Gain(Call(fp, <<N, M>>, IntType)),
    Gain(Wide(CallOf(tiny, <<Convert(LongType, N), Char(Calc("sub", M, Num(4)))>>))),
    Do(CallOf(quiet, <<>>)), Gain(CallOf(fact, <<N>>)),
    Declare(a, Braces(<<Item(N), Item(M)>>)), Declare(p, AddressOf(Index(Name(a), Num(1)))),
    Set(At(CallOf(past, <<Q>>)), Num(6)), Gain(Index(Name(a), Num(2))) >>)),
  FunctionItem(f, <<n, m>>, Block(<<If(M, Return(Calc("sub", Calc("mul", N, Num(2)), M)), Nothing)>>)),
  FunctionItem(tiny, <<lp, cp>>, Block(<<
    If(Binary("gt", Name(lp), Convert(LongType, Num(0)), IntType), Return(Name(cp)), Nothing),
    Return(Convert(CharType, Name(lp)))>>)),
  FunctionItem(quiet, <<>>, Block(<<Return(Nothing)>>)),
  FunctionItem(fact, <<n>>, Block(<<
    If(Calc("gt", N, Num(0)), Return(Calc("mul", N, CallOf(fact, <<Calc("sub", N, Num(1))>>))), Nothing),
    Return(Num(1))>>)),
  FunctionItem(past, <<pp>>, Block(<<Return(Plus(Name(pp), Num(1)))>>)) >>

-----------------------------------------------------------------------------
(* Globals *)

gc == Symbol("global", "gc", CharType, 1)
gl == Symbol("global", "gl", LongType, 2)
ga == Symbol("global", "ga", ArrayOf(ShortType, 3), 3)
gs == Symbol("global", "gs", StructOf(CharType, 2), 4)
gu == Symbol("global", "gu", UCharType, 5)
gw == Symbol("global", "gw", UShortType, 6)
Globals == <<
  StructItem(StructOf(CharType, 2)), PrintItem,
  GlobalItem(g, Conditional(And(Num(1), Unary("lognot", Num(0))), Calc("div", Num(-7), Num(2)), Comma(Num(1), Num(2)))),
  GlobalItem(gc, Char(Calc("add", Num(1), Num(9)))), GlobalItem(gl, Convert(LongType, Unary("neg", Num(3)))),
  GlobalItem(ga, Braces(<<Item(Convert(ShortType, Num(30))), Item(Convert(ShortType, Or(Num(0), Num(4))))>>)),
  GlobalItem(gs, Nothing), GlobalItem(gu, Convert(UCharType, Unary("complement", Num(0)))),
  GlobalItem(gw, Convert(UShortType, Unary("complement", Num(0)))),
  Main(Body(<<
    Gain(Name(g)), Gain(Wide(Name(gc))), Gain(ToInt(Name(gl))), Gain(Wide(Name(gu))), Gain(Wide(Name(gw))),
    Gain(Wide(Index(Name(ga), Num(0)))), Gain(Wide(Index(Name(ga), Num(1)))), Gain(Wide(Index(Name(ga), Num(2)))),
    Set(Index(Name(ga), N), Convert(ShortType, Num(5))), Gain(Wide(Index(Name(ga), Num(1)))),
    Do(Bump(Name(g))), Set(Name(gc), Char(Num(-3))), Set(Member(Name(gs), 2), Char(N)), Gain(Name(g)),
    Gain(Wide(Name(gc))), Gain(Wide(Member(Name(gs), 1))), Do(IncDec(Name(gl), "add", TRUE)),
    Gain(ToInt(Name(gl))) >>)) >>

-----------------------------------------------------------------------------
(* Units that break a rule, or very nearly do *)

Inner(stmts) == Block(stmts)
D(sym) == Declare(sym, Nothing)
i2 == Local("i", IntType, 20)
n2 == Local("n", IntType, 20)
Near == {
  <<D(i), Inner(<<D(i2)>>), Set(I, N)>>, <<D(i), Set(I, N), D(i2)>>, <<Inner(<<D(i)>>), Set(I, N)>>,
  <<D(n2)>>, <<Inner(<<D(n2), Set(Name(n2), M)>>), Show(N)>>,
  <<For(Declare(i, Num(0)), Calc("lt", I, N), Bump(I), Nothing), Set(I, N)>>,
  <<For(Declare(i, Num(0)), Calc("lt", I, N), Bump(I), Block(<<D(i2)>>))>>,
  <<Set(I, N), D(i)>>, <<Declare(i, I)>>,
  <<Break>>, <<While(N, Break), Break>>, <<While(N, Block(<<If(M, Break, Continue)>>))>>,
  <<DoWhile(Nothing, N), If(M, Continue, Nothing)>>, <<Switch(N, Block(<<Case(1, 1, Break)>>)), Break>>,
  <<For(Nothing, Num(0), Nothing, Inner(<<While(M, Nothing), Break>>))>>,
  <<Do(Call(print, <<N, M>>, IntType))>>, <<Do(Call(print, <<>>, IntType))>>, <<Do(Call(f, <<N>>, IntType))>>,
  <<D(i), Do(Call(i, <<N>>, IntType))>>, <<D(p), Show(Name(p))>>, <<D(p), Set(Name(p), N)>>,
  <<D(p), Set(X, Name(p))>>, <<Declare(p, N)>>, <<D(a), Set(Name(a), N)>>,
  <<D(s)>>, <<Inner(<<D(Local("print", IntType, 30)), Set(Name(Local("print", IntType, 30)), N)>>), Show(N)>>,
  <<Inner(<<D(Local("print", IntType, 30)), Show(N)>>)>> }

Twice == {
  <<GlobalItem(g, Nothing), GlobalItem(g, Nothing)>>, <<GlobalItem(g, Num(1)), PrototypeItem(f, <<>>)>>,
  <<PrototypeItem(f, <<n>>), PrototypeItem(f, <<n>>), FunctionItem(f, <<n>>, Block(<<Return(N)>>))>>,
  <<FunctionItem(f, <<n>>, Block(<<>>)), PrototypeItem(f, <<n>>), FunctionItem(f, <<n>>, Block(<<>>))>>,
  <<StructItem(S2), StructItem(S2)>>, <<GlobalItem(Symbol("global", "f", IntType, 1), Nothing), PrototypeItem(f, <<n>>)>>,
  <<GlobalItem(gs, Nothing)>>, <<GlobalItem(g, Name(gc)), GlobalItem(gc, Nothing)>>,
  <<FunctionItem(f, <<n, n>>, Block(<<>>))>>, <<FunctionItem(f, <<n>>, Block(<<D(Local("n", IntType, 5))>>))>> }

(* What the generator has no code for. *)
Unsupported == {
  <<StructItem(S2)>> \o UnitOf(<<D(s), D(t), Set(Name(s), Conditional(N, Name(s), Name(t)))>>),
  UnitOf(<<Set(X, Compound(Local("", IntType, 9), <<Item(N)>>))>>),
  <<StructItem(S2), GlobalItem(Symbol("global", "gt", S2, 1), Braces(<<Item(Num(1))>>)), Main(<<>>)>> }

MCSources ==
  {UnitOf(e) : e \in Jumps \cup Nested \cup Near \cup {Conversions}}
  \cup {<<StructItem(S3)>> \o UnitOf(e) : e \in Frames}
  \cup {UnitOf(<<D(i), Set(I, e), Gain(I), Gain(N), Gain(M)>>) : e \in Numbers}
  \cup {<<StructItem(S2)>> \o UnitOf(Objects)}
  \cup CallsMany \cup {StructCalls, OtherCalls, Globals}
  \cup {<<PrintItem, Main(Body(<<>>))>> \o items : items \in Twice}
  \cup Unsupported

(* A parameter, a block, and a local declared when the block is gone. *)
MCFrameSources == 
  {<<Main(<<Block(<<Declare(i, N)>>), Declare(c, Char(Num(1))), Return(N)>>)>>}

(* The symbols these units declare. *)
RECURSIVE SymbolsIn(_)
SymbolsIn(st) ==
  CASE st.type = "declaration" -> {st.sym}
    [] st.type = "block" -> UNION {SymbolsIn(st.body[k]) : k \in DOMAIN st.body}
    [] st.type = "if"    -> SymbolsIn(st.then) \cup SymbolsIn(st.else)
    [] st.type = "for"   -> SymbolsIn(st.init) \cup SymbolsIn(st.body)
    [] st.type \in {"while", "do", "switch", "label", "case", "default"} -> SymbolsIn(st.body)
    [] OTHER -> {}
SymbolsOf(item) ==
  IF item.item # "function" THEN {}
  ELSE SymbolsIn(item.body) \cup {item.params[k] : k \in DOMAIN item.params}
AllSymbols == UNION {UNION {SymbolsOf(src[k]) : k \in DOMAIN src} : src \in MCSources \cup MCFrameSources}
MCDeclarations == {sym \in AllSymbols : IsLocal(sym)}
=============================================================================
