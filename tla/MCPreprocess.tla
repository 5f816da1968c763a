----------------------------- MODULE MCPreprocess -----------------------------
(***************************************************************************)
(* Whether Preprocess does what C says.  A source is either a sequence of  *)
(* lines, each of a kind, in which groups need not be well formed, or a    *)
(* tree of CPreprocessing.  The sources are every sequence of up to        *)
(* MaxLines lines that open, continue and close groups, and trees that use *)
(* every directive, operator and kind of macro.                            *)
(***************************************************************************)
EXTENDS Preprocess, CPreprocessing, PpCondition

LOCAL INSTANCE TLC

FromTrees(main, trees) ==
  [main |-> main, files |-> [p \in DOMAIN trees |-> LinesOf(trees[p])], trees |-> trees, lines |-> <<>>]

-----------------------------------------------------------------------------
(* Lines *)

One == NumTok("1")
TextAt(k) == PpToken("id", <<"line", ToString(k)>>)

LineAt(kind, k) ==
  CASE kind = "yes"   -> DirectiveLine(<<Keyword("if"), One>>)
    [] kind = "no"    -> DirectiveLine(<<Keyword("if"), NumTok("0")>>)
    [] kind = "elif"  -> DirectiveLine(<<Id("elif"), One>>)
    [] kind = "else"  -> DirectiveLine(<<Keyword("else")>>)
    [] kind = "endif" -> DirectiveLine(<<Id("endif")>>)
    [] kind = "text"  -> StartLine(<<TextAt(k)>>)

FromLines(ls, main) ==
  [main |-> main, files |-> (main :> FlattenSeq([k \in DOMAIN ls |-> LineAt(ls[k], k)])),
   trees |-> <<>>, lines |-> ls]

Opens(l)    == l \in {"yes", "no"}
Branches(l) == l \in {"yes", "no", "elif", "else"}

(* The depth of line k: of a branch, the group it is a branch of. *)
DepthAt(ls, k) == Cardinality({j \in 1 .. k : Opens(ls[j])})
                  - Cardinality({j \in 1 .. k - 1 : ls[j] = "endif"})

(* The branches of a group follow one another without a line outside it.   *)
SameGroup(ls, j, k) ==
  /\ DepthAt(ls, j) = DepthAt(ls, k) /\ j <= k
  /\ \A i \in j + 1 .. k : DepthAt(ls, i) >= DepthAt(ls, j) /\ (DepthAt(ls, i) = DepthAt(ls, j) => ~ Opens(ls[i]))

WellFormed(ls) ==
  /\ \A k \in DOMAIN ls :
       /\ ls[k] \in {"elif", "else", "endif"} => DepthAt(ls, k) > 0
       /\ DepthAt(ls, k) <= MaxGroups
       /\ ls[k] \in {"elif", "else"} =>
            ~ \E j \in 1 .. k - 1 : ls[j] = "else" /\ SameGroup(ls, j, k)
  /\ Cardinality({k \in DOMAIN ls : Opens(ls[k])}) = Cardinality({k \in DOMAIN ls : ls[k] = "endif"})

(* The branch taken is the first whose condition holds. *)
IsTaken(ls, k) ==
  /\ ls[k] # "no"
  /\ \A j \in 1 .. k - 1 : Branches(ls[j]) /\ SameGroup(ls, j, k) => ls[j] = "no"

(* Line k is in branch j when no other branch and no end comes between.    *)
InBranch(ls, j, k) ==
  /\ Branches(ls[j]) /\ j < k
  /\ \A i \in j + 1 .. k : ls[i] # "text" => DepthAt(ls, i) > DepthAt(ls, j)

Selected(ls) ==
  SelectSeq([k \in DOMAIN ls |-> k],
            LAMBDA k : ls[k] = "text" /\ \A j \in DOMAIN ls : InBranch(ls, j, k) => IsTaken(ls, j))

(***************************************************************************)
(* A sequence of lines is diagnosed exactly when its groups are not well   *)
(* formed or nest too deeply, and otherwise what reaches the parser is     *)
(* each line all of whose branches are the first that hold.                *)
(***************************************************************************)
GroupsSelectOneBranch ==
  Done /\ source.lines # <<>> =>
    /\ failed <=> ~ WellFormed(source.lines)
    /\ ~ failed => Bare(output) = LET ks == Selected(source.lines)
                                  IN Bare([k \in DOMAIN ks |-> TextAt(ks[k])])

(***************************************************************************)
(* What reaches the parser is what C says the source is preprocessed to,   *)
(* and a source is diagnosed exactly when C finds an error in it:          *)
(* scripts/test.sh:380 compares the output with that of the system cpp,    *)
(* token for token.                                                        *)
(***************************************************************************)
PreprocessesAsC ==
  Done /\ source.trees # <<>> =>
    LET c == CPreprocess([files |-> source.trees, searchPath |-> SearchPath, predefined |-> Predefined,
                          maxIncludes |-> MaxIncludes], source.main)
    IN failed = c.bad /\ (~ failed => Bare(output) = c.out)

-----------------------------------------------------------------------------
Main == <<"src", <<"main">>>>
MCSearchPath == <<"inc", <<"sys">>>>
MCPredefined == (<<"STDC">> :> [isFunction |-> FALSE, params |-> <<>>, body |-> <<One>>])

-----------------------------------------------------------------------------
(* Groups *)

MaxLines == 5
LineKinds == {"yes", "no", "elif", "else", "endif", "text"}
LineSources == {FromLines(ls, Main) : ls \in UNION {[1 .. len -> LineKinds] : len \in 1 .. MaxLines}}

-----------------------------------------------------------------------------
(* Macros *)

Comma == Punct(",")
Open  == Punct("(")
Close == Punct(")")
Plus  == Punct("+")
Num(k) == NumTok(ToString(k))
CallOf(name, args) == <<Id(name), Open>> \o Separated(args) \o <<Close>>

Object(name, body)         == DefineName(<<name>>, body)
Function(name, ps, body)   == DefineCall(<<name>>, [k \in DOMAIN ps |-> <<ps[k]>>], body)

(* e and o mention themselves, p and q each other, f and g call each other. *)
MacroTable == <<
  Object("e", <<Id("e"), Plus, Id("o")>>), Object("o", <<Id("e"), Num(1)>>),
  Object("p", <<Open, Id("q"), Close>>), Object("q", <<Id("p"), Plus, Id("p")>>),
  Object("n", <<>>), Object("l", <<Id("n"), Id("one"), Id("n")>>), Object("one", <<One>>),
  Function("f", <<"x">>, <<Id("x"), Plus>> \o CallOf("g", <<<<Id("x"), Id("f")>>, <<One>>>>)),
  Function("g", <<"x", "y">>, <<Id("y")>> \o CallOf("f", <<<<Id("x")>>>>) \o <<Id("x")>>),
  Function("z", <<>>, <<Id("one")>>),
  Function("str", <<"x">>, <<Punct("#"), Id("x"), Id("x")>>),
  Function("cat", <<"x", "y">>, <<Id("x"), Punct("##"), Id("y")>>),
  Function("tie", <<"x">>, <<Id("v"), Punct("##"), Id("x"), Punct("##"), Num(2), Id("x")>>),
  DefineName(<<"v", "w">>, <<Num(7)>>), DefineName(<<"v", "n", "2">>, <<Num(8), Id("one")>>) >>

Lines == {
  <<Id("e")>>, <<Id("o"), Id("e")>>, <<Id("p")>>, <<Id("q"), Id("p")>>,
  <<Id("n")>>, <<Id("l"), Plus, Id("l")>>, <<Id("STDC"), Id("k")>>,
  CallOf("f", <<<<Num(2)>>>>), CallOf("g", <<<<Id("one")>>, <<Num(3)>>>>),
  CallOf("f", <<<<>>>>) \o CallOf("f", <<<<Id("l")>>>>),
  CallOf("f", <<CallOf("z", <<>>)>>), CallOf("str", <<CallOf("z", <<>>)>>),
  CallOf("z", <<>>) \o <<Id("z")>>, <<Id("f"), Plus, Id("f")>>, <<Open>> \o CallOf("f", <<<<Id("g")>>>>) \o <<Close>>,
  CallOf("str", <<<<Id("one"), Open, Comma, Close>>>>), CallOf("str", <<<<>>>>),
  CallOf("cat", <<<<Id("v")>>, <<Id("w")>>>>), CallOf("cat", <<<<Id("v")>>, <<>>>>),
  CallOf("cat", <<<<Id("v"), Id("v")>>, <<Id("w"), Id("w")>>>>),
  CallOf("cat", <<<<Open, Id("v")>>, <<Id("one"), Close>>>>),
  CallOf("tie", <<<<Id("n")>>>>), CallOf("tie", <<<<Id("w")>>>>),
  CallOf("cat", <<<<Num(1)>>, <<Num(2)>>>>), CallOf("cat", <<<<Id("v")>>, <<Num(2)>>>>),
  CallOf("g", <<<<Open, Num(1), Comma, Num(2), Close>>, <<CallOf("z", <<>>)[1]>>>>),
  CallOf("f", <<<<One>>, <<One>>>>), CallOf("g", <<<<One>>>>), CallOf("z", <<<<One>>>>) }

MacroTrees == {
  MacroTable \o <<TextItem(<<line>>), UndefItem(<<"one">>), UndefItem(<<"none">>),
                  Object("f", <<Id("x")>>), TextItem(<<<<Id("f"), Id("one")>>, line>>)>> : line \in Lines}

-----------------------------------------------------------------------------
(* Conditions *)

N(k) == NumCond(k)
B(op, l, r) == BinaryCond(op, l, r)
U(op, e) == UnaryCond(op, e)
BinaryOps == {"||", "&&", "|", "^", "&", "==", "<", ">=", "<<", ">>", "+", "-", "*", "/", "%"}

Conditions ==
  {B(op, B(op2, N(5), N(2)), N(3)) : op, op2 \in BinaryOps}
  \cup {B(op, N(5), B(op2, N(3), N(2))) : op, op2 \in BinaryOps \ {">>", "<", "==", ">=", "&&", "&", "||"}}
  \cup {B("==", U("-", N(7)), B("/", U("-", U("-", N(7))), N(2))), B("<", B("%", U("-", N(7)), N(2)), N(0)),
        B("==", U("~", N(0)), U("-", N(1))), U("!", B("&&", N(0), DefinedCond("one", TRUE))),
        ChoiceCond(N(0), N(1), ChoiceCond(N(0), N(1), N(0))), ChoiceCond(N(1), ChoiceCond(N(0), N(1), N(0)), N(1)),
        ChoiceCond(ChoiceCond(N(0), N(0), N(1)), B("||", N(0), N(0)), N(1)), B("+", ChoiceCond(N(0), N(1), N(0)), N(1)),
        DefinedCond("one", FALSE), B("&&", DefinedCond("n", TRUE), U("!", DefinedCond("none", FALSE))),
        B("-", NameCond("one"), NameCond("chain")), B("||", NameCond("none"), U("!", NameCond("n"))), NameCond("e")}

ConditionTrees == {
  << Object("one", <<One>>), Object("chain", <<Id("one")>>), Object("n", <<Num(0)>>), Object("e", <<Id("e")>>),
     GroupItem(<<Part("if", c, <<TextItem(<<<<Id("then")>>>>), Object("one", <<>>)>>),
                 Part("elif", U("!", NameCond("one")), <<ErrorItem>>),
                 Part("elif", DefinedCond("chain", TRUE), <<UndefItem(<<"one">>)>>)>>),
     GroupItem(<<Part("ifdef", "one", <<TextItem(<<<<Id("one"), Id("k")>>>>)>>),
                 Part("else", N(0), <<TextItem(<<<<Id("one"), Id("j")>>>>)>>)>>) >> : c \in Conditions}

-----------------------------------------------------------------------------
(* Files *)

Marked(name, items) == <<TextItem(<<<<Id(name), Id("count")>>>>)>> \o items
Guarded(name, items) == <<GroupItem(<<Part("ifndef", name, <<Object(name, <<>>)>> \o items)>>)>>
Quoted(name) == IncludeItem(<<name>>, FALSE)
Angled(name) == IncludeItem(<<name>>, TRUE)

Bodies == {
  <<OnceItem>> \o Marked("t", <<Quoted("b")>>), Guarded("guard", Marked("t", <<Quoted("a"), Angled("b")>>)),
  Marked("t", <<Quoted("a")>>), Marked("t", <<Object("count", <<Num(2)>>)>>), <<NoteItem("pragma")>> }

FileTrees == {
  (Main :> <<Object("count", <<One>>), first, TextItem(<<<<Id("count")>>, <<Id("main")>>>>), second, NoteItem("line"),
             NoteItem("warning"), TextItem(<<<<Id("count")>>>>)>>)
  @@ (<<"src", <<"a">>>> :> one) @@ (<<"inc", <<"a">>>> :> two) @@ (<<"inc", <<"b">>>> :> three) @@ (<<"sys", <<"b">>>> :> <<ErrorItem>>)
  : first \in {Quoted("a"), Angled("a")}, second \in {Quoted("a"), Angled("a"), Angled("c")}, one, two, three \in Bodies }

(* Directives with something wrong, and the one that says nothing.        *)
WrongWords == {
  <<Id("define")>>, <<Id("undef")>>, <<Id("ifdef")>>, <<Id("nonsense")>>,
  <<Id("include")>>, <<Id("include"), Punct("<"), Id("a")>>,
  <<Id("define"), Id("f"), Glued(Open), One, Close>>,
  <<Keyword("if"), Id("defined"), Open, Id("x")>>, <<Keyword("if"), One, Punct("/"), Num(0)>>,
  <<Keyword("if"), Open, One>>, <<Keyword("if"), Punct("*")>>, <<Keyword("if"), One, Punct("?"), One>> }

DirectiveTrees == {<<TextItem(<<<<Id("x")>>>>), BareItem>>} \cup {<<WrongItem(ws)>> : ws \in WrongWords}

TreeSources ==
  {FromTrees(Main, Main :> t) : t \in MacroTrees \cup ConditionTrees \cup DirectiveTrees} \cup {FromTrees(Main, t) : t \in FileTrees}

MCSources == LineSources \cup TreeSources

-----------------------------------------------------------------------------
(* Macros replaced otherwise than C replaces them. *)

Differences == {
  <<Function("inc", <<"x">>, <<Id("x"), Plus, One>>),
    TextItem(<<CallOf("inc", <<CallOf("inc", <<<<One>>>>)>>)>>)>>,
  <<Function("inc", <<"x">>, <<Id("x"), Plus, One>>), Object("alias", <<Id("inc")>>),
    TextItem(<<CallOf("alias", <<<<One>>>>)>>)>>,
  <<Function("cat", <<"x", "y">>, <<Id("x"), Punct("##"), Id("y")>>), Object("k", <<One>>),
    TextItem(<<CallOf("cat", <<<<Id("k")>>, <<Num(2)>>>>)>>)>>,
  <<Function("id", <<"x">>, <<Id("x")>>), Object("k", <<Id("k"), Plus, One>>),
    TextItem(<<CallOf("id", <<<<Id("k")>>>>)>>)>> }

MCDifferences == {FromTrees(Main, Main :> t) : t \in Differences}
=============================================================================
