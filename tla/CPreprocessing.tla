---------------------------- MODULE CPreprocessing ----------------------------
(***************************************************************************)
(* What C says preprocessing does, of sources given as trees: a group is   *)
(* an item with its branches inside, a condition is an expression tree.    *)
(* Macros are replaced by the hide-set algorithm: a token carries the      *)
(* names it came out of and is not replaced by those, and what a macro is  *)
(* replaced by is scanned together with the rest of the text.              *)
(*                                                                         *)
(* LinesOf prints a tree as the tokens of a file.                          *)
(***************************************************************************)
EXTENDS Integers, SequencesExt

LOCAL INSTANCE TLC

-----------------------------------------------------------------------------
(* Tokens and trees *)

PpToken(kind, text) == [kind |-> kind, text |-> text, place |-> "apart"]
Id(s)    == PpToken("id", <<s>>)
NumTok(s) == PpToken("num", <<s>>)
Punct(s) == PpToken("punct", <<s>>)
Glued(t) == [t EXCEPT !.place = "joined"]

TextItem(lines)         == [item |-> "text", lines |-> lines]
DefineName(name, body)  == [item |-> "define", name |-> name, isFunction |-> FALSE, params |-> <<>>, body |-> body]
DefineCall(name, params, body) ==
  [item |-> "define", name |-> name, isFunction |-> TRUE, params |-> params, body |-> body]
UndefItem(name)         == [item |-> "undef", name |-> name]
IncludeItem(name, angled) == [item |-> "include", name |-> name, angled |-> angled]
OnceItem  == [item |-> "once"]
ErrorItem == [item |-> "error"]
BareItem  == [item |-> "bare"]                              \* a # alone
WrongItem(words) == [item |-> "wrong", words |-> words]     \* a directive C does not allow
NoteItem(directive) == [item |-> "note", directive |-> directive]   \* #warning, #line, other pragmas
(* parts: [test, cond, items], the first opening the group. *)
GroupItem(parts) == [item |-> "group", parts |-> parts]
Part(test, cond, items) == [test |-> test, cond |-> cond, items |-> items]

NumCond(k)         == [op |-> "num", tok |-> NumTok(ToString(k)), val |-> k]   \* one digit
NameCond(name)     == [op |-> "name", name |-> name]
DefinedCond(name, parens) == [op |-> "defined", name |-> name, parens |-> parens]
UnaryCond(op, x)   == [op |-> op, args |-> <<x>>]
BinaryCond(op, l, r) == [op |-> op, args |-> <<l, r>>]
ChoiceCond(c, l, r) == [op |-> "?", args |-> <<c, l, r>>]

-----------------------------------------------------------------------------
(* Printing *)

StartLine(ts) == <<[ts[1] EXCEPT !.place = "first"]>> \o Tail(ts)
DirectiveLine(ts) == StartLine(<<Punct("#")>> \o ts)

Separated(tss) ==
  FlattenSeq([k \in DOMAIN tss |-> IF k = 1 THEN tss[k] ELSE <<Punct(",")>> \o tss[k]])

Levels == << {"?"}, {"||"}, {"&&"}, {"|"}, {"^"}, {"&"}, {"==", "!="}, {"<", "<=", ">", ">="},
             {"<<", ">>"}, {"+", "-"}, {"*", "/", "%"} >>
Level(c) ==
  IF "args" \notin DOMAIN c \/ Len(c.args) = 1 THEN Len(Levels) + 1
  ELSE CHOOSE k \in DOMAIN Levels : c.op \in Levels[k]

Within(ts, level, min) == IF level >= min THEN ts ELSE <<Punct("(")>> \o ts \o <<Punct(")")>>

RECURSIVE CondTokens(_)
CondTokens(c) ==
  CASE c.op = "num"  -> <<c.tok>>
    [] c.op = "name" -> <<Id(c.name)>>
    [] c.op = "defined" -> <<Id("defined")>> \o (IF c.parens THEN <<Punct("("), Id(c.name), Punct(")")>>
                                                             ELSE <<Id(c.name)>>)
    [] "args" \in DOMAIN c ->
         LET arg == [k \in DOMAIN c.args |-> CondTokens(c.args[k])]
             of  == [k \in DOMAIN c.args |-> Level(c.args[k])]
         IN IF c.op = "?" THEN Within(arg[1], of[1], 2) \o <<Punct("?")>> \o arg[2] \o <<Punct(":")>> \o arg[3]
            ELSE IF Len(c.args) = 1 THEN <<Punct(c.op)>> \o Within(arg[1], of[1], Level(c))
            ELSE Within(arg[1], of[1], Level(c)) \o <<Punct(c.op)>> \o Within(arg[2], of[2], Level(c) + 1)

Keyword(s) == IF s \in {"if", "else"} THEN PpToken("keyword", <<s>>) ELSE Id(s)

LineOf(it) ==
  CASE it.item = "text"   -> FlattenSeq([k \in DOMAIN it.lines |-> StartLine(it.lines[k])])
    [] it.item = "define" ->
         DirectiveLine(<<Id("define"), PpToken("id", it.name)>> \o
           (IF it.isFunction
              THEN <<Glued(Punct("("))>> \o Separated([k \in DOMAIN it.params |-> <<PpToken("id", it.params[k])>>])
                     \o <<Punct(")")>>
              ELSE <<>>) \o it.body)
    [] it.item = "undef"  -> DirectiveLine(<<Id("undef"), PpToken("id", it.name)>>)
    [] it.item = "include" ->
         DirectiveLine(<<Id("include")>> \o
           (IF it.angled THEN <<Punct("<"), PpToken("id", it.name), Punct(">")>>
                         ELSE <<PpToken("str", it.name)>>))
    [] it.item = "once"   -> DirectiveLine(<<Id("pragma"), Id("once")>>)
    [] it.item = "error"  -> DirectiveLine(<<Id("error"), Id("why")>>)
    [] it.item = "bare"   -> DirectiveLine(<<>>)
    [] it.item = "wrong"  -> DirectiveLine(it.words)
    [] it.item = "note"   -> DirectiveLine(<<Id(it.directive), Id("why")>>)

TestLine(part) ==
  DirectiveLine(<<Keyword(part.test)>> \o
    (CASE part.test \in {"if", "elif"} -> CondTokens(part.cond)
       [] part.test = "else"           -> <<>>
       [] OTHER                        -> <<Id(part.cond)>>))

RECURSIVE LinesOf(_)
LinesOf(items) ==
  FlattenSeq([k \in DOMAIN items |->
    IF items[k].item # "group" THEN LineOf(items[k])
    ELSE FlattenSeq([j \in DOMAIN items[k].parts |->
           TestLine(items[k].parts[j]) \o LinesOf(items[k].parts[j].items)])
         \o DirectiveLine(<<Id("endif")>>)])

-----------------------------------------------------------------------------
(* Macro replacement.  Tokens carry hide, the names they came out of.      *)

IsPunct(t, s) == t.kind = "punct" /\ t.text = <<s>>
Fresh(ts) == [k \in DOMAIN ts |-> [kind |-> ts[k].kind, text |-> ts[k].text, hide |-> {}]]
Bare(ts)  == [k \in DOMAIN ts |-> [kind |-> ts[k].kind, text |-> ts[k].text]]
Hide(ts, names) == [k \in DOMAIN ts |-> [ts[k] EXCEPT !.hide = @ \cup names]]

Placemarker == [kind |-> "none", text |-> <<>>, hide |-> {}]

CJoin(l, r) ==
  IF l.kind = "none" THEN r ELSE IF r.kind = "none" THEN l
  ELSE [kind |-> l.kind, text |-> l.text \o r.text, hide |-> l.hide \cap r.hide]
CPaste(ls, rs) == Front(ls) \o <<CJoin(Last(ls), Head(rs))>> \o Tail(rs)

(* The parenthesis that closes the one at position 2; 0 if none does. *)
ClosingOf(ts) ==
  LET depth[k \in 1 .. Len(ts)] ==
        IF k = 1 THEN 0
        ELSE depth[k - 1] + (IF IsPunct(ts[k], "(") THEN 1 ELSE IF IsPunct(ts[k], ")") THEN -1 ELSE 0)
      closing == {k \in 2 .. Len(ts) : depth[k] = 0}
  IN IF closing = {} THEN [at |-> 0, commas |-> {}]
     ELSE LET close == CHOOSE k \in closing : \A j \in closing : k <= j
          IN [at |-> close, commas |-> {k \in 2 .. close : depth[k] = 1 /\ IsPunct(ts[k], ",")}]

ArgumentsOf(ts, call, params) ==
  LET bounds == <<2>> \o SetToSortSeq(call.commas, LAMBDA a, b : a < b) \o <<call.at>>
      args == [k \in 1 .. Len(bounds) - 1 |-> SubSeq(ts, bounds[k] + 1, bounds[k + 1] - 1)]
  IN IF params = <<>> /\ args = << <<>> >> THEN <<>> ELSE args

(* expanded[p]: the argument of parameter p after replacement. *)
CBody(m, args, expanded) ==
  LET body == Fresh(m.body)
      Parameter(k) == IF k \in DOMAIN body /\ body[k].kind = "id"
                        THEN SelectInSeq(m.params, LAMBDA q : q = body[k].text) ELSE 0
      IsPaste(k)  == 1 < k /\ k < Len(body) /\ IsPunct(body[k], "##")
      IsString(k) == m.isFunction /\ k >= 1 /\ IsPunct(body[k], "#") /\ Parameter(k + 1) > 0
      Spelled(p) == IF args[p] = <<>> THEN <<Placemarker>> ELSE args[p]
      Piece(k) ==
        LET p == Parameter(k)
        IN IF k > 1 /\ IsString(k - 1)
             THEN <<[kind |-> "str", text |-> FlattenSeq([j \in DOMAIN args[p] |-> args[p][j].text]), hide |-> {}]>>
           ELSE IF p = 0 THEN <<body[k]>>
           ELSE IF IsPaste(k - 1) \/ IsPaste(k + 1) THEN Spelled(p) ELSE expanded[p]
      built[k \in 0 .. Len(body)] ==
        IF k = 0 THEN <<>>
        ELSE IF IsPaste(k) \/ IsString(k) THEN built[k - 1]
        ELSE IF k > 1 /\ IsPaste(k - 1) THEN CPaste(built[k - 1], Piece(k))
        ELSE built[k - 1] \o Piece(k)
  IN SelectSeq(built[Len(body)], LAMBDA t : t.kind # "none")

(* ms: name -> macro.  What ts begins with: a name to be replaced, a call  *)
(* to be replaced with its arguments and where it ends, or neither.        *)
UseOf(ms, ts) ==
  IF ~ (ts[1].kind = "id" /\ ts[1].text \in DOMAIN ms \ ts[1].hide)
    THEN [kind |-> "plain", args |-> <<>>, last |-> 1]
  ELSE IF ~ ms[ts[1].text].isFunction THEN [kind |-> "name", args |-> <<>>, last |-> 1]
  ELSE IF ~ (Len(ts) > 1 /\ IsPunct(ts[2], "(")) THEN [kind |-> "plain", args |-> <<>>, last |-> 1]
  ELSE CHOOSE u \in {IF call.at = 0 THEN [kind |-> "wrong", args |-> <<>>, last |-> 0]
                     ELSE [kind |-> "call", args |-> ArgumentsOf(ts, call, ms[ts[1].text].params), last |-> call.at] :
                     call \in {ClosingOf(ts)}} : TRUE

IsWrong(ms, ts, use) ==
  use.kind = "wrong" \/ (use.kind = "call" /\ Len(use.args) # Len(ms[ts[1].text].params))

(* c: tokens to do, tokens done, and whether one could not be replaced.    *)
(* expanded: the arguments of the call, replaced.                          *)
CReplace(ms, c, use, expanded) ==
  LET hide == c.todo[1].hide \cap c.todo[use.last].hide
  IN [todo |-> Hide(CBody(ms[c.todo[1].text], use.args, [k \in DOMAIN expanded |-> expanded[k].done]),
                    hide \cup {c.todo[1].text})
               \o SubSeq(c.todo, use.last + 1, Len(c.todo)),
      done |-> c.done, bad |-> c.bad \/ \E k \in DOMAIN expanded : expanded[k].bad]

ToExpand(ts) == [todo |-> ts, done |-> <<>>, bad |-> FALSE]

RECURSIVE CExpand(_, _)
CExpand(ms, c) ==
  IF c.todo = <<>> THEN c
  ELSE CHOOSE e \in {
    IF IsWrong(ms, c.todo, use) THEN [c EXCEPT !.bad = TRUE]
    ELSE CExpand(ms,
      IF use.kind = "plain" THEN [c EXCEPT !.todo = Tail(@), !.done = Append(@, c.todo[1])]
      ELSE CReplace(ms, c, use, [k \in DOMAIN use.args |-> CExpand(ms, ToExpand(use.args[k]))]))
    : use \in {UseOf(ms, c.todo)}} : TRUE

-----------------------------------------------------------------------------
(* Conditions *)

Truthy(b) == IF b THEN 1 ELSE 0

(* A name stands for the number its macro is, or for 0. *)
NumberFor(ms, name) ==
  LET e == CExpand(ms, ToExpand(Fresh(<<Id(name)>>))).done
  IN IF Len(e) = 1 /\ e[1].kind = "num" THEN CHOOSE k \in 0 .. 9 : <<ToString(k)>> = e[1].text ELSE 0

Div0(l, r) == LET q == (IF l < 0 THEN -l ELSE l) \div (IF r < 0 THEN -r ELSE r)
              IN IF (l < 0) = (r < 0) THEN q ELSE -q

(* The bits that are set, of a number in two's complement. *)
BitsSet(v) == {k \in 0 .. 15 : (v \div 2 ^ k) % 2 = 1}
FromBits(b) == FoldSet(LAMBDA k, sum : sum + (IF k = 15 THEN -(2 ^ 15) ELSE 2 ^ k), 0, b)

RECURSIVE CondValue(_, _)
CondValue(ms, c) ==
  LET val == [k \in (IF "args" \in DOMAIN c THEN DOMAIN c.args ELSE {}) |-> CondValue(ms, c.args[k])]
  IN CASE c.op = "num"     -> c.val
       [] c.op = "name"    -> NumberFor(ms, c.name)
       [] c.op = "defined" -> Truthy(<<c.name>> \in DOMAIN ms)
       [] c.op = "?"  -> IF val[1] # 0 THEN val[2] ELSE val[3]
       [] c.op = "!"  -> Truthy(val[1] = 0)
       [] c.op = "~"  -> -1 - val[1]
       [] c.op = "-" /\ Len(c.args) = 1 -> -val[1]
       [] c.op = "||" -> Truthy(val[1] # 0 \/ val[2] # 0)
       [] c.op = "&&" -> Truthy(val[1] # 0 /\ val[2] # 0)
       [] c.op = "==" -> Truthy(val[1] = val[2])
       [] c.op = "<"  -> Truthy(val[1] < val[2])
       [] c.op = ">=" -> Truthy(val[1] >= val[2])
       [] c.op = "|"  -> FromBits(BitsSet(val[1]) \cup BitsSet(val[2]))
       [] c.op = "&"  -> FromBits(BitsSet(val[1]) \cap BitsSet(val[2]))
       [] c.op = "^"  -> FromBits((BitsSet(val[1]) \cup BitsSet(val[2])) \ (BitsSet(val[1]) \cap BitsSet(val[2])))
       [] c.op = "<<" -> val[1] * 2 ^ val[2]
       [] c.op = ">>" -> val[1] \div 2 ^ val[2]
       [] c.op = "+"  -> val[1] + val[2]
       [] c.op = "-"  -> val[1] - val[2]
       [] c.op = "*"  -> val[1] * val[2]
       [] c.op = "/"  -> Div0(val[1], val[2])
       [] c.op = "%"  -> val[1] - val[2] * Div0(val[1], val[2])

-----------------------------------------------------------------------------
(* Files *)

PartHolds(ms, part) ==
  CASE part.test \in {"if", "elif"} -> CondValue(ms, part.cond) # 0
    [] part.test = "ifdef"  -> <<part.cond>> \in DOMAIN ms
    [] part.test = "ifndef" -> <<part.cond>> \notin DOMAIN ms
    [] part.test = "else"   -> TRUE

FileNamed(w, it, dir) ==
  LET from == (IF it.angled THEN <<>> ELSE <<dir>>) \o w.searchPath
      k == SelectInSeq(from, LAMBDA d : <<d, it.name>> \in DOMAIN w.files)
  IN IF k = 0 THEN {} ELSE {<<from[k], it.name>>}

(* w: the files, the search path, the macros there are to begin with, and  *)
(* how many inclusions can be open.  c: the items to do, the macros, the   *)
(* files read once, the text so far, whether anything was wrong, the file  *)
(* being read and how many are open around it.                             *)
CItem(w, c) ==
  LET it == c.todo[1]
      s  == [c EXCEPT !.todo = Tail(@)]
      Before(items) == [s EXCEPT !.todo = items \o @]
  IN CASE it.item = "text" ->
            LET e == CExpand(s.macros, ToExpand(Fresh(FlattenSeq(it.lines))))
            IN [s EXCEPT !.out = @ \o Bare(e.done), !.bad = @ \/ e.bad]
       [] it.item = "define" ->
            [s EXCEPT !.macros = [n \in DOMAIN @ \cup {it.name} |-> IF n = it.name THEN it ELSE @[n]]]
       [] it.item = "undef" ->
            [s EXCEPT !.macros = [n \in DOMAIN @ \ {it.name} |-> @[n]]]
       [] it.item = "include" ->
            LET found == FileNamed(w, it, s.path[1])
            IN IF found = {} \/ s.depth >= w.maxIncludes THEN [s EXCEPT !.bad = TRUE]
               ELSE IF found \subseteq s.once THEN s
               ELSE LET p == CHOOSE f \in found : TRUE
                    IN [Before(Append(w.files[p], [item |-> "leave", path |-> s.path]))
                          EXCEPT !.path = p, !.depth = @ + 1]
       [] it.item = "leave" -> [s EXCEPT !.path = it.path, !.depth = @ - 1]
       [] it.item = "once"  -> [s EXCEPT !.once = @ \cup {s.path}]
       [] it.item \in {"error", "wrong"} -> [s EXCEPT !.bad = TRUE]
       [] it.item \in {"note", "bare"}   -> s
       [] it.item = "group" ->
            LET k == SelectInSeq(it.parts, LAMBDA part : PartHolds(s.macros, part))
            IN IF k = 0 THEN s ELSE Before(it.parts[k].items)

RECURSIVE CRead(_, _)
CRead(w, c) == IF c.todo = <<>> THEN c ELSE CRead(w, CItem(w, c))

CPreprocess(w, main) ==
  CRead(w, [todo |-> w.files[main], macros |-> w.predefined, once |-> {}, out |-> <<>>, bad |-> FALSE,
            path |-> main, depth |-> 0])
=============================================================================
