-------------------------------- MODULE Compile --------------------------------
(***************************************************************************)
(* src/src/main.c: a translation unit goes through both semantic passes    *)
(* and the code generator, and stops at the first phase that complains.    *)
(* What comes out is held against what C says of the source.               *)
(*                                                                         *)
(* A source is a unit as C understands it: every name bound to a           *)
(* declaration, every expression with its type, every conversion spelled   *)
(* out.  The compiler gets it without all this and has to find it again.   *)
(***************************************************************************)
EXTENDS CodeGen, SourceSemantics

CONSTANTS
  Sources,      \* units
  Inputs,       \* argument lists of function 1
  Fuel,         \* bound: repetitions after which a source is not compared
  Doublings     \* bound: 2^Doublings instructions of the code are run

VARIABLE source

vars == <<source, semaVars, phase, at, todo, codeVars>>

(* The tree as the parser leaves it. *)
NoType == [kind |-> "untyped", ir |-> "untyped", size |-> 0, align |-> 1]
Subtrees == {"left", "right", "then", "else", "init", "post"}
Expressions == {"literal", "name", "field", "call", "address", "dereference", "subscript", "unary", "step",
                "sizeof", "assign", "conditional", "comma", "binary", "and", "or"}

RECURSIVE Bare(_)
Bare(n) ==
  LET Each(nodes) == [k \in DOMAIN nodes |-> Bare(nodes[k])]
      Field(f) ==
        CASE f \in Subtrees -> Bare(n[f])
          [] f = "body" -> (IF n.type = "block" THEN Each(n.body) ELSE Bare(n.body))
          [] f = "args" -> Each(n.args)
          [] f = "items" -> [k \in DOMAIN n.items |-> [n.items[k] EXCEPT !.value = Bare(@)]]
          [] f = "sym" /\ n.type \in {"name", "call"} -> [name |-> n.sym.name]
          [] f = "ty" /\ n.type \in Expressions -> NoType
          [] OTHER -> n[f]
  IN IF n.type = "cast" /\ n.implicit THEN Bare(n.left) ELSE [f \in DOMAIN n |-> Field(f)]

Parsed(items) ==
  [k \in DOMAIN items |->
     CASE items[k].item = "function" -> [items[k] EXCEPT !.body = Bare(@)]
       [] items[k].item = "global"   -> [items[k] EXCEPT !.init = Bare(@)]
       [] OTHER -> items[k]]

Init ==
  /\ source \in Sources
  /\ ResolveInit(Parsed(source))
  /\ CodeGenInit

Over == phase \in {"rejected", "unsupported", "done"}

Next ==
  \/ (ResolveNext \/ TypingNext) /\ UNCHANGED <<source, codeVars>>
  \/ CodeGenNext /\ UNCHANGED source
  \/ Over /\ UNCHANGED vars

Spec == Init /\ [][Next]_vars

-----------------------------------------------------------------------------
(* What C asks of a unit (6.5.1, 6.5.2.2, 6.5.16, 6.7, 6.8.6), written as  *)
(* conditions on the tree.  What is declared at the top level is visible   *)
(* in all of the unit here.                                                *)

RECURSIVE Within(_)
Within(e) == {e} \cup UNION {Within(Parts(e)[k]) : k \in DOMAIN Parts(e)}

ItemsOfKind(kinds) == {source[k] : k \in {j \in DOMAIN source : source[j].item \in kinds}}
Functions == ItemsOfKind({"function", "prototype"})
Complete(ty) == Tagged(ty) \subseteq {item.ty : item \in ItemsOfKind({"struct"})}

(* known is a stack of scopes, each a set of symbols: a name means what it *)
(* means in the innermost scope that has it.                               *)
Having(known, name)   == {k \in DOMAIN known : \E sym \in known[k] : sym.name = name}
Meanings(known, name) ==
  IF Having(known, name) = {} THEN {} ELSE {sym \in known[Max(Having(known, name))] : sym.name = name}
Knowing(known, syms)  == [known EXCEPT ![Len(known)] = @ \cup syms]
Declared(stmts) == {stmts[k].sym : k \in {j \in DOMAIN stmts : stmts[j].type = "declaration"}}

AsDeep(ty, other) == EffectiveDepth(ty) = EffectiveDepth(other)

RightCall(e, known) ==
  \E sym \in Meanings(known, e.sym.name) :
    \/ IsFunctionPointer(sym.ty)
    \/ \E f \in Functions : /\ f.sym = sym /\ Len(f.params) = Len(e.args)
                            /\ \A k \in DOMAIN e.args : AsDeep(e.args[k].ty, f.params[k].ty)

RightExpression(e, known) ==
  \A n \in Within(e) :
    CASE n.type = "name"   -> Meanings(known, n.sym.name) # {}
      [] n.type = "call"   -> RightCall(n, known)
      [] n.type = "assign" -> n.left.ty.kind # "array" /\ AsDeep(n.left.ty, n.right.ty)
      [] OTHER -> TRUE

RightDeclaration(n, known) ==
  /\ \A sym \in known[Len(known)] : sym.name # n.sym.name
  /\ Complete(n.sym.ty)
  /\ RightExpression(n.init, Knowing(known, {n.sym}))
  /\ n.init.type \in {"nothing", "braces"} \/ AsDeep(n.sym.ty, n.init.ty)

(* leave holds the jumps that have something to leave: a switch gives break *)
(* a target and not continue.                                              *)
RECURSIVE Right(_, _, _)
RightBlock(stmts, known, leave) ==
  \A k \in DOMAIN stmts : Right(stmts[k], Knowing(known, Declared(SubSeq(stmts, 1, k - 1))), leave)

RightFor(n, known) ==
  LET header == Append(known, {})
      inner  == Knowing(header, Declared(<<n.init>>))
  IN /\ IF n.init.type = "declaration" THEN RightDeclaration(n.init, header) ELSE RightExpression(n.init, header)
     /\ RightExpression(n.left, inner) /\ RightExpression(n.post, inner)
     /\ Right(n.body, inner, {"break", "continue"})

Right(n, known, leave) ==
  CASE n.type = "block"       -> RightBlock(n.body, Append(known, {}), leave)
    [] n.type = "declaration" -> RightDeclaration(n, known)
    [] n.type \in {"expression", "return"} -> RightExpression(n.left, known)
    [] n.type = "if" -> /\ RightExpression(n.left, known)
                        /\ Right(n.then, known, leave) /\ Right(n.else, known, leave)
    [] n.type \in {"while", "do"} -> RightExpression(n.left, known) /\ Right(n.body, known, {"break", "continue"})
    [] n.type = "switch" -> RightExpression(n.left, known) /\ Right(n.body, known, leave \cup {"break"})
    [] n.type = "for" -> RightFor(n, known)
    [] n.type \in {"label", "case", "default"} -> Right(n.body, known, leave)
    [] n.type \in {"break", "continue"} -> n.type \in leave
    [] OTHER -> TRUE

(* Functions may be declared again and are defined once, all else is       *)
(* declared once.                                                          *)
RightTopLevel ==
  \A k, j \in DOMAIN source :
    k < j => LET items == {source[k].item, source[j].item}
             IN IF "struct" \in items THEN items = {"struct"} => source[k] # source[j]
                ELSE source[k].sym.name = source[j].sym.name => "prototype" \in items /\ "global" \notin items

RightItem(item) ==
  LET syms == {other.sym : other \in ItemsOfKind({"function", "prototype", "global"})}
      params == {item.params[k] : k \in DOMAIN item.params}
  IN CASE item.item = "function" ->
            /\ \A k, j \in DOMAIN item.params : k # j => item.params[k].name # item.params[j].name
            /\ RightBlock(item.body.body, <<syms, params>>, {})
       [] item.item = "global" -> Complete(item.sym.ty) /\ IsConstant(item.init)
       [] OTHER -> TRUE

WellFormed == RightTopLevel /\ \A k \in DOMAIN source : RightItem(source[k])

-----------------------------------------------------------------------------
(* What the source means, and what the code does *)

Program ==
  LET functions == SelectSeq(source, LAMBDA item : item.item = "function")
  IN [k \in DOMAIN functions |-> Function(functions[k].params, functions[k].body)]

(* Globals come with what they are initialised to, or with zero. *)
Loaded(s, item) ==
  LET items == IF item.init.type = "braces" THEN item.init.items ELSE <<>>
  IN IF IsAggregate(item.sym.ty) THEN Fill(<<>>, 0, item.sym.ty, AddressOfSymbol(0, item.sym), items, s)
     ELSE Eval(<<>>, 0, Assign(Name(item.sym), IF IsNull(item.init) THEN Literal(0, IntType) ELSE item.init), s)

MeaningOf(args) ==
  LET start == [mem |-> <<>>, out |-> <<>>, val |-> 0, flow |-> "next", label |-> "", fuel |-> Fuel]
      loaded == FoldLeft(Loaded, start, SelectSeq(source, LAMBDA item : item.item = "global"))
  IN OutcomeOf(CallFunction(Program, 0, 1, args, loaded))

Ran(args) == RunOf(Linked(code, statics), 1, args, Doublings)

(* No call is made while an operand or an argument waits on the stack. *)
HasCall(e) == \E n \in Within(e) : n.type = "call"

RECURSIVE CallsFirst(_)
CallsFirst(e) ==
  CASE e.type = "call"   -> \A k \in DOMAIN e.args : ~ HasCall(e.args[k])
    [] e.type = "assign" -> CallsFirst(e.right) /\ ~ HasCall(e.left)
    [] e.type \in {"binary", "subscript"} -> CallsFirst(e.left) /\ ~ HasCall(e.right)
    [] OTHER -> \A k \in DOMAIN Parts(e) : CallsFirst(Parts(e)[k])

RECURSIVE ExpressionsOf(_)
ExpressionsOf(n) ==
  CASE n.type = "block" -> UNION {ExpressionsOf(n.body[k]) : k \in DOMAIN n.body}
    [] n.type = "declaration" -> {n.init}
    [] n.type = "if" -> {n.left} \cup ExpressionsOf(n.then) \cup ExpressionsOf(n.else)
    [] n.type \in {"while", "do", "switch"} -> {n.left} \cup ExpressionsOf(n.body)
    [] n.type = "for" -> {n.left, n.post} \cup (IF n.init.type = "declaration" THEN {n.init.init} ELSE {n.init})
                           \cup ExpressionsOf(n.body)
    [] n.type \in {"label", "case", "default"} -> ExpressionsOf(n.body)
    [] n.type \in {"expression", "return"} -> {n.left}
    [] OTHER -> {}

-----------------------------------------------------------------------------
(* A tree as C has it against the tree the passes made of it *)

(* What the checker cannot say: it computes with the name of the innermost *)
(* type and a count of stars, so a struct's tag survives only in what is   *)
(* named and what * and [] reach from there; sizeof is an unsigned int and *)
(* the difference of two pointers an int, where C makes both long.         *)
RECURSIVE TypeLost(_)
TypeLost(e) ==
  CASE e.type = "sizeof" -> TRUE
    [] e.type = "binary" /\ e.op = "sub" /\ IsPointerLike(e.right.ty) -> TRUE
    [] e.type \notin Expressions \/ ~ IsStruct(Innermost(e.ty)) -> FALSE
    [] e.type = "name" -> e.sym.kind = "function"
    [] e.type \in {"dereference", "subscript"} -> TypeLost(e.left)
    [] OTHER -> TRUE

(* The same nodes with the same fields; of a type that is lost the number  *)
(* of stars is left.                                                       *)
RECURSIVE SameTree(_, _)
SameTree(e, found) ==
  LET Each(nodes, others) ==
        DOMAIN nodes = DOMAIN others /\ \A k \in DOMAIN nodes : SameTree(nodes[k], others[k])
      Values(items) == [k \in DOMAIN items |-> items[k].value]
      Places(items) == [k \in DOMAIN items |-> items[k].at]
      SameField(f) ==
        CASE f \in Subtrees -> SameTree(e[f], found[f])
          [] f = "body" -> (IF e.type = "block" THEN Each(e.body, found.body) ELSE SameTree(e.body, found.body))
          [] f = "args" -> Each(e.args, found.args)
          [] f = "items" -> /\ Places(e.items) = Places(found.items)
                            /\ Each(Values(e.items), Values(found.items))
          [] f = "ty" /\ TypeLost(e) -> AsDeep(e.ty, found.ty)
          [] OTHER -> e[f] = found[f]
  IN e.type = found.type /\ DOMAIN e = DOMAIN found /\ \A f \in DOMAIN e : SameField(f)

SameItem(item, found) ==
  CASE item.item = "function" -> SameTree(item.body, found.body) /\ [item EXCEPT !.body = found.body] = found
    [] item.item = "global"   -> SameTree(item.init, found.init) /\ [item EXCEPT !.init = found.init] = found
    [] OTHER -> item = found

-----------------------------------------------------------------------------
(* Properties *)

(***************************************************************************)
(* The table is well formed, the work list never goes on after the end,    *)
(* and of the labels drawn from the counter none is placed twice.          *)
(***************************************************************************)
TypeOK ==
  /\ ScopeTypeOK
  /\ phase \in {"collect", "resolve", "type", "data", "generate", "done", "rejected", "unsupported"}
  /\ at \in 1 .. Len(unit) + 1
  /\ errors \in Nat /\ loop_depth \in Nat
  /\ phase \in {"done", "rejected", "data"} => todo = <<>>
  /\ phase = "done" =>
       /\ targets = <<>> /\ names = <<>>
       /\ LET placed == {k \in DOMAIN code : code[k].op = "label"}
          IN /\ \A k \in placed : code[k].to.label < label_count
             /\ Cardinality({code[k].to : k \in placed}) = Cardinality(placed)

(***************************************************************************)
(* The passes find what C understands: each name bound to the declaration  *)
(* in scope, a conversion wherever C converts and nowhere else, and each   *)
(* expression with the type it has in C, those excepted whose type the     *)
(* checker cannot say (TypeLost), of which it finds how many stars it has. *)
(***************************************************************************)
AnnotatedAsC ==
  phase = "done" =>
    /\ DOMAIN unit = DOMAIN source
    /\ \A k \in DOMAIN source : SameItem(source[k], unit[k])

(***************************************************************************)
(* A unit is rejected if and only if it breaks a rule of C.                *)
(***************************************************************************)
Diagnosed ==
  /\ phase = "rejected" => ~ WellFormed
  /\ phase = "done" => WellFormed

(***************************************************************************)
(* The assembly does what C says the source does: the same result, the     *)
(* same calls out of the program, a division by zero where C has one.      *)
(***************************************************************************)
AgreesWith(meant, does) ==
  /\ meant.status = "ret"  => does = meant
  /\ meant.status = "trap" => does.status = "trap" /\ does.out = meant.out

CodeMeansSource ==
  phase = "done" => \A args \in Inputs : AgreesWith(MeaningOf(args), Observed(Ran(args)))

(***************************************************************************)
(* Calls are made with the stack pointer aligned to sixteen bytes, however *)
(* large the frame and however many arguments lie on the stack.            *)
(***************************************************************************)
CallsAligned ==
  phase = "done" =>
    \A args \in Inputs :
      (\A item \in ItemsOfKind({"function"}) : \A e \in ExpressionsOf(item.body) : CallsFirst(e))
        => Ran(args).aligned
=============================================================================
