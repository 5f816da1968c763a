-------------------------------- MODULE Typing --------------------------------
(***************************************************************************)
(* src/src/analysis/sema_type.c, the second pass over the syntax tree:     *)
(* every expression gets its type, every name its symbol, and where C      *)
(* converts without being told a cast is put into the tree.                *)
(*                                                                         *)
(* The checker does not compute with struct Type but with the name of the  *)
(* innermost type and a count of stars.  What that loses of a type is lost *)
(* here as well: a struct's tag survives only in names, in what * and []   *)
(* reach, and in literals.                                                 *)
(***************************************************************************)
EXTENDS Resolve

InvalidType == [kind |-> "invalid", ir |-> "invalid", size |-> 4, align |-> 4]
ScalarTypes == {VoidType, CharType, UCharType, ShortType, UShortType, IntType, UIntType, LongType,
                ULongType, InvalidType}
TypeNamed(name) == CHOOSE ty \in ScalarTypes : ty.ir = name

(* What the checker sees of a type: data_type and pointer_depth. *)
RECURSIVE Innermost(_), PointerDepth(_)
Innermost(ty) == IF ty.kind \in {"pointer", "array", "function"} THEN Innermost(ty.base) ELSE ty
PointerDepth(ty) ==
  CASE ty.kind = "pointer" -> 1 + PointerDepth(ty.base)
    [] ty.kind = "array"   -> PointerDepth(ty.base)
    [] OTHER -> 0
Data(ty) == IF IsStruct(Innermost(ty)) THEN "int" ELSE Innermost(ty).ir

(* semantic_effective_pointer_depth: an array counts as a pointer. *)
EffectiveDepth(ty) == PointerDepth(ty) + (IF ty.kind = "array" THEN 1 ELSE 0)

RECURSIVE Pointers(_, _)
Pointers(ty, depth) == IF depth = 0 THEN ty ELSE PointerTo(Pointers(ty, depth - 1))
Flat(name, depth)   == Pointers(TypeNamed(name), depth)

IsInteger(ty) == Data(ty) # "invalid" /\ EffectiveDepth(ty) = 0
Matches(ty, other) == Data(ty) = Data(other) /\ EffectiveDepth(ty) = EffectiveDepth(other)

-----------------------------------------------------------------------------
(* Conversions *)

(* Slip: shorts stay what they are. *)
PromotedChar(name) == IF name \in {"char", "uchar"} THEN "int" ELSE name

(* integer_promotion *)
Promoted(name) == IF name \in {"char", "uchar", "short", "ushort"} THEN "int" ELSE name

(* usual_arithmetic_type: a long holds every unsigned int. *)
Common(name, other) ==
  LET both == {Promoted(name), Promoted(other)}
  IN CASE Promoted(name) = Promoted(other) -> Promoted(name)
       [] "ulong" \in both         -> "ulong"
       [] both = {"long", "uint"}  -> "long"
       [] "uint" \in both          -> "uint"
       [] "long" \in both          -> "long"
       [] OTHER                    -> "int"

(* insert_conversion *)
Converted(n, name) ==
  IF IsNull(n) \/ name = "invalid" \/ Data(n.ty) = name THEN n ELSE Convert(TypeNamed(name), n)

-----------------------------------------------------------------------------
(* check_expression_type: the node typed, and the complaints about it.     *)

Annotated(n, ty, complaints) == [node |-> [n EXCEPT !.ty = ty], errors |-> complaints]
Ok == 0
Wrong(n, complaints) == Annotated(n, InvalidType, complaints + 1)
Bound(n, sym, ty) == [node |-> [n EXCEPT !.sym = sym, !.ty = ty], errors |-> Ok]

ErrorsOf(results) == FoldLeft(LAMBDA n, r : n + r.errors, 0, results)
NodesOf(results)  == [k \in DOMAIN results |-> results[k].node]

TypedName(e) ==
  LET l == FindLocal(e.sym.name)
      g == FindGlobal(e.sym.name)
  IN IF l # 0 THEN Bound(e, locals[l].sym, locals[l].sym.ty)
     ELSE IF g = 0 THEN Annotated(e, InvalidType, Ok)
     ELSE IF globals[g].is_function
            THEN Bound(e, globals[g].sym, PointerTo(FunctionType(Flat(Data(globals[g].sym.ty), 0))))
     ELSE Bound(e, globals[g].sym, globals[g].sym.ty)

TypedField(e, l) ==
  LET n  == [e EXCEPT !.left = l.node]
      ty == Innermost(l.node.ty)
  IN IF ~ IsStruct(ty) \/ PointerDepth(l.node.ty) > 0 \/ e.member \notin DOMAIN ty.members
       THEN Wrong(n, l.errors)
     ELSE LET member == ty.members[e.member].ty
          IN Annotated(n, Flat(Data(member), PointerDepth(member)), l.errors)

TypedAddress(e, l) ==
  LET n == [e EXCEPT !.left = l.node]
  IN IF l.node.type \in {"name", "dereference", "field", "subscript"}
       THEN Annotated(n, Flat(Data(l.node.ty), PointerDepth(l.node.ty) + 1), l.errors)
       ELSE Wrong(n, l.errors)

(* An array is no pointer here. *)
TypedDereference(e, l) ==
  LET n     == [e EXCEPT !.left = l.node]
      depth == PointerDepth(l.node.ty)
  IN IF depth = 0 THEN Wrong(n, l.errors)
     ELSE Annotated(n, Pointers(Innermost(l.node.ty), depth - 1), l.errors)

TypedSubscript(e, l, r) ==
  LET n == [e EXCEPT !.left = l.node, !.right = r.node]
      misindexed == IF IsInteger(r.node.ty) THEN 0 ELSE 1
  IN IF IsPointerLike(l.node.ty) THEN Annotated(n, l.node.ty.base, l.errors + r.errors + misindexed)
     ELSE Wrong(n, l.errors + r.errors + misindexed)

TypedUnary(e, l) ==
  LET name == Promoted(Data(l.node.ty))
  IN IF e.op = "lognot" THEN Annotated([e EXCEPT !.left = l.node], IntType, l.errors)
     ELSE Annotated([e EXCEPT !.left = Converted(l.node, name)], Flat(name, 0), l.errors)

TypedAssign(e, l, r) ==
  LET lt == l.node.ty
      rt == r.node.ty
      scalars == EffectiveDepth(lt) = 0 /\ EffectiveDepth(rt) = 0
      n == [e EXCEPT !.left = l.node,
                     !.right = IF scalars THEN Converted(r.node, Data(lt)) ELSE r.node]
      unfit == ~ scalars /\ ~ Matches(lt, rt)
      ill == IF lt.kind = "array" \/ unfit THEN 1 ELSE 0
  IN Annotated(n, Flat(Data(lt), EffectiveDepth(lt)), l.errors + r.errors + ill)

(* The arms are taken for numbers, whatever they are. *)
TypedConditional(e, c, l, r) ==
  LET name == Common(Data(l.node.ty), Data(r.node.ty))
  IN Annotated([e EXCEPT !.left = c.node, !.then = Converted(l.node, name),
                         !.else = Converted(r.node, name)],
               Flat(name, 0), c.errors + l.errors + r.errors)

(* check_binary_type *)
OperatorOf(e) == IF e.type = "binary" THEN e.op ELSE e.type
Comparisons   == {"eq", "ne", "lt", "le", "gt", "ge"}

TypedPointers(e, n, lt, rt, complaints) ==
  LET op == OperatorOf(e)
      l  == EffectiveDepth(lt)
      r  == EffectiveDepth(rt)
  IN CASE op = "add" /\ r = 0 -> Annotated(n, Flat(Data(lt), l), complaints)
       [] op = "add" /\ l = 0 -> Annotated(n, Flat(Data(rt), r), complaints)
       [] op = "sub" /\ r = 0 -> Annotated(n, Flat(Data(lt), l), complaints)
       [] op = "sub" /\ Matches(lt, rt) -> Annotated(n, IntType, complaints)
       [] OTHER -> Wrong(n, complaints)

TypedNumbers(e, n, l, r, complaints) ==
  LET op == OperatorOf(e)
      name == IF op \in {"shl", "shr"} THEN Promoted(l) ELSE Common(l, r)
      other == IF op \in {"shl", "shr"} THEN Promoted(r) ELSE name
      converted == [n EXCEPT !.left = Converted(@, name), !.right = Converted(@, other)]
  IN CASE op \in {"and", "or"} /\ e.type = op -> Annotated(n, IntType, complaints)
       [] op \in Comparisons -> Annotated(converted, IntType, complaints)
       [] OTHER -> Annotated(converted, TypeNamed(name), complaints)

TypedBinary(e, l, r) ==
  LET n == [e EXCEPT !.left = l.node, !.right = r.node]
      lt == l.node.ty
      rt == r.node.ty
      complaints == l.errors + r.errors
  IN IF "invalid" \in {Data(lt), Data(rt)} THEN Annotated(n, InvalidType, complaints)
     ELSE IF EffectiveDepth(lt) > 0 \/ EffectiveDepth(rt) > 0
       THEN TypedPointers(e, n, lt, rt, complaints)
     ELSE TypedNumbers(e, n, Data(lt), Data(rt), complaints)

(* A struct of more than two eightbytes is refused; a number is converted  *)
(* to what the parameter is, and a pointer must be as deep.                *)
Passed(a, param) ==
  LET depth == EffectiveDepth(a.node.ty)
      large == IsStruct(a.node.ty) /\ a.node.ty.size > 16
      unfit == depth # PointerDepth(param.ty)
  IN [node |-> IF depth = 0 /\ ~ unfit THEN Converted(a.node, Data(param.ty)) ELSE a.node,
      errors |-> a.errors + (IF large THEN 1 ELSE 0) + (IF unfit THEN 1 ELSE 0)]

TypedCall(e, args) ==
  LET name == e.sym.name
      g    == FindGlobal(name)
      passed == [k \in DOMAIN args |-> Passed(args[k], globals[g].params[k])]
  IN IF CallsPointer(name)
       THEN LET sym == locals[FindLocal(name)].sym
            IN Annotated([e EXCEPT !.sym = sym, !.args = NodesOf(args)],
                         Flat(Data(sym.ty), 0), ErrorsOf(args))
     ELSE IF g = 0 THEN Annotated(e, InvalidType, ErrorsOf(args))
     ELSE Annotated([e EXCEPT !.sym = globals[g].sym, !.args = NodesOf(passed)],
                    Flat(Data(globals[g].sym.ty), PointerDepth(globals[g].sym.ty)), ErrorsOf(passed))

RECURSIVE Typed(_)
Typed(e) ==
  CASE e.type = "nothing" -> [node |-> e, errors |-> Ok]
    [] e.type = "literal" -> Annotated(e, IntType, Ok)
    [] e.type = "sizeof"  ->
         LET l == Typed(e.left) IN Annotated([e EXCEPT !.left = l.node], UIntType, l.errors)
    [] e.type = "compound" ->
         LET items == [k \in DOMAIN e.items |-> Typed(e.items[k].value)]
         IN Annotated([e EXCEPT !.items = [k \in DOMAIN @ |-> [@[k] EXCEPT !.value = items[k].node]]],
                      e.sym.ty, ErrorsOf(items))
    [] e.type = "braces"      -> [node |-> e, errors |-> 1]
    [] e.type = "name"        -> TypedName(e)
    [] e.type = "field"       -> TypedField(e, Typed(e.left))
    [] e.type = "call"        -> TypedCall(e, [k \in DOMAIN e.args |-> Typed(e.args[k])])
    [] e.type = "address"     -> TypedAddress(e, Typed(e.left))
    [] e.type = "dereference" -> TypedDereference(e, Typed(e.left))
    [] e.type = "subscript"   -> TypedSubscript(e, Typed(e.left), Typed(e.right))
    [] e.type = "cast"        ->
         LET l == Typed(e.left) IN Annotated([e EXCEPT !.left = l.node], e.ty, l.errors)
    [] e.type = "unary"       -> TypedUnary(e, Typed(e.left))
    [] e.type = "step"        ->
         LET l == Typed(e.left)
         IN Annotated([e EXCEPT !.left = l.node],
                      Flat(Data(l.node.ty), EffectiveDepth(l.node.ty)), l.errors)
    [] e.type = "assign"      -> TypedAssign(e, Typed(e.left), Typed(e.right))
    [] e.type = "conditional" -> TypedConditional(e, Typed(e.left), Typed(e.then), Typed(e.else))
    [] e.type = "comma"       ->
         LET l == Typed(e.left)
             r == Typed(e.right)
         IN Annotated([e EXCEPT !.left = l.node, !.right = r.node],
                      Flat(Data(r.node.ty), 0), l.errors + r.errors)
    [] OTHER                  -> TypedBinary(e, Typed(e.left), Typed(e.right))

-----------------------------------------------------------------------------
(* check_initializer_list_types: the items up to the first that fits       *)
(* nowhere, each converted to what it fills.                               *)

PlacesFilled(items) ==
  LET place[j \in DOMAIN items] ==
        IF items[j].at # 0 THEN items[j].at ELSE IF j = 1 THEN 1 ELSE place[j - 1] + 1
  IN place

TypedItems(items, ty) ==
  LET place == PlacesFilled(items)
      Fits(j) == IF IsStruct(ty) THEN place[j] \in DOMAIN ty.members
                 ELSE place[j] <= ty.size \div ty.base.size
      fitting == {j \in DOMAIN items : \A i \in 1 .. j : Fits(i)}
      Target(j) == IF IsStruct(ty) THEN Data(ty.members[place[j]].ty) ELSE Data(ty)
      results == [j \in 1 .. Cardinality(fitting) |-> Typed(items[j].value)]
  IN [node |-> Braces([j \in DOMAIN items |->
                 IF j \in fitting
                   THEN [items[j] EXCEPT !.value = Converted(results[j].node, Target(j))]
                   ELSE items[j]]),
      errors |-> ErrorsOf(results) + (IF fitting = DOMAIN items THEN 0 ELSE 1)]

(* What initialises an object of type ty. *)
TypedInitialiser(e, ty) ==
  CASE IsNull(e) -> [node |-> e, errors |-> Ok]
    [] IsAggregate(ty) /\ e.type = "braces" -> TypedItems(e.items, ty)
    [] ty.kind = "array" \/ e.type = "braces" -> [node |-> e, errors |-> 1]
    [] OTHER ->
         LET r == Typed(e)
             deep == PointerDepth(ty) > 0 \/ EffectiveDepth(r.node.ty) > 0
         IN IF deep THEN [r EXCEPT !.errors = @ + IF Matches(ty, r.node.ty) THEN 0 ELSE 1]
            ELSE [r EXCEPT !.node = Converted(@, Data(ty))]

(* A global's is converted and not compared; braces of a struct are passed *)
(* over.                                                                   *)
TypedConstant(e, ty) ==
  CASE IsStruct(ty) /\ e.type = "braces" -> [node |-> e, errors |-> Ok]
    [] e.type = "braces" \/ ty.kind = "array" -> TypedInitialiser(e, ty)
    [] OTHER -> LET r == Typed(e) IN [r EXCEPT !.node = Converted(@, Data(ty))]

-----------------------------------------------------------------------------
(* check_statement_types *)

Writes(path, result) ==
  /\ unit' = [unit EXCEPT ![at] = Put(@, path, result.node)]
  /\ errors' = errors + result.errors

typingRest == <<phase, at, tableVars, frames, loop_depth>>

CheckBlock       == Visits("type", {"block"}) /\ OpenScope(Children("body"))
CheckDeclaration == Visits("type", {"declaration"}) /\ Declaring(Node.sym)
CheckExpression  == Visits("type", {"expression"}) /\ Becomes(<<Look(Part("left"))>>)
CheckNothing     == Visits("type", {"nothing", "goto", "break", "continue"}) /\ Becomes(<<>>)
CheckLabelled    == Visits("type", {"label", "case", "default"}) /\ Becomes(<<Visit(Part("body"))>>)
CheckIf ==
  /\ Visits("type", {"if"})
  /\ Becomes(<<Look(Part("left")), Visit(Part("then")), Visit(Part("else"))>>)
CheckLoop ==
  /\ Visits("type", {"while", "do", "switch"})
  /\ Becomes(<<Look(Part("left")), Visit(Part("body"))>>)
CheckFor == Visits("type", {"for"}) /\ OpenScope(ForHeader \o <<Visit(Part("body"))>>)

(* The declaration whose initialiser is being looked at. *)
Initialises == Site # <<>> /\ Last(Site) = "init" /\ NodeAt(Current, Front(Site)).type = "declaration"

LookAtTypes ==
  /\ phase = "type" /\ Does("look")
  /\ Writes(Site, IF Initialises THEN TypedInitialiser(Node, NodeAt(Current, Front(Site)).ty)
                  ELSE Typed(Node))
  /\ Then(<<>>)
  /\ UNCHANGED <<scopeVars, typingRest>>

(* A function that returns a pointer says what: the compiler looks for the *)
(* type of the expression without asking whether there is one.             *)
CheckReturn ==
  /\ Visits("type", {"return"})
  /\ IsNull(Node.left) => PointerDepth(Current.sym.ty) = 0
  /\ Writes(Part("left"), TypedInitialiser(Node.left, Current.sym.ty))
  /\ Then(<<>>)
  /\ UNCHANGED <<scopeVars, typingRest>>

-----------------------------------------------------------------------------
(* sema_check_top_level_types *)

CheckGlobal ==
  /\ phase = "type" /\ BetweenItems /\ Current.item = "global" /\ ~ IsNull(Current.init)
  /\ Writes(<<"init">>, TypedConstant(Current.init, Current.sym.ty))
  /\ NextItem
  /\ UNCHANGED <<scopeVars, phase, tableVars, frames, loop_depth, todo>>

PassOver ==
  /\ phase = "type" /\ BetweenItems /\ Current.item # "function"
  /\ Current.item = "global" => IsNull(Current.init)
  /\ NextItem
  /\ UNCHANGED <<scopeVars, unit, phase, tableVars, frames, errors, loop_depth, todo>>

(* The declarations come in once more, with the slots they have. *)
StartTyping ==
  /\ phase = "type" /\ BetweenItems /\ Current.item = "function"
  /\ StartFunction(frames[at].slots, frame_max)
  /\ todo' = FunctionWork
  /\ UNCHANGED <<placeVars, errors, loop_depth>>

FinishTyping ==
  /\ phase = "type" /\ Does("end function")
  /\ NextItem /\ Then(<<>>)
  /\ UNCHANGED <<scopeVars, unit, phase, tableVars, frames, errors, loop_depth>>

(* The rest of the compiler sees nothing of a unit with an error. *)
Checked ==
  /\ phase = "type" /\ at > Len(unit)
  /\ phase' = IF errors = 0 THEN "data" ELSE "rejected"
  /\ at' = 1
  /\ UNCHANGED <<scopeVars, unit, tableVars, frames, errors, loop_depth, todo>>

TypingNext ==
  \/ CheckGlobal \/ PassOver \/ StartTyping \/ FinishTyping \/ Checked
  \/ CheckBlock \/ CheckDeclaration \/ CheckExpression \/ CheckNothing \/ CheckLabelled
  \/ CheckIf \/ CheckLoop \/ CheckFor \/ LookAtTypes \/ CheckReturn
=============================================================================
