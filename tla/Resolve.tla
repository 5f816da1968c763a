------------------------------- MODULE Resolve -------------------------------
(***************************************************************************)
(* src/src/analysis/sema_resolve.c, the first pass over the syntax tree:   *)
(* the top level is collected, every name is looked up, and every          *)
(* declaration gets its place in the frame.                                *)
(*                                                                         *)
(* The tree is the parser's: a name is its spelling, a declaration is its  *)
(* symbol without a slot, and nothing else has a type.  What the recursion *)
(* of the C functions still has to do is the work list todo.               *)
(***************************************************************************)
EXTENDS ScopeTable, Syntax, SequencesExt

LOCAL INSTANCE TLC

VARIABLES
  unit,        \* the top-level items, in the order of the source
  phase,       \* "collect", "resolve", "type", "data", "generate", "done"
  at,          \* the item being looked at
  structs,     \* ctx.structs: the struct types defined so far
  globals,     \* ctx.globals
  frames,      \* item -> what is known of the function's frame
  errors,      \* ctx.error_count
  loop_depth,
  todo         \* what remains to be done, next first

tableVars == <<structs, globals>>
placeVars == <<unit, phase, at, tableVars, frames>>

(* Top-level items. *)
StructItem(ty)                 == [item |-> "struct", ty |-> ty]
GlobalItem(sym, init)          == [item |-> "global", sym |-> sym, init |-> init]
PrototypeItem(sym, params)     == [item |-> "prototype", sym |-> sym, params |-> params]
FunctionItem(sym, params, body) ==
  [item |-> "function", sym |-> sym, params |-> params, body |-> body]

(* A node is named by the path that leads to it from its item: both passes *)
(* walk the tree, and the second writes on it.                             *)
RECURSIVE NodeAt(_, _), Put(_, _, _)
NodeAt(tree, path) == IF path = <<>> THEN tree ELSE NodeAt(tree[Head(path)], Tail(path))
Put(tree, path, n) ==
  IF path = <<>> THEN n ELSE [tree EXCEPT ![Head(path)] = Put(@, Tail(path), n)]

(* Work. *)
Visit(path)   == [do |-> "visit", path |-> path]    \* a statement
Look(path)    == [do |-> "look", path |-> path]     \* an expression
Accept(k)     == [do |-> "parameter", index |-> k]
Reserve(sym)  == [do |-> "reserve", sym |-> sym]
CloseScope    == [do |-> "close scope"]
CloseLoop     == [do |-> "close loop"]
EndFunction   == [do |-> "end function"]

Current     == unit[at]
Does(what)  == todo # <<>> /\ Head(todo).do = what
Site        == Head(todo).path
Node        == NodeAt(Current, Site)
Part(field) == Append(Site, field)
Children(field) == [k \in DOMAIN Node[field] |-> Visit(Site \o <<field, k>>)]
Visits(in, types) == phase = in /\ Does("visit") /\ Node.type \in types
Then(work)  == todo' = work \o Tail(todo)
Becomes(work) == Then(work) /\ UNCHANGED <<placeVars, scopeVars, loop_depth, errors>>

(* The struct a type is made of; a tag stands for its layout.              *)
RECURSIVE Tagged(_)
Tagged(ty) == IF IsStruct(ty) THEN {ty} ELSE IF IsPointerLike(ty) THEN Tagged(ty.base) ELSE {}
Known(ty)  == Tagged(ty) \subseteq structs

(* sema_find_global: 0 if there is none. *)
FindGlobal(name) ==
  LET named == {k \in DOMAIN globals : globals[k].sym.name = name}
  IN IF named = {} THEN 0 ELSE CHOOSE k \in named : TRUE

-----------------------------------------------------------------------------
(* sema_collect_top_level *)

Entry(item) ==
  [sym |-> item.sym, is_function |-> item.item # "global", is_defined |-> item.item = "function",
   params |-> IF item.item = "global" THEN <<>> ELSE item.params]

Collecting == phase = "collect" /\ at <= Len(unit)
NextItem   == at' = at + 1
Rejects    == errors' = errors + 1
CollectRest == UNCHANGED <<scopeVars, unit, phase, frames, loop_depth, todo>>

(* sema_add_struct *)
CollectStruct ==
  /\ Collecting /\ Current.item = "struct"
  /\ IF Current.ty \in structs THEN Rejects /\ UNCHANGED structs
     ELSE structs' = structs \cup {Current.ty} /\ UNCHANGED errors
  /\ NextItem
  /\ UNCHANGED globals /\ CollectRest

(* sema_add_global of a name not seen before. *)
CollectFirst ==
  /\ Collecting /\ Current.item # "struct" /\ FindGlobal(Current.sym.name) = 0
  /\ IF Known(Current.sym.ty) THEN globals' = Append(globals, Entry(Current)) /\ UNCHANGED errors
     ELSE Rejects /\ UNCHANGED globals
  /\ NextItem
  /\ UNCHANGED structs /\ CollectRest

(* A prototype may be repeated, before and after the one definition; the   *)
(* parameters that count are those of whichever came first.                *)
CollectAgain ==
  /\ Collecting /\ Current.item # "struct" /\ FindGlobal(Current.sym.name) # 0
  /\ LET k == FindGlobal(Current.sym.name)
         twice == IF Current.item = "function" THEN globals[k].is_defined ELSE Current.item = "global"
     IN IF twice \/ ~ globals[k].is_function
          THEN Rejects /\ UNCHANGED globals
          ELSE /\ globals' = [globals EXCEPT ![k].is_defined = @ \/ Current.item = "function"]
               /\ UNCHANGED errors
  /\ NextItem
  /\ UNCHANGED structs /\ CollectRest

Collected ==
  /\ phase = "collect" /\ at > Len(unit)
  /\ phase' = "resolve" /\ at' = 1
  /\ UNCHANGED <<scopeVars, unit, tableVars, frames, errors, loop_depth, todo>>

-----------------------------------------------------------------------------
(* sema_analyze_top_level *)

BetweenItems == todo = <<>> /\ at <= Len(unit)

RECURSIVE IsConstant(_)
IsConstant(e) ==
  CASE e.type \in {"nothing", "literal", "sizeof"} -> TRUE
    [] e.type = "braces" -> \A k \in DOMAIN e.items : IsConstant(e.items[k].value)
    [] e.type \in {"unary", "cast"} -> IsConstant(e.left)
    [] e.type \in {"binary", "and", "or", "comma"} -> IsConstant(e.left) /\ IsConstant(e.right)
    [] e.type = "conditional" -> IsConstant(e.left) /\ IsConstant(e.then) /\ IsConstant(e.else)
    [] OTHER -> FALSE

ResolveData ==
  /\ phase = "resolve" /\ BetweenItems /\ Current.item # "function"
  /\ errors' = IF Current.item = "global" /\ ~ IsConstant(Current.init) THEN errors + 1 ELSE errors
  /\ NextItem
  /\ UNCHANGED <<scopeVars, unit, phase, tableVars, frames, loop_depth, todo>>

(* The body's own block is no scope of its own. *)
FunctionWork ==
  [k \in DOMAIN Current.params |-> Accept(k)]
    \o [k \in DOMAIN Current.body.body |-> Visit(<<"body", "body", k>>)] \o <<EndFunction>>

StartResolving ==
  /\ phase = "resolve" /\ BetweenItems /\ Current.item = "function"
  /\ StartFunction(<<>>, 0)
  /\ loop_depth' = 0
  /\ todo' = FunctionWork
  /\ UNCHANGED <<placeVars, errors>>

(* The symbols and the frame the rest of the compiler reads. *)
FinishResolving ==
  /\ phase = "resolve" /\ Does("end function")
  /\ frames' = (at :> [slots |-> slots, size |-> frame_max]) @@ frames
  /\ NextItem /\ Then(<<>>)
  /\ UNCHANGED <<scopeVars, unit, phase, tableVars, errors, loop_depth>>

(* The second pass sees nothing of a unit that failed the first. *)
Resolved ==
  /\ phase = "resolve" /\ at > Len(unit)
  /\ phase' = IF errors = 0 THEN "type" ELSE "rejected"
  /\ at' = 1
  /\ UNCHANGED <<scopeVars, unit, tableVars, frames, errors, loop_depth, todo>>

(* A parameter, in either pass; one of a struct is of a struct that is known. *)
TakeParameter ==
  /\ Does("parameter")
  /\ LET sym == Current.params[Head(todo).index]
     IN /\ Known(sym.ty)
        /\ AddParameter(sym, Head(todo).index - 1)
        /\ errors' = IF DeclaredHere(sym.name) THEN errors + 1 ELSE errors
  /\ Then(<<>>)
  /\ UNCHANGED <<placeVars, loop_depth>>

-----------------------------------------------------------------------------
(* sema_analyze_expression *)

(* The expressions directly inside e that the first pass goes on to. *)
Parts(e) ==
  CASE e.type \in {"dereference", "field", "address", "cast", "unary", "step"} -> <<e.left>>
    [] e.type \in {"subscript", "assign", "binary", "and", "or", "comma"} -> <<e.left, e.right>>
    [] e.type = "conditional" -> <<e.left, e.then, e.else>>
    [] e.type = "call" -> e.args
    [] e.type \in {"braces", "compound"} -> [k \in DOMAIN e.items |-> e.items[k].value]
    [] OTHER -> <<>>

IsFunctionPointer(ty) == ty.kind = "pointer" /\ ty.base.kind = "function"
CallsPointer(name) == FindLocal(name) # 0 /\ IsFunctionPointer(locals[FindLocal(name)].sym.ty)

Misused(e) ==
  LET name == e.sym.name
      g == FindGlobal(name)
  IN CASE e.type = "name" -> FindLocal(name) = 0 /\ g = 0
       [] e.type = "call" -> /\ ~ CallsPointer(name)
                             /\ \/ FindLocal(name) # 0 \/ g = 0
                                \/ ~ globals[g].is_function
                                \/ Len(e.args) # Len(globals[g].params)
       [] OTHER -> FALSE

RECURSIVE Misuses(_)
Misuses(e) ==
  (IF Misused(e) THEN 1 ELSE 0)
    + FoldLeft(LAMBDA n, part : n + Misuses(part), 0, Parts(e))

RECURSIVE Literals(_)
Literals(e) ==
  (IF e.type = "compound" THEN <<Reserve(e.sym)>> ELSE <<>>)
    \o FlattenSeq([k \in DOMAIN Parts(e) |-> Literals(Parts(e)[k])])

LookAtExpression ==
  /\ phase = "resolve" /\ Does("look")
  /\ errors' = errors + Misuses(Node)
  /\ Then(Literals(Node))
  /\ UNCHANGED <<scopeVars, placeVars, loop_depth>>

ReserveNext ==
  /\ Does("reserve")
  /\ ReserveLiteral(Head(todo).sym)
  /\ Then(<<>>)
  /\ UNCHANGED <<placeVars, loop_depth, errors>>

-----------------------------------------------------------------------------
(* sema_analyze_statement *)

(* Scopes open and close alike in both passes. *)
OpenScope(work) ==
  /\ EnterScope
  /\ Then(work \o <<CloseScope>>)
  /\ UNCHANGED <<placeVars, loop_depth, errors>>

CloseScopeNext ==
  /\ Does("close scope")
  /\ LeaveScope
  /\ Then(<<>>)
  /\ UNCHANGED <<placeVars, loop_depth, errors>>

(* sema_add_local and its two complaints; the initialiser comes after, and *)
(* sees the name.                                                          *)
Declaring(sym) ==
  /\ IF DeclaredHere(sym.name) \/ ~ Known(sym.ty) THEN Rejects /\ UNCHANGED scopeVars
     ELSE AddLocal(sym) /\ UNCHANGED errors
  /\ Then(<<Look(Part("init"))>>)
  /\ UNCHANGED <<placeVars, loop_depth>>

ResolveBlock       == Visits("resolve", {"block"}) /\ OpenScope(Children("body"))
ResolveDeclaration == Visits("resolve", {"declaration"}) /\ Declaring(Node.sym)
ResolveSimple   == Visits("resolve", {"expression", "return"}) /\ Becomes(<<Look(Part("left"))>>)
ResolveNothing  == Visits("resolve", {"nothing", "goto"}) /\ Becomes(<<>>)
ResolveLabelled == Visits("resolve", {"label", "case", "default"}) /\ Becomes(<<Visit(Part("body"))>>)
ResolveIf ==
  /\ Visits("resolve", {"if"})
  /\ Becomes(<<Look(Part("left")), Visit(Part("then")), Visit(Part("else"))>>)

(* break leaves a switch as it leaves a loop. *)
Breakable(before, after) ==
  /\ loop_depth' = loop_depth + 1
  /\ Then(before \o <<Visit(Part("body")), CloseLoop>> \o after)
  /\ UNCHANGED <<placeVars, errors>>

ResolveWhile ==
  Visits("resolve", {"while", "switch"}) /\ Breakable(<<Look(Part("left"))>>, <<>>) /\ UNCHANGED scopeVars
ResolveDo ==
  Visits("resolve", {"do"}) /\ Breakable(<<>>, <<Look(Part("left"))>>) /\ UNCHANGED scopeVars

ForHeader ==
  <<IF Node.init.type = "declaration" THEN Visit(Part("init")) ELSE Look(Part("init")),
    Look(Part("left")), Look(Part("post"))>>

ResolveFor ==
  Visits("resolve", {"for"}) /\ EnterScope /\ Breakable(ForHeader, <<CloseScope>>)

CloseLoopNext ==
  /\ Does("close loop")
  /\ loop_depth' = loop_depth - 1
  /\ Then(<<>>)
  /\ UNCHANGED <<scopeVars, placeVars, errors>>

ResolveLeave ==
  /\ Visits("resolve", {"break", "continue"})
  /\ errors' = IF loop_depth = 0 THEN errors + 1 ELSE errors
  /\ Then(<<>>)
  /\ UNCHANGED <<scopeVars, placeVars, loop_depth>>

-----------------------------------------------------------------------------
ResolveNext ==
  \/ CollectStruct \/ CollectFirst \/ CollectAgain \/ Collected
  \/ ResolveData \/ StartResolving \/ FinishResolving \/ Resolved
  \/ TakeParameter \/ LookAtExpression \/ ReserveNext \/ CloseScopeNext \/ CloseLoopNext
  \/ ResolveBlock \/ ResolveDeclaration \/ ResolveSimple \/ ResolveNothing \/ ResolveIf
  \/ ResolveLabelled \/ ResolveWhile \/ ResolveDo \/ ResolveFor \/ ResolveLeave

ResolveInit(items) ==
  /\ unit = items
  /\ phase = "collect" /\ at = 1
  /\ structs = {} /\ globals = <<>> /\ frames = <<>>
  /\ errors = 0 /\ loop_depth = 0 /\ todo = <<>>
  /\ ScopeInit
=============================================================================
