-------------------------------- MODULE Lower --------------------------------
(***************************************************************************)
(* src/src/ir/lower.c: the analysed syntax tree becomes three-address      *)
(* code, one action per node visited and per instruction appended.         *)
(*                                                                         *)
(* The C functions call each other down the tree; what they still have to  *)
(* do when a call returns is here the work list todo, and the values they  *)
(* hold meanwhile are vals.  All of it turns on the insertion point: it    *)
(* moves whenever an expression or a statement branches, and whatever is   *)
(* appended afterwards goes where it points then.                          *)
(***************************************************************************)
EXTENDS Syntax, Ir

CONSTANTS
  Sources,    \* the programs lowered: sequences of functions
  NodesOf,    \* the nodes of the tree of each function
  MaxCases    \* how many cases of one switch are collected (256)

-----------------------------------------------------------------------------
(* The trees that are lowered *)

AllFunctions == UNION {Range(P) : P \in Sources}
AllNodes     == UNION {NodesOf[f] : f \in AllFunctions}

(* The statements a statement consists of. *)
Within(n) ==
  CASE n.type = "block" -> n.body
    [] n.type = "if" -> <<n.then, n.else>>
    [] n.type \in {"while", "do", "for", "switch", "label", "case", "default"} -> <<n.body>>
    [] OTHER -> <<>>

(* The expressions and statements a node is lowered by way of. *)
Beneath(n) ==
  Range(Within(n)) \cup
  CASE n.type \in {"dereference", "field", "address", "cast", "unary", "step",
                   "expression", "return", "if", "while", "do", "switch"} -> {n.left}
    [] n.type \in {"subscript", "assign", "comma", "binary", "and", "or"} -> {n.left, n.right}
    [] n.type = "conditional" -> {n.left, n.then, n.else}
    [] n.type = "call" -> Range(n.args)
    [] n.type = "for" -> {n.init, n.left, n.post}
    [] n.type = "declaration" -> IF n.init.type = "braces" THEN {i.value : i \in Range(n.init.items)}
                                 ELSE {n.init}
    [] OTHER -> {}

IsVoid(n) == IsNull(n) \/ n.ty.ir = "void"

(* The operands a node needs a value of, and the one whose value it hands on. *)
Operands(n) ==
  CASE n.type \in {"dereference", "unary", "if", "while", "do", "switch"} -> {n.left}
    [] n.type \in {"subscript", "binary", "and", "or"} -> {n.left, n.right}
    [] n.type = "cast" /\ n.ty # n.left.ty -> {n.left}
    [] n.type = "assign" -> {n.right}
    [] n.type = "conditional" -> {n.left, n.then, n.else}
    [] n.type = "call" -> Range(n.args)
    [] n.type = "for" -> {n.left} \ {Nothing}
    [] n.type = "declaration" -> Beneath(n) \ ({n.init} \cap {Nothing})
    [] OTHER -> {}

HandedOn(n) ==
  CASE n.type = "comma" -> {n.right}
    [] n.type = "cast" /\ n.ty = n.left.ty -> {n.left}
    [] OTHER -> {}

(***************************************************************************)
(* The labels a statement holds, the case labels, and those of them that   *)
(* belong to a switch around it.                                           *)
(***************************************************************************)
IsCase(n) == n.type \in {"case", "default"}

LabelsAt(n, in) == (IF n.type = "label" THEN {n.name} ELSE {}) \cup UNION {in[m] : m \in Range(Within(n))}
CasesAt(n, in)  == (IF IsCase(n) THEN {n} ELSE {}) \cup UNION {in[m] : m \in Range(Within(n))}

LabelsIn[n \in AllNodes] == LabelsAt(n, LabelsIn)
CasesIn[n \in AllNodes]  == CasesAt(n, CasesIn)
OwnCases[n \in AllNodes] == IF n.type = "switch" THEN {} ELSE CasesAt(n, OwnCases)

ASSUME TreesFinite ==
  \A n \in AllNodes :
    /\ LabelsIn[n] = LabelsAt(n, LabelsIn) /\ CasesIn[n] = CasesAt(n, CasesIn)
    /\ OwnCases[n] = IF n.type = "switch" THEN {} ELSE CasesAt(n, OwnCases)
    /\ OwnCases[n] \subseteq CasesIn[n]

(***************************************************************************)
(* What C asks of each node.  The analysis checks that operands have       *)
(* values and operators are the language's; and, as C has it, a name       *)
(* labels one statement of its function, a goto names one of them, and a   *)
(* case label is one node of the tree.  Left out is what lower.c does not  *)
(* cope with: void arms of ?:, and more cases than case_blocks has room    *)
(* for.                                                                    *)
(***************************************************************************)
WellTyped(n) ==
  /\ n.type = "nothing" => IsNull(n)
  /\ \A m \in Operands(n) : ~ IsVoid(m)
  /\ \A m \in HandedOn(n) : IsVoid(m) => IsVoid(n)
  /\ n.type = "unary"  => n.op \in {"neg", "complement", "lognot"}
  /\ n.type = "step"   => n.op \in {"add", "sub"}
  /\ n.type = "binary" => n.op \in {"add", "sub", "mul", "div", "mod", "shl", "shr", "and", "or", "xor",
                                   "eq", "ne", "lt", "le", "gt", "ge"}
  /\ n.type = "call" => IsSeq(n.args)
  /\ n.type = "declaration" /\ n.init.type = "braces" => IsSeq(n.init.items)

(* The cases of a switch; no more than are collected, and one default. *)
CasesFit(C) ==
  /\ IsFiniteSet(C) /\ Cardinality({c \in C : c.type = "case"}) <= MaxCases
  /\ \A c, d \in C : c.type = "default" /\ d.type = "default" => c = d

WellLabelled(n) ==
  LET parts == Within(n)
  IN /\ IsSeq(parts)
     /\ \A j, k \in DOMAIN parts :
          j # k => /\ LabelsIn[parts[j]] \cap LabelsIn[parts[k]] = {}
                   /\ CasesIn[parts[j]] \cap CasesIn[parts[k]] = {}
     /\ n.type = "label" => n.name \notin LabelsIn[n.body]
     /\ IsCase(n) => n \notin CasesIn[n.body]
     /\ n.type = "switch" => CasesFit(OwnCases[n.body])

WellFormedTree(f) ==
  /\ IsSeq(f.params)
  /\ f.body \in NodesOf[f]
  /\ \A n \in NodesOf[f] :
       /\ Beneath(n) \subseteq NodesOf[f] /\ WellTyped(n) /\ WellLabelled(n)
       /\ n.type = "goto" => n.name \in LabelsIn[f.body]
  /\ OwnCases[f.body] = {}
  /\ \A c, d \in CasesIn[f.body] : c.id = d.id => c = d

ASSUME SourcesAnalysed ==
  /\ MaxCases \in Nat
  /\ \A P \in Sources : IsSeq(P) /\ P # <<>>
  /\ \A f \in AllFunctions : WellFormedTree(f)

-----------------------------------------------------------------------------
VARIABLES
  source,     \* the program being lowered
  program,    \* the functions lowered so far
  func,       \* ir_func under construction
  block,      \* ctx.block, the insertion point
  loops,      \* ctx.loops, innermost last
  labels,     \* ctx.labels: label -> block
  slots,      \* ctx.slots: symbol -> value
  caseBlocks, \* ctx.case_blocks
  stamped,    \* string_label of the case nodes that were written on
  cases,      \* lower_switch: the cases collected
  defaults,   \* lower_switch: default_case, at most one node
  todo,       \* what remains to be done, next first
  vals        \* values computed and not yet used, newest last

vars == <<source, program, func, block, loops, labels, slots, caseBlocks,
          stamped, cases, defaults, todo, vals>>

-----------------------------------------------------------------------------
(* Work *)

Statement(n)  == [do |-> "statement", node |-> n]
Value(n)      == [do |-> "value", node |-> n]       \* lower_expr
Address(n)    == [do |-> "address", node |-> n]     \* lower_addr
Parameter(k)  == [do |-> "parameter", index |-> k]
JumpTo(b)     == [do |-> "jump", to |-> b]
BranchTo(t, e) == [do |-> "branch", to |-> <<t, e>>]
OpenAt(b)     == [do |-> "open", block |-> b]
OpenNew       == [do |-> "open new"]
PushLoop(b, c) == [do |-> "push loop", target |-> [onBreak |-> b, onContinue |-> c]]
PopLoop       == [do |-> "pop loop"]
Collect(n)    == [do |-> "collect", node |-> n]
Forget        == [do |-> "forget"]
EmitReturn    == [do |-> "return"]

(***************************************************************************)
(* Append an instruction: the newest takes values are removed, those at    *)
(* the positions uses are its operands, and then values are left: the ones *)
(* at the positions leaves, 0 being the instruction's own.                 *)
(***************************************************************************)
Result == 0
Appending(op, takes, uses, ty, leaves) ==
  [do |-> "append", op |-> op, takes |-> takes, uses |-> uses, ty |-> ty.ir,
   leaves |-> leaves, imm |-> 0]

ConstOf(n, ty)   == [Appending("const", 0, <<>>, ty, <<Result>>) EXCEPT !.imm = n]
GlobalOf(sym)    == [Appending("global", 0, <<>>, PointerTo(sym.ty), <<Result>>)
                       EXCEPT !.imm = sym.number]
Load(ty)         == Appending("load", 1, <<1>>, ty, <<Result>>)
Combine(op, ty)  == Appending(op, 2, <<1, 2>>, ty, <<Result>>)
Store(leaves)    == Appending("store", 2, <<1, 2>>, VoidType, leaves)

HasResult(op, ty) == op \notin {"store", "memcpy"} /\ (op = "call" => ty # "void")

Does(what) == todo # <<>> /\ Head(todo).do = what
Visits(what, type) == Does(what) /\ Head(todo).node.type = type
Node == Head(todo).node
Then(work) == todo' = work \o Tail(todo)

Newest      == Last(vals)
Older(n)    == SubSeq(vals, 1, Len(vals) - n)

Terminated == func.code[block] # <<>> /\ IsTerminator(Last(func.code[block]).op)

treeVars  == <<source, program>>
tableVars == <<loops, labels, slots, caseBlocks, stamped, cases, defaults>>

(* The next piece of work turns out to be several, and nothing else.       *)
Becomes(work) ==
  /\ Then(work)
  /\ UNCHANGED <<treeVars, tableVars, func, block, vals>>

-----------------------------------------------------------------------------
(* Appending instructions and moving the insertion point *)

(* ir_emit with its operands, and ir_set_dst. *)
AppendNext ==
  /\ Does("append")
  /\ LET work  == Head(todo)
         taken == SubSeq(vals, Len(vals) - work.takes + 1, Len(vals))
         dst   == IF HasResult(work.op, work.ty) THEN FreshValue(func) ELSE NoValue
         plain == Instr(work.op, dst, [k \in DOMAIN work.uses |-> taken[work.uses[k]]])
         instr == [plain EXCEPT !.imm = work.imm, !.ty = IF dst = NoValue THEN @ ELSE work.ty]
     IN /\ func' = [Emit(func, block, instr) EXCEPT !.values = IF dst = NoValue THEN @ ELSE dst]
        /\ vals' = Older(work.takes) \o
                     [k \in DOMAIN work.leaves |->
                        IF work.leaves[k] = Result THEN dst ELSE taken[work.leaves[k]]]
  /\ Then(<<>>)
  /\ UNCHANGED <<treeVars, tableVars, block>>

JumpNext ==
  /\ Does("jump")
  /\ func' = IF Terminated THEN func ELSE Emit(func, block, Jump(Head(todo).to))
  /\ Then(<<>>)
  /\ UNCHANGED <<treeVars, tableVars, block, vals>>

BranchNext ==
  /\ Does("branch")
  /\ func' = IF Terminated THEN func
             ELSE Emit(func, block, [Instr("br", NoValue, <<Newest>>) EXCEPT !.to = Head(todo).to])
  /\ vals' = Older(1)
  /\ Then(<<>>)
  /\ UNCHANGED <<treeVars, tableVars, block>>

OpenBlock ==
  /\ Does("open")
  /\ block' = Head(todo).block
  /\ Then(<<>>)
  /\ UNCHANGED <<treeVars, tableVars, func, vals>>

(* Somewhere to put what follows a jump: no block leads here. *)
OpenNewBlock ==
  /\ Does("open new")
  /\ func' = NewBlock(func)
  /\ block' = LastBlock(func')
  /\ Then(<<>>)
  /\ UNCHANGED <<treeVars, tableVars, vals>>

ForgetValue ==
  /\ Does("forget")
  /\ vals' = Older(1)
  /\ Then(<<>>)
  /\ UNCHANGED <<treeVars, tableVars, func, block>>

PushLoopNext ==
  /\ Does("push loop")
  /\ loops' = Append(loops, Head(todo).target)
  /\ Then(<<>>)
  /\ UNCHANGED <<treeVars, func, block, labels, slots, caseBlocks, stamped, cases, defaults, vals>>

PopLoopNext ==
  /\ Does("pop loop")
  /\ loops' = Front(loops)
  /\ Then(<<>>)
  /\ UNCHANGED <<treeVars, func, block, labels, slots, caseBlocks, stamped, cases, defaults, vals>>

-----------------------------------------------------------------------------
(* Slots *)

(* The type of every slot is "ptr": lowering does not read what it points to. *)

(* Slip: the slot is reserved where the declaration is. *)
SlotWhereDeclared(f) ==
  LET alloca == [Instr("alloca", FreshValue(f), <<>>) EXCEPT !.ty = "ptr"]
  IN [Emit(f, block, alloca) EXCEPT !.values = @ + 1]

(* ir_emit_front into the entry: a slot is reserved once, on entry. *)
WithSlot(f) ==
  LET alloca == [Instr("alloca", FreshValue(f), <<>>) EXCEPT !.ty = "ptr"]
  IN [f EXCEPT !.code[EntryBlock] = <<alloca>> \o @, !.values = @ + 1]

HasSlot(sym) == sym \in DOMAIN slots

SlotFor(sym, f) == IF HasSlot(sym) THEN slots[sym] ELSE FreshValue(f)

WithSlotFor(sym, f) == IF HasSlot(sym) THEN f ELSE WithSlot(f)

(* slot_for: the slot of sym, made on first mention. *)
TakeSlot(sym) ==
  /\ func' = WithSlotFor(sym, func)
  /\ slots' = [s \in DOMAIN slots \cup {sym} |-> IF HasSlot(s) THEN slots[s] ELSE SlotFor(s, func)]
  /\ vals' = Append(vals, SlotFor(sym, func))

-----------------------------------------------------------------------------
(* lower_addr *)

LocalAddress ==
  /\ Does("address") /\ Node.type \in {"name", "compound"} /\ IsLocal(Node.sym)
  /\ TakeSlot(Node.sym)
  /\ Then(<<>>)
  /\ UNCHANGED <<treeVars, block, loops, labels, caseBlocks, stamped, cases, defaults>>

GlobalAddressOf ==
  /\ Visits("address", "name") /\ ~ IsLocal(Node.sym)
  /\ Becomes(<<GlobalOf(Node.sym)>>)

DereferenceAddress ==
  /\ Visits("address", "dereference")
  /\ Becomes(<<Value(Node.left)>>)

SubscriptAddress ==
  /\ Visits("address", "subscript")
  /\ Becomes(<<Value(Node.left), Value(Node.right), ConstOf(ElementSize(Node.left.ty), LongType),
            Appending("mul", 3, <<2, 3>>, LongType, <<1, Result>>),
            Combine("add", PointerTo(Node.ty))>>)

FieldAddress ==
  /\ Visits("address", "field")
  /\ Becomes(<<Address(Node.left), ConstOf(Node.left.ty.members[Node.member].offset, LongType),
            Combine("add", PointerTo(Node.ty))>>)

-----------------------------------------------------------------------------
(* lower_expr *)

NoExpression ==
  /\ Visits("value", "nothing")
  /\ vals' = Append(vals, NoValue)
  /\ Then(<<>>)
  /\ UNCHANGED <<treeVars, tableVars, func, block>>

LiteralValue ==
  /\ Visits("value", "literal")
  /\ Becomes(<<ConstOf(Node.value, Node.ty)>>)

(* An array or a struct is used by its address. *)
ObjectValue ==
  /\ Does("value") /\ Node.type \in {"name", "dereference", "subscript", "field", "compound"}
  /\ Becomes(<<Address(Node)>> \o IF IsAggregate(Node.ty) THEN <<>> ELSE <<Load(Node.ty)>>)

(* The size of the result's type, whatever the operand is. *)
SizeOfValue ==
  /\ Visits("value", "sizeof")
  /\ Becomes(<<ConstOf(Node.ty.size, ULongType)>>)

AddressOfValue ==
  /\ Visits("value", "address")
  /\ Becomes(<<Address(Node.left)>>)

(* lower_assign of a value: its worth is the value stored. *)
Assigned(node) ==
  <<Value(node.right), Address(node.left),
    Appending("store", 2, <<2, 1>>, VoidType, <<1>>)>>

AssignValue ==
  /\ Visits("value", "assign") /\ ~ IsStruct(Node.left.ty)
  /\ Becomes(Assigned(Node))

AssignStruct ==
  /\ Visits("value", "assign") /\ IsStruct(Node.left.ty)
  /\ Becomes(IF Node.right.type = "call"
            THEN <<Value(Node.right), Address(Node.left),
                   Appending("store", 2, <<2, 1>>, VoidType, <<2>>)>>
            ELSE <<Address(Node.right), Address(Node.left),
                   [Appending("memcpy", 2, <<2, 1>>, VoidType, <<2>>) EXCEPT !.imm = Node.left.ty.size]>>)

(* A direct call names its function, an indirect one loads it; then the    *)
(* arguments, and only then the call.                                      *)
ArgumentsAndCall(node) ==
  [k \in DOMAIN node.args |-> Value(node.args[k])] \o
  <<Appending("call", Len(node.args) + 1, [k \in 1 .. Len(node.args) + 1 |-> k], node.ty, <<Result>>)>>

DirectCall ==
  /\ Visits("value", "call") /\ ~ IsLocal(Node.sym)
  /\ Becomes(<<GlobalOf(Node.sym)>> \o ArgumentsAndCall(Node))

IndirectCall ==
  /\ Visits("value", "call") /\ IsLocal(Node.sym)
  /\ TakeSlot(Node.sym)
  /\ Then(<<Load(Node.sym.ty)>> \o ArgumentsAndCall(Node))
  /\ UNCHANGED <<treeVars, block, loops, labels, caseBlocks, stamped, cases, defaults>>

CastValue ==
  /\ Visits("value", "cast")
  /\ Becomes(<<Value(Node.left)>> \o
          IF Node.ty = Node.left.ty THEN <<>> ELSE <<Appending("cast", 1, <<1>>, Node.ty, <<Result>>)>>)

UnaryValue ==
  /\ Visits("value", "unary")
  /\ Becomes(<<Value(Node.left), Appending(Node.op, 1, <<1>>, Node.ty, <<Result>>)>>)

(* Slip: a pointer moves by one byte. *)
StepByOne(ty) == 1

StepOf(ty) == IF IsPointerLike(ty) THEN ElementSize(ty) ELSE 1

(* lower_incdec: ++x and x++ differ in the value they leave. *)
StepValue ==
  /\ Visits("value", "step")
  /\ Becomes(<<Address(Node.left),
            Appending("load", 1, <<1>>, Node.ty, <<1, Result>>),
            ConstOf(StepOf(Node.ty), Node.ty),
            Appending(Node.op, 3, <<2, 3>>, Node.ty, <<1, 2, Result>>),
            Appending("store", 3, <<1, 3>>, VoidType, IF Node.prefix THEN <<3>> ELSE <<2>>)>>)

CommaValue ==
  /\ Visits("value", "comma")
  /\ Becomes(<<Value(Node.left), Forget, Value(Node.right)>>)

(* The operation once both operands are on top; pointers count elements.   *)
Operation(node) ==
  LET lt == node.left.ty
      rt == node.right.ty
  IN IF node.op \notin {"add", "sub"} \/ ~ (IsPointerLike(lt) \/ IsPointerLike(rt))
       THEN <<Combine(node.op, node.ty)>>
     ELSE IF IsPointerLike(lt) /\ IsPointerLike(rt)
       THEN <<Combine("sub", LongType), ConstOf(ElementSize(lt), LongType), Combine("div", node.ty)>>
     ELSE IF IsPointerLike(lt)
       THEN <<ConstOf(ElementSize(lt), LongType),
              Appending("mul", 3, <<2, 3>>, LongType, <<1, Result>>), Combine(node.op, node.ty)>>
     ELSE <<ConstOf(ElementSize(rt), LongType),
            Appending("mul", 3, <<1, 3>>, LongType, <<Result, 2>>), Combine("add", node.ty)>>

BinaryValue ==
  /\ Visits("value", "binary")
  /\ Becomes(<<Value(Node.left), Value(Node.right)>> \o Operation(Node))

(* && and ||: the answer waits in a slot of its own. *)
IsTrue == <<ConstOf(0, IntType), Combine("ne", IntType)>>

ShortCircuit ==
  /\ Does("value") /\ Node.type \in {"and", "or"}
  /\ func' = WithSlot(NewBlock(NewBlock(func)))
  /\ vals' = Append(vals, FreshValue(func))
  /\ LET rhs  == LastBlock(func) + 1
         done == LastBlock(func) + 2
     IN Then(<<Value(Node.left)>> \o IsTrue \o
             <<Store(<<1, 2>>), IF Node.type = "and" THEN BranchTo(rhs, done) ELSE BranchTo(done, rhs),
               OpenAt(rhs), Value(Node.right)>> \o IsTrue \o
             <<Store(<<1>>), JumpTo(done), OpenAt(done), Load(IntType)>>)
  /\ UNCHANGED <<treeVars, tableVars, block>>

ConditionalValue ==
  /\ Visits("value", "conditional")
  /\ func' = WithSlot(NewBlock(NewBlock(NewBlock(func))))
  /\ vals' = Append(vals, FreshValue(func))
  /\ LET then == LastBlock(func) + 1
         else == LastBlock(func) + 2
         done == LastBlock(func) + 3
     IN Then(<<Value(Node.left), BranchTo(then, else),
               OpenAt(then), Value(Node.then), Store(<<1>>), JumpTo(done),
               OpenAt(else), Value(Node.else), Store(<<1>>), JumpTo(done),
               OpenAt(done), Load(Node.ty)>>)
  /\ UNCHANGED <<treeVars, tableVars, block>>

-----------------------------------------------------------------------------
(* Statements *)

Sequence ==
  /\ Visits("statement", "block")
  /\ Becomes([k \in DOMAIN Node.body |-> Statement(Node.body[k])])

EmptyStatement ==
  /\ Visits("statement", "nothing")
  /\ Becomes(<<>>)

ExpressionStatement ==
  /\ Visits("statement", "expression")
  /\ Becomes(<<Value(Node.left), Forget>>)

(* The member or element each item of a brace initialiser fills. *)
FilledBy(items) ==
  LET fills[j \in DOMAIN items] ==
        IF items[j].at # 0 THEN items[j].at ELSE IF j = 1 THEN 1 ELSE fills[j - 1] + 1
  IN fills

(* One item: its address is the slot's plus an offset. *)
FillItem(ty, k, e) ==
  LET piece  == IF ty.kind = "struct" THEN ty.members[k].ty ELSE ty.base
      offset == IF ty.kind = "struct" THEN ty.members[k].offset ELSE (k - 1) * ElementSize(ty)
  IN <<ConstOf(offset, LongType), Appending("add", 2, <<1, 2>>, PointerTo(piece), <<1, Result>>),
       Value(e), Appending("store", 3, <<2, 3>>, VoidType, <<1>>)>>

Initialised(ty, init) ==
  CASE IsNull(init) -> <<Forget>>
    [] init.type = "braces" ->
         FlattenSeq([j \in DOMAIN init.items |->
                       FillItem(ty, FilledBy(init.items)[j], init.items[j].value)]) \o <<Forget>>
    [] ~ IsNull(init) /\ init.type \notin {"braces", "call"} /\ ty.kind = "struct" ->
         <<Address(init), [Appending("memcpy", 2, <<1, 2>>, VoidType, <<>>) EXCEPT !.imm = ty.size]>>
    [] OTHER -> <<Value(init), Store(<<>>)>>

Declaration ==
  /\ Visits("statement", "declaration")
  /\ TakeSlot(Node.sym)
  /\ Then(Initialised(Node.ty, Node.init))
  /\ UNCHANGED <<treeVars, block, loops, labels, caseBlocks, stamped, cases, defaults>>

IfStatement ==
  /\ Visits("statement", "if")
  /\ LET then == LastBlock(func) + 1
         else == LastBlock(func) + 2
         done == LastBlock(func')
     IN IF IsNull(Node.else)
          THEN /\ func' = NewBlock(NewBlock(func))
               /\ Then(<<Value(Node.left), BranchTo(then, done),
                         OpenAt(then), Statement(Node.then), JumpTo(done), OpenAt(done)>>)
          ELSE /\ func' = NewBlock(NewBlock(NewBlock(func)))
               /\ Then(<<Value(Node.left), BranchTo(then, else),
                         OpenAt(then), Statement(Node.then), JumpTo(done),
                         OpenAt(else), Statement(Node.else), JumpTo(done), OpenAt(done)>>)
  /\ UNCHANGED <<treeVars, tableVars, block, vals>>

(* The body of a loop, with where break and continue go. *)
Looped(body, onBreak, onContinue) ==
  <<PushLoop(onBreak, onContinue), Statement(body), PopLoop>>

WhileStatement ==
  /\ Visits("statement", "while")
  /\ func' = NewBlock(NewBlock(NewBlock(func)))
  /\ LET test == LastBlock(func) + 1
         body == LastBlock(func) + 2
         done == LastBlock(func) + 3
     IN Then(<<JumpTo(test), OpenAt(test), Value(Node.left), BranchTo(body, done), OpenAt(body)>> \o
             Looped(Node.body, done, test) \o <<JumpTo(test), OpenAt(done)>>)
  /\ UNCHANGED <<treeVars, tableVars, block, vals>>

DoStatement ==
  /\ Visits("statement", "do")
  /\ func' = NewBlock(NewBlock(NewBlock(func)))
  /\ LET body == LastBlock(func) + 1
         test == LastBlock(func) + 2
         done == LastBlock(func) + 3
     IN Then(<<JumpTo(body), OpenAt(body)>> \o Looped(Node.body, done, test) \o
             <<JumpTo(test), OpenAt(test), Value(Node.left), BranchTo(body, done), OpenAt(done)>>)
  /\ UNCHANGED <<treeVars, tableVars, block, vals>>

(* A clause of a for: a declaration, an expression or nothing. *)
Clause(n) ==
  CASE IsNull(n) -> <<>>
    [] n.type = "declaration" -> <<Statement(n)>>
    [] OTHER -> <<Value(n), Forget>>

ForStatement ==
  /\ Visits("statement", "for")
  /\ func' = NewBlock(NewBlock(NewBlock(NewBlock(func))))
  /\ LET test == LastBlock(func) + 1
         body == LastBlock(func) + 2
         post == LastBlock(func) + 3
         done == LastBlock(func) + 4
         enter == IF IsNull(Node.left) THEN <<JumpTo(body)>>
                                       ELSE <<Value(Node.left), BranchTo(body, done)>>
     IN Then(Clause(Node.init) \o <<JumpTo(test), OpenAt(test)>> \o enter \o <<OpenAt(body)>> \o
             Looped(Node.body, done, post) \o <<JumpTo(post), OpenAt(post)>> \o
             Clause(Node.post) \o <<JumpTo(test), OpenAt(done)>>)
  /\ UNCHANGED <<treeVars, tableVars, block, vals>>

(* Slip: what follows a break is put behind its jump. *)
BreakInPlace ==
  /\ Visits("statement", "break") /\ loops # <<>>
  /\ Becomes(<<JumpTo(Last(loops).onBreak)>>)

(* A statement that leaves: what follows it goes into a block of its own.  *)
BreakStatement ==
  /\ Visits("statement", "break") /\ loops # <<>>
  /\ Becomes(<<JumpTo(Last(loops).onBreak), OpenNew>>)

ContinueStatement ==
  /\ Visits("statement", "continue") /\ loops # <<>>
  /\ Becomes(<<JumpTo(Last(loops).onContinue), OpenNew>>)

(* Slip: a label mentioned before it is reached gets another block. *)
NewBlockForLabel(name) == LastBlock(func) + 1

(* block_for_label *)
BlockForLabel(name) == IF name \in DOMAIN labels THEN labels[name] ELSE LastBlock(func) + 1

NoteLabel(name) ==
  LET b == BlockForLabel(name)
  IN /\ func' = IF b > LastBlock(func) THEN NewBlock(func) ELSE func
     /\ labels' = [l \in DOMAIN labels \cup {name} |-> IF l = name THEN b ELSE labels[l]]

GotoStatement ==
  /\ Visits("statement", "goto")
  /\ NoteLabel(Node.name)
  /\ Then(<<JumpTo(BlockForLabel(Node.name)), OpenNew>>)
  /\ UNCHANGED <<treeVars, block, loops, slots, caseBlocks, stamped, cases, defaults, vals>>

LabelStatement ==
  /\ Visits("statement", "label")
  /\ NoteLabel(Node.name)
  /\ LET b == BlockForLabel(Node.name)
     IN Then(<<JumpTo(b), OpenAt(b), Statement(Node.body)>>)
  /\ UNCHANGED <<treeVars, block, loops, slots, caseBlocks, stamped, cases, defaults, vals>>

ReturnStatement ==
  /\ Visits("statement", "return")
  /\ Becomes(IF Terminated THEN <<>> ELSE <<Value(Node.left), EmitReturn, OpenNew>>)

(* The value of a call to a void function is no operand. *)
ReturnNext ==
  /\ Does("return")
  /\ func' = Emit(func, block, Instr("ret", NoValue, IF Newest = NoValue THEN <<>> ELSE <<Newest>>))
  /\ vals' = Older(1)
  /\ Then(<<>>)
  /\ UNCHANGED <<treeVars, tableVars, block>>

-----------------------------------------------------------------------------
(* lower_switch *)

SwitchStatement ==
  /\ Visits("statement", "switch")
  /\ cases' = <<>> /\ defaults' = <<>>
  /\ Then(<<Collect(Node.body), Value(Node.left), [do |-> "tests", node |-> Node]>>)
  /\ UNCHANGED <<treeVars, func, block, loops, labels, slots, caseBlocks, stamped, vals>>

(* collect_cases: a nested switch owns its own. *)
PartsOf(n) ==
  IF n.type = "switch" THEN <<>> ELSE [k \in DOMAIN Within(n) |-> Collect(Within(n)[k])]

CollectNext ==
  /\ Does("collect")
  /\ cases' = IF Node.type = "case" /\ Len(cases) < MaxCases THEN Append(cases, Node) ELSE cases
  /\ defaults' = IF Node.type = "default" THEN <<Node>> ELSE defaults
  /\ Then(PartsOf(Node))
  /\ UNCHANGED <<treeVars, func, block, loops, labels, slots, caseBlocks, stamped, vals>>

TestsBegin ==
  /\ Does("tests")
  /\ func' = NewBlock(func)
  /\ Then(<<[do |-> "test", next |-> 1, control |-> Newest, done |-> LastBlock(func'), node |-> Node]>>)
  /\ vals' = Older(1)
  /\ UNCHANGED <<treeVars, tableVars, block>>

(* note_case_block *)
NoteCaseBlock(n, b) ==
  /\ caseBlocks' = Append(caseBlocks, b)
  /\ stamped' = [id \in DOMAIN stamped \cup {n.id} |->
                   IF id = n.id THEN Len(caseBlocks) ELSE stamped[id]]

(* One round of the loop over the cases collected. *)
TestCase ==
  /\ Does("test") /\ Head(todo).next <= Len(cases)
  /\ LET work  == Head(todo)
         body  == LastBlock(func) + 1
         next  == LastBlock(func) + 2
         value == FreshValue(func)
         equal == value + 1
         f     == [NewBlock(NewBlock(func)) EXCEPT !.values = equal]
     IN /\ func' = [f EXCEPT !.code[block] = @ \o
                      <<Const(value, cases[work.next].value, "int"),
                        Instr("eq", equal, <<work.control, value>>),
                        [Instr("br", NoValue, <<equal>>) EXCEPT !.to = <<body, next>>]>>]
        /\ block' = next
        /\ NoteCaseBlock(cases[work.next], body)
        /\ Then(<<[work EXCEPT !.next = @ + 1]>>)
  /\ UNCHANGED <<treeVars, loops, labels, slots, cases, defaults, vals>>

ContinueFromSwitch(done) == IF loops # <<>> THEN Last(loops).onContinue ELSE done

(* The body is lowered into a block nothing leads to. *)
TestsEnd ==
  /\ Does("test") /\ Head(todo).next > Len(cases)
  /\ LET work == Head(todo)
         push == <<PushLoop(work.done, ContinueFromSwitch(work.done)), OpenNew,
                   Statement(work.node.body), JumpTo(work.done), PopLoop, OpenAt(work.done)>>
     IN IF defaults = <<>>
          THEN /\ Then(<<JumpTo(work.done)>> \o push)
               /\ UNCHANGED <<func, caseBlocks, stamped>>
          ELSE /\ func' = NewBlock(func)
               /\ NoteCaseBlock(defaults[1], LastBlock(func'))
               /\ Then(<<JumpTo(LastBlock(func'))>> \o push)
  /\ UNCHANGED <<treeVars, block, loops, labels, slots, cases, defaults, vals>>

(* case_block: an index the parser left at 0 when nothing was noted. *)
CaseBlock(n) == caseBlocks[(IF n.id \in DOMAIN stamped THEN stamped[n.id] ELSE 0) + 1]

CaseStatement ==
  /\ Does("statement") /\ Node.type \in {"case", "default"}
  /\ Becomes(<<JumpTo(CaseBlock(Node)), OpenAt(CaseBlock(Node)), Statement(Node.body)>>)

-----------------------------------------------------------------------------
(* lower_function and ir_lower_program *)

(* A parameter arrives as a value and is stored to its slot. *)
ParameterNext ==
  /\ Does("parameter")
  /\ LET sym  == source[Len(program) + 1].params[Head(todo).index]
         in   == [Instr("param", FreshValue(func), <<>>)
                    EXCEPT !.imm = Head(todo).index - 1, !.ty = sym.ty.ir]
         f    == [Emit(func, block, in) EXCEPT !.values = @ + 1]
         slot == FreshValue(f)
     IN /\ func' = Emit(WithSlot(f), block, Instr("store", NoValue, <<slot, in.dst>>))
        /\ slots' = [s \in DOMAIN slots \cup {sym} |-> IF s = sym THEN slot ELSE slots[s]]
  /\ Then(<<>>)
  /\ UNCHANGED <<treeVars, block, loops, labels, caseBlocks, stamped, cases, defaults, vals>>

WorkFor(f) == [k \in DOMAIN f.params |-> Parameter(k)] \o <<Statement(f.body)>>

EmptyFunction == [code |-> << <<>> >>, values |-> 0]

FinishFunction ==
  /\ todo = <<>> /\ Len(program) < Len(source)
  /\ program' = Append(program, IF Terminated THEN func
                                ELSE Emit(func, block, Instr("ret", NoValue, <<>>)))
  /\ todo' = IF Len(program') < Len(source) THEN WorkFor(source[Len(program') + 1]) ELSE <<>>
  /\ func' = EmptyFunction /\ block' = EntryBlock
  /\ loops' = <<>> /\ labels' = <<>> /\ slots' = <<>>
  /\ caseBlocks' = <<>> /\ stamped' = <<>> /\ cases' = <<>> /\ defaults' = <<>>
  /\ UNCHANGED <<source, vals>>

Done == Len(program) = Len(source)

Init ==
  /\ source \in Sources
  /\ program = <<>>
  /\ func = EmptyFunction /\ block = EntryBlock
  /\ loops = <<>> /\ labels = <<>> /\ slots = <<>>
  /\ caseBlocks = <<>> /\ stamped = <<>> /\ cases = <<>> /\ defaults = <<>>
  /\ todo = WorkFor(source[1])
  /\ vals = <<>>

LowerAddress == LocalAddress \/ GlobalAddressOf \/ DereferenceAddress \/ SubscriptAddress \/ FieldAddress

LowerExpression ==
  \/ NoExpression \/ LiteralValue \/ ObjectValue \/ SizeOfValue \/ AddressOfValue \/ AssignValue \/ AssignStruct
  \/ DirectCall \/ IndirectCall \/ CastValue \/ UnaryValue \/ StepValue \/ CommaValue
  \/ BinaryValue \/ ShortCircuit \/ ConditionalValue

LowerStatement ==
  \/ Sequence \/ EmptyStatement \/ ExpressionStatement \/ Declaration
  \/ IfStatement \/ WhileStatement \/ DoStatement \/ ForStatement
  \/ BreakStatement \/ ContinueStatement \/ GotoStatement \/ LabelStatement
  \/ ReturnStatement \/ SwitchStatement \/ CaseStatement

Plumbing ==
  \/ AppendNext \/ JumpNext \/ BranchNext \/ OpenBlock \/ OpenNewBlock \/ ForgetValue
  \/ PushLoopNext \/ PopLoopNext \/ ReturnNext
  \/ CollectNext \/ TestsBegin \/ TestCase \/ TestsEnd
  \/ ParameterNext \/ FinishFunction

(* Every function is lowered; anything else that stops is a deadlock. *)
Finished == Done /\ UNCHANGED vars

Next == LowerAddress \/ LowerExpression \/ LowerStatement \/ Plumbing \/ Finished

Spec == Init /\ [][Next]_vars

-----------------------------------------------------------------------------
(* Properties *)

(***************************************************************************)
(* Every table of ctx, and every terminator, names blocks and values that  *)
(* exist; slots are allocated in the entry.                                *)
(***************************************************************************)
TypeOK ==
  LET blocks == BlocksOf(func)
      values == 1 .. func.values
  IN /\ block \in blocks
     /\ \A k \in DOMAIN loops : loops[k].onBreak \in blocks /\ loops[k].onContinue \in blocks
     /\ Range(labels) \cup Range(caseBlocks) \subseteq blocks
     /\ \A id \in DOMAIN stamped : stamped[id] + 1 \in DOMAIN caseBlocks
     /\ Range(vals) \subseteq values \cup {NoValue}
     /\ Range(slots) \subseteq {i.dst : i \in {j \in Range(func.code[EntryBlock]) : j.op = "alloca"}}
     /\ \A s \in Sites(func) : /\ Range(InstrAt(func, s).to) \subseteq blocks
                              /\ InstrAt(func, s).dst \in values \cup {NoValue}

(***************************************************************************)
(* The insertion point only moves on from a block that is finished, with   *)
(* one terminator and nothing behind it, and only to a block nothing has   *)
(* been put into: none is entered again and none is left open, whatever is *)
(* nested in what and wherever the source jumps.                           *)
(***************************************************************************)
IsFinished(code) ==
  code # <<>> /\ \A k \in DOMAIN code : IsTerminator(code[k].op) <=> k = Len(code)

InsertionMovesOn ==
  [][block' # block /\ program' = program =>
       func'.code[block'] = <<>> /\ IsFinished(func'.code[block])]_vars

(***************************************************************************)
(* What main() checks before it prints the IR: every function lowered      *)
(* passes ir_verify once unreachable blocks are dropped, so every operand  *)
(* is computed on every path to its use, out of the slots or otherwise.    *)
(***************************************************************************)
LoweredVerifies ==
  Done => \A n \in DOMAIN program :
            LET f == DropUnreachable(program[n]) IN Verifies(f, Analyses(f))
=============================================================================
