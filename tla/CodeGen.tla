------------------------------- MODULE CodeGen -------------------------------
(***************************************************************************)
(* src/src/backend: the typed syntax tree becomes x86-64 assembly, one     *)
(* action per node visited.                                                *)
(*                                                                         *)
(* It is a stack machine: an expression leaves its value in %rax, and what *)
(* has to outlive the next expression is pushed.  What the C functions     *)
(* still have to do when a call returns is the work list todo.             *)
(***************************************************************************)
EXTENDS Typing, Assembly, Arithmetic

LOCAL INSTANCE TLC

VARIABLES
  code,         \* the instructions written, all functions'
  statics,      \* the data section: address -> byte
  label_count,
  names,        \* ctx.labels: label of the source -> number
  stamps,       \* string_label of the case and default nodes
  targets,      \* ctx.loop_break_labels and loop_continue_labels
  end_label     \* ctx.current_function_end_label

codeVars == <<code, statics, label_count, names, stamps, targets, end_label>>
semaVars == <<scopeVars, unit, tableVars, frames, errors, loop_depth>>

-----------------------------------------------------------------------------
(* Instructions *)

Op(op, from, to)   == Ins(op, 4, from, to)          \* addl, movl, ...
OpQ(op, from, to)  == Ins(op, 8, from, to)          \* addq, movq, ...
Push(r)   == Ins("push", 8, r, NoOperand)
Pop(r)    == Ins("pop", 8, NoOperand, r)
Jmp(l)    == Ins("jmp", 0, NoOperand, Mark(l))
JumpIf(test, l) == Ins("jump if", 0, When(test), Mark(l))
LabelAt(l) == Ins("label", 0, NoOperand, Mark(l))
Cltq      == Ins("cltq", 8, NoOperand, NoOperand)
TestZero  == Op("cmp", Imm(0), RAX)

(* emit_load_frame, emit_load_global, emit_load_indirect: at the type's    *)
(* width.                                                                  *)
LoadFrom(operand, ty) ==
  CASE ty.size \in {1, 2} /\ IsUnsigned(ty.ir) -> Ins("movz", ty.size, operand, RAX)
    [] ty.size \in {1, 2}                      -> Ins("movs", ty.size, operand, RAX)
    [] ty.size = 8                             -> OpQ("mov", operand, RAX)
    [] OTHER                                   -> Op("mov", operand, RAX)

Width8421(ty) == IF ty.size \in {1, 2, 8} THEN ty.size ELSE 4

(* Slip: as wide as a slot. *)
StoreWide(r, ty, operand) == Ins("mov", IF ty.size = 8 THEN 8 ELSE 4, r, operand)

(* emit_store_offset, emit_store_indirect, emit_store_global, and          *)
(* emit_zero_offset: packed, at the type's width.                          *)
StorePacked(r, ty, operand) == Ins("mov", Width8421(ty), r, operand)

(* emit_store_slot, emit_zero_slot: a scalar fills its slot. *)
StoreSlot(r, ty, offset) == Ins("mov", IF ty.size = 8 THEN 8 ELSE 4, r, Mem("rbp", offset))

(* emit_step: only a pointer is stepped as an address. *)
Step(op, ty) ==
  IF ty.kind = "pointer" THEN OpQ(op, Imm(ElementSize(ty)), RAX) ELSE Op(op, Imm(1), RAX)

(* generate_cast: by the name of the type, a pointer's being what it       *)
(* points to.                                                              *)
CastTo(name) ==
  CASE name \in {"char", "short"} -> <<Ins("movs", TypeNamed(name).size, RAX, RAX)>>
    [] name \in {"uchar", "ushort"} -> <<Ins("movz", TypeNamed(name).size, RAX, RAX)>>
    [] name = "long"  -> <<Cltq>>
    [] name = "ulong" -> <<Op("mov", RAX, RAX)>>
    [] OTHER          -> <<>>

(* emit_compare: at the wider of the two widths. *)
Compare(lt, rt) == Ins("cmp", IF 8 \in {lt.size, rt.size} THEN 8 ELSE 4, RAX, RDX)

(* emit_struct_copy: the largest pieces that fit, from (%rdx) to (%rax). *)
RECURSIVE StructCopy(_, _)
StructCopy(size, done) ==
  LET piece == CASE size - done >= 8 -> 8 [] size - done >= 4 -> 4 [] OTHER -> 1
  IN IF done >= size THEN <<>>
     ELSE <<Ins("mov", piece, Mem("rdx", done), RCX), Ins("mov", piece, RCX, Mem("rax", done))>>
            \o StructCopy(size, done + piece)

(* is_frame_symbol, and where the symbol is. *)
SlotOfSymbol(sym)   == frames[at].slots[sym.number]
OperandOf(sym) ==
  CASE IsLocal(sym) -> Mem("rbp", SlotOfSymbol(sym).offset)
    [] sym.kind = "function" -> Routine(sym.number)
    [] OTHER -> Static(sym.number)
AddressInto(sym) == OpQ("lea", OperandOf(sym), RAX)

(* generate_identifier_load, generate_identifier_store *)
LoadSymbol(sym) ==
  IF sym.kind = "function" \/ sym.ty.kind = "array" THEN AddressInto(sym) ELSE LoadFrom(OperandOf(sym), sym.ty)
StoreSymbol(sym) ==
  IF IsLocal(sym) THEN StoreSlot(RAX, sym.ty, SlotOfSymbol(sym).offset)
  ELSE StorePacked(RAX, sym.ty, OperandOf(sym))

-----------------------------------------------------------------------------
(* Work *)

Statement(n)  == [do |-> "statement", node |-> n]
Value(n)      == [do |-> "value", node |-> n]       \* generate_exp
Address(n)    == [do |-> "address", node |-> n]     \* generate_lvalue_address
Argument(n)   == [do |-> "argument", node |-> n]
Emit(instrs)  == [do |-> "emit", code |-> instrs]
PushTarget(t) == [do |-> "push loop", target |-> t]
PopTarget     == [do |-> "pop loop"]

Here          == Head(todo).node
Doing(what, types) == phase = "generate" /\ Does(what) /\ Here.type \in types

(* Slip: one label for all. *)
SameLabel(k)    == label_count

FreshLabel(k)   == label_count + k - 1

(* The work at the head of the list turns into other work. *)
Unfolds(work, labels) ==
  /\ Then(work)
  /\ label_count' = label_count + labels
  /\ UNCHANGED <<semaVars, phase, at, code, statics, names, stamps, targets, end_label>>

EmitNext ==
  /\ phase = "generate" /\ Does("emit")
  /\ code' = code \o Head(todo).code
  /\ Then(<<>>)
  /\ UNCHANGED <<semaVars, phase, at, statics, label_count, names, stamps, targets, end_label>>

PushTargetNext ==
  /\ phase = "generate" /\ Does("push loop")
  /\ targets' = Append(targets, Head(todo).target)
  /\ Then(<<>>)
  /\ UNCHANGED <<semaVars, phase, at, code, statics, label_count, names, stamps, end_label>>

PopTargetNext ==
  /\ phase = "generate" /\ Does("pop loop")
  /\ targets' = Front(targets)
  /\ Then(<<>>)
  /\ UNCHANGED <<semaVars, phase, at, code, statics, label_count, names, stamps, end_label>>

(* A node that needs no other: its instructions are written at once. *)
Generates(instrs) ==
  /\ code' = code \o instrs
  /\ Then(<<>>)
  /\ UNCHANGED <<semaVars, phase, at, statics, label_count, names, stamps, targets, end_label>>

-----------------------------------------------------------------------------
(* Initialisers *)

Piece(ty, k) ==
  IF IsStruct(ty) THEN ty.members[k] ELSE [ty |-> ty.base, offset |-> (k - 1) * ElementSize(ty)]

(* A struct is cleared word by word, an array where no item goes. *)
Clears(ty, offset, place) ==
  IF IsStruct(ty)
    THEN [k \in 1 .. (ty.size + 3) \div 4 |-> Op("mov", Imm(0), Mem("rbp", offset + 4 * (k - 1)))]
    ELSE LET gap(k) == ~ \E j \in DOMAIN place : place[j] = k
         IN [j \in DOMAIN SelectSeq([k \in 1 .. ty.size \div ty.base.size |-> k], gap) |->
               LET k == SelectSeq([i \in 1 .. ty.size \div ty.base.size |-> i], gap)[j]
               IN StorePacked(Imm(0), ty.base, Mem("rbp", offset + Piece(ty, k).offset))]

(* generate_initializer_into, and the same in generate_statement. *)
Initialising(ty, offset, items) ==
  LET place == PlacesFilled(items)
  IN <<Emit(Clears(ty, offset, place))>> \o
       FlattenSeq([j \in DOMAIN items |->
         <<Value(items[j].value),
           Emit(<<StorePacked(RAX, Piece(ty, place[j]).ty,
                              Mem("rbp", offset + Piece(ty, place[j]).offset))>>)>>])

ItemsOf(e) == IF e.type = "braces" THEN e.items ELSE <<>>

-----------------------------------------------------------------------------
(* generate_lvalue_address: the address of an object goes to %rax.         *)

AddressOfName == Doing("address", {"name"}) /\ Generates(<<AddressInto(Here.sym)>>)

AddressOfLiteral ==
  /\ Doing("address", {"compound"})
  /\ Unfolds(Initialising(Here.ty, SlotOfSymbol(Here.sym).offset, Here.items)
               \o <<Emit(<<AddressInto(Here.sym)>>)>>, 0)

AddressOfTarget == Doing("address", {"dereference"}) /\ Unfolds(<<Value(Here.left)>>, 0)

(* The index is widened before it is scaled. *)
AddressOfElement ==
  /\ Doing("address", {"subscript"})
  /\ Unfolds(<<IF Here.left.ty.kind = "array" THEN Address(Here.left) ELSE Value(Here.left),
               Emit(<<Push(RAX)>>),
               Value(Here.right),
               Emit(<<Cltq, OpQ("imul", Imm(ElementSize(Here.left.ty)), RAX),
                      Pop(RDX), OpQ("add", RDX, RAX)>>)>>, 0)

AddressOfField ==
  /\ Doing("address", {"field"})
  /\ Unfolds(<<Address(Here.left),
               Emit(<<OpQ("add", Imm(Here.left.ty.members[Here.member].offset), RAX)>>)>>, 0)

-----------------------------------------------------------------------------
(* generate_exp: the value of an expression goes to %rax.                  *)

ValueOfLiteral == Doing("value", {"literal"}) /\ Generates(<<Op("mov", Imm(Here.value), RAX)>>)
ValueOfSize    == Doing("value", {"sizeof"}) /\ Generates(<<Op("mov", Imm(Here.left.ty.size), RAX)>>)
ValueOfName    == Doing("value", {"name"}) /\ Generates(<<LoadSymbol(Here.sym)>>)
ValueOfAddress == Doing("value", {"address"}) /\ Unfolds(<<Address(Here.left)>>, 0)
ValueOfComma   == Doing("value", {"comma"}) /\ Unfolds(<<Value(Here.left), Value(Here.right)>>, 0)
ValueOfCast    == /\ Doing("value", {"cast"})
                  /\ Unfolds(<<Value(Here.left), Emit(CastTo(Data(Here.ty)))>>, 0)

ValueInMemory ==
  /\ Doing("value", {"dereference", "subscript", "field"})
  /\ Unfolds(<<Address(Here), Emit(<<LoadFrom(Mem("rax", 0), Here.ty)>>)>>, 0)

ValueOfUnary ==
  /\ Doing("value", {"unary"})
  /\ Unfolds(<<Value(Here.left),
               Emit(CASE Here.op = "neg"        -> <<Op("neg", NoOperand, RAX)>>
                      [] Here.op = "complement" -> <<Op("not", NoOperand, RAX)>>
                      [] Here.op = "lognot"     -> <<TestZero, Op("mov", Imm(0), RAX),
                                                     Ins("set", 1, When("e"), RAX)>>)>>, 0)

(* A struct takes an argument slot for each eightbyte, all else one. *)
ArgSlots(e)   == IF IsStruct(e.ty) THEN (e.ty.size + 7) \div 8 ELSE 1
SlotsOf(args) == FoldLeft(LAMBDA n, e : n + ArgSlots(e), 0, args)

(* Slip: no padding. *)
Unpadded(onStack) == 0

(* The stack is kept aligned for the callee by padding an odd number of    *)
(* stack arguments.                                                        *)
Padding(onStack) == 8 * (onStack % 2)

(* Arguments are pushed last first, so that the first ones are popped into *)
(* the registers; a pointer to a function is loaded once they are there.   *)
ValueOfCall ==
  /\ Doing("value", {"call"})
  /\ LET slotCount == SlotsOf(Here.args)
         onStack   == IF slotCount > 6 THEN slotCount - 6 ELSE 0
         padding   == Padding(onStack)
         popped    == [k \in 1 .. slotCount - onStack |-> Pop(Reg(ArgumentRegisters[k]))]
         target    == IF IsLocal(Here.sym) THEN Reg("r10") ELSE Routine(Here.sym.number)
         fetched   == IF IsLocal(Here.sym) THEN <<OpQ("mov", OperandOf(Here.sym), Reg("r10"))>> ELSE <<>>
         undone    == onStack * 8 + padding
     IN Unfolds((IF padding = 0 THEN <<>> ELSE <<Emit(<<OpQ("sub", Imm(8), Reg("rsp"))>>)>>)
                  \o [k \in DOMAIN Here.args |-> Argument(Here.args[Len(Here.args) + 1 - k])]
                  \o <<Emit(popped \o fetched \o <<Op("mov", Imm(0), RAX), Ins("call", 8, NoOperand, target)>>
                        \o IF undone = 0 THEN <<>> ELSE <<OpQ("add", Imm(undone), Reg("rsp"))>>)>>, 0)

(* generate_call_args, for one argument: the eightbytes of a struct are    *)
(* pushed highest first.  A call would leave them in registers, but Typing *)
(* gives no call the type of a struct.                                     *)
PushArgument ==
  /\ phase = "generate" /\ Does("argument")
  /\ Unfolds(CASE ~ IsStruct(Here.ty) -> <<Value(Here), Emit(<<Push(RAX)>>)>>
               [] IsStruct(Here.ty) /\ Here.type = "call" ->
                    <<Value(Here), Emit(IF ArgSlots(Here) > 1 THEN <<Push(RDX), Push(RAX)>> ELSE <<Push(RAX)>>)>>
               [] IsStruct(Here.ty) /\ Here.type # "call" ->
                    <<Address(Here),
                      Emit(FlattenSeq([k \in 1 .. ArgSlots(Here) |->
                        <<OpQ("mov", Mem("rax", 8 * (ArgSlots(Here) - k)), RDX), Push(RDX)>>]))>>, 0)

ValueOfConditional ==
  /\ Doing("value", {"conditional"})
  /\ Unfolds(<<Value(Here.left), Emit(<<TestZero, JumpIf("e", FreshLabel(1))>>),
               Value(Here.then), Emit(<<Jmp(FreshLabel(2)), LabelAt(FreshLabel(1))>>),
               Value(Here.else), Emit(<<LabelAt(FreshLabel(2))>>)>>, 2)

(* && leaves at the first operand that is zero, || at the first that is    *)
(* not.                                                                    *)
ValueOfLogical ==
  /\ Doing("value", {"and", "or"})
  /\ LET leaves == IF Here.type = "and" THEN "e" ELSE "ne"
         early  == IF Here.type = "and" THEN 0 ELSE 1
     IN Unfolds(<<Value(Here.left), Emit(<<TestZero, JumpIf(leaves, FreshLabel(1))>>),
                  Value(Here.right), Emit(<<TestZero, JumpIf(leaves, FreshLabel(1)),
                     Op("mov", Imm(1 - early), RAX), Jmp(FreshLabel(2)), LabelAt(FreshLabel(1)),
                     Op("mov", Imm(early), RAX), LabelAt(FreshLabel(2))>>)>>, 2)

(* generate_binop, pointers: the integer is widened and scaled.            *)
PointerBinary(e) ==
  LET lp == IsPointerLike(e.left.ty)
      rp == IsPointerLike(e.right.ty)
      scaled == OpQ("imul", Imm(ElementSize(e.left.ty)), RAX)
      negated == <<OpQ("sub", RAX, RDX), OpQ("mov", RDX, RAX)>>
  IN CASE lp /\ rp -> negated \o <<Ins("cdq", 8, NoOperand, NoOperand),
                                   OpQ("mov", Imm(ElementSize(e.left.ty)), RCX),
                                   OpQ("idiv", RCX, NoOperand)>>
       [] lp /\ e.op = "add" -> <<Cltq, scaled, OpQ("add", RDX, RAX)>>
       [] lp -> <<Cltq, scaled>> \o negated
       [] OTHER -> <<OpQ("imul", Imm(ElementSize(e.right.ty)), RDX), OpQ("add", RDX, RAX)>>

Conditions(unsigned) ==
  [op \in Comparisons |->
     CASE op \in {"eq", "ne"} -> (IF op = "eq" THEN "e" ELSE "ne")
       [] unsigned -> (CASE op = "lt" -> "b" [] op = "le" -> "be" [] op = "gt" -> "a" [] op = "ge" -> "ae")
       [] OTHER    -> (CASE op = "lt" -> "l" [] op = "le" -> "le" [] op = "gt" -> "g" [] op = "ge" -> "ge")]

(* generate_binop, numbers: 32 bits wide, except for comparisons; signed   *)
(* unless the left operand is not.                                         *)
NumberBinary(e) ==
  LET unsigned == IsUnsigned(Data(e.left.ty))
      widened  == IF unsigned THEN Op("xor", RDX, RDX) ELSE Ins("cdq", 4, NoOperand, NoOperand)
      divided  == <<Push(RAX), Op("mov", RDX, RAX), Pop(RCX), widened,
                    Op(IF unsigned THEN "div" ELSE "idiv", RCX, NoOperand)>>
      shifted(op) == <<Op("mov", RAX, RCX), Op("mov", RDX, RAX), Op(op, RCX, RAX)>>
  IN CASE e.op = "sub" -> <<Op("sub", RAX, RDX), Op("mov", RDX, RAX)>>
       [] e.op = "div" -> divided
       [] e.op = "mod" -> divided \o <<Op("mov", RDX, RAX)>>
       [] e.op = "shl" -> shifted("sal")
       [] e.op = "shr" -> shifted(IF unsigned THEN "shr" ELSE "sar")
       [] e.op \in Comparisons ->
            <<Compare(e.left.ty, e.right.ty), Op("mov", Imm(0), RAX),
              Ins("set", 1, When(Conditions(unsigned)[e.op]), RAX)>>
       [] OTHER -> <<Op(IF e.op = "mul" THEN "imul" ELSE e.op, RDX, RAX)>>

ValueOfBinary ==
  /\ Doing("value", {"binary"})
  /\ LET pointers == IsPointerLike(Here.left.ty) \/ IsPointerLike(Here.right.ty)
     IN Unfolds(<<Value(Here.left), Emit(<<Push(RAX)>>), Value(Here.right),
                  Emit(<<Pop(RDX)>> \o IF pointers THEN PointerBinary(Here) ELSE NumberBinary(Here))>>, 0)

(* A struct that a call returned is in %rax and %rdx, any other is copied. *)
ValueOfStructAssign ==
  /\ Doing("value", {"assign"}) /\ IsStruct(Here.left.ty)
  /\ LET two == Here.left.ty.size > 8
     IN Unfolds(IF Here.right.type = "call"
                  THEN <<Value(Here.right),
                         Emit(<<OpQ("mov", RAX, RCX)>> \o IF two THEN <<OpQ("mov", RDX, Reg("rsi"))>> ELSE <<>>),
                         Address(Here.left),
                         Emit(<<OpQ("mov", RCX, Mem("rax", 0))>>
                                \o IF two THEN <<OpQ("mov", Reg("rsi"), Mem("rax", 8))>> ELSE <<>>)>>
                  ELSE <<Address(Here.right), Emit(<<Push(RAX)>>), Address(Here.left),
                         Emit(<<Pop(RDX)>> \o StructCopy(Here.left.ty.size, 0))>>, 0)

ValueOfAssign ==
  /\ Doing("value", {"assign"}) /\ ~ IsStruct(Here.left.ty)
  /\ LET ty == Here.left.ty
     IN Unfolds(<<Value(Here.right), Emit(<<Push(RAX)>>), Address(Here.left),
                  Emit(<<Pop(RDX), StorePacked(RDX, ty, Mem("rax", 0)),
                         IF ty.size = 8 THEN OpQ("mov", RDX, RAX) ELSE Op("mov", RDX, RAX)>>)>>, 0)

(* ++ and -- of a variable. *)
ValueOfStep ==
  /\ Doing("value", {"step"}) /\ Here.left.type = "name"
  /\ LET sym == Here.left.sym
         kept == IF Here.prefix THEN <<>> ELSE <<Push(RAX)>>
         back == IF Here.prefix THEN <<>> ELSE <<Pop(RAX)>>
     IN Generates(<<LoadSymbol(sym)>> \o kept \o <<Step(Here.op, Here.ty)>> \o CastTo(Data(Here.ty))
                    \o <<StoreSymbol(sym)>> \o back)

(* generate_incdec_lvalue: of anything else, whose address is kept. *)
ValueOfStepInPlace ==
  /\ Doing("value", {"step"}) /\ Here.left.type # "name"
  /\ LET kept == IF Here.prefix THEN <<>> ELSE <<Push(RAX)>>
         back == IF Here.prefix THEN <<>> ELSE <<Pop(RCX)>>
     IN Unfolds(<<Address(Here.left),
                  Emit(<<Push(RAX), LoadFrom(Mem("rax", 0), Here.ty)>> \o kept
                         \o <<Step(Here.op, Here.ty)>> \o CastTo(Data(Here.ty)) \o <<OpQ("mov", RAX, RDX)>>
                         \o back \o <<Pop(RAX), StorePacked(RDX, Here.ty, Mem("rax", 0)),
                                      OpQ("mov", IF Here.prefix THEN RDX ELSE RCX, RAX)>>)>>, 0)

(* diag_internal: a node the generator does not know here. *)
GiveUp ==
  /\ \/ Doing("value", {"compound"})
     \/ Doing("address", {"call", "assign", "conditional", "comma"})
  /\ phase' = "unsupported"
  /\ UNCHANGED <<semaVars, at, todo, codeVars>>

-----------------------------------------------------------------------------
(* generate_statement *)

GenerateBlock ==
  Doing("statement", {"block"}) /\ Unfolds([k \in DOMAIN Here.body |-> Statement(Here.body[k])], 0)
GenerateNothing    == Doing("statement", {"nothing"}) /\ Unfolds(<<>>, 0)
GenerateExpression == Doing("statement", {"expression"}) /\ Unfolds(<<Value(Here.left)>>, 0)

DeclareAggregate ==
  /\ Doing("statement", {"declaration"}) /\ IsAggregate(Here.ty)
  /\ IsNull(Here.init) => Here.ty.kind = "array"
  /\ Here.init.type # "call"
  /\ Unfolds(Initialising(Here.ty, SlotOfSymbol(Here.sym).offset, ItemsOf(Here.init)), 0)

DeclareFromCall ==
  /\ Doing("statement", {"declaration"}) /\ IsStruct(Here.ty) /\ Here.init.type = "call"
  /\ LET offset == SlotOfSymbol(Here.sym).offset
     IN Unfolds(<<Value(Here.init),
                  Emit(<<OpQ("mov", RAX, Mem("rbp", offset))>>
                         \o IF Here.ty.size > 8 THEN <<OpQ("mov", RDX, Mem("rbp", offset + 8))>>
                            ELSE <<>>)>>, 0)

DeclareScalar ==
  /\ Doing("statement", {"declaration"}) /\ ~ IsAggregate(Here.ty) /\ ~ IsNull(Here.init)
  /\ Unfolds(<<Value(Here.init), Emit(<<StoreSlot(RAX, Here.ty, SlotOfSymbol(Here.sym).offset)>>)>>, 0)

DeclareUninitialised ==
  /\ Doing("statement", {"declaration"}) /\ Here.ty.kind # "array" /\ IsNull(Here.init)
  /\ Generates(<<StoreSlot(Imm(0), Here.ty, SlotOfSymbol(Here.sym).offset)>>)

(* A struct of up to two eightbytes goes back in %rax and %rdx. *)
GenerateReturn ==
  /\ Doing("statement", {"return"})
  /\ Unfolds((CASE IsNull(Here.left) -> <<>>
                [] IsStruct(Here.left.ty) ->
                     <<Address(Here.left),
                       Emit((IF Here.left.ty.size > 8 THEN <<OpQ("mov", Mem("rax", 8), RDX)>> ELSE <<>>)
                              \o <<OpQ("mov", Mem("rax", 0), RAX)>>)>>
                [] OTHER -> <<Value(Here.left)>>)
             \o <<Emit(<<Jmp(end_label)>>)>>, 0)

GenerateIf ==
  /\ Doing("statement", {"if"})
  /\ Unfolds(<<Value(Here.left), Emit(<<TestZero, JumpIf("e", FreshLabel(1))>>),
               Statement(Here.then), Emit(<<Jmp(FreshLabel(2)), LabelAt(FreshLabel(1))>>),
               Statement(Here.else), Emit(<<LabelAt(FreshLabel(2))>>)>>, 2)

Target(b, c) == [onBreak |-> b, onContinue |-> c]

GenerateWhile ==
  /\ Doing("statement", {"while"})
  /\ LET start == FreshLabel(1)
         end   == FreshLabel(2)
     IN Unfolds(<<PushTarget(Target(end, start)), Emit(<<LabelAt(start)>>),
                  Value(Here.left), Emit(<<TestZero, JumpIf("e", end)>>),
                  Statement(Here.body), Emit(<<Jmp(start), LabelAt(end)>>), PopTarget>>, 2)

GenerateDo ==
  /\ Doing("statement", {"do"})
  /\ LET body == FreshLabel(1)
         test == FreshLabel(2)
         end  == FreshLabel(3)
     IN Unfolds(<<Emit(<<LabelAt(body)>>), PushTarget(Target(end, test)), Statement(Here.body), PopTarget,
                  Emit(<<LabelAt(test)>>), Value(Here.left),
                  Emit(<<TestZero, JumpIf("ne", body), LabelAt(end)>>)>>, 3)

GenerateFor ==
  /\ Doing("statement", {"for"})
  /\ LET start == FreshLabel(1)
         post  == FreshLabel(2)
         end   == FreshLabel(3)
         first == IF IsNull(Here.init) THEN <<>>
                  ELSE IF Here.init.type = "declaration" THEN <<Statement(Here.init)>>
                  ELSE <<Value(Here.init)>>
         test  == IF IsNull(Here.left) THEN <<>>
                  ELSE <<Value(Here.left), Emit(<<TestZero, JumpIf("e", end)>>)>>
         step  == IF IsNull(Here.post) THEN <<>> ELSE <<Value(Here.post)>>
     IN Unfolds(first \o <<PushTarget(Target(end, post)), Emit(<<LabelAt(start)>>)>> \o test
                  \o <<Statement(Here.body), Emit(<<LabelAt(post)>>)>> \o step
                  \o <<Emit(<<Jmp(start), LabelAt(end)>>), PopTarget>>, 3)

GenerateLeave ==
  /\ Doing("statement", {"break", "continue"})
  /\ LET to == Last(targets)
     IN Generates(<<Jmp(IF Here.type = "break" THEN to.onBreak ELSE to.onContinue)>>)

(* collect_labels: the labels of a function are numbered ahead of its      *)
(* code, in the order of the source.                                       *)
RECURSIVE LabelsIn(_)
LabelsIn(n) ==
  CASE n.type = "label" -> <<n.name>> \o LabelsIn(n.body)
    [] n.type = "block" -> FlattenSeq([k \in DOMAIN n.body |-> LabelsIn(n.body[k])])
    [] n.type = "if"    -> LabelsIn(n.then) \o LabelsIn(n.else)
    [] n.type \in {"while", "do", "for", "switch", "case", "default"} -> LabelsIn(n.body)
    [] OTHER -> <<>>

NumberedLabels(n, first) ==
  FoldLeft(LAMBDA known, name : IF name \in DOMAIN known THEN known
                                ELSE (name :> first + Cardinality(DOMAIN known)) @@ known,
           <<>>, LabelsIn(n))

GenerateLabel ==
  /\ Doing("statement", {"label"})
  /\ Unfolds(<<Emit(<<LabelAt(names[Here.name])>>), Statement(Here.body)>>, 0)

(* label_for_name: a label that is nowhere gets its number from the goto.  *)
GenerateGoto ==
  /\ Doing("statement", {"goto"})
  /\ LET known == Here.name \in DOMAIN names
     IN /\ code' = Append(code, Jmp(IF known THEN names[Here.name] ELSE label_count))
        /\ names' = IF known THEN names ELSE (Here.name :> label_count) @@ names
        /\ label_count' = IF known THEN label_count ELSE label_count + 1
  /\ Then(<<>>)
  /\ UNCHANGED <<semaVars, phase, at, statics, stamps, targets, end_label>>

(* emit_switch_tests: the labels of a switch, in the order of the source;  *)
(* a nested switch owns its own.                                           *)
RECURSIVE CasesIn(_)
CasesIn(n) ==
  CASE n.type \in {"case", "default"} -> <<n>> \o CasesIn(n.body)
    [] n.type = "block" -> FlattenSeq([k \in DOMAIN n.body |-> CasesIn(n.body[k])])
    [] n.type = "if"    -> CasesIn(n.then) \o CasesIn(n.else)
    [] n.type \in {"while", "do", "for", "label"} -> CasesIn(n.body)
    [] OTHER -> <<>>

(* The default goes last, wherever it stands; break leaves a switch, and   *)
(* continue passes through it.                                             *)
GenerateSwitch ==
  /\ Doing("statement", {"switch"})
  /\ LET end     == FreshLabel(1)
         within  == CasesIn(Here.body)
         number  == [k \in DOMAIN within |-> FreshLabel(k + 1)]
         default == {k \in DOMAIN within : within[k].type = "default"}
         tests   == FlattenSeq([k \in DOMAIN within |->
                      IF k \in default THEN <<>>
                      ELSE <<Op("cmp", Imm(within[k].value), RAX), JumpIf("e", number[k])>>])
         otherwise == IF default = {} THEN end ELSE number[Max(default)]
         onward  == IF targets = <<>> THEN end ELSE Last(targets).onContinue
     IN /\ stamps' = [id \in {within[k].id : k \in DOMAIN within} |->
                        number[CHOOSE k \in DOMAIN within : within[k].id = id]] @@ stamps
        /\ Then(<<Value(Here.left), Emit(tests \o <<Jmp(otherwise)>>),
                  PushTarget(Target(end, onward)), Statement(Here.body), PopTarget,
                  Emit(<<LabelAt(end)>>)>>)
        /\ label_count' = label_count + 1 + Len(within)
  /\ UNCHANGED <<semaVars, phase, at, code, statics, names, targets, end_label>>

GenerateCase ==
  /\ Doing("statement", {"case", "default"})
  /\ Unfolds(<<Emit(<<LabelAt(stamps[Here.id])>>), Statement(Here.body)>>, 0)

-----------------------------------------------------------------------------
(* collect_globals, generate_globals *)

(* eval_const_exp: in ints, signed unless the left operand is not.  What   *)
(* the host leaves undefined is not among the inputs.                      *)
OnHost(op, l, r, unsigned) ==
  CHOOSE n \in Machine(op, l, r, IF unsigned THEN "uint" ELSE "int", "int") : TRUE

RECURSIVE ConstantOf(_)
ConstantOf(e) ==
  LET l == ConstantOf(e.left)
      r == ConstantOf(e.right)
  IN CASE e.type = "nothing" -> 0
       [] e.type = "literal" -> e.value
       [] e.type = "sizeof"  -> e.left.ty.size
       [] e.type = "cast"    -> IF Data(e.ty) \in {"char", "uchar", "short", "ushort"} THEN ValueIn(l, Data(e.ty)) ELSE l
       [] e.type = "unary"   -> (CASE e.op = "neg" -> OnHost("sub", 0, l, FALSE)
                                   [] e.op = "complement" -> -l - 1
                                   [] e.op = "lognot" -> Truth(l = 0))
       [] e.type = "binary"  -> OnHost(e.op, l, r, IsUnsigned(Data(e.left.ty)))
       [] e.type = "and"     -> Truth(l # 0 /\ r # 0)
       [] e.type = "or"      -> Truth(l # 0 \/ r # 0)
       [] e.type = "conditional" -> IF l # 0 THEN ConstantOf(e.then) ELSE ConstantOf(e.else)
       [] e.type = "comma"   -> r

(* The items fill an array in the order they are written in. *)
ConstantsOf(item) ==
  LET items == ItemsOf(item.init)
  IN IF item.sym.ty.kind # "array" THEN <<ConstantOf(item.init)>>
     ELSE [k \in 1 .. item.sym.ty.size \div item.sym.ty.base.size |->
             IF k \in DOMAIN items THEN ConstantOf(items[k].value) ELSE 0]

(* Bytes from address a on: one directive for each of the numbers. *)
Directives(a, numbers, width) ==
  [b \in a .. a + Len(numbers) * width - 1 |->
     Byte(numbers[(b - a) \div width + 1], (b - a) % width)]

DataOf(item) ==
  LET ty == item.sym.ty
  IN Directives(AddressOfStatic(item.sym.number), ConstantsOf(item),
                Width8421(IF ty.kind = "array" THEN ty.base ELSE ty))

GlobalItems == SelectSeq(unit, LAMBDA item : item.item = "global")
Evaluable(item) == item.init.type # "braces" \/ item.sym.ty.kind = "array"

GenerateGlobals ==
  /\ phase = "data"
  /\ \A k \in DOMAIN GlobalItems : Evaluable(GlobalItems[k])
  /\ statics' = FoldLeft(LAMBDA bytes, item : DataOf(item) @@ bytes, <<>>, GlobalItems)
  /\ phase' = "generate"
  /\ UNCHANGED <<semaVars, at, todo, code, label_count, names, stamps, targets, end_label>>

(* diag_internal: the braces of a struct are no constant. *)
GiveUpGlobals ==
  /\ phase = "data"
  /\ \E k \in DOMAIN GlobalItems : ~ Evaluable(GlobalItems[k])
  /\ phase' = "unsupported"
  /\ UNCHANGED <<semaVars, at, todo, codeVars>>

-----------------------------------------------------------------------------
(* generate_function *)

(* emit_spill_parameter: a register argument goes to its slot, a struct by *)
(* eightbytes, of which the last may be partial.                           *)
Spill(sym) ==
  LET slot == SlotOfSymbol(sym)
      at8(k) == Mem("rbp", slot.offset + 8 * k)
      incoming(k) == Reg(ArgumentRegisters[slot.register + k + 1])
      width(rest) == CASE rest >= 8 -> 8 [] rest \in 3 .. 7 -> 4 [] rest = 2 -> 2 [] OTHER -> 1
  IN IF IsStruct(sym.ty)
       THEN [k \in 1 .. EightBytes(sym.ty) |->
               Ins("mov", width(sym.ty.size - 8 * (k - 1)), incoming(k - 1), at8(k - 1))]
       ELSE <<Ins("mov", IF sym.ty.size = 8 THEN 8 ELSE 4, incoming(0), at8(0))>>

Prologue ==
  LET reserved == RoundUp(frames[at].size, 16)
      params   == Current.params
  IN <<Ins("routine", 0, NoOperand, Routine(Current.sym.number)), Push(Reg("rbp")),
       OpQ("mov", Reg("rsp"), Reg("rbp"))>>
       \o (IF reserved = 0 THEN <<>> ELSE <<OpQ("sub", Imm(reserved), Reg("rsp"))>>)
       \o FlattenSeq([k \in DOMAIN params |-> IF k > 6 THEN <<>> ELSE Spill(params[k])])

GenerateFunction ==
  /\ phase = "generate" /\ BetweenItems /\ Current.item = "function"
  /\ end_label' = label_count
  /\ names' = NumberedLabels(Current.body, label_count + 1)
  /\ label_count' = label_count + 1 + Cardinality(DOMAIN names')
  /\ todo' = <<Emit(Prologue), Statement(Current.body), EndFunction>>
  /\ UNCHANGED <<semaVars, phase, at, code, statics, stamps, targets>>

FinishFunction ==
  /\ phase = "generate" /\ Does("end function")
  /\ code' = code \o <<Op("mov", Imm(0), RAX), LabelAt(end_label),
                       Ins("leave", 8, NoOperand, NoOperand), Ins("ret", 8, NoOperand, NoOperand)>>
  /\ names' = <<>>
  /\ NextItem /\ Then(<<>>)
  /\ UNCHANGED <<semaVars, phase, statics, label_count, stamps, targets, end_label>>

(* generate_program: nothing else has code. *)
GenerateNoCode ==
  /\ phase = "generate" /\ BetweenItems /\ Current.item # "function"
  /\ NextItem
  /\ UNCHANGED <<semaVars, phase, todo, codeVars>>

Generated ==
  /\ phase = "generate" /\ at > Len(unit)
  /\ phase' = "done"
  /\ UNCHANGED <<semaVars, at, todo, codeVars>>

-----------------------------------------------------------------------------
CodeGenInit ==
  /\ code = <<>> /\ statics = <<>> /\ label_count = 0
  /\ names = <<>> /\ stamps = <<>> /\ targets = <<>> /\ end_label = 0

CodeGenNext ==
  \/ GenerateGlobals \/ GiveUpGlobals
  \/ GenerateFunction \/ FinishFunction \/ GenerateNoCode \/ Generated
  \/ EmitNext \/ PushTargetNext \/ PopTargetNext
  \/ AddressOfName \/ AddressOfLiteral \/ AddressOfTarget \/ AddressOfElement \/ AddressOfField
  \/ ValueOfLiteral \/ ValueOfSize \/ ValueOfName \/ ValueOfAddress \/ ValueOfComma \/ ValueOfCast
  \/ ValueInMemory \/ ValueOfUnary \/ ValueOfCall \/ PushArgument \/ ValueOfConditional
  \/ ValueOfLogical \/ ValueOfBinary \/ ValueOfStructAssign \/ ValueOfAssign
  \/ ValueOfStep \/ ValueOfStepInPlace \/ GiveUp
  \/ GenerateBlock \/ GenerateNothing \/ GenerateExpression
  \/ DeclareAggregate \/ DeclareFromCall \/ DeclareScalar \/ DeclareUninitialised
  \/ GenerateReturn \/ GenerateIf \/ GenerateWhile \/ GenerateDo \/ GenerateFor \/ GenerateLeave
  \/ GenerateLabel \/ GenerateGoto \/ GenerateSwitch \/ GenerateCase
=============================================================================
