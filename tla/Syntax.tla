-------------------------------- MODULE Syntax --------------------------------
(***************************************************************************)
(* The analysed syntax tree (struct ast_node in src/include/defs.h) as     *)
(* src/src/ir/lower.c reads it: types resolved, names bound to symbols,    *)
(* implicit conversions already made explicit as casts.                    *)
(*                                                                         *)
(* The operators below give an expression the type it has in C.            *)
(*                                                                         *)
(* A node is a record whose type field names its kind; the generic left    *)
(* and right of the parser get the name of what they hold.                 *)
(***************************************************************************)
EXTENDS Integers, Sequences

(* Types (struct Type).  ir names the type in the IR: all pointers are one. *)
Scalar(name, size) == [kind |-> "scalar", ir |-> name, size |-> size, align |-> size]
CharType  == Scalar("char", 1)
UCharType == Scalar("uchar", 1)
ShortType == Scalar("short", 2)
UShortType == Scalar("ushort", 2)
IntType   == Scalar("int", 4)
UIntType  == Scalar("uint", 4)
LongType  == Scalar("long", 8)
ULongType == Scalar("ulong", 8)
VoidType  == Scalar("void", 1)
PointerTo(t)  == [kind |-> "pointer", ir |-> "ptr", size |-> 8, align |-> 8, base |-> t]
ArrayOf(t, n) == [kind |-> "array", ir |-> "ptr", size |-> n * t.size, align |-> t.align, base |-> t]
FunctionType(t) == [kind |-> "function", ir |-> "function", size |-> 1, align |-> 1, base |-> t]

(* ty_layout_struct: members at offsets their alignment allows, and padding *)
(* behind the last, so that the next struct of an array is aligned as well. *)
AlignTo(offset, align) == ((offset + align - 1) \div align) * align

StructWith(types) ==
  LET offset[k \in DOMAIN types] ==
        IF k = 1 THEN 0 ELSE AlignTo(offset[k - 1] + types[k - 1].size, types[k].align)
      align == CHOOSE a \in {types[k].align : k \in DOMAIN types} :
                 \A k \in DOMAIN types : types[k].align <= a
  IN [kind |-> "struct", ir |-> "struct", align |-> align,
      size |-> AlignTo(offset[Len(types)] + types[Len(types)].size, align),
      members |-> [k \in DOMAIN types |-> [ty |-> types[k], offset |-> offset[k]]]]
StructOf(t, n) == StructWith([k \in 1 .. n |-> t])

IsPointerLike(t) == t.kind \in {"pointer", "array"}
IsAggregate(t)   == t.kind \in {"array", "struct"}
IsStruct(t)      == t.kind = "struct"
ElementSize(t)   == IF IsPointerLike(t) /\ t.base.size > 0 THEN t.base.size ELSE 1

(* Symbols, one for each declaration; a function's or a global's number is *)
(* the imm of its IR_GLOBAL.                                               *)
Symbol(kind, name, ty, number) ==
  [kind |-> kind, name |-> name, ty |-> ty, number |-> number]
IsLocal(sym) == sym.kind \in {"local", "param"}

Nothing == [type |-> "nothing"]
IsNull(node) == node = Nothing

-----------------------------------------------------------------------------
(* Expressions *)

Literal(n, ty)      == [type |-> "literal", value |-> n, ty |-> ty]
Name(sym)           == [type |-> "name", sym |-> sym,
                        ty |-> IF sym.kind = "function" THEN PointerTo(FunctionType(sym.ty))
                               ELSE sym.ty]
At(e)               == [type |-> "dereference", left |-> e, ty |-> e.ty.base]
Index(e, i)         == [type |-> "subscript", left |-> e, right |-> i, ty |-> e.ty.base]
Member(e, k)        == [type |-> "field", left |-> e, member |-> k, ty |-> e.ty.members[k].ty]
AddressOf(e)        == [type |-> "address", left |-> e, ty |-> PointerTo(e.ty)]
Assign(l, r)        == [type |-> "assign", left |-> l, right |-> r, ty |-> l.ty]
Cast(ty, e)         == [type |-> "cast", left |-> e, ty |-> ty, implicit |-> FALSE]
SizeOf(e)           == [type |-> "sizeof", left |-> e, ty |-> ULongType]
Unary(op, e)        == [type |-> "unary", op |-> op, left |-> e, ty |-> e.ty]
Binary(op, l, r, ty) == [type |-> "binary", op |-> op, left |-> l, right |-> r, ty |-> ty]
IncDec(e, op, prefix) == [type |-> "step", op |-> op, prefix |-> prefix, left |-> e, ty |-> e.ty]
And(l, r)           == [type |-> "and", left |-> l, right |-> r, ty |-> IntType]
Or(l, r)            == [type |-> "or", left |-> l, right |-> r, ty |-> IntType]
Conditional(c, a, b) == [type |-> "conditional", left |-> c, then |-> a, else |-> b, ty |-> a.ty]
Comma(l, r)         == [type |-> "comma", left |-> l, right |-> r, ty |-> r.ty]
Call(sym, args, ty) == [type |-> "call", sym |-> sym, args |-> args, ty |-> ty]

(* A cast the analysis inserted where C converts without being told. *)
Convert(ty, e)      == [Cast(ty, e) EXCEPT !.implicit = TRUE]

(* (struct S){items}: an object without a name, with a symbol all the same. *)
Compound(sym, items) == [type |-> "compound", sym |-> sym, items |-> items, ty |-> sym.ty]

-----------------------------------------------------------------------------
(* Statements *)

Block(stmts)        == [type |-> "block", body |-> stmts]
Declare(sym, init)  == [type |-> "declaration", sym |-> sym, init |-> init, ty |-> sym.ty]
Do(e)               == [type |-> "expression", left |-> e]
Return(e)           == [type |-> "return", left |-> e]
If(c, s, t)         == [type |-> "if", left |-> c, then |-> s, else |-> t]
While(c, s)         == [type |-> "while", left |-> c, body |-> s]
DoWhile(s, c)       == [type |-> "do", left |-> c, body |-> s]
For(i, c, p, s)     == [type |-> "for", init |-> i, left |-> c, post |-> p, body |-> s]
Switch(e, s)        == [type |-> "switch", left |-> e, body |-> s]
Label(name, s)      == [type |-> "label", name |-> name, body |-> s]
Goto(name)          == [type |-> "goto", name |-> name]
Break               == [type |-> "break"]
Continue            == [type |-> "continue"]

(* A case label is a node of its own, which lowering writes on: id tells   *)
(* the nodes of one function apart.                                        *)
Case(id, n, s)      == [type |-> "case", id |-> id, value |-> n, body |-> s]
Default(id, s)      == [type |-> "default", id |-> id, body |-> s]

(* { items }: an item is [at, value], where at is the member or element a  *)
(* designator names, or 0 for the one after the item before it.            *)
Braces(items)       == [type |-> "braces", items |-> items]
Item(e)             == [at |-> 0, value |-> e]
Designated(k, e)    == [at |-> k, value |-> e]

Function(params, body) == [params |-> params, body |-> body]
=============================================================================
