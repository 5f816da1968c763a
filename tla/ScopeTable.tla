------------------------------ MODULE ScopeTable ------------------------------
(***************************************************************************)
(* src/src/analysis/sema_scope.c: the table of the declarations in scope   *)
(* and the stack frame they are laid out in.                               *)
(*                                                                         *)
(* One table serves all scopes of a function: an entry knows how deep the  *)
(* scope is that it belongs to, and a lookup runs from the newest back.    *)
(* The frame grows as declarations come and shrinks as scopes are left,    *)
(* so that blocks that are never live together share their bytes.          *)
(***************************************************************************)
EXTENDS Integers, Sequences

CONSTANT Declarations    \* the symbols that may be declared

ASSUME DeclarationsAssumption ==
  \A sym \in Declarations : /\ sym.number \in Nat
                            /\ sym.kind \in {"local", "param"}
                            /\ sym.ty.size \in Nat
                            /\ sym.ty.align \in {1, 2, 4, 8}

VARIABLES
  locals,       \* ctx.locals: [sym, depth], newest last
  slots,        \* what struct Symbol says of each declaration met, by number
  scope_depth,
  frame_offset, \* bytes taken, down from %rbp
  frame_max,    \* the most that ever were: the frame reserved
  integer_param_count

scopeVars == <<locals, slots, scope_depth, frame_offset, frame_max, integer_param_count>>

(* Alignments are powers of two up to eight. *)
RoundUp(n, align) == ((n + align - 1) \div align) * align

AtLeastWord(align) == IF align < 4 THEN 4 ELSE align
Sized(size, otherwise) == IF size > 0 THEN size ELSE otherwise
Slot(offset, size, register) == [offset |-> offset, size |-> size, register |-> register]

WithSlot(number, slot) ==
  [n \in DOMAIN slots \cup {number} |-> IF n = number THEN slot ELSE slots[n]]

(* Registers of a parameter: one for each eight bytes of a struct. *)
EightBytes(ty) == IF ty.kind = "struct" THEN (ty.size + 7) \div 8 ELSE 1

(* sema_find_local: the newest entry with this name, 0 if there is none. *)
FindLocal(name) ==
  IF \E k \in DOMAIN locals : locals[k].sym.name = name
    THEN CHOOSE k \in DOMAIN locals :
           /\ locals[k].sym.name = name
           /\ \A j \in k + 1 .. Len(locals) : locals[j].sym.name # name
    ELSE 0

(* Slip: a declaration further out counts. *)
DeclaredAnywhere(name) == FindLocal(name) # 0

DeclaredHere(name) ==
  FindLocal(name) # 0 /\ locals[FindLocal(name)].depth = scope_depth

-----------------------------------------------------------------------------
(* Claim bytes of the frame, below all that is taken. *)
Claim(sym, size, register) ==
  LET bottom == RoundUp(frame_offset + size, AtLeastWord(sym.ty.align))
  IN /\ frame_offset' = bottom
     /\ frame_max' = IF bottom > frame_max THEN bottom ELSE frame_max
     /\ slots' = WithSlot(sym.number, Slot(-bottom, size, register))

Enlist(sym) == locals' = Append(locals, [sym |-> sym, depth |-> scope_depth])

(* sema_add_local of a name new to its scope; a declaration the second     *)
(* pass meets again keeps the slot the first pass gave it.                 *)
AddLocal(sym) ==
  /\ ~ DeclaredHere(sym.name)
  /\ Enlist(sym)
  /\ IF sym.number \in DOMAIN slots
       THEN UNCHANGED <<slots, frame_offset, frame_max>>
       ELSE Claim(sym, Sized(sym.ty.size, 4), 0)
  /\ UNCHANGED <<scope_depth, integer_param_count>>

(* sema_add_parameter, the index counting from 0: six get a slot to be     *)
(* spilled into, the others lie above the return address.                  *)
AddParameter(sym, index) ==
  /\ IF DeclaredHere(sym.name) THEN UNCHANGED locals ELSE Enlist(sym)
  /\ IF sym.number \in DOMAIN slots THEN UNCHANGED <<slots, frame_offset, frame_max, integer_param_count>>
     ELSE /\ integer_param_count' = integer_param_count + EightBytes(sym.ty)
          /\ IF index < 6
               THEN Claim(sym, Sized(sym.ty.size, 8), integer_param_count)
               ELSE /\ slots' = WithSlot(sym.number,
                                  Slot(16 + (index - 6) * 8, Sized(sym.ty.size, 8), integer_param_count))
                    /\ UNCHANGED <<frame_offset, frame_max>>
  /\ UNCHANGED scope_depth

(* A compound literal takes a slot without a name. *)
ReserveLiteral(sym) ==
  /\ Claim(sym, Sized(sym.ty.size, 4), 0)
  /\ UNCHANGED <<locals, scope_depth, integer_param_count>>

EnterScope ==
  /\ scope_depth' = scope_depth + 1
  /\ UNCHANGED <<locals, slots, frame_offset, frame_max, integer_param_count>>

(* Slip: the frame starts again at its top. *)
ReachesNothing(entries) == {0}

(* How far down from %rbp the locals among entries reach. *)
Reaches(entries) ==
  {0} \cup {- slots[entries[k].sym.number].offset :
              k \in {j \in DOMAIN entries : entries[j].sym.kind = "local"}}

(* Slip: the entries stay. *)
LeaveEntries ==
  /\ scope_depth' = scope_depth - 1
  /\ UNCHANGED <<locals, slots, frame_offset, frame_max, integer_param_count>>

(* The entries of the scope go, and the frame is rewound to what the       *)
(* entries that stay reach down to.                                        *)
LeaveScope ==
  /\ \E n \in 0 .. Len(locals) :
       /\ \A k \in n + 1 .. Len(locals) : locals[k].depth = scope_depth
       /\ n = 0 \/ locals[n].depth # scope_depth
       /\ locals' = SubSeq(locals, 1, n)
  /\ \E reach \in Reaches(locals') :
       /\ \A other \in Reaches(locals') : other <= reach
       /\ frame_offset' = reach
  /\ scope_depth' = scope_depth - 1
  /\ UNCHANGED <<slots, frame_max, integer_param_count>>

(* A function begins; known are the slots its declarations have by then,   *)
(* and reserved is the frame.                                              *)
StartFunction(known, reserved) ==
  /\ locals' = <<>> /\ slots' = known
  /\ scope_depth' = 1
  /\ frame_offset' = 0 /\ frame_max' = reserved
  /\ integer_param_count' = 0

-----------------------------------------------------------------------------
(* The first pass on its own: every declaration is met once.               *)
ScopeInit ==
  /\ locals = <<>> /\ slots = <<>>
  /\ scope_depth = 0
  /\ frame_offset = 0 /\ frame_max = 0
  /\ integer_param_count = 0

New(sym) == sym.number \notin DOMAIN slots

ScopeNext ==
  \/ StartFunction(<<>>, 0)
  \/ \E sym \in Declarations :
       /\ scope_depth > 0 /\ New(sym)
       /\ \/ sym.kind = "local" /\ (AddLocal(sym) \/ ReserveLiteral(sym))
          \/ sym.kind = "param" /\ \E index \in Nat : AddParameter(sym, index)
  \/ EnterScope
  \/ scope_depth > 1 /\ LeaveScope

ScopeSpec == ScopeInit /\ [][ScopeNext]_scopeVars

-----------------------------------------------------------------------------
(* Properties *)

ScopeTypeOK ==
  /\ locals \in Seq([sym : Declarations, depth : Nat])
  /\ scope_depth \in Nat /\ frame_offset \in Nat /\ frame_max \in Nat
  /\ \A k \in DOMAIN locals : locals[k].sym.number \in DOMAIN slots
  /\ \A n \in DOMAIN slots : slots[n].offset \in Int /\ slots[n].size \in Nat

SlotOf(entry) == slots[entry.sym.number]

Apart(slot, other) ==
  slot.offset + slot.size <= other.offset \/ other.offset + other.size <= slot.offset

(***************************************************************************)
(* Locals in scope together share no byte, whatever blocks came and went   *)
(* before.                                                                 *)
(***************************************************************************)
LocalsDisjoint ==
  \A k, j \in {n \in DOMAIN locals : locals[n].sym.kind = "local"} :
    k # j => Apart(SlotOf(locals[k]), SlotOf(locals[j]))

(* All that was ever given a place lies in the frame that is reserved. *)
FrameCovers == \A n \in DOMAIN slots : - slots[n].offset <= frame_max

(***************************************************************************)
(* The same of all that is in scope, parameters included: what the frame   *)
(* is rewound to is "what the still-live locals occupy".                   *)
(***************************************************************************)
LiveObjectsDisjoint ==
  \A k, j \in DOMAIN locals : k # j => Apart(SlotOf(locals[k]), SlotOf(locals[j]))

(***************************************************************************)
(* The table is a stack of scopes: entries of one depth are one scope, so  *)
(* that names come into scope, hide each other and go as C wants.          *)
(***************************************************************************)
NamesAt(entries, depth) ==
  [name \in {entries[k].sym.name : k \in {j \in DOMAIN entries : entries[j].depth = depth}} |->
     LET k == CHOOSE j \in DOMAIN entries : entries[j].depth = depth /\ entries[j].sym.name = name
     IN entries[k].sym.number]

Stack == INSTANCE Scopes WITH
  Names  <- {sym.name : sym \in Declarations},
  Ids    <- {sym.number : sym \in Declarations},
  scopes <- [depth \in 1 .. scope_depth |-> NamesAt(locals, depth)]

StackOfScopes == Stack!Spec

(***************************************************************************)
(* sema_find_local, which only knows which entry is newest, answers with   *)
(* the declaration C means: the one of the innermost scope that has the    *)
(* name, and none when no scope has it.                                    *)
(***************************************************************************)
LookupExact ==
  \A name \in {sym.name : sym \in Declarations}, id \in {sym.number : sym \in Declarations} :
    Stack!Means(name, id) <=> FindLocal(name) # 0 /\ locals[FindLocal(name)].sym.number = id
=============================================================================
