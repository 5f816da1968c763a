-------------------------- MODULE ScopeTableProofs --------------------------
(***************************************************************************)
(* Proofs about the table of scopes in its first pass, for every set of    *)
(* declarations: the frame keeps the locals in scope apart, however blocks *)
(* come and go, and the table is a stack of scopes.                        *)
(***************************************************************************)
EXTENDS ScopeTable, TLAPS, WellFoundedInduction

IsLocal(entry) == entry.sym.kind = "local"

(* Deeper scopes come later; their depths are those of scopes still open. *)
Nested ==
  /\ \A k \in DOMAIN locals : locals[k].depth \in 1 .. scope_depth
  /\ \A j, k \in DOMAIN locals : j < k => locals[j].depth <= locals[k].depth

(* A scope declares a name once. *)
NamesUnique ==
  \A j, k \in DOMAIN locals :
    locals[j].depth = locals[k].depth /\ locals[j].sym.name = locals[k].sym.name => j = k

(* A later local lies below an earlier one, and the frame begins below all. *)
Stacked ==
  /\ \A j, k \in DOMAIN locals :
       j < k /\ IsLocal(locals[j]) /\ IsLocal(locals[k]) =>
         SlotOf(locals[k]).offset + SlotOf(locals[k]).size <= SlotOf(locals[j]).offset
  /\ \A k \in DOMAIN locals : IsLocal(locals[k]) => - SlotOf(locals[k]).offset <= frame_offset
  /\ frame_offset <= frame_max

SlotsTyped == \A n \in DOMAIN slots : slots[n].offset \in Int /\ slots[n].size \in Nat

(* The inductive invariant. *)
TableInvariant == ScopeTypeOK /\ Nested /\ NamesUnique /\ Stacked /\ FrameCovers

-----------------------------------------------------------------------------
(* Rounding up leaves room for what is asked for. *)
LEMMA RoundUpCovers ==
  ASSUME NEW n \in Nat, NEW align \in {1, 2, 4, 8}
  PROVE  /\ RoundUp(n, AtLeastWord(align)) \in Nat
         /\ n <= RoundUp(n, AtLeastWord(align))
<1>1. CASE AtLeastWord(align) = 4
  BY <1>1 DEF RoundUp
<1>2. CASE AtLeastWord(align) = 8
  BY <1>2 DEF RoundUp
<1>3. QED
  BY <1>1, <1>2 DEF AtLeastWord

(* Among positions of a sequence there is a last one. *)
LEMMA LastPosition ==
  ASSUME NEW n \in Nat, NEW T \in SUBSET (1 .. n), T # {}
  PROVE  \E k \in T : \A j \in T : j <= k
<1> DEFINE D == {d \in Nat : \E k \in T : d = n - k}
<1>1. D \in SUBSET Nat /\ D # {}
  <2>1. \A k \in T : n - k \in Nat
    OBVIOUS
  <2>2. QED
    BY <2>1
<1>2. PICK d \in D : \A e \in D : ~ (<<e, d>> \in OpToRel(<, Nat))
  <2>1. IsWellFoundedOn(OpToRel(<, Nat), Nat)
    BY NatLessThanWellFounded
  <2> HIDE DEF D
  <2>2. QED
    BY <1>1, <2>1, WFMin
<1>3. \A e \in D : ~ (e < d)
  BY <1>2 DEF OpToRel
<1>4. PICK k \in T : d = n - k
  OBVIOUS
<1>5. \A j \in T : ~ (n - j < n - k)
  <2>1. \A j \in T : n - j \in D
    OBVIOUS
  <2>2. QED
    BY <1>3, <1>4, <2>1
<1>6. \A j \in T : j <= k
  BY <1>5
<1>7. QED
  BY <1>6

(* sema_find_local returns the innermost declaration of a name: none in a  *)
(* scope as deep or deeper hides it.                                       *)
LEMMA FindsInnermost ==
  ASSUME TableInvariant, NEW name
  PROVE  IF \E k \in DOMAIN locals : locals[k].sym.name = name
           THEN /\ FindLocal(name) \in DOMAIN locals
                /\ locals[FindLocal(name)].sym.name = name
                /\ \A j \in DOMAIN locals :
                     locals[j].sym.name = name => locals[j].depth <= locals[FindLocal(name)].depth
           ELSE FindLocal(name) = 0
<1>1. CASE ~ \E k \in DOMAIN locals : locals[k].sym.name = name
  BY <1>1 DEF FindLocal
<1>2. CASE \E k \in DOMAIN locals : locals[k].sym.name = name
  <2> DEFINE T == {k \in DOMAIN locals : locals[k].sym.name = name}
             Newest(k) == /\ locals[k].sym.name = name
                          /\ \A j \in k + 1 .. Len(locals) : locals[j].sym.name # name
  <2>1. DOMAIN locals = 1 .. Len(locals) /\ Len(locals) \in Nat
    BY DEF TableInvariant, ScopeTypeOK
  <2>2. PICK k \in T : \A j \in T : j <= k
    BY <1>2, <2>1, LastPosition
  <2>3. Newest(k) /\ k \in DOMAIN locals
    BY <2>1, <2>2
  <2>4. FindLocal(name) = CHOOSE i \in DOMAIN locals : Newest(i)
    BY <1>2 DEF FindLocal
  <2> HIDE DEF Newest
  <2>5. FindLocal(name) \in DOMAIN locals /\ Newest(FindLocal(name))
    BY <2>3, <2>4
  <2>6. \A j \in DOMAIN locals : locals[j].sym.name = name => j <= FindLocal(name)
    BY <2>1, <2>5 DEF Newest
  <2>7. \A j \in DOMAIN locals :
          locals[j].sym.name = name => locals[j].depth <= locals[FindLocal(name)].depth
    <3>1. SUFFICES ASSUME NEW j \in DOMAIN locals, locals[j].sym.name = name
                   PROVE  locals[j].depth <= locals[FindLocal(name)].depth
      OBVIOUS
    <3>2. j = FindLocal(name) \/ j < FindLocal(name)
      BY <2>1, <2>5, <2>6, <3>1
    <3>3. locals[j].depth \in 1 .. scope_depth /\ scope_depth \in Nat
      BY DEF TableInvariant, ScopeTypeOK, Nested
    <3>4. QED
      BY <2>5, <3>2, <3>3 DEF TableInvariant, Nested
  <2>8. QED
    BY <1>2, <2>5, <2>7 DEF Newest
<1>3. QED
  BY <1>1, <1>2

(* What DeclaredHere answers: whether the scope declares the name. *)
LEMMA DeclaredHereExact ==
  ASSUME TableInvariant, NEW name
  PROVE  DeclaredHere(name) <=>
           \E k \in DOMAIN locals : locals[k].depth = scope_depth /\ locals[k].sym.name = name
<1>1. DOMAIN locals = 1 .. Len(locals)
  BY DEF TableInvariant, ScopeTypeOK
<1>2. ASSUME NEW k \in DOMAIN locals, locals[k].depth = scope_depth, locals[k].sym.name = name
      PROVE  DeclaredHere(name)
  <2>1. /\ FindLocal(name) \in DOMAIN locals
        /\ scope_depth <= locals[FindLocal(name)].depth
    BY <1>2, FindsInnermost
  <2>2. locals[FindLocal(name)].depth \in 1 .. scope_depth /\ scope_depth \in Nat
    BY <2>1 DEF TableInvariant, Nested, ScopeTypeOK
  <2>3. QED
    BY <1>1, <2>1, <2>2 DEF DeclaredHere
<1>3. ASSUME DeclaredHere(name)
      PROVE  \E k \in DOMAIN locals : locals[k].depth = scope_depth /\ locals[k].sym.name = name
  BY <1>3, FindsInnermost DEF DeclaredHere
<1>4. QED
  BY <1>2, <1>3

(* Entries are pairs of a declaration and the depth of its scope. *)
LEMMA EntriesTyped ==
  ASSUME ScopeTypeOK
  PROVE  /\ DOMAIN locals = 1 .. Len(locals) /\ Len(locals) \in Nat
         /\ \A k \in DOMAIN locals :
              /\ locals[k] \in [sym : Declarations, depth : Nat]
              /\ locals[k].sym \in Declarations /\ locals[k].depth \in Nat
              /\ locals[k].sym.number \in DOMAIN slots
              /\ SlotOf(locals[k]).offset \in Int /\ SlotOf(locals[k]).size \in Nat
<1> DEFINE Entry == [sym : Declarations, depth : Nat]
<1>1. locals \in Seq(Entry)
  BY DEF ScopeTypeOK
<1> HIDE DEF Entry
<1>2. DOMAIN locals = 1 .. Len(locals) /\ Len(locals) \in Nat
  BY <1>1
<1>3. \A k \in DOMAIN locals : locals[k] \in Entry
  BY <1>1, <1>2
<1>4. ASSUME NEW k \in DOMAIN locals
      PROVE  /\ locals[k].sym \in Declarations /\ locals[k].depth \in Nat
             /\ locals[k].sym.number \in DOMAIN slots
             /\ SlotOf(locals[k]).offset \in Int /\ SlotOf(locals[k]).size \in Nat
  BY <1>3 DEF ScopeTypeOK, SlotOf, Entry
<1>5. QED
  BY <1>2, <1>3, <1>4 DEF Entry

-----------------------------------------------------------------------------
(* The two things a declaration does: it enlists a name, and it claims     *)
(* bytes.                                                                  *)

(* A claim lies below all that is taken, inside the frame, and moves       *)
(* nothing that has a slot.                                                *)
LEMMA ClaimFits ==
  ASSUME TableInvariant, NEW sym \in Declarations, New(sym),
         NEW size \in Nat, NEW register, Claim(sym, size, register)
  PROVE  /\ frame_offset' \in Nat /\ frame_max' \in Nat
         /\ frame_offset + size <= frame_offset' /\ frame_offset' <= frame_max'
         /\ frame_max <= frame_max'
         /\ DOMAIN slots' = DOMAIN slots \cup {sym.number}
         /\ \A n \in DOMAIN slots : slots'[n] = slots[n]
         /\ slots'[sym.number].offset = - frame_offset' /\ slots'[sym.number].size = size
         /\ SlotsTyped' /\ FrameCovers'
<1> DEFINE bottom == RoundUp(frame_offset + size, AtLeastWord(sym.ty.align))
<1>1. frame_offset \in Nat /\ frame_max \in Nat /\ frame_offset <= frame_max
  BY DEF TableInvariant, ScopeTypeOK, Stacked
<1>2. bottom \in Nat /\ frame_offset + size <= bottom
  <2>1. sym.ty.align \in {1, 2, 4, 8}
    BY DeclarationsAssumption
  <2>2. frame_offset + size \in Nat
    BY <1>1
  <2>3. QED
    BY <2>1, <2>2, RoundUpCovers
<1> HIDE DEF bottom
<1>3. /\ frame_offset' = bottom
      /\ frame_max' = IF bottom > frame_max THEN bottom ELSE frame_max
      /\ slots' = WithSlot(sym.number, Slot(-bottom, size, register))
  BY DEF Claim, bottom
<1>4. /\ DOMAIN slots' = DOMAIN slots \cup {sym.number}
      /\ \A n \in DOMAIN slots : slots'[n] = slots[n]
      /\ slots'[sym.number] = Slot(-bottom, size, register)
  BY <1>3 DEF WithSlot, New
<1>5. slots'[sym.number].offset = - bottom /\ slots'[sym.number].size = size
  BY <1>4 DEF Slot
<1>6. SlotsTyped'
  BY <1>2, <1>4, <1>5 DEF TableInvariant, ScopeTypeOK, SlotsTyped
<1>7. FrameCovers'
  <2>1. SUFFICES ASSUME NEW n \in DOMAIN slots'
                 PROVE  - slots'[n].offset <= frame_max'
    BY DEF FrameCovers
  <2>2. CASE n = sym.number
    BY <1>1, <1>2, <1>3, <1>5, <2>2
  <2>3. CASE n \in DOMAIN slots
    <3>1. - slots[n].offset <= frame_max /\ slots[n].offset \in Int
      BY <2>3 DEF TableInvariant, ScopeTypeOK, FrameCovers
    <3>2. QED
      BY <1>1, <1>2, <1>3, <1>4, <2>3, <3>1
  <2>4. QED
    BY <1>4, <2>1, <2>2, <2>3
<1>8. QED
  BY <1>1, <1>2, <1>3, <1>4, <1>5, <1>6, <1>7

(* What an enlisted declaration leaves of the table: the entries before    *)
(* it, one more, and a scope that still declares each name once.           *)
LEMMA EnlistFits ==
  ASSUME TableInvariant, NEW sym \in Declarations, scope_depth > 0,
         ~ DeclaredHere(sym.name), Enlist(sym), scope_depth' = scope_depth
  PROVE  /\ locals' \in Seq([sym : Declarations, depth : Nat])
         /\ Len(locals') = Len(locals) + 1
         /\ DOMAIN locals' = DOMAIN locals \cup {Len(locals) + 1}
         /\ \A k \in DOMAIN locals : locals'[k] = locals[k]
         /\ locals'[Len(locals) + 1] = [sym |-> sym, depth |-> scope_depth]
         /\ Nested' /\ NamesUnique'
<1> DEFINE last == Len(locals) + 1
           entry == [sym |-> sym, depth |-> scope_depth]
<1>1. /\ locals \in Seq([sym : Declarations, depth : Nat]) /\ scope_depth \in Nat
      /\ entry \in [sym : Declarations, depth : Nat]
      /\ locals' = Append(locals, entry)
  BY DEF TableInvariant, ScopeTypeOK, Enlist
<1>2. /\ locals' \in Seq([sym : Declarations, depth : Nat])
      /\ Len(locals') = last /\ Len(locals) \in Nat
      /\ DOMAIN locals = 1 .. Len(locals) /\ DOMAIN locals' = 1 .. last
      /\ \A k \in 1 .. Len(locals) : locals'[k] = locals[k]
      /\ locals'[last] = entry
  <2> HIDE DEF entry
  <2>1. QED
    BY <1>1
<1>3. entry.sym = sym /\ entry.depth = scope_depth
  OBVIOUS
<1>4. \A k \in DOMAIN locals : locals[k].depth \in 1 .. scope_depth
  BY DEF TableInvariant, Nested
<1>5. \A k \in DOMAIN locals : ~ (locals[k].depth = scope_depth /\ locals[k].sym.name = sym.name)
  BY DeclaredHereExact
<1> HIDE DEF entry
<1>6. Nested'
  <2>1. ASSUME NEW k \in DOMAIN locals'
        PROVE  locals'[k].depth \in 1 .. scope_depth'
    BY <1>1, <1>2, <1>3, <1>4
  <2>2. ASSUME NEW j \in DOMAIN locals', NEW k \in DOMAIN locals', j < k
        PROVE  locals'[j].depth <= locals'[k].depth
    <3>1. j \in DOMAIN locals /\ (k \in DOMAIN locals \/ k = last)
      BY <1>2, <2>2
    <3>2. CASE k \in DOMAIN locals
      BY <1>2, <2>2, <3>1, <3>2 DEF TableInvariant, Nested
    <3>3. CASE k = last
      BY <1>1, <1>2, <1>3, <1>4, <3>1, <3>3
    <3>4. QED
      BY <3>1, <3>2, <3>3
  <2>3. QED
    BY <2>1, <2>2 DEF Nested
<1>7. NamesUnique'
  <2>1. SUFFICES ASSUME NEW j \in DOMAIN locals', NEW k \in DOMAIN locals',
                        locals'[j].depth = locals'[k].depth,
                        locals'[j].sym.name = locals'[k].sym.name
                 PROVE  j = k
    BY DEF NamesUnique
  <2>2. CASE j \in DOMAIN locals /\ k \in DOMAIN locals
    BY <1>2, <2>1, <2>2 DEF TableInvariant, NamesUnique
  <2>3. CASE j = last \/ k = last
    BY <1>2, <1>3, <1>5, <2>1, <2>3
  <2>4. QED
    BY <1>2, <2>2, <2>3
<1>8. QED
  BY <1>2, <1>6, <1>7 DEF entry

(* Locals stay stacked when the frame grows and at most one entry comes,   *)
(* a local only with the bytes the frame has grown by.                     *)
LEMMA GrowthFits ==
  ASSUME TableInvariant, NEW sym \in Declarations,
         frame_offset' \in Nat, frame_offset <= frame_offset', frame_offset' <= frame_max',
         \A n \in DOMAIN slots : slots'[n] = slots[n],
         \/ locals' = locals
         \/ /\ DOMAIN locals' = DOMAIN locals \cup {Len(locals) + 1}
            /\ \A k \in DOMAIN locals : locals'[k] = locals[k]
            /\ locals'[Len(locals) + 1].sym = sym
            /\ sym.kind = "local" =>
                 /\ slots'[sym.number].offset = - frame_offset'
                 /\ slots'[sym.number].size \in Nat
                 /\ frame_offset + slots'[sym.number].size <= frame_offset'
  PROVE  Stacked'
<1> DEFINE last == Len(locals) + 1
           SlotNow(k) == slots'[locals'[k].sym.number]
<1>1. /\ DOMAIN locals = 1 .. Len(locals) /\ Len(locals) \in Nat
      /\ \A k \in DOMAIN locals : SlotOf(locals[k]).offset \in Int /\ SlotOf(locals[k]).size \in Nat
      /\ frame_offset \in Nat
  BY EntriesTyped DEF TableInvariant, ScopeTypeOK
<1>2. \A k \in DOMAIN locals : locals'[k] = locals[k] /\ SlotNow(k) = SlotOf(locals[k])
  <2>1. \A k \in DOMAIN locals : locals[k].sym.number \in DOMAIN slots
    BY DEF TableInvariant, ScopeTypeOK
  <2>2. QED
    BY <2>1 DEF SlotOf
<1>3. ASSUME NEW k \in DOMAIN locals', k \notin DOMAIN locals, IsLocal(locals'[k])
      PROVE  /\ k = last
             /\ SlotNow(k).offset = - frame_offset' /\ SlotNow(k).size \in Nat
             /\ frame_offset + SlotNow(k).size <= frame_offset'
  BY <1>3 DEF IsLocal
<1>4. ASSUME NEW k \in DOMAIN locals, IsLocal(locals[k])
      PROVE  - SlotOf(locals[k]).offset <= frame_offset
  BY <1>4 DEF TableInvariant, Stacked
<1>5. ASSUME NEW k \in DOMAIN locals', k \notin DOMAIN locals
      PROVE  k = last
  BY <1>5
<1> HIDE DEF SlotNow
<1>6. ASSUME NEW j \in DOMAIN locals', NEW k \in DOMAIN locals', j < k,
             IsLocal(locals'[j]), IsLocal(locals'[k])
      PROVE  SlotNow(k).offset + SlotNow(k).size <= SlotNow(j).offset
  <2>1. CASE k \in DOMAIN locals
    <3>1. j \in DOMAIN locals
      BY <1>1, <1>5, <1>6, <2>1
    <3>2. SlotOf(locals[k]).offset + SlotOf(locals[k]).size <= SlotOf(locals[j]).offset
      BY <1>2, <1>6, <2>1, <3>1 DEF TableInvariant, Stacked
    <3>3. QED
      BY <1>2, <2>1, <3>1, <3>2
  <2>2. CASE k \notin DOMAIN locals
    <3>1. j \in DOMAIN locals
      BY <1>1, <1>5, <1>6, <2>2
    <3>2. - SlotOf(locals[j]).offset <= frame_offset
      BY <1>2, <1>4, <1>6, <3>1
    <3>3. SlotNow(j) = SlotOf(locals[j]) /\ SlotNow(j).offset \in Int
      BY <1>1, <1>2, <3>1
    <3>4. /\ SlotNow(k).offset = - frame_offset' /\ SlotNow(k).size \in Nat
          /\ frame_offset + SlotNow(k).size <= frame_offset'
      BY <1>3, <1>6, <2>2
    <3>5. QED
      BY <1>1, <3>2, <3>3, <3>4
  <2>3. QED
    BY <2>1, <2>2
<1>7. ASSUME NEW k \in DOMAIN locals', IsLocal(locals'[k])
      PROVE  - SlotNow(k).offset <= frame_offset'
  <2>1. CASE k \in DOMAIN locals
    <3>1. SlotNow(k) = SlotOf(locals[k]) /\ SlotOf(locals[k]).offset \in Int
      BY <1>1, <1>2, <2>1
    <3>2. - SlotOf(locals[k]).offset <= frame_offset
      BY <1>2, <1>4, <1>7, <2>1
    <3>3. QED
      BY <1>1, <3>1, <3>2
  <2>2. CASE k \notin DOMAIN locals
    BY <1>3, <1>7, <2>2
  <2>3. QED
    BY <2>1, <2>2
<1>8. QED
  BY <1>6, <1>7 DEF Stacked, SlotOf, SlotNow

-----------------------------------------------------------------------------
(* One lemma per operation of the table *)

(* sema_add_local of a name new to its scope. *)
LEMMA AddLocalFits ==
  ASSUME TableInvariant, scope_depth > 0,
         NEW sym \in Declarations, New(sym), sym.kind = "local", AddLocal(sym)
  PROVE  TableInvariant'
<1> DEFINE size == Sized(sym.ty.size, 4)
<1>1. /\ ~ DeclaredHere(sym.name) /\ Enlist(sym)
      /\ Claim(sym, size, 0) /\ scope_depth' = scope_depth
  BY DEF AddLocal, New
<1>2. size \in Nat
  BY DeclarationsAssumption DEF Sized
<1> HIDE DEF size
<1>3. /\ locals' \in Seq([sym : Declarations, depth : Nat])
      /\ DOMAIN locals' = DOMAIN locals \cup {Len(locals) + 1}
      /\ \A k \in DOMAIN locals : locals'[k] = locals[k]
      /\ locals'[Len(locals) + 1] = [sym |-> sym, depth |-> scope_depth]
      /\ Nested' /\ NamesUnique'
  BY <1>1, EnlistFits
<1>4. /\ frame_offset' \in Nat /\ frame_max' \in Nat
      /\ frame_offset + size <= frame_offset' /\ frame_offset' <= frame_max'
      /\ DOMAIN slots' = DOMAIN slots \cup {sym.number}
      /\ \A n \in DOMAIN slots : slots'[n] = slots[n]
      /\ slots'[sym.number].offset = - frame_offset' /\ slots'[sym.number].size = size
      /\ SlotsTyped' /\ FrameCovers'
  BY <1>1, <1>2, ClaimFits
<1>5. ScopeTypeOK'
  <2>1. \A k \in DOMAIN locals' : locals'[k].sym.number \in DOMAIN slots'
    BY <1>3, <1>4 DEF TableInvariant, ScopeTypeOK
  <2>2. scope_depth' \in Nat
    BY <1>1 DEF TableInvariant, ScopeTypeOK
  <2>3. QED
    BY <1>3, <1>4, <2>1, <2>2 DEF ScopeTypeOK, SlotsTyped
<1>6. Stacked'
  <2>1. frame_offset \in Nat
    BY DEF TableInvariant, ScopeTypeOK
  <2>2. frame_offset <= frame_offset'
    BY <1>2, <1>4, <2>1
  <2>3. QED
    BY <1>2, <1>3, <1>4, <2>2, GrowthFits
<1>7. QED
  BY <1>3, <1>4, <1>5, <1>6 DEF TableInvariant

(* sema_add_parameter, in a register or above the return address, whether  *)
(* or not the name was taken already.                                      *)
LEMMA AddParameterFits ==
  ASSUME TableInvariant, scope_depth > 0,
         NEW sym \in Declarations, New(sym), sym.kind = "param",
         NEW index \in Nat, AddParameter(sym, index)
  PROVE  TableInvariant'
<1> DEFINE size == Sized(sym.ty.size, 8)
           Listed == /\ DOMAIN locals' = DOMAIN locals \cup {Len(locals) + 1}
                     /\ \A k \in DOMAIN locals : locals'[k] = locals[k]
                     /\ locals'[Len(locals) + 1].sym = sym
<1>1. /\ IF DeclaredHere(sym.name) THEN UNCHANGED locals ELSE Enlist(sym)
      /\ IF index < 6
           THEN Claim(sym, size, integer_param_count)
           ELSE /\ slots' = WithSlot(sym.number, Slot(16 + (index - 6) * 8, size, integer_param_count))
                /\ UNCHANGED <<frame_offset, frame_max>>
      /\ scope_depth' = scope_depth
  BY DEF AddParameter, New
<1>2. size \in Nat
  BY DeclarationsAssumption DEF Sized
<1> HIDE DEF size
<1>3. /\ locals' \in Seq([sym : Declarations, depth : Nat])
      /\ locals' = locals \/ Listed
      /\ Nested' /\ NamesUnique'
  <2>1. CASE DeclaredHere(sym.name)
    BY <1>1, <2>1 DEF TableInvariant, ScopeTypeOK, Nested, NamesUnique
  <2>2. CASE ~ DeclaredHere(sym.name)
    <3>1. Enlist(sym) /\ scope_depth' = scope_depth
      BY <1>1, <2>2
    <3>2. /\ locals' \in Seq([sym : Declarations, depth : Nat])
          /\ DOMAIN locals' = DOMAIN locals \cup {Len(locals) + 1}
          /\ \A k \in DOMAIN locals : locals'[k] = locals[k]
          /\ locals'[Len(locals) + 1] = [sym |-> sym, depth |-> scope_depth]
          /\ Nested' /\ NamesUnique'
      BY <2>2, <3>1, EnlistFits
    <3>3. Listed
      BY <3>2
    <3> HIDE DEF Listed
    <3>4. QED
      BY <3>2, <3>3
  <2>3. QED
    BY <2>1, <2>2
<1>4. /\ frame_offset' \in Nat /\ frame_max' \in Nat
      /\ frame_offset <= frame_offset' /\ frame_offset' <= frame_max'
      /\ DOMAIN slots' = DOMAIN slots \cup {sym.number}
      /\ \A n \in DOMAIN slots : slots'[n] = slots[n]
      /\ SlotsTyped' /\ FrameCovers'
  <2>1. /\ frame_offset \in Nat /\ frame_max \in Nat /\ frame_offset <= frame_max
        /\ \A n \in DOMAIN slots : /\ slots[n].offset \in Int /\ slots[n].size \in Nat
                                   /\ - slots[n].offset <= frame_max
    BY DEF TableInvariant, ScopeTypeOK, Stacked, FrameCovers
  <2>2. CASE index < 6
    <3>1. Claim(sym, size, integer_param_count)
      BY <1>1, <2>2
    <3>2. /\ frame_offset' \in Nat /\ frame_max' \in Nat
          /\ frame_offset + size <= frame_offset' /\ frame_offset' <= frame_max'
          /\ DOMAIN slots' = DOMAIN slots \cup {sym.number}
          /\ \A n \in DOMAIN slots : slots'[n] = slots[n]
          /\ SlotsTyped' /\ FrameCovers'
      BY <1>2, <3>1, ClaimFits
    <3>3. QED
      BY <1>2, <2>1, <3>2
  <2>3. CASE ~ index < 6
    <3> DEFINE place == 16 + (index - 6) * 8
    <3>1. place \in Nat
      BY <2>3
    <3> HIDE DEF place
    <3>2. /\ slots' = WithSlot(sym.number, Slot(place, size, integer_param_count))
          /\ frame_offset' = frame_offset /\ frame_max' = frame_max
      BY <1>1, <2>3 DEF place
    <3>3. /\ DOMAIN slots' = DOMAIN slots \cup {sym.number}
          /\ \A n \in DOMAIN slots : slots'[n] = slots[n]
          /\ slots'[sym.number].offset = place /\ slots'[sym.number].size = size
      BY <3>2 DEF WithSlot, Slot, New
    <3>4. \A n \in DOMAIN slots' : /\ slots'[n].offset \in Int /\ slots'[n].size \in Nat
                                   /\ - slots'[n].offset <= frame_max'
      BY <1>2, <2>1, <3>1, <3>2, <3>3
    <3>5. QED
      BY <2>1, <3>2, <3>3, <3>4 DEF SlotsTyped, FrameCovers
  <2>4. QED
    BY <2>2, <2>3
<1>5. ScopeTypeOK'
  <2>1. \A k \in DOMAIN locals' : locals'[k].sym.number \in DOMAIN slots'
    BY <1>3, <1>4 DEF TableInvariant, ScopeTypeOK
  <2>2. scope_depth' \in Nat
    BY <1>1 DEF TableInvariant, ScopeTypeOK
  <2>3. QED
    BY <1>3, <1>4, <2>1, <2>2 DEF ScopeTypeOK, SlotsTyped
<1>6. Stacked'
  BY <1>3, <1>4, GrowthFits
<1>7. QED
  BY <1>3, <1>4, <1>5, <1>6 DEF TableInvariant

(* The slot of a compound literal. *)
LEMMA ReserveLiteralFits ==
  ASSUME TableInvariant, NEW sym \in Declarations, New(sym), ReserveLiteral(sym)
  PROVE  TableInvariant'
<1> DEFINE size == Sized(sym.ty.size, 4)
<1>1. Claim(sym, size, 0) /\ locals' = locals /\ scope_depth' = scope_depth
  BY DEF ReserveLiteral
<1>2. size \in Nat
  BY DeclarationsAssumption DEF Sized
<1> HIDE DEF size
<1>3. /\ frame_offset' \in Nat /\ frame_max' \in Nat
      /\ frame_offset + size <= frame_offset' /\ frame_offset' <= frame_max'
      /\ DOMAIN slots' = DOMAIN slots \cup {sym.number}
      /\ \A n \in DOMAIN slots : slots'[n] = slots[n]
      /\ SlotsTyped' /\ FrameCovers'
  BY <1>1, <1>2, ClaimFits
<1>4. ScopeTypeOK'
  BY <1>1, <1>3 DEF TableInvariant, ScopeTypeOK, SlotsTyped
<1>5. Stacked'
  <2>1. frame_offset \in Nat
    BY DEF TableInvariant, ScopeTypeOK
  <2>2. frame_offset <= frame_offset'
    BY <1>2, <1>3, <2>1
  <2>3. QED
    BY <1>1, <1>3, <2>2, GrowthFits
<1>6. Nested' /\ NamesUnique'
  BY <1>1 DEF TableInvariant, Nested, NamesUnique
<1>7. QED
  BY <1>3, <1>4, <1>5, <1>6 DEF TableInvariant

(* sema_enter_scope. *)
LEMMA EnterScopeFits ==
  ASSUME TableInvariant, EnterScope
  PROVE  TableInvariant'
<1>1. /\ scope_depth \in Nat /\ scope_depth' = scope_depth + 1
      /\ UNCHANGED <<locals, slots, frame_offset, frame_max>>
  BY DEF TableInvariant, ScopeTypeOK, EnterScope
<1>2. Nested'
  BY <1>1 DEF TableInvariant, Nested
<1>3. QED
  BY <1>1, <1>2 DEF TableInvariant, ScopeTypeOK, NamesUnique, Stacked, SlotOf, FrameCovers

(* sema_leave_scope: what stays keeps its place and lies above where the   *)
(* frame begins again.                                                     *)
LEMMA LeaveScopeFits ==
  ASSUME TableInvariant, scope_depth > 1, LeaveScope
  PROVE  /\ TableInvariant'
         /\ \E n \in 0 .. Len(locals) :
              /\ Len(locals') = n /\ DOMAIN locals' = 1 .. n
              /\ \A k \in 1 .. n : locals'[k] = locals[k]
              /\ \A k \in DOMAIN locals : k <= n <=> locals[k].depth < scope_depth
<1>1. /\ locals \in Seq([sym : Declarations, depth : Nat])
      /\ DOMAIN locals = 1 .. Len(locals) /\ Len(locals) \in Nat
      /\ scope_depth \in Nat
  BY EntriesTyped DEF TableInvariant, ScopeTypeOK
<1>2. PICK n \in 0 .. Len(locals) :
        /\ \A k \in n + 1 .. Len(locals) : locals[k].depth = scope_depth
        /\ n = 0 \/ locals[n].depth # scope_depth
        /\ locals' = SubSeq(locals, 1, n)
  BY DEF LeaveScope
<1>3. /\ locals' \in Seq([sym : Declarations, depth : Nat])
      /\ Len(locals') = n /\ DOMAIN locals' = 1 .. n
      /\ \A k \in 1 .. n : locals'[k] = locals[k]
  <2> DEFINE Entry == [sym : Declarations, depth : Nat]
  <2>1. locals \in Seq(Entry)
    BY <1>1
  <2> HIDE DEF Entry
  <2>2. /\ locals' \in Seq(Entry)
        /\ Len(locals') = n /\ DOMAIN locals' = 1 .. n
        /\ \A k \in 1 .. n : locals'[k] = locals[k]
    BY <1>1, <1>2, <2>1
  <2>3. QED
    BY <2>2 DEF Entry
<1>4. /\ scope_depth' = scope_depth - 1
      /\ UNCHANGED <<slots, frame_max>>
  BY DEF LeaveScope
<1>5. ASSUME NEW k \in DOMAIN locals
      PROVE  k <= n <=> locals[k].depth < scope_depth
  <2>1. CASE k <= n
    <3>1. n \in DOMAIN locals /\ locals[n].depth # scope_depth
      BY <1>1, <1>2, <2>1
    <3>2. locals[n].depth \in 1 .. scope_depth /\ locals[k].depth \in 1 .. scope_depth
      BY <3>1 DEF TableInvariant, Nested
    <3>3. locals[k].depth <= locals[n].depth
      <4>1. k = n \/ k < n
        BY <1>1, <1>2, <2>1
      <4>2. QED
        BY <3>1, <3>2, <4>1 DEF TableInvariant, Nested
    <3>4. QED
      BY <1>1, <2>1, <3>1, <3>2, <3>3
  <2>2. CASE ~ k <= n
    BY <1>1, <1>2, <2>2
  <2>3. QED
    BY <2>1, <2>2
<1>6. ScopeTypeOK' /\ FrameCovers' /\ Stacked'
  <2>1. PICK reach \in Reaches(locals') :
          (\A other \in Reaches(locals') : other <= reach) /\ frame_offset' = reach
    BY DEF LeaveScope
  <2>2. /\ frame_max \in Nat
        /\ \A m \in DOMAIN slots : /\ slots[m].offset \in Int /\ slots[m].size \in Nat
                                   /\ - slots[m].offset <= frame_max
    BY DEF TableInvariant, ScopeTypeOK, FrameCovers
  <2>3. \A k \in DOMAIN locals' :
          /\ k \in DOMAIN locals /\ locals'[k] = locals[k]
          /\ locals'[k].sym.number \in DOMAIN slots
    BY <1>1, <1>2, <1>3 DEF TableInvariant, ScopeTypeOK
  <2>4. reach \in Nat /\ reach <= frame_max
    <3>1. 0 \in Reaches(locals')
      BY DEF Reaches
    <3>2. \A other \in Reaches(locals') : other \in Int /\ other <= frame_max
      BY <2>2, <2>3 DEF Reaches
    <3>3. QED
      BY <2>1, <3>1, <3>2
  <2>5. ASSUME NEW k \in DOMAIN locals', IsLocal(locals'[k])
        PROVE  - slots[locals'[k].sym.number].offset <= reach
    BY <2>1, <2>5 DEF Reaches, IsLocal
  <2>6. ScopeTypeOK'
    <3>1. scope_depth' \in Nat
      BY <1>1, <1>4
    <3>2. QED
      BY <1>3, <1>4, <2>1, <2>2, <2>3, <2>4, <3>1 DEF ScopeTypeOK
  <2>7. FrameCovers'
    BY <1>4 DEF TableInvariant, FrameCovers
  <2>8. Stacked'
    <3>1. ASSUME NEW j \in DOMAIN locals', NEW k \in DOMAIN locals', j < k,
                 IsLocal(locals'[j]), IsLocal(locals'[k])
          PROVE  SlotOf(locals[k]).offset + SlotOf(locals[k]).size <= SlotOf(locals[j]).offset
      BY <2>3, <3>1 DEF TableInvariant, Stacked
    <3>2. \A k \in DOMAIN locals' : slots'[locals'[k].sym.number] = SlotOf(locals[k])
      BY <1>4, <2>3 DEF SlotOf
    <3>3. QED
      BY <1>4, <2>1, <2>4, <2>5, <3>1, <3>2 DEF Stacked, SlotOf
  <2>9. QED
    BY <2>6, <2>7, <2>8
<1>7. Nested' /\ NamesUnique'
  <2>1. ASSUME NEW k \in DOMAIN locals'
        PROVE  locals'[k].depth \in 1 .. scope_depth'
    <3>1. k \in DOMAIN locals /\ locals'[k] = locals[k] /\ k <= n
      BY <1>1, <1>2, <1>3
    <3>2. locals[k].depth < scope_depth /\ locals[k].depth \in 1 .. scope_depth
      BY <1>5, <3>1 DEF TableInvariant, Nested
    <3>3. QED
      BY <1>1, <1>4, <3>1, <3>2
  <2>2. DOMAIN locals' \subseteq DOMAIN locals
    BY <1>1, <1>2, <1>3
  <2>3. Nested'
    <3>1. ASSUME NEW j \in DOMAIN locals', NEW k \in DOMAIN locals', j < k
          PROVE  locals'[j].depth <= locals'[k].depth
      BY <1>3, <2>2, <3>1 DEF TableInvariant, Nested
    <3>2. QED
      BY <2>1, <3>1 DEF Nested
  <2>4. NamesUnique'
    <3>1. SUFFICES ASSUME NEW j \in DOMAIN locals', NEW k \in DOMAIN locals',
                          locals'[j].depth = locals'[k].depth,
                          locals'[j].sym.name = locals'[k].sym.name
                   PROVE  j = k
      BY DEF NamesUnique
    <3>2. QED
      BY <1>3, <2>2, <3>1 DEF TableInvariant, NamesUnique
  <2>5. QED
    BY <2>3, <2>4
<1>8. QED
  BY <1>2, <1>3, <1>5, <1>6, <1>7 DEF TableInvariant

(* The table of a function begins empty. *)
LEMMA StartFunctionFits ==
  ASSUME StartFunction(<<>>, 0)
  PROVE  TableInvariant'
BY DEF StartFunction, TableInvariant, ScopeTypeOK, Nested, NamesUnique, Stacked, FrameCovers

-----------------------------------------------------------------------------
(* The invariant in every reachable state *)

(* The table of sema_scope.c keeps its invariant through every sequence of *)
(* declarations, parameters, literals and scopes, for every function.      *)
THEOREM TableInvariance == ScopeSpec => []TableInvariant
<1>1. ScopeInit => TableInvariant
  BY DEF ScopeInit, TableInvariant, ScopeTypeOK, Nested, NamesUnique, Stacked, FrameCovers
<1>2. TableInvariant /\ [ScopeNext]_scopeVars => TableInvariant'
  <2> SUFFICES ASSUME TableInvariant, [ScopeNext]_scopeVars PROVE TableInvariant'
    OBVIOUS
  <2>1. CASE StartFunction(<<>>, 0)
    BY <2>1, StartFunctionFits
  <2>2. ASSUME NEW sym \in Declarations, scope_depth > 0, New(sym), sym.kind = "local",
               AddLocal(sym) \/ ReserveLiteral(sym)
        PROVE  TableInvariant'
    BY <2>2, AddLocalFits, ReserveLiteralFits
  <2>3. ASSUME NEW sym \in Declarations, scope_depth > 0, New(sym), sym.kind = "param",
               NEW index \in Nat, AddParameter(sym, index)
        PROVE  TableInvariant'
    BY <2>3, AddParameterFits
  <2>4. CASE EnterScope
    BY <2>4, EnterScopeFits
  <2>5. CASE scope_depth > 1 /\ LeaveScope
    BY <2>5, LeaveScopeFits
  <2>6. CASE UNCHANGED scopeVars
    BY <2>6 DEF scopeVars, TableInvariant, ScopeTypeOK, Nested, NamesUnique, Stacked, SlotOf, FrameCovers
  <2>7. QED
    BY <2>1, <2>2, <2>3, <2>4, <2>5, <2>6 DEF ScopeNext
<1>3. QED
  BY <1>1, <1>2, PTL DEF ScopeSpec

(* The table and the slots always have their types, and every entry has a  *)
(* slot.                                                                   *)
THEOREM TableTyped == ScopeSpec => []ScopeTypeOK
<1>1. TableInvariant => ScopeTypeOK
  BY DEF TableInvariant
<1>2. QED
  BY <1>1, TableInvariance, PTL

(* Locals that are in scope together share no byte of the frame, although  *)
(* sema_leave_scope gives the bytes of a block away again.                 *)
THEOREM LocalsKeptApart == ScopeSpec => []LocalsDisjoint
<1>1. TableInvariant => LocalsDisjoint
  <2>1. SUFFICES ASSUME TableInvariant,
                        NEW j \in DOMAIN locals, NEW k \in DOMAIN locals, j # k,
                        IsLocal(locals[j]), IsLocal(locals[k])
                 PROVE  Apart(SlotOf(locals[j]), SlotOf(locals[k]))
    BY DEF LocalsDisjoint, IsLocal
  <2>2. j < k \/ k < j
    BY <2>1, EntriesTyped DEF TableInvariant
  <2>3. QED
    BY <2>1, <2>2 DEF TableInvariant, Stacked, Apart
<1>2. QED
  BY <1>1, TableInvariance, PTL

(* Whatever was ever given a place in the frame, also what has gone out of *)
(* scope, lies inside the bytes the function reserves.                     *)
THEOREM FrameReserved == ScopeSpec => []FrameCovers
<1>1. TableInvariant => FrameCovers
  BY DEF TableInvariant
<1>2. QED
  BY <1>1, TableInvariance, PTL

-----------------------------------------------------------------------------
(* The table implements a stack of scopes *)

(* The scopes the table stands for. *)
Mapped == [depth \in 1 .. scope_depth |-> NamesAt(locals, depth)]

(* What the names of a scope declares, when each is declared once. *)
LEMMA NamesAtExact ==
  ASSUME NEW entries, NEW depth,
         \A j, k \in DOMAIN entries :
           entries[j].depth = entries[k].depth /\ entries[j].sym.name = entries[k].sym.name => j = k
  PROVE  /\ NamesAt(entries, depth) = [name \in DOMAIN NamesAt(entries, depth) |->
                                         NamesAt(entries, depth)[name]]
         /\ \A name : name \in DOMAIN NamesAt(entries, depth) <=>
              \E k \in DOMAIN entries : entries[k].depth = depth /\ entries[k].sym.name = name
         /\ \A k \in DOMAIN entries :
              entries[k].depth = depth =>
                NamesAt(entries, depth)[entries[k].sym.name] = entries[k].sym.number
<1>1. /\ NamesAt(entries, depth) = [name \in DOMAIN NamesAt(entries, depth) |->
                                      NamesAt(entries, depth)[name]]
      /\ \A name : name \in DOMAIN NamesAt(entries, depth) <=>
           \E k \in DOMAIN entries : entries[k].depth = depth /\ entries[k].sym.name = name
  BY DEF NamesAt
<1>2. ASSUME NEW k \in DOMAIN entries, entries[k].depth = depth
      PROVE  NamesAt(entries, depth)[entries[k].sym.name] = entries[k].sym.number
  <2> DEFINE Is(j) == entries[j].depth = depth /\ entries[j].sym.name = entries[k].sym.name
             chosen == CHOOSE j \in DOMAIN entries : Is(j)
  <2>1. NamesAt(entries, depth)[entries[k].sym.name] = entries[chosen].sym.number
    BY <1>2 DEF NamesAt
  <2>2. Is(k)
    BY <1>2
  <2>3. chosen \in DOMAIN entries /\ Is(chosen)
    <3> HIDE DEF Is
    <3>1. QED
      BY <2>2
  <2>4. chosen = k
    BY <1>2, <2>3
  <2>5. QED
    BY <2>1, <2>4
<1>3. QED
  BY <1>1, <1>2

(* A scope whose entries stay keeps its names. *)
LEMMA NamesKept ==
  ASSUME NEW entries, NEW others, NEW depth,
         \A j, k \in DOMAIN entries :
           entries[j].depth = entries[k].depth /\ entries[j].sym.name = entries[k].sym.name => j = k,
         \A j, k \in DOMAIN others :
           others[j].depth = others[k].depth /\ others[j].sym.name = others[k].sym.name => j = k,
         \A k \in DOMAIN entries : entries[k].depth = depth => k \in DOMAIN others /\ others[k] = entries[k],
         \A k \in DOMAIN others : others[k].depth = depth => k \in DOMAIN entries /\ others[k] = entries[k]
  PROVE  NamesAt(entries, depth) = NamesAt(others, depth)
<1> DEFINE f == NamesAt(entries, depth)
           g == NamesAt(others, depth)
<1>1. /\ f = [name \in DOMAIN f |-> f[name]]
      /\ \A name : name \in DOMAIN f <=>
           \E k \in DOMAIN entries : entries[k].depth = depth /\ entries[k].sym.name = name
      /\ \A k \in DOMAIN entries : entries[k].depth = depth => f[entries[k].sym.name] = entries[k].sym.number
  BY NamesAtExact
<1>2. /\ g = [name \in DOMAIN g |-> g[name]]
      /\ \A name : name \in DOMAIN g <=>
           \E k \in DOMAIN others : others[k].depth = depth /\ others[k].sym.name = name
      /\ \A k \in DOMAIN others : others[k].depth = depth => g[others[k].sym.name] = others[k].sym.number
  BY NamesAtExact
<1> HIDE DEF f, g
<1>3. DOMAIN f = DOMAIN g
  BY <1>1, <1>2
<1>4. \A name \in DOMAIN f : f[name] = g[name]
  BY <1>1, <1>2
<1>5. f = g
  BY <1>1, <1>2, <1>3, <1>4
<1>6. QED
  BY <1>5 DEF f, g

(* The scopes are as many as the table is deep. *)
LEMMA MappedIsSequence ==
  ASSUME scope_depth \in Nat
  PROVE  /\ Mapped \in Seq({NamesAt(locals, depth) : depth \in 1 .. scope_depth})
         /\ Len(Mapped) = scope_depth /\ DOMAIN Mapped = 1 .. scope_depth
         /\ \A depth \in 1 .. scope_depth : Mapped[depth] = NamesAt(locals, depth)
BY DEF Mapped

(* An enlisted declaration is declared in the innermost scope, and in no   *)
(* other.                                                                  *)
LEMMA EnlistDeclares ==
  ASSUME TableInvariant, scope_depth > 0, NEW sym \in Declarations,
         ~ DeclaredHere(sym.name), Enlist(sym), scope_depth' = scope_depth
  PROVE  Mapped' # Mapped /\ Stack!Declare(sym.name, sym.number)
<1> DEFINE last == Len(locals) + 1
           before == NamesAt(locals, scope_depth)
           after == NamesAt(locals', scope_depth)
           declared == [name \in DOMAIN before \cup {sym.name} |->
                          IF name = sym.name THEN sym.number ELSE before[name]]
<1>1. /\ scope_depth \in Nat /\ DOMAIN locals = 1 .. Len(locals) /\ Len(locals) \in Nat
      /\ last \notin DOMAIN locals
  BY EntriesTyped DEF TableInvariant, ScopeTypeOK
<1>2. /\ DOMAIN locals' = DOMAIN locals \cup {last}
      /\ \A k \in DOMAIN locals : locals'[k] = locals[k]
      /\ locals'[last].sym = sym /\ locals'[last].depth = scope_depth
      /\ NamesUnique'
  <2>1. /\ DOMAIN locals' = DOMAIN locals \cup {last}
        /\ \A k \in DOMAIN locals : locals'[k] = locals[k]
        /\ locals'[last] = [sym |-> sym, depth |-> scope_depth]
        /\ NamesUnique'
    BY EnlistFits
  <2> HIDE DEF last
  <2>2. QED
    BY <2>1
<1> HIDE DEF last
<1>3. /\ \A j, k \in DOMAIN locals :
           locals[j].depth = locals[k].depth /\ locals[j].sym.name = locals[k].sym.name => j = k
      /\ \A j, k \in DOMAIN locals' :
           locals'[j].depth = locals'[k].depth /\ locals'[j].sym.name = locals'[k].sym.name => j = k
  BY <1>2 DEF TableInvariant, NamesUnique
<1>4. ASSUME NEW depth, depth # scope_depth
      PROVE  NamesAt(locals', depth) = NamesAt(locals, depth)
  <2>1. \A k \in DOMAIN locals' :
          locals'[k].depth = depth => k \in DOMAIN locals /\ locals[k] = locals'[k]
    BY <1>2, <1>4
  <2>2. \A k \in DOMAIN locals :
          locals[k].depth = depth => k \in DOMAIN locals' /\ locals[k] = locals'[k]
    BY <1>2
  <2>3. QED
    BY <1>3, <2>1, <2>2, NamesKept
<1>5. /\ before = [name \in DOMAIN before |-> before[name]]
      /\ \A name : name \in DOMAIN before <=>
           \E k \in DOMAIN locals : locals[k].depth = scope_depth /\ locals[k].sym.name = name
      /\ \A k \in DOMAIN locals :
           locals[k].depth = scope_depth => before[locals[k].sym.name] = locals[k].sym.number
  BY <1>3, NamesAtExact
<1>6. /\ after = [name \in DOMAIN after |-> after[name]]
      /\ \A name : name \in DOMAIN after <=>
           \E k \in DOMAIN locals' : locals'[k].depth = scope_depth /\ locals'[k].sym.name = name
      /\ \A k \in DOMAIN locals' :
           locals'[k].depth = scope_depth => after[locals'[k].sym.name] = locals'[k].sym.number
  BY <1>3, NamesAtExact
<1>7. sym.name \notin DOMAIN before
  BY <1>5, DeclaredHereExact
<1> HIDE DEF before, after
<1>8. after = declared
  <2>1. DOMAIN after = DOMAIN before \cup {sym.name}
    <3>1. ASSUME NEW name \in DOMAIN after
          PROVE  name \in DOMAIN before \cup {sym.name}
      BY <1>2, <1>5, <1>6
    <3>2. ASSUME NEW name \in DOMAIN before
          PROVE  name \in DOMAIN after
      <4>1. PICK k \in DOMAIN locals : locals[k].depth = scope_depth /\ locals[k].sym.name = name
        BY <1>5
      <4>2. k \in DOMAIN locals' /\ locals'[k] = locals[k]
        BY <1>2
      <4>3. QED
        BY <1>6, <4>1, <4>2
    <3>3. sym.name \in DOMAIN after
      BY <1>2, <1>6
    <3>4. QED
      BY <3>1, <3>2, <3>3
  <2>2. after[sym.name] = sym.number
    BY <1>2, <1>6
  <2>3. ASSUME NEW name \in DOMAIN before
        PROVE  after[name] = before[name]
    <3>1. PICK k \in DOMAIN locals : locals[k].depth = scope_depth /\ locals[k].sym.name = name
      BY <1>5
    <3>2. k \in DOMAIN locals' /\ locals'[k] = locals[k]
      BY <1>2
    <3>3. QED
      BY <1>5, <1>6, <3>1, <3>2
  <2>4. QED
    BY <1>6, <1>7, <2>1, <2>2, <2>3
<1>9. /\ Len(Mapped) = scope_depth /\ DOMAIN Mapped = 1 .. scope_depth
      /\ Mapped[scope_depth] = before /\ Mapped # <<>>
  BY <1>1, MappedIsSequence DEF before
<1>10. Mapped' = [Mapped EXCEPT ![Len(Mapped)] = declared]
  <2>1. Mapped' = [depth \in 1 .. scope_depth |-> NamesAt(locals', depth)]
    BY DEF Mapped
  <2>2. ASSUME NEW depth \in 1 .. scope_depth
        PROVE  NamesAt(locals', depth) = IF depth = scope_depth THEN declared ELSE NamesAt(locals, depth)
    BY <1>4, <1>8 DEF after
  <2> HIDE DEF declared
  <2>3. QED
    BY <1>9, <2>1, <2>2 DEF Mapped
<1>11. Mapped' # Mapped
  <2>1. sym.name \in DOMAIN declared
    OBVIOUS
  <2> HIDE DEF declared
  <2>2. Mapped'[scope_depth] = declared
    BY <1>1, <1>9, <1>10
  <2>3. QED
    BY <1>7, <1>9, <2>1, <2>2
<1>12. Stack!Declare(sym.name, sym.number)
  BY <1>7, <1>9, <1>10 DEF Stack!Declare, Mapped
<1>13. QED
  BY <1>11, <1>12

(* A scope entered is a scope without names, innermost. *)
LEMMA EnterPushes ==
  ASSUME TableInvariant, EnterScope
  PROVE  Stack!Enter
<1>1. scope_depth \in Nat /\ scope_depth' = scope_depth + 1 /\ locals' = locals
  BY DEF TableInvariant, ScopeTypeOK, EnterScope
<1>2. NamesAt(locals, scope_depth + 1) = Stack!NoNames
  <2>1. \A k \in DOMAIN locals : locals[k].depth # scope_depth + 1
    BY <1>1 DEF TableInvariant, Nested
  <2>2. DOMAIN NamesAt(locals, scope_depth + 1) = {}
    BY <2>1 DEF NamesAt
  <2>3. QED
    BY <2>2 DEF NamesAt, Stack!NoNames
<1>3. Mapped' = [depth \in 1 .. scope_depth + 1 |-> NamesAt(locals, depth)]
  BY <1>1 DEF Mapped
<1>4. Mapped' = Append(Mapped, Stack!NoNames)
  <2>1. \A depth \in 1 .. scope_depth + 1 :
          NamesAt(locals, depth) = IF depth <= scope_depth THEN Mapped[depth] ELSE Stack!NoNames
    BY <1>1, <1>2, MappedIsSequence
  <2>2. /\ Mapped \in Seq({NamesAt(locals, depth) : depth \in 1 .. scope_depth})
        /\ Len(Mapped) = scope_depth
    BY <1>1, MappedIsSequence
  <2> DEFINE S == {NamesAt(locals, depth) : depth \in 1 .. scope_depth} \cup {Stack!NoNames}
  <2>3. Mapped \in Seq(S) /\ Stack!NoNames \in S
    BY <2>2
  <2> HIDE DEF S
  <2>4. /\ Append(Mapped, Stack!NoNames) \in Seq(S)
        /\ Len(Append(Mapped, Stack!NoNames)) = scope_depth + 1
        /\ \A depth \in 1 .. scope_depth + 1 :
             Append(Mapped, Stack!NoNames)[depth] = IF depth <= scope_depth THEN Mapped[depth] ELSE Stack!NoNames
    BY <1>1, <2>2, <2>3
  <2>5. Append(Mapped, Stack!NoNames) =
          [depth \in 1 .. scope_depth + 1 |-> Append(Mapped, Stack!NoNames)[depth]]
    <3>1. \A s \in Seq(S) : s = [i \in 1 .. Len(s) |-> s[i]]
      OBVIOUS
    <3>2. QED
      BY <2>4, <3>1
  <2>6. QED
    BY <1>3, <2>1, <2>4, <2>5
<1>5. QED
  BY <1>4 DEF Stack!Enter, Mapped

(* Leaving drops the innermost scope and nothing else. *)
LEMMA LeavePops ==
  ASSUME TableInvariant, scope_depth > 1, LeaveScope
  PROVE  Stack!Leave
<1>1. scope_depth \in Nat /\ scope_depth' = scope_depth - 1
  BY DEF TableInvariant, ScopeTypeOK, LeaveScope
<1>2. PICK n \in 0 .. Len(locals) :
        /\ Len(locals') = n /\ DOMAIN locals' = 1 .. n
        /\ \A k \in 1 .. n : locals'[k] = locals[k]
        /\ \A k \in DOMAIN locals : k <= n <=> locals[k].depth < scope_depth
  BY LeaveScopeFits
<1>3. TableInvariant'
  BY LeaveScopeFits
<1>4. DOMAIN locals = 1 .. Len(locals) /\ Len(locals) \in Nat
  BY EntriesTyped DEF TableInvariant
<1>5. ASSUME NEW depth \in 1 .. scope_depth - 1
      PROVE  NamesAt(locals', depth) = NamesAt(locals, depth)
  <2>1. \A k \in DOMAIN locals' :
          locals'[k].depth = depth => k \in DOMAIN locals /\ locals[k] = locals'[k]
    BY <1>2, <1>4
  <2>2. \A k \in DOMAIN locals :
          locals[k].depth = depth => k \in DOMAIN locals' /\ locals[k] = locals'[k]
    BY <1>1, <1>2, <1>4
  <2>3. /\ \A j, k \in DOMAIN locals :
             locals[j].depth = locals[k].depth /\ locals[j].sym.name = locals[k].sym.name => j = k
        /\ \A j, k \in DOMAIN locals' :
             locals'[j].depth = locals'[k].depth /\ locals'[j].sym.name = locals'[k].sym.name => j = k
    BY <1>3 DEF TableInvariant, NamesUnique
  <2>4. QED
    BY <2>1, <2>2, <2>3, NamesKept
<1>6. Mapped' = [depth \in 1 .. scope_depth - 1 |-> Mapped[depth]]
  <2>1. Mapped' = [depth \in 1 .. scope_depth - 1 |-> NamesAt(locals', depth)]
    BY <1>1 DEF Mapped
  <2>2. \A depth \in 1 .. scope_depth - 1 : Mapped[depth] = NamesAt(locals, depth)
    BY <1>1, MappedIsSequence
  <2>3. QED
    BY <1>5, <2>1, <2>2
<1>7. Mapped' = SubSeq(Mapped, 1, Len(Mapped) - 1) /\ Mapped # <<>>
  BY <1>1, <1>6, MappedIsSequence
<1>8. QED
  BY <1>7 DEF Stack!Leave, Mapped

(* A function begins with the scope its parameters share with its body. *)
LEMMA StartBegins ==
  ASSUME StartFunction(<<>>, 0)
  PROVE  Stack!BeginFunction
<1>1. locals' = <<>> /\ scope_depth' = 1
  BY DEF StartFunction
<1>2. DOMAIN NamesAt(<<>>, 1) = {}
  BY DEF NamesAt
<1>3. NamesAt(<<>>, 1) = Stack!NoNames
  BY <1>2 DEF NamesAt, Stack!NoNames
<1>4. Mapped' = [depth \in 1 .. 1 |-> NamesAt(<<>>, depth)]
  BY <1>1 DEF Mapped
<1>5. Mapped' = <<Stack!NoNames>>
  BY <1>3, <1>4
<1>6. QED
  BY <1>5 DEF Stack!BeginFunction, Mapped

(* The table is a stack of scopes, for every function: every operation of  *)
(* sema_scope.c is one on the stack or leaves it alone, so that a name     *)
(* declared twice, hidden or left behind is so as C has it.                *)
THEOREM TableIsAStack == ScopeSpec => StackOfScopes
<1>1. ScopeInit => Stack!Init
  <2>1. SUFFICES ASSUME ScopeInit PROVE Mapped = <<>>
    BY DEF Stack!Init, Mapped
  <2>2. QED
    BY <2>1 DEF ScopeInit, Mapped
<1>2. TableInvariant /\ [ScopeNext]_scopeVars => [Stack!Next]_Mapped
  <2> SUFFICES ASSUME TableInvariant, [ScopeNext]_scopeVars PROVE Stack!Next \/ Mapped' = Mapped
    OBVIOUS
  <2>1. CASE StartFunction(<<>>, 0)
    BY <2>1, StartBegins DEF Stack!Next
  <2>2. ASSUME NEW sym \in Declarations, scope_depth > 0, New(sym), AddLocal(sym)
        PROVE  Stack!Next
    <3>1. Mapped' # Mapped /\ Stack!Declare(sym.name, sym.number)
      BY <2>2, EnlistDeclares DEF AddLocal, New
    <3>2. QED
      BY <3>1 DEF Stack!Next, Mapped
  <2>3. ASSUME NEW sym \in Declarations, ReserveLiteral(sym)
        PROVE  Mapped' = Mapped
    BY <2>3 DEF ReserveLiteral, Mapped
  <2>4. ASSUME NEW sym \in Declarations, scope_depth > 0, New(sym),
               NEW index \in Nat, AddParameter(sym, index)
        PROVE  Stack!Next \/ Mapped' = Mapped
    <3>1. scope_depth' = scope_depth
      BY <2>4 DEF AddParameter
    <3>2. CASE DeclaredHere(sym.name)
      BY <2>4, <3>1, <3>2 DEF AddParameter, Mapped
    <3>3. CASE ~ DeclaredHere(sym.name)
      <4>1. Enlist(sym)
        BY <2>4, <3>3 DEF AddParameter
      <4>2. Mapped' # Mapped /\ Stack!Declare(sym.name, sym.number)
        BY <2>4, <3>1, <3>3, <4>1, EnlistDeclares
      <4>3. QED
        BY <4>2 DEF Stack!Next, Mapped
    <3>4. QED
      BY <3>2, <3>3
  <2>5. CASE EnterScope
    BY <2>5, EnterPushes DEF Stack!Next
  <2>6. CASE scope_depth > 1 /\ LeaveScope
    BY <2>6, LeavePops DEF Stack!Next
  <2>7. CASE UNCHANGED scopeVars
    BY <2>7 DEF scopeVars, Mapped
  <2>8. QED
    BY <2>1, <2>2, <2>3, <2>4, <2>5, <2>6, <2>7 DEF ScopeNext
<1>3. QED
  BY <1>1, <1>2, TableInvariance, PTL DEF ScopeSpec, StackOfScopes, Stack!Spec, Mapped

-----------------------------------------------------------------------------
(* Looking a name up *)

(* In a table whose scopes are as the invariant has them, the newest entry *)
(* of a name is in the innermost scope that declares it.                   *)
LEMMA FindsMeaning ==
  ASSUME TableInvariant, NEW name, NEW id
  PROVE  Stack!Means(name, id) <=> FindLocal(name) # 0 /\ locals[FindLocal(name)].sym.number = id
<1> DEFINE found == FindLocal(name)
           declaring == locals[found].depth
<1>1. /\ scope_depth \in Nat /\ DOMAIN locals = 1 .. Len(locals)
      /\ DOMAIN Mapped = 1 .. scope_depth /\ Len(Mapped) = scope_depth
      /\ \A depth \in 1 .. scope_depth : Mapped[depth] = NamesAt(locals, depth)
      /\ \A k \in DOMAIN locals : locals[k].depth \in 1 .. scope_depth
  BY EntriesTyped, MappedIsSequence DEF TableInvariant, ScopeTypeOK, Nested
<1>2. /\ \A depth \in 1 .. scope_depth :
           name \in DOMAIN Mapped[depth] <=>
             \E k \in DOMAIN locals : locals[k].depth = depth /\ locals[k].sym.name = name
      /\ \A k \in DOMAIN locals :
           Mapped[locals[k].depth][locals[k].sym.name] = locals[k].sym.number
  BY <1>1, NamesAtExact DEF TableInvariant, NamesUnique
<1>3. Stack!Means(name, id) <=>
        \E k \in 1 .. scope_depth :
          /\ name \in DOMAIN Mapped[k] /\ Mapped[k][name] = id
          /\ \A j \in k + 1 .. scope_depth : name \notin DOMAIN Mapped[j]
  BY <1>1 DEF Stack!Means, Mapped
<1>4. CASE ~ \E k \in DOMAIN locals : locals[k].sym.name = name
  <2>1. FindLocal(name) = 0
    BY <1>4, FindsInnermost
  <2>2. QED
    BY <1>2, <1>3, <1>4, <2>1
<1>5. CASE \E k \in DOMAIN locals : locals[k].sym.name = name
  <2>1. /\ found \in DOMAIN locals /\ locals[found].sym.name = name
        /\ \A j \in DOMAIN locals : locals[j].sym.name = name => locals[j].depth <= declaring
    BY <1>5, FindsInnermost
  <2>2. found # 0 /\ declaring \in 1 .. scope_depth
    BY <1>1, <2>1
  <2> HIDE DEF found
  <2>3. /\ name \in DOMAIN Mapped[declaring]
        /\ Mapped[declaring][name] = locals[found].sym.number
    BY <1>2, <2>1, <2>2
  <2>4. ASSUME NEW j \in declaring + 1 .. scope_depth
        PROVE  name \notin DOMAIN Mapped[j]
    BY <1>1, <1>2, <2>1, <2>2
  <2>5. ASSUME NEW k \in 1 .. scope_depth, name \in DOMAIN Mapped[k],
               \A j \in k + 1 .. scope_depth : name \notin DOMAIN Mapped[j]
        PROVE  k = declaring
    BY <1>1, <2>2, <2>3, <2>4, <2>5
  <2>6. QED
    BY <1>3, <2>2, <2>3, <2>4, <2>5 DEF found
<1>6. QED
  BY <1>4, <1>5

(* A lookup finds what C means by the name, whatever blocks were entered   *)
(* and left and whatever they declared and hid before it.                  *)
THEOREM LookupFindsInnermost == ScopeSpec => []LookupExact
<1>1. TableInvariant => LookupExact
  BY FindsMeaning DEF LookupExact
<1>2. QED
  BY <1>1, TableInvariance, PTL
=============================================================================
