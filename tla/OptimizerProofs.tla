-------------------------- MODULE OptimizerProofs --------------------------
(***************************************************************************)
(* Proofs about the middle end, in two parts.                              *)
(*                                                                         *)
(* First, shape and analyses.  Each pass has a lemma that says what it     *)
(* does to the shape and the edges of the function it edits; each action   *)
(* has one that says it keeps OptInv.                                      *)
(*                                                                         *)
(* Then, single assignment: every value has at most one definition, and    *)
(* what instructions read are values.  A function is numbered block by     *)
(* block: within a list no value is defined twice (Fine), and what         *)
(* different blocks define is disjoint.  The edits move, drop and insert   *)
(* instructions, so IrProofs has a lemma for each way a list is made of    *)
(* others; here is one for each rewrite, NumInv, and one lemma for each    *)
(* step: a pass needs to know of the function it edits that it is          *)
(* numbered, and renaming needs to know that what it has noted of the      *)
(* slots are values.                                                       *)
(***************************************************************************)
EXTENDS Optimizer, IrProofs

-----------------------------------------------------------------------------
(* opt_fold, opt_copies, opt_dce, opt_cse, opt_licm *)

(* fold_one rewrites in one of three ways what computes a value.          *)
LEMMA FoldRewrites ==
  ASSUME NEW f, NEW s, NEW g \in FoldAt(f, s)
  PROVE  /\ InstrAt(f, s).dst # NoValue
         /\ \/ \E n : g = [f EXCEPT !.code[s[1]][s[2]] = BecomeConst(InstrAt(f, s), n)]
            \/ \E v \in SameAsOperand(f, InstrAt(f, s)) : g = ReplaceUses(f, InstrAt(f, s).dst, v)
            \/ \E c \in Cheaper(f, InstrAt(f, s)) : g = ReduceStrength(f, s, c[1], c[2])
<1> DEFINE i == InstrAt(f, s)
           R(n) == [f EXCEPT !.code[s[1]][s[2]] = BecomeConst(i, n)]
           A == {R(n) : n \in FoldedValue(f, i)}
           B == {ReplaceUses(f, i.dst, v) : v \in SameAsOperand(f, i)}
           C == {R(n) : n \in AlwaysConst(f, i)}
           D == {ReduceStrength(f, s, c[1], c[2]) : c \in Cheaper(f, i)}
           F1 == FoldedValue(f, i)
           F2 == SameAsOperand(f, i)
           F3 == AlwaysConst(f, i)
           v1 == i.dst
<1>1. v1 = NoValue => FoldAt(f, s) = {}
  BY DEF FoldAt
<1>2. v1 # NoValue /\ F1 # {} => FoldAt(f, s) = A
  BY DEF FoldAt
<1>3. v1 # NoValue /\ F1 = {} /\ F2 # {} => FoldAt(f, s) = B
  BY DEF FoldAt
<1>4. v1 # NoValue /\ F1 = {} /\ F2 = {} /\ F3 # {} => FoldAt(f, s) = C
  BY DEF FoldAt
<1>5. v1 # NoValue /\ F1 = {} /\ F2 = {} /\ F3 = {} => FoldAt(f, s) = D
  BY DEF FoldAt
<1>6. v1 # NoValue /\ g \in A \cup B \cup C \cup D
  <2>. HIDE DEF A, B, C, D, F1, F2, F3, v1
  <2> QED
    BY <1>1, <1>2, <1>3, <1>4, <1>5
<1>7. \/ \E n : g = R(n)
      \/ \E v \in SameAsOperand(f, i) : g = ReplaceUses(f, i.dst, v)
      \/ \E c \in Cheaper(f, i) : g = ReduceStrength(f, s, c[1], c[2])
  <2>. HIDE DEF i, R
  <2> QED
    BY <1>6
<1> QED
  BY <1>6, <1>7

(* opt_fold: none of the rewrites of fold_one changes where control       *)
(* goes; only the operands and the kind of an instruction that computes   *)
(* change.                                                                *)
LEMMA FoldKeepsFlow ==
  ASSUME NEW f, IsFunction(f), NEW s \in Sites(f), NEW g \in FoldAt(f, s)
  PROVE  SameFlow(g, f)
<1> DEFINE i == InstrAt(f, s)
           b == s[1]
           k == s[2]
           R(n) == [f EXCEPT !.code[s[1]][s[2]] = BecomeConst(i, n)]
<1>1. /\ s = <<b, k>> /\ b \in BlocksOf(f) /\ k \in DOMAIN f.code[b] /\ IsBlock(f.code[b])
      /\ i = f.code[b][k] /\ IsInstr(i)
  BY SiteFacts
<1>2. \/ i.dst # NoValue /\ \E n : g = R(n)
      \/ \E v : g = ReplaceUses(f, i.dst, v)
      \/ i.dst # NoValue /\ \E c \in Cheaper(f, i) : g = ReduceStrength(f, s, c[1], c[2])
  BY FoldRewrites
<1>. HIDE DEF i, b, k
<1>3. ASSUME NEW n, i.dst # NoValue, g = R(n) PROVE SameFlow(g, f)
  <2> DEFINE x == BecomeConst(i, n)
  <2>1. ~ IsTerminator(i.op) /\ i.to = <<>>
    BY <1>1, <1>3, DefinesSo
  <2>2. DOMAIN x = InstrFields /\ x.op = "const" /\ x.to = i.to
    BY <1>1 DEF BecomeConst, IsInstr, InstrFields
  <2>3. /\ DOMAIN g = {"code", "values"}
        /\ g.code = [f.code EXCEPT ![b] = [f.code[b] EXCEPT ![k] = x]]
    BY <1>3, FunctionFacts DEF b, k
  <2>. HIDE DEF x
  <2>4. IsInstr(x) /\ ~ IsTerminator(x.op)
    BY <2>1, <2>2 DEF IsInstr, IsTerminator
  <2> QED
    BY <1>1, <2>2, <2>3, <2>4, InstrReplaced
<1>4. ASSUME NEW v, g = ReplaceUses(f, i.dst, v) PROVE SameFlow(g, f)
  BY <1>4, UsesReplaced
<1>5. ASSUME i.dst # NoValue, NEW c \in Cheaper(f, i), g = ReduceStrength(f, s, c[1], c[2])
      PROVE  SameFlow(g, f)
  <2> DEFINE v == FreshValue(f)
             x == [i EXCEPT !.op = c[1], !.args[2] = v]
             e == [f EXCEPT !.values = v]
             h == [e EXCEPT !.code[b][k] = x]
             y == Const(v, c[2], TypeOf(f, i.args[2]))
  <2>1. ~ IsTerminator(i.op) /\ i.to = <<>>
    BY <1>1, <1>5, DefinesSo
  <2>2. c[1] \in {"shl", "shr", "and"}
    BY <1>5 DEF Cheaper
  <2>3. DOMAIN x = InstrFields /\ x.op = c[1] /\ x.to = i.to
    BY <1>1 DEF IsInstr, InstrFields
  <2>4. g = EmitBefore(h, <<b, k>>, y)
    BY <1>1, <1>5 DEF ReduceStrength, i, b, k
  <2>5. IsInstr(y) /\ ~ IsTerminator(y.op)
    BY ConstIsInstr
  <2>6. SameFlow(e, f) /\ e.code = f.code
    BY ValuesSet
  <2>7. IsInstr(x) /\ ~ IsTerminator(x.op) /\ x.to = e.code[b][k].to
    <3>. HIDE DEF x
    <3> QED
      BY <1>1, <2>1, <2>2, <2>3, <2>6 DEF IsInstr, IsTerminator
  <2>8. IsFunction(e) /\ b \in BlocksOf(e) /\ k \in DOMAIN e.code[b]
    BY <1>1, <2>6 DEF SameFlow, BlocksOf
  <2>. HIDE DEF e, x, y, v
  <2>12. /\ DOMAIN h = {"code", "values"}
         /\ h.code = [e.code EXCEPT ![b] = [e.code[b] EXCEPT ![k] = x]]
    BY <2>8, FunctionFacts
  <2>. HIDE DEF h
  <2>9. /\ SameFlow(h, e) /\ DOMAIN h.code = DOMAIN e.code
        /\ DOMAIN h.code[b] = DOMAIN e.code[b]
    BY <2>7, <2>8, <2>12, InstrReplaced
  <2>10. IsFunction(h) /\ b \in BlocksOf(h) /\ k \in DOMAIN h.code[b]
    BY <2>8, <2>9 DEF SameFlow, BlocksOf
  <2>11. SameFlow(g, h)
    BY <2>4, <2>5, <2>10, InstrPut
  <2> QED
    BY <2>6, <2>9, <2>11, SameFlowTwice
<1> QED
  BY <1>2, <1>3, <1>4, <1>5

(* opt_copies: a copy, or a phi of one value, goes and what it passes     *)
(* on is read instead.                                                    *)
LEMMA PropagateKeepsFlow ==
  ASSUME NEW f, IsFunction(f), NEW a, NEW s \in CopySites(f, a)
  PROVE  SameFlow(PropagateAt(f, s), f)
<1>1. s \in Sites(f) /\ CopyOf(InstrAt(f, s)) # {}
  BY DEF CopySites
<1>2. ~ IsTerminator(InstrAt(f, s).op)
  BY <1>1 DEF CopyOf, IsTerminator
<1> QED
  BY <1>1, <1>2, ReplacedAndRemoved DEF PropagateAt

(* opt_cse: what goes is pure, so it does not end its block. *)
LEMMA ShareKeepsFlow ==
  ASSUME NEW f, IsFunction(f), NEW a, NEW s \in Sites(f), Matches(f, a, s) # {}
  PROVE  SameFlow(ShareAt(f, a, s), f)
<1>1. ~ IsTerminator(InstrAt(f, s).op)
  BY DEF Matches, IsPure, HasSideEffects
<1> QED
  BY <1>1, ReplacedAndRemoved DEF ShareAt

(* opt_dce: what ends a block has a side effect and is never dead. *)
LEMMA SweepKeepsFlow ==
  ASSUME NEW f, IsFunction(f), NEW a
  PROVE  SameFlow(Sweep(f, a), f)
<1> DEFINE dead == DeadSites(f, a)
           g == Sweep(f, a)
           K(b) == {k \in DOMAIN f.code[b] : <<b, k>> \notin dead}
<1>1. /\ DOMAIN g = {"code", "values"}
      /\ g.code = [b \in DOMAIN f.code |-> KeptAt(f.code[b], K(b))]
  BY FunctionFacts DEF Sweep
<1>2. ASSUME NEW b \in DOMAIN f.code
      PROVE  IsBlock(g.code[b]) /\ Goes(g.code[b]) = Goes(f.code[b])
  <2> DEFINE c == f.code[b]
  <2>1. IsBlock(c) /\ \A k \in DOMAIN c : IsInstr(c[k])
    BY FunctionFacts, BlockFacts DEF BlocksOf
  <2>2. \A k \in DOMAIN c : k \notin K(b) => ~ IsTerminator(c[k].op)
    BY DEF DeadSites, HasSideEffects, InstrAt
  <2>3. g.code[b] = KeptAt(c, K(b))
    BY <1>1
  <2>. HIDE DEF c, K, g
  <2>4. IsBlock(KeptAt(c, K(b))) /\ Goes(KeptAt(c, K(b))) = Goes(c)
    BY <2>1, <2>2, Thinned
  <2> QED
    BY <2>3, <2>4 DEF c
<1>. HIDE DEF K
<1>3. g.code = [b \in DOMAIN f.code |-> g.code[b]]
  BY <1>1
<1>. HIDE DEF g
<1>4. SameFlow(g, f)
  BY <1>1, <1>2, <1>3, EveryBlock
<1> QED
  BY <1>4 DEF g

(* opt_licm: an instruction that does not end its block moves to just     *)
(* before the one that ends another.                                      *)
LEMMA HoistKeepsFlow ==
  ASSUME NEW f, IsFunction(f), NEW a, NEW h, HasTarget(f, a, h), NEW s \in InvariantSites(f, a, h)
  PROVE  SameFlow(HoistAt(f, a, h, s), f)
<1> DEFINE t == Idom(a, h)
           b == s[1]
           k == s[2]
           i == InstrAt(f, s)
           g == RemoveSite(f, s)
           n == Len(f.code[t])
<1>1. s \in Sites(f) /\ b # t /\ ~ IsTerminator(i.op) /\ f.code[t] # <<>>
  BY DEF InvariantSites, HasTarget, IsSafeToSpeculate, IsPure, HasSideEffects
<1>2. /\ s = <<b, k>> /\ b \in BlocksOf(f) /\ k \in DOMAIN f.code[b]
      /\ i = f.code[b][k] /\ IsInstr(i)
  BY <1>1, SiteFacts
<1>3. HoistAt(f, a, h, s) = EmitBefore(g, <<t, n>>, i)
  BY DEF HoistAt
<1>. HIDE DEF t, b, k, i
<1>4. /\ SameFlow(RemoveSite(f, <<b, k>>), f)
      /\ \A x \in DOMAIN f.code : x # b => RemoveSite(f, <<b, k>>).code[x] = f.code[x]
  BY <1>1, <1>2, SiteRemoved
<1>5. SameFlow(g, f) /\ \A x \in DOMAIN f.code : x # b => g.code[x] = f.code[x]
  BY <1>2, <1>4
<1>6. DOMAIN g.code = DOMAIN f.code
  BY FunctionFacts, <1>2 DEF RemoveSite
<1>7. t \in DOMAIN f.code => n \in DOMAIN f.code[t]
  BY <1>1, FunctionFacts, BlockFacts DEF BlocksOf
<1>. HIDE DEF g, n
<1>8. t \in BlocksOf(g) => n \in DOMAIN g.code[t]
  BY <1>1, <1>5, <1>6, <1>7 DEF BlocksOf
<1>9. SameFlow(EmitBefore(g, <<t, n>>, i), g)
  BY <1>1, <1>2, <1>5, <1>8, InstrPut DEF SameFlow
<1> QED
  BY <1>3, <1>5, <1>9, SameFlowTwice

-----------------------------------------------------------------------------
(* The edits of promotion *)

(* ir_analyze_cfg leaves the entry as it is, or empty. *)
LEMMA DropKeepsSlots ==
  ASSUME NEW f, IsFunction(f), SlotsNamed(f)
  PROVE  SlotsNamed(DropUnreachable(f))
<1> DEFINE c == DropUnreachable(f).code[EntryBlock]
<1>1. c = f.code[EntryBlock] \/ c = <<>>
  BY EntryIsBlock, DroppedUnreachable
<1>2. c = <<>> => DOMAIN c = {}
  BY EmptyList, SeqFacts
<1>. HIDE DEF c
<1>3. \A k \in DOMAIN c : c[k].op = "alloca" => c[k].dst # NoValue
  BY <1>1, <1>2 DEF SlotsNamed
<1> QED
  BY <1>3 DEF SlotsNamed, c

(* What promotion collects are the values of allocas, none of them        *)
(* NoValue.                                                               *)
LEMMA SlotsTaken ==
  ASSUME NEW f, IsFunction(f), SlotsNamed(f), NEW t,
         t = KeptAt(f.code[EntryBlock],
                    {k \in DOMAIN f.code[EntryBlock] : IsPromotable(f, f.code[EntryBlock][k])})
  PROVE  IsSeq([j \in DOMAIN t |-> t[j].dst]) /\ NoValue \notin Range([j \in DOMAIN t |-> t[j].dst])
<1> DEFINE c == f.code[EntryBlock]
           K == {k \in DOMAIN c : IsPromotable(f, c[k])}
           d == [j \in DOMAIN t |-> t[j].dst]
<1>1. IsSeq(c)
  BY EntryIsBlock, BlockFacts
<1>2. t = KeptAt(c, K)
  OBVIOUS
<1>3. \A k \in DOMAIN c : k \in K => c[k].dst # NoValue
  BY DEF SlotsNamed, IsPromotable
<1>. HIDE DEF c, K
<1>4. IsSeq(t) /\ \A j \in DOMAIN t : \E k \in DOMAIN c : k \in K /\ t[j] = c[k]
  <2>1. /\ IsSeq(KeptAt(c, K))
        /\ \A j \in DOMAIN KeptAt(c, K) : \E k \in DOMAIN c : k \in K /\ KeptAt(c, K)[j] = c[k]
    BY <1>1, KeptFrom
  <2> QED
    BY <1>2, <2>1
<1>5. \A j \in DOMAIN t : t[j].dst # NoValue
  BY <1>3, <1>4
<1>6. Len(t) \in Nat /\ DOMAIN t = 1 .. Len(t)
  BY <1>4, SeqFacts
<1>7. d = [j \in 1 .. Len(t) |-> d[j]] /\ DOMAIN d = DOMAIN t /\ \A j \in DOMAIN d : d[j] # NoValue
  BY <1>5, <1>6
<1>. HIDE DEF d
<1>8. IsSeq(d)
  BY <1>6, <1>7, ListIs
<1>9. NoValue \notin Range(d)
  BY <1>7 DEF Range
<1> QED
  BY <1>8, <1>9 DEF d

(* place_phis: a phi at the top of some blocks. *)
LEMMA PhisKeepFlow ==
  ASSUME NEW f, IsFunction(f), NEW g, DOMAIN g = {"code", "values"},
         g.code = [b \in DOMAIN f.code |-> g.code[b]],
         \A b \in DOMAIN f.code : \/ g.code[b] = f.code[b]
                                  \/ \E v, ty : g.code[b] = <<TypedPhi(v, ty)>> \o f.code[b]
  PROVE  SameFlow(g, f)
<1>1. ASSUME NEW b \in DOMAIN f.code
      PROVE  IsBlock(g.code[b]) /\ Goes(g.code[b]) = Goes(f.code[b])
  <2> DEFINE c == f.code[b]
  <2>1. IsBlock(c)
    BY FunctionFacts DEF BlocksOf
  <2>2. CASE g.code[b] = c
    BY <2>1, <2>2
  <2>3. CASE \E v, ty : g.code[b] = <<TypedPhi(v, ty)>> \o c
    <3>1. PICK v, ty : g.code[b] = <<TypedPhi(v, ty)>> \o c
      BY <2>3
    <3> DEFINE q == <<TypedPhi(v, ty)>>
    <3>2. Open(q)
      BY TypedPhiIsInstr, OpenOne
    <3>3. g.code[b] = q \o c
      BY <3>1
    <3>. HIDE DEF q, c
    <3>4. IsBlock(q \o c) /\ Goes(q \o c) = Goes(c)
      BY <2>1, <3>2, Prefixed
    <3> QED
      BY <3>3, <3>4 DEF c
  <2> QED
    BY <2>2, <2>3
<1> QED
  BY <1>1, EveryBlock

(* current_def: the zeros go to the top of the entry. *)
LEMMA ZerosKeepFlow ==
  ASSUME NEW f, IsFunction(f), NEW J, IsSeq(slots)
  PROVE  SameFlow(WithZeros(f, J), f)
<1> DEFINE z == Ascending(Missing(J), Len(slots))
           p == [n \in DOMAIN z |-> Const(f.values + n, 0, SlotType(f, z[n]))]
           g == WithZeros(f, J)
<1>1. IsSeq(z)
  BY SeqFacts, AscendingIsSeq
<1>2. /\ DOMAIN g = {"code", "values"}
      /\ g.code = [f.code EXCEPT ![EntryBlock] = p \o f.code[EntryBlock]]
  BY FunctionFacts DEF WithZeros
<1>. HIDE DEF z, g
<1>3. Open(p)
  <2>1. p = [n \in DOMAIN z |-> p[n]] /\ \A n \in DOMAIN z : \E ty : p[n] = Const(f.values + n, 0, ty)
    OBVIOUS
  <2>. HIDE DEF p
  <2> QED
    BY <1>1, <2>1, ConstsAreOpen
<1>. HIDE DEF p
<1>4. SameFlow(g, f)
  BY <1>2, <1>3, EntryIsBlock, BlockPrefixed
<1> QED
  BY <1>4 DEF g

-----------------------------------------------------------------------------
(* opt_simplify_cfg *)

(* Phis name another block; no instruction goes elsewhere. *)
LEMMA EdgeRenamed ==
  ASSUME NEW f, IsFunction(f), NEW S, NEW c, NEW b
  PROVE  SameFlow(RenameEdge(f, S, c, b), f)
<1> DEFINE From(i) == [m \in DOMAIN i.from |-> IF i.from[m] = c THEN b ELSE i.from[m]]
           g == RenameEdge(f, S, c, b)
<1>1. /\ DOMAIN g = {"code", "values"}
      /\ g.code = [t \in DOMAIN f.code |-> g.code[t]]
      /\ \A t \in DOMAIN f.code : \A k \in DOMAIN f.code[t] :
           \/ g.code[t][k] = f.code[t][k]
           \/ g.code[t][k] = [f.code[t][k] EXCEPT !.from = From(f.code[t][k])]
  BY FunctionFacts DEF RenameEdge
<1>2. ASSUME NEW t \in DOMAIN f.code PROVE g.code[t] = [k \in DOMAIN f.code[t] |-> g.code[t][k]]
  <2>1. IsSeq(f.code[t])
    BY FunctionFacts, BlockFacts DEF BlocksOf
  <2>2. f.code[t] = [k \in DOMAIN f.code[t] |-> f.code[t][k]]
    BY <2>1 DEF IsSeq
  <2> QED
    BY <2>2, FunctionFacts DEF RenameEdge
<1>. HIDE DEF g, From
<1>3. ASSUME NEW t \in DOMAIN f.code, NEW k \in DOMAIN f.code[t]
      PROVE  Touched(g.code[t][k], f.code[t][k])
  <2>1. CASE g.code[t][k] = f.code[t][k]
    BY <2>1 DEF Touched, IsInstr
  <2>2. CASE g.code[t][k] = [f.code[t][k] EXCEPT !.from = From(f.code[t][k])]
    BY <2>2 DEF Touched, IsInstr, InstrFields
  <2> QED
    BY <1>1, <2>1, <2>2
<1>4. SameSlots(g, f) /\ AllTouched(g, f)
  BY <1>1, <1>2, <1>3 DEF SameSlots, AllTouched
<1>5. SameFlow(g, f)
  BY <1>4, Retouched
<1> QED
  BY <1>5 DEF g

(* straighten_branches: a branch becomes a jump to one of its arms. *)
LEMMA Straightened ==
  ASSUME NEW f, IsFunction(f), NEW a
  PROVE  IsFunction(Straighten(f, a))
<1> DEFINE S == StraightSites(f, a)
           T(b) == CHOOSE t \in OnlyArm(f, Last(f.code[b])) : TRUE
           g == Straighten(f, a)
<1>1. /\ DOMAIN g = {"code", "values"}
      /\ g.code = [b \in DOMAIN f.code |-> g.code[b]]
      /\ \A b \in DOMAIN f.code :
           g.code[b] = IF b \in S THEN Append(Front(f.code[b]), Jump(T(b))) ELSE f.code[b]
  BY FunctionFacts DEF Straighten
<1>2. /\ Len(f.code) \in Nat /\ Len(f.code) >= 1 /\ DOMAIN f.code = 1 .. Len(f.code)
      /\ \A b \in DOMAIN f.code : IsBlock(f.code[b]) /\ Goes(f.code[b]) \subseteq DOMAIN f.code
  BY FunctionFacts DEF BlocksOf
<1>3. ASSUME NEW b \in DOMAIN f.code, b \in S PROVE T(b) \in DOMAIN f.code
  <2> DEFINE i == Last(f.code[b])
  <2>1. f.code[b] # <<>> /\ OnlyArm(f, i) # {}
    BY <1>3 DEF StraightSites
  <2>2. T(b) \in OnlyArm(f, i)
    BY <2>1
  <2>3. i.op = "br" /\ OnlyArm(f, i) \subseteq {i.to[1], i.to[2]}
    BY <2>1 DEF OnlyArm
  <2>4. IsInstr(i) /\ Goes(f.code[b]) = Range(i.to)
    BY <1>2, <2>1, BlockFacts DEF Goes
  <2>. HIDE DEF i, T
  <2>5. DOMAIN i.to = 1 .. 2
    BY <2>3, <2>4 DEF IsInstr
  <2>6. i.to[1] \in Range(i.to) /\ i.to[2] \in Range(i.to)
    BY <2>5 DEF Range
  <2> QED
    BY <1>2, <2>2, <2>3, <2>4, <2>6
<1>. HIDE DEF g, S, T
<1>4. DOMAIN g.code = DOMAIN f.code /\ IsSeq(g.code) /\ Len(g.code) = Len(f.code)
  BY <1>1, <1>2, ListIs
<1>5. g.code # <<>>
  BY <1>2, <1>4, EmptyList
<1>6. ASSUME NEW b \in DOMAIN g.code PROVE IsBlock(g.code[b]) /\ Goes(g.code[b]) \subseteq DOMAIN g.code
  <2>0. b \in DOMAIN f.code
    BY <1>4
  <2>1. CASE b \in S
    <3>1. IsBlock(g.code[b]) /\ Goes(g.code[b]) = {T(b)}
      BY <1>1, <1>2, <2>0, <2>1, JumpsInstead
    <3> QED
      BY <1>3, <1>4, <2>0, <2>1, <3>1
  <2>2. CASE b \notin S
    BY <1>1, <1>2, <1>4, <2>0, <2>2
  <2> QED
    BY <2>1, <2>2
<1>7. IsFunction(g)
  BY <1>1, <1>4, <1>5, <1>6, FunctionOf
<1> QED
  BY <1>7 DEF g

(* merge_blocks: the end of the absorbed block becomes the end of the     *)
(* block that absorbs it.                                                 *)
LEMMA Absorbed ==
  ASSUME NEW f, IsFunction(f), NEW a, NEW b, NEW c \in MergeTargets(f, a, b)
  PROVE  /\ IsFunction([f EXCEPT !.code[b] = Front(@) \o f.code[c], !.code[c] = <<>>])
         /\ IsFunction(Absorb(f, b, c))
<1> DEFINE g == [f EXCEPT !.code[b] = Front(@) \o f.code[c], !.code[c] = <<>>]
<1>1. c \in Successors(f, b) /\ c # b
  BY DEF MergeTargets
<1>2. /\ Len(f.code) \in Nat /\ Len(f.code) >= 1 /\ DOMAIN f.code = 1 .. Len(f.code)
      /\ \A x \in DOMAIN f.code : /\ IsBlock(f.code[x]) /\ Successors(f, x) = Goes(f.code[x])
                                  /\ Goes(f.code[x]) \subseteq DOMAIN f.code
  BY FunctionFacts DEF BlocksOf
<1>3. /\ DOMAIN g = {"code", "values"}
      /\ g.code = [x \in DOMAIN f.code |-> g.code[x]]
      /\ \A x \in DOMAIN f.code : g.code[x] = IF x = c THEN <<>>
                                              ELSE IF x = b THEN Front(f.code[b]) \o f.code[c]
                                              ELSE f.code[x]
  BY FunctionFacts
<1>. HIDE DEF g
<1>4. DOMAIN g.code = DOMAIN f.code /\ IsSeq(g.code) /\ Len(g.code) = Len(f.code)
  BY <1>2, <1>3, ListIs
<1>5. g.code # <<>>
  BY <1>2, <1>4, EmptyList
<1>6. ASSUME NEW x \in DOMAIN g.code PROVE IsBlock(g.code[x]) /\ Goes(g.code[x]) \subseteq DOMAIN g.code
  <2>0. x \in DOMAIN f.code
    BY <1>4
  <2>1. CASE x = c
    <3>1. IsBlock(<<>>) /\ Goes(<<>>) = {}
      BY EmptyIsOpen, OpenFacts
    <3> QED
      BY <1>3, <2>0, <2>1, <3>1
  <2>2. CASE x # c /\ x = b
    <3>1. c \in DOMAIN f.code
      BY <1>1, <1>2, <2>0, <2>2
    <3>2. Open(Front(f.code[b])) /\ IsBlock(f.code[c])
      BY <1>2, <2>0, <2>2, <3>1, FrontIsOpen
    <3>3. /\ IsBlock(Front(f.code[b]) \o f.code[c])
          /\ Goes(Front(f.code[b]) \o f.code[c]) = Goes(f.code[c])
      BY <3>2, Prefixed
    <3> QED
      BY <1>2, <1>3, <1>4, <2>0, <2>2, <3>1, <3>3
  <2>3. CASE x # c /\ x # b
    BY <1>2, <1>3, <1>4, <2>0, <2>3
  <2> QED
    BY <2>1, <2>2, <2>3
<1>7. IsFunction(g)
  BY <1>3, <1>4, <1>5, <1>6, FunctionOf
<1>8. Absorb(f, b, c) = RenameEdge(g, Successors(g, b), c, b)
  BY DEF Absorb, g
<1>9. IsFunction(Absorb(f, b, c))
  BY <1>7, <1>8, EdgeRenamed DEF SameFlow
<1> QED
  BY <1>7, <1>9 DEF g

(* What FixPhis makes of what ir_analyze_cfg leaves. *)
LEMMA Rederived ==
  ASSUME NEW f, IsFunction(f), NEW a
  PROVE  IsFunction(FixPhis(DropUnreachable(f), a))
BY DroppedUnreachable, PhisFixed DEF SameFlow

-----------------------------------------------------------------------------
(* opt_tail_calls *)

(* The parameters do not end the entry. *)
LEMMA ParamsOpen == ASSUME NEW f, IsFunction(f) PROVE Open(Params(f))
<1> DEFINE c == f.code[EntryBlock]
           K == {k \in DOMAIN c : c[k].op \in {"param"}}
<1>1. IsSeq(c) /\ \A k \in DOMAIN c : IsInstr(c[k])
  BY EntryIsBlock, BlockFacts
<1>2. \A k \in DOMAIN c : k \in K => IsInstr(c[k]) /\ ~ IsTerminator(c[k].op)
  BY <1>1 DEF IsTerminator
<1>3. Params(f) = KeptAt(c, K)
  BY DEF Params, Only
<1>. HIDE DEF c, K
<1>4. Open(KeptAt(c, K))
  BY <1>1, <1>2, Picked
<1> QED
  BY <1>3, <1>4

(* What is left of the entry without them is still a block. *)
LEMMA RestOfEntry ==
  ASSUME NEW c, IsBlock(c), NEW ops, \A op \in ops : ~ IsTerminator(op)
  PROVE  /\ IsBlock(Without(c, ops)) /\ Goes(Without(c, ops)) = Goes(c)
         /\ c # <<>> /\ c[Len(c)].op \notin ops => Without(c, ops) # <<>>
<1> DEFINE K == {k \in DOMAIN c : c[k].op \notin ops}
<1>1. IsSeq(c) /\ \A k \in DOMAIN c : IsTerminator(c[k].op) => k \in K
  BY BlockFacts
<1>2. c # <<>> /\ c[Len(c)].op \notin ops => Len(c) \in K
  BY BlockFacts
<1>3. Without(c, ops) = KeptAt(c, K)
  BY DEF Without
<1>. HIDE DEF K
<1>4. IsBlock(KeptAt(c, K)) /\ Goes(KeptAt(c, K)) = Goes(c)
  BY <1>1, Thinned
<1>5. c # <<>> /\ Len(c) \in K => KeptAt(c, K) # <<>>
  BY <1>1, KeepsLast
<1> QED
  BY <1>2, <1>3, <1>4, <1>5

(* split_entry: the entry jumps to the new block, which goes where the    *)
(* entry went.                                                            *)
LEMMA EntrySplit ==
  ASSUME NEW f, IsFunction(f)
  PROVE  LET g == SplitEntry(f)
             c == f.code[EntryBlock]
         IN /\ IsFunction(g) /\ Len(g.code) = Len(f.code) + 1
            /\ c # <<>> /\ c[Len(c)].op # "param" => g.code[Len(g.code)] # <<>>
<1> DEFINE g == SplitEntry(f)
           c == f.code[EntryBlock]
           h == NewBlock(f)
           n == Len(f.code) + 1
           top == Append(Params(f), Jump(n))
           rest == Without(c, {"param"})
<1>1. /\ IsFunction(h) /\ DOMAIN h = {"code", "values"} /\ Len(h.code) = n /\ DOMAIN h.code = 1 .. n
      /\ \A b \in DOMAIN f.code : h.code[b] = f.code[b]
  BY BlockAdded
<1>2. /\ Len(f.code) \in Nat /\ Len(f.code) >= 1 /\ DOMAIN f.code = 1 .. Len(f.code)
      /\ \A b \in DOMAIN f.code : Goes(f.code[b]) \subseteq DOMAIN f.code
      /\ EntryBlock \in DOMAIN f.code /\ IsBlock(c)
  BY EntryIsBlock, FunctionFacts DEF BlocksOf
<1>3. /\ IsBlock(rest) /\ Goes(rest) = Goes(c)
      /\ c # <<>> /\ c[Len(c)].op # "param" => rest # <<>>
  <2>1. \A op \in {"param"} : ~ IsTerminator(op)
    BY DEF IsTerminator
  <2>. HIDE DEF c
  <2> QED
    BY <1>2, <2>1, RestOfEntry
<1>4. IsBlock(top) /\ Goes(top) = {n}
  BY ParamsOpen, JumpIsInstr, Closing
<1>5. DOMAIN g = {"code", "values"} /\ g.code = [h.code EXCEPT ![n] = rest, ![EntryBlock] = top]
  BY <1>1 DEF SplitEntry, LastBlock
<1>. HIDE DEF g, h, top, rest
<1>6. n \in Nat /\ n # EntryBlock /\ n \in DOMAIN h.code /\ EntryBlock \in DOMAIN h.code
      /\ DOMAIN f.code \subseteq DOMAIN h.code
  BY <1>1, <1>2 DEF EntryBlock
<1>. HIDE DEF n
<1>7. /\ g.code = [b \in DOMAIN h.code |-> g.code[b]]
      /\ \A b \in DOMAIN h.code : g.code[b] = IF b = EntryBlock THEN top
                                              ELSE IF b = n THEN rest ELSE h.code[b]
  BY <1>5, <1>6
<1>8. ASSUME NEW b \in DOMAIN h.code PROVE IsBlock(g.code[b]) /\ Goes(g.code[b]) \subseteq DOMAIN h.code
  <2>1. CASE b = EntryBlock
    BY <1>4, <1>6, <1>7, <2>1
  <2>2. CASE b # EntryBlock /\ b = n
    BY <1>2, <1>3, <1>6, <1>7, <2>2 DEF c
  <2>3. CASE b # EntryBlock /\ b # n
    <3>1. IsBlock(h.code[b]) /\ Goes(h.code[b]) \subseteq DOMAIN h.code
      BY <1>1, FunctionFacts DEF BlocksOf
    <3> QED
      BY <1>7, <2>3, <3>1
  <2> QED
    BY <2>1, <2>2, <2>3
<1>9. IsFunction(g) /\ Len(g.code) = n
  BY <1>1, <1>5, <1>7, <1>8, BlocksReplaced
<1>10. g.code[n] = rest
  BY <1>6, <1>7
<1> QED
  BY <1>3, <1>9, <1>10 DEF g, n, c

(* The tail calls go, and their blocks jump to the header. *)
LEMMA LoopsClosed ==
  ASSUME NEW g, IsFunction(g), NEW T, EntryBlock \in T => g.code[Len(g.code)] # <<>>
  PROVE  IsFunction(CloseLoops(g, T)) /\ DOMAIN CloseLoops(g, T).code = DOMAIN g.code
<1> DEFINE h == CloseLoops(g, T)
           n == Len(g.code)
           Loop(c) == Append(Front(Front(c)), Jump(n))
<1>1. /\ n \in Nat /\ n >= 1 /\ DOMAIN g.code = 1 .. n /\ n \in DOMAIN g.code
      /\ \A b \in DOMAIN g.code : IsBlock(g.code[b]) /\ Goes(g.code[b]) \subseteq DOMAIN g.code
  BY FunctionFacts DEF BlocksOf
<1>2. /\ DOMAIN h = {"code", "values"}
      /\ h.code = [b \in DOMAIN g.code |-> h.code[b]]
      /\ \A b \in DOMAIN g.code :
           h.code[b] = IF b \in T \ {EntryBlock} THEN Loop(g.code[b])
                       ELSE IF b = n /\ EntryBlock \in T THEN RemoveAt(g.code[b], Len(g.code[b]) - 1)
                       ELSE g.code[b]
  BY FunctionFacts DEF CloseLoops
<1>3. EntryBlock \in T => g.code[n] # <<>>
  OBVIOUS
<1>4. ASSUME NEW c, IsBlock(c) PROVE IsBlock(Loop(c)) /\ Goes(Loop(c)) = {n}
  BY <1>4, FrontIsOpen, OpenFacts, JumpIsInstr, Closing
<1>. HIDE DEF h, n, Loop
<1>5. ASSUME NEW b \in DOMAIN g.code PROVE IsBlock(h.code[b]) /\ Goes(h.code[b]) \subseteq DOMAIN g.code
  <2>1. CASE b \in T \ {EntryBlock}
    BY <1>1, <1>2, <1>4, <2>1
  <2>2. CASE b \notin T \ {EntryBlock} /\ b = n /\ EntryBlock \in T
    <3>1. h.code[b] = RemoveAt(g.code[b], Len(g.code[b]) - 1) /\ g.code[b] # <<>>
      BY <1>2, <1>3, <2>2
    <3> QED
      BY <1>1, <3>1, LastButOneGone
  <2>3. CASE b \notin T \ {EntryBlock} /\ ~ (b = n /\ EntryBlock \in T)
    BY <1>1, <1>2, <2>3
  <2> QED
    BY <2>1, <2>2, <2>3
<1>6. IsFunction(h) /\ DOMAIN h.code = DOMAIN g.code
  BY <1>2, <1>5, BlocksReplaced
<1> QED
  BY <1>6 DEF h

(* opt_tail_calls as a whole leaves a function, although it moves         *)
(* edges: the round goes on without analyses until simplify derives       *)
(* them again.                                                            *)
LEMMA CallsLooped ==
  ASSUME NEW f, IsFunction(f), NEW a, NEW self
  PROVE  IsFunction(LoopInsteadOfCalls(f, a, self))
<1> DEFINE tails   == TailBlocks(f, a, self)
           params  == Params(f)
           n       == Len(params)
           split   == SplitEntry(f)
           NewName(v) == IF ParamIndex(f, v) = 0 THEN v ELSE f.values + ParamIndex(f, v)
           Renamed(i) == [i EXCEPT !.args = [m \in DOMAIN @ |-> NewName(@[m])]]
           renamed == EditInstrs(split, Renamed)
           phi(j)  == [Instr("phi", f.values + j, <<params[j].dst>> \o
                               [t \in DOMAIN tails |->
                                  InstrAt(renamed, CallSite(split, tails[t])).args[j + 1]])
                       EXCEPT !.ty = params[j].ty, !.from = <<EntryBlock>> \o tails]
           phis == [j \in 1 .. n |-> phi(n + 1 - j)]
           c == f.code[EntryBlock]
           closed == CloseLoops(renamed, Range(tails))
           g == LoopInsteadOfCalls(f, a, self)
<1>1. \A j : IsInstr(phi(j)) /\ ~ IsTerminator(phi(j).op)
  BY DEF Instr, IsInstr, IsTerminator, InstrFields
<1>2. g = [closed EXCEPT !.values = f.values + n, !.code[Len(split.code)] = phis \o @]
  BY DEF LoopInsteadOfCalls
<1>. HIDE DEF phi, g
<1>3. Open(phis)
  <2>1. n \in Nat
    BY ParamsOpen, OpenFacts
  <2>2. phis = [j \in 1 .. n |-> phis[j]] /\ \A j \in 1 .. n : phis[j] = phi(n + 1 - j)
    OBVIOUS
  <2>. HIDE DEF phis, n
  <2>3. IsSeq(phis) /\ DOMAIN phis = 1 .. n
    BY <2>1, <2>2, ListIs
  <2> QED
    BY <1>1, <2>2, <2>3 DEF Open
<1>. HIDE DEF phis
<1>4. /\ IsFunction(split) /\ Len(split.code) = Len(f.code) + 1
      /\ c # <<>> /\ c[Len(c)].op # "param" => split.code[Len(split.code)] # <<>>
  BY EntrySplit
<1>5. EntryBlock \in Range(tails) => c # <<>> /\ c[Len(c)].op # "param"
  <2>1. Len(f.code) \in Nat
    BY FunctionFacts
  <2>2. EntryBlock \in Range(tails) => EndsInTailCall(f, self, EntryBlock)
    BY <2>1, AscendingFrom DEF TailBlocks
  <2>3. EndsInTailCall(f, self, EntryBlock) => Len(c) >= 2 /\ c[Len(c)].op = "ret"
    BY DEF EndsInTailCall
  <2> QED
    BY <2>2, <2>3, EmptyList
<1>. HIDE DEF split, tails, c, n
<1>6. /\ DOMAIN renamed = {"code", "values"}
      /\ renamed.code = [b \in DOMAIN split.code |-> renamed.code[b]]
      /\ \A b \in DOMAIN split.code :
           renamed.code[b] = [k \in DOMAIN split.code[b] |-> renamed.code[b][k]]
      /\ \A b \in DOMAIN split.code : \A k \in DOMAIN split.code[b] :
           renamed.code[b][k] = Renamed(split.code[b][k])
  BY <1>4, FunctionFacts DEF EditInstrs
<1>7. \A i : Touched(Renamed(i), i)
  BY DEF Touched, IsInstr, InstrFields
<1>. HIDE DEF renamed, Renamed
<1>8. /\ SameFlow(renamed, split) /\ DOMAIN renamed.code = DOMAIN split.code
      /\ \A b \in DOMAIN split.code : DOMAIN renamed.code[b] = DOMAIN split.code[b]
  <2>1. SameSlots(renamed, split) /\ AllTouched(renamed, split)
    BY <1>6, <1>7 DEF SameSlots, AllTouched
  <2>2. /\ SameFlow(renamed, split) /\ DOMAIN renamed.code = DOMAIN split.code
        /\ \A b \in DOMAIN split.code :
             /\ DOMAIN renamed.code[b] = DOMAIN split.code[b]
             /\ \A k \in DOMAIN split.code[b] :
                  /\ renamed.code[b][k].op = split.code[b][k].op
                  /\ renamed.code[b][k].dst = split.code[b][k].dst
    BY <1>4, <2>1, Retouched
  <2> QED
    BY <2>2
<1>9. IsFunction(renamed) /\ Len(renamed.code) = Len(split.code)
  BY <1>4, <1>8, FunctionFacts DEF SameFlow
<1>10. EntryBlock \in Range(tails) => renamed.code[Len(renamed.code)] # <<>>
  <2> SUFFICES ASSUME EntryBlock \in Range(tails) PROVE renamed.code[Len(renamed.code)] # <<>>
    OBVIOUS
  <2> DEFINE x == split.code[Len(split.code)]
             y == renamed.code[Len(split.code)]
  <2>1. Len(split.code) \in DOMAIN split.code /\ x # <<>>
    BY <1>4, <1>5, FunctionFacts
  <2>2. DOMAIN y = DOMAIN x /\ IsBlock(x)
    BY <1>4, <1>8, <2>1, FunctionFacts DEF BlocksOf
  <2>. HIDE DEF x, y
  <2>3. DOMAIN y # {}
    BY <2>1, <2>2, BlockFacts
  <2>4. y # <<>>
    BY <2>3, EmptyList, SeqFacts
  <2> QED
    BY <1>9, <2>4 DEF y
<1>11. IsFunction(closed) /\ DOMAIN closed.code = DOMAIN renamed.code
  BY <1>9, <1>10, LoopsClosed
<1>. HIDE DEF closed
<1> DEFINE m == Len(split.code)
<1>12. m \in BlocksOf(closed)
  BY <1>4, <1>8, <1>11, FunctionFacts DEF BlocksOf
<1>13. DOMAIN g = {"code", "values"} /\ g.code = [closed.code EXCEPT ![m] = phis \o closed.code[m]]
  BY <1>2, <1>11, FunctionFacts
<1>. HIDE DEF m
<1>14. SameFlow(g, closed)
  BY <1>3, <1>11, <1>12, <1>13, BlockPrefixed
<1> QED
  BY <1>14 DEF SameFlow, g

-----------------------------------------------------------------------------
(* opt_inline *)

(* A block cut behind the instruction at s, the edges still called after it. *)
CutAt(f, s) ==
  [NewBlock(f) EXCEPT
     !.code[Len(f.code) + 1] = SubSeq(f.code[s[1]], s[2] + 1, Len(f.code[s[1]])),
     !.code[s[1]] = SubSeq(@, 1, s[2])]

LEMMA CallCut ==
  ASSUME NEW f, IsFunction(f), NEW s \in Sites(f), ~ IsTerminator(InstrAt(f, s).op)
  PROVE  IsFunction(CutAt(f, s)) /\ Len(CutAt(f, s).code) = Len(f.code) + 1
<1> DEFINE b == s[1]
           k == s[2]
           c == f.code[b]
           rest == Len(f.code) + 1
           h == NewBlock(f)
           top == SubSeq(c, 1, k)
           end == SubSeq(c, k + 1, Len(c))
           cut == CutAt(f, s)
<1>1. /\ IsBlock(c) /\ b \in DOMAIN f.code /\ k \in DOMAIN c /\ ~ IsTerminator(c[k].op)
      /\ Goes(c) \subseteq DOMAIN f.code
  BY SiteFacts, FunctionFacts
<1>2. /\ IsFunction(h) /\ DOMAIN h = {"code", "values"} /\ Len(h.code) = rest
      /\ DOMAIN h.code = 1 .. rest /\ \A x \in DOMAIN f.code : h.code[x] = f.code[x]
  BY BlockAdded
<1>3. /\ Len(f.code) \in Nat /\ DOMAIN f.code = 1 .. Len(f.code)
  BY FunctionFacts
<1>4. rest \in DOMAIN h.code /\ b # rest /\ b \in DOMAIN h.code /\ DOMAIN f.code \subseteq DOMAIN h.code
  BY <1>1, <1>2, <1>3
<1>5. Open(top) /\ IsBlock(end) /\ Goes(end) \subseteq Goes(c)
  <2>1. /\ Len(c) \in Nat /\ DOMAIN c = 1 .. Len(c)
        /\ \A y \in DOMAIN c : y # Len(c) => ~ IsTerminator(c[y].op)
    BY <1>1, BlockFacts
  <2>. HIDE DEF c, k
  <2>2. k \in Int /\ 0 <= k /\ k <= Len(c) /\ k + 1 \in Int /\ 1 <= k + 1 /\ k + 1 <= Len(c) + 1
    BY <1>1, <2>1
  <2>3. \A y \in 1 .. k : ~ IsTerminator(c[y].op)
    BY <1>1, <2>1, <2>2
  <2>4. Open(SubSeq(c, 1, k))
    BY <1>1, <2>2, <2>3, Before
  <2> DEFINE m == k + 1
  <2>5. m \in Int /\ 1 <= m /\ m <= Len(c) + 1
    BY <2>2
  <2>. HIDE DEF m
  <2>6. IsBlock(SubSeq(c, m, Len(c))) /\ Goes(SubSeq(c, m, Len(c))) \subseteq Goes(c)
    BY <1>1, <2>5, Behind
  <2> QED
    BY <2>4, <2>6 DEF m
<1>6. IsBlock(top) /\ Goes(top) = {}
  BY <1>5, OpenFacts
<1>7. /\ DOMAIN cut = {"code", "values"}
      /\ cut.code = [x \in DOMAIN h.code |-> cut.code[x]]
      /\ \A x \in DOMAIN h.code : cut.code[x] = IF x = b THEN top ELSE IF x = rest THEN end ELSE h.code[x]
  BY <1>1, <1>2, <1>4 DEF CutAt
<1>. HIDE DEF cut, top, end, h, rest, b, k, c
<1>9. ASSUME NEW x \in DOMAIN h.code
      PROVE  IsBlock(cut.code[x]) /\ Goes(cut.code[x]) \subseteq DOMAIN h.code
  <2>1. CASE x = b
    BY <1>6, <1>7, <2>1
  <2>2. CASE x # b /\ x = rest
    BY <1>1, <1>4, <1>5, <1>7, <2>2
  <2>3. CASE x # b /\ x # rest
    <3>1. IsBlock(h.code[x]) /\ Goes(h.code[x]) \subseteq DOMAIN h.code
      BY <1>2, FunctionFacts DEF BlocksOf
    <3> QED
      BY <1>7, <2>3, <3>1
  <2> QED
    BY <2>1, <2>2, <2>3
<1>10. IsFunction(cut) /\ Len(cut.code) = rest
  BY <1>2, <1>7, <1>9, BlocksReplaced
<1> QED
  BY <1>10 DEF cut, rest

(* split_after: the part behind the call goes where the block went. *)
LEMMA CallSplit ==
  ASSUME NEW f, IsFunction(f), NEW s \in Sites(f), ~ IsTerminator(InstrAt(f, s).op)
  PROVE  /\ IsFunction(SplitAfter(f, s)) /\ Len(SplitAfter(f, s).code) = Len(f.code) + 1
         /\ SplitAfter(f, s) = RenameEdge(CutAt(f, s), Successors(CutAt(f, s), Len(f.code) + 1),
                                         s[1], Len(f.code) + 1)
<1> DEFINE cut == CutAt(f, s)
           rest == Len(f.code) + 1
           S == Successors(cut, rest)
           x == s[1]
           g == RenameEdge(cut, S, x, rest)
<1>1. IsFunction(cut) /\ Len(cut.code) = rest
  BY CallCut
<1>2. SplitAfter(f, s) = g
  BY DEF SplitAfter, CutAt
<1>. HIDE DEF cut, S
<1>3. SameFlow(g, cut)
  BY <1>1, EdgeRenamed
<1>4. IsFunction(g) /\ DOMAIN g.code = DOMAIN cut.code
  <2>1. IsFunction(g) /\ EdgesOf(g) = EdgesOf(cut)
    BY <1>3 DEF SameFlow
  <2>. HIDE DEF g
  <2>2. DOMAIN EdgesOf(g) = DOMAIN g.code /\ DOMAIN EdgesOf(cut) = DOMAIN cut.code
    BY DEF EdgesOf, BlocksOf
  <2> QED
    BY <2>1, <2>2
<1>5. Len(g.code) = rest
  <2>. HIDE DEF g
  <2> QED
    BY <1>1, <1>4, FunctionFacts
<1> QED
  BY <1>2, <1>4, <1>5 DEF cut, S

(* What inline_one copies goes to the copies, or behind the call. *)
LEMMA CalleeCopied ==
  ASSUME NEW f, IsFunction(f), NEW s \in Sites(f), ~ IsTerminator(InstrAt(f, s).op),
         NEW callee, IsFunction(callee)
  PROVE  IsFunction(CopyInto(f, s, callee))
<1> DEFINE call    == InstrAt(f, s)
           split   == SplitAfter(f, s)
           resume  == Len(split.code)
           copied  == Ascending(ReachedBlocks(callee), Len(callee.code))
           M(v)    == LET p == ParamIndex(callee, v)
                      IN IF p # 0 THEN ArgumentFor(call, p) ELSE f.values + v
           B(b)    == resume + SelectInSeq(copied, LAMBDA c : c = b)
           ZeroIn(b)  == f.values + callee.values + b
           result  == f.values + callee.values + Len(callee.code) + 1
           Copy(i) == [i EXCEPT !.dst  = IF @ = NoValue THEN NoValue ELSE M(@),
                                !.args = [a \in DOMAIN @ |-> M(@[a])],
                                !.to   = [a \in DOMAIN @ |-> B(@[a])],
                                !.from = [a \in DOMAIN @ |-> B(@[a])]]
           all     == FlattenSeq([n \in DOMAIN copied |-> callee.code[copied[n]]])
           frame   == Reverse(Only(all, {"alloca"}))
           IsBare(b) == Last(callee.code[b]).args = <<>>
           End(b)  == IF ~ ReturnsFrom(callee, b) THEN <<>>
                      ELSE IF IsBare(b) /\ call.dst # NoValue
                        THEN <<Const(ZeroIn(b), 0, call.ty), Jump(resume)>>
                        ELSE <<Jump(resume)>>
           Plain(b) == Without(callee.code[b], {"param", "alloca", "ret"})
           Body(b) == [k \in DOMAIN Plain(b) |-> Copy(Plain(b)[k])] \o End(b)
           returns == Ascending({b \in Range(copied) : ReturnsFrom(callee, b)}, Len(callee.code))
           phi     == [Instr("phi", result,
                             [n \in DOMAIN returns |->
                                IF IsBare(returns[n]) THEN ZeroIn(returns[n])
                                ELSE M(Last(callee.code[returns[n]]).args[1])])
                       EXCEPT !.ty = call.ty, !.from = [n \in DOMAIN returns |-> B(returns[n])]]
           bodies  == [n \in DOMAIN copied |-> Body(copied[n])]
           joined  == [split EXCEPT !.code = @ \o bodies]
           top     == IF call.dst = NoValue THEN <<>> ELSE <<phi>>
           entered == [joined EXCEPT
                         !.values = result,
                         !.code[s[1]] = Append(Front(@), Jump(B(EntryBlock))),
                         !.code[resume] = top \o @]
           slotsOf == [k \in DOMAIN frame |-> Copy(frame[k])]
           framed  == [entered EXCEPT !.code[EntryBlock] = slotsOf \o @]
           R == resume .. resume + Len(copied)
<1>1. CopyInto(f, s, callee) = framed
  BY DEF CopyInto
<1>2. IsFunction(split) /\ resume = Len(f.code) + 1 /\ resume \in Nat
  BY CallSplit, FunctionFacts
<1>3. IsSeq(copied) /\ Len(copied) \in Nat /\ DOMAIN copied = 1 .. Len(copied)
      /\ \A n \in DOMAIN copied : copied[n] \in DOMAIN callee.code
  <2>1. Len(callee.code) \in Nat /\ DOMAIN callee.code = 1 .. Len(callee.code)
    BY FunctionFacts
  <2>2. IsSeq(copied) /\ \A x \in Range(copied) : x \in 1 .. Len(callee.code)
    BY <2>1, AscendingFrom
  <2>. HIDE DEF copied
  <2> QED
    BY <2>1, <2>2, SeqFacts DEF Range
<1>4. ASSUME NEW b PROVE B(b) \in R
  <2> DEFINE j == SelectInSeq(copied, LAMBDA c : c = b)
           I == {k \in 1 .. Len(copied) : copied[k] = b}
  <2>1. j \in 0 .. Len(copied)
    <3>1. j = IF I # {} THEN Min(I) ELSE 0
      BY DEF SelectInSeq
    <3>2. I \subseteq 1 .. Len(copied)
      OBVIOUS
    <3>. HIDE DEF copied, j, I
    <3> QED
      BY <1>3, <3>1, <3>2, PositionOrNone
  <2>2. B(b) = resume + j
    OBVIOUS
  <2>. HIDE DEF j, resume, copied, B
  <2> QED
    BY <1>2, <1>3, <2>1, <2>2
<1>5. ASSUME NEW i, IsInstr(i)
      PROVE  IsInstr(Copy(i)) /\ Copy(i).op = i.op /\ Range(Copy(i).to) \subseteq R
  <2> DEFINE x == Copy(i)
  <2>1. /\ DOMAIN x = InstrFields /\ x.op = i.op /\ (i.dst = NoValue => x.dst = NoValue)
        /\ x.to = [a \in DOMAIN i.to |-> B(i.to[a])]
    <3>. HIDE DEF B, M
    <3> QED
      BY <1>5 DEF IsInstr, InstrFields
  <2>. HIDE DEF x, B, R
  <2>2. x.to = [a \in DOMAIN i.to |-> x.to[a]] /\ Range(x.to) \subseteq R
    BY <1>4, <2>1 DEF Range
  <2>3. IsInstr(x)
    BY <1>5, <2>1, <2>2, CopyIsInstr
  <2> QED
    BY <2>1, <2>2, <2>3 DEF x
<1>6. resume \in R
  <2>. HIDE DEF resume, copied
  <2> QED
    BY <1>2, <1>3
<1>7. IsInstr(phi) /\ ~ IsTerminator(phi.op)
  <2>. HIDE DEF returns, result, M, B, IsBare, ZeroIn
  <2> QED
    BY DEF Instr, IsInstr, IsTerminator, InstrFields
<1>. HIDE DEF Copy, phi, R, B
<1>8. ASSUME NEW b \in DOMAIN callee.code
      PROVE  IsBlock(End(b)) /\ Goes(End(b)) \subseteq R
  <2> DEFINE nought == Const(ZeroIn(b), 0, call.ty)
             back == Jump(resume)
  <2>1. IsInstr(back) /\ Range(back.to) = {resume} /\ IsInstr(nought) /\ ~ IsTerminator(nought.op)
    BY JumpIsInstr, ConstIsInstr
  <2>2. End(b) = <<>> \/ End(b) = <<nought, back>> \/ End(b) = <<back>>
    <3>. HIDE DEF IsBare, nought, back
    <3> QED
      BY DEF nought, back
  <2>. HIDE DEF End, nought, back, resume
  <2>3. CASE End(b) = <<>>
    BY <2>3, EmptyIsOpen, OpenFacts
  <2>4. CASE End(b) = <<nought, back>>
    BY <1>6, <2>1, <2>4, BlockTwo
  <2>5. CASE End(b) = <<back>>
    BY <1>6, <2>1, <2>5, BlockOne
  <2> QED
    BY <2>2, <2>3, <2>4, <2>5
<1>9. ASSUME NEW b \in DOMAIN callee.code
      PROVE  IsBlock(Body(b)) /\ Goes(Body(b)) \subseteq R
  <2> DEFINE c == callee.code[b]
             K == {k \in DOMAIN c : c[k].op \notin {"param", "alloca", "ret"}}
             p == Plain(b)
             d == [k \in DOMAIN p |-> Copy(p[k])]
  <2>1. /\ IsBlock(c) /\ (Len(c) = 0 => c = <<>>)
        /\ c # <<>> => Last(c) = c[Len(c)]
        /\ IsSeq(c) /\ DOMAIN c = 1 .. Len(c) /\ Len(c) \in Nat
        /\ \A k \in DOMAIN c : IsInstr(c[k]) /\ (k # Len(c) => ~ IsTerminator(c[k].op))
    BY FunctionFacts, BlockFacts DEF BlocksOf
  <2>2. p = KeptAt(c, K)
    BY DEF Without
  <2>3. d = [k \in DOMAIN p |-> d[k]] /\ \A k \in DOMAIN p : d[k] = Copy(p[k])
    OBVIOUS
  <2>4. Body(b) = d \o End(b)
    BY DEF p
  <2>5. ReturnsFrom(callee, b) <=> c # <<>> /\ Last(c).op = "ret"
    BY DEF ReturnsFrom
  <2>6. ~ ReturnsFrom(callee, b) => End(b) = <<>>
    OBVIOUS
  <2>7. \A k \in DOMAIN c : k \in K <=> c[k].op \notin {"param", "alloca", "ret"}
    OBVIOUS
  <2>. HIDE DEF c, K, p, d, Body, End
  <2>8. CASE ReturnsFrom(callee, b)
    <3>1. \A k \in DOMAIN c : k \in K => IsInstr(c[k]) /\ ~ IsTerminator(c[k].op)
      BY <2>1, <2>5, <2>7, <2>8
    <3>2. Open(p)
      BY <2>1, <2>2, <3>1, Picked
    <3>3. \A k \in DOMAIN p : IsInstr(d[k]) /\ d[k].op = p[k].op
      BY <1>5, <2>3, <3>2, OpenFacts
    <3>4. Open(d)
      BY <2>3, <3>2, <3>3, CopiedOpen
    <3>5. IsBlock(d \o End(b)) /\ Goes(d \o End(b)) = Goes(End(b))
      BY <1>8, <3>4, Prefixed
    <3> QED
      BY <1>8, <2>4, <3>5
  <2>9. CASE ~ ReturnsFrom(callee, b)
    <3>1. \A k \in DOMAIN c : IsTerminator(c[k].op) => k \in K
      <4>1. \A k \in DOMAIN c : IsTerminator(c[k].op) => c # <<>> /\ k = Len(c)
        BY <2>1, EmptyList
      <4> QED
        BY <2>1, <2>5, <2>7, <2>9, <4>1 DEF IsTerminator
    <3>2. IsBlock(p)
      <4>1. IsBlock(c)
        BY <2>1
      <4>2. IsBlock(KeptAt(c, K))
        BY <3>1, <4>1, Thinned
      <4> QED
        BY <2>2, <4>2
    <3>3. \A k \in DOMAIN p : /\ IsInstr(d[k]) /\ d[k].op = p[k].op
                              /\ Range(d[k].to) \subseteq R
      BY <1>5, <2>3, <3>2, BlockFacts
    <3>4. IsBlock(d) /\ Goes(d) \subseteq R
      BY <2>3, <3>2, <3>3, CopiedBlock
    <3>5. Body(b) = d
      <4>1. IsSeq(d)
        BY <3>4, BlockFacts
      <4> QED
        BY <2>4, <2>6, <2>9, <4>1, NothingBehind
    <3> QED
      BY <3>4, <3>5
  <2> QED
    BY <2>8, <2>9
<1>. HIDE DEF End, Body
<1>10. IsSeq(bodies) /\ Len(bodies) = Len(copied) /\ DOMAIN bodies = DOMAIN copied
       /\ \A n \in DOMAIN bodies : IsBlock(bodies[n]) /\ Goes(bodies[n]) \subseteq R
  <2>. HIDE DEF copied
  <2>1. bodies = [n \in 1 .. Len(copied) |-> bodies[n]]
        /\ \A n \in DOMAIN copied : bodies[n] = Body(copied[n])
    BY <1>3
  <2>. HIDE DEF bodies
  <2>2. IsSeq(bodies) /\ Len(bodies) = Len(copied) /\ DOMAIN bodies = DOMAIN copied
    BY <1>3, <2>1, ListIs
  <2> QED
    BY <1>3, <1>9, <2>1, <2>2
<1>11. DOMAIN joined = {"code", "values"} /\ joined.code = split.code \o bodies
  BY <1>2, FunctionFacts
<1>. HIDE DEF split, bodies, joined
<1>12. IsFunction(joined) /\ Len(joined.code) = resume + Len(copied)
       /\ R \subseteq DOMAIN joined.code
  <2>1. resume >= 1
    BY <1>2, FunctionFacts
  <2>2. R \subseteq 1 .. resume + Len(copied)
    <3>. HIDE DEF resume, copied
    <3> QED
      BY <1>2, <1>3, <2>1 DEF R
  <2>3. \A n \in DOMAIN bodies : IsBlock(bodies[n]) /\ Goes(bodies[n]) \subseteq 1 .. Len(split.code) + Len(bodies)
    BY <1>10, <2>2
  <2>4. IsFunction(joined) /\ Len(joined.code) = Len(split.code) + Len(bodies)
    BY <1>2, <1>10, <1>11, <2>3, BlocksJoined
  <2>5. DOMAIN joined.code = 1 .. Len(joined.code)
    BY <2>4, FunctionFacts
  <2> QED
    BY <1>10, <2>2, <2>4, <2>5
<1> DEFINE b == s[1]
           jump == Append(Front(joined.code[b]), Jump(B(EntryBlock)))
           merged == top \o joined.code[resume]
<1>13. b \in DOMAIN joined.code /\ resume \in DOMAIN joined.code /\ b # resume
  <2>1. b \in 1 .. Len(f.code) /\ Len(f.code) \in Nat
    BY SiteFacts, FunctionFacts
  <2>2. DOMAIN joined.code = 1 .. Len(joined.code)
    BY <1>12, FunctionFacts
  <2>. HIDE DEF resume, copied, b
  <2>3. resume = Len(f.code) + 1 /\ Len(joined.code) = resume + Len(copied) /\ Len(copied) \in Nat
    BY <1>2, <1>3, <1>12
  <2> QED
    BY <1>2, <2>1, <2>2, <2>3
<1>14. /\ DOMAIN entered = {"code", "values"}
       /\ entered.code = [x \in DOMAIN joined.code |-> entered.code[x]]
       /\ \A x \in DOMAIN joined.code : entered.code[x] = IF x = resume THEN merged
                                                          ELSE IF x = b THEN jump
                                                          ELSE joined.code[x]
  <2>. HIDE DEF B, top, resume, result
  <2> QED
    BY <1>12, <1>13, FunctionFacts
<1>15. \A x \in DOMAIN joined.code : IsBlock(joined.code[x]) /\ Goes(joined.code[x]) \subseteq DOMAIN joined.code
  BY <1>12, FunctionFacts DEF BlocksOf
<1>16. IsBlock(jump) /\ Goes(jump) \subseteq DOMAIN joined.code
  <2> DEFINE t == B(EntryBlock)
             c == joined.code[b]
  <2>1. t \in R /\ IsBlock(c)
    BY <1>4, <1>13, <1>15
  <2>2. jump = Append(Front(c), Jump(t))
    OBVIOUS
  <2>. HIDE DEF t, c, jump, b
  <2>3. IsBlock(Append(Front(c), Jump(t))) /\ Goes(Append(Front(c), Jump(t))) = {t}
    BY <2>1, JumpsInstead
  <2> QED
    BY <1>12, <2>1, <2>2, <2>3
<1>17. IsBlock(merged) /\ Goes(merged) \subseteq DOMAIN joined.code
  <2>1. Open(top)
    BY <1>7, EmptyIsOpen, OpenOne
  <2>. HIDE DEF top, resume
  <2>2. IsBlock(merged) /\ Goes(merged) = Goes(joined.code[resume])
    BY <1>13, <1>15, <2>1, Prefixed
  <2> QED
    BY <1>13, <1>15, <2>2
<1>. HIDE DEF entered, jump, merged
<1>18. IsFunction(entered)
  <2>. HIDE DEF resume, b
  <2>1. \A x \in DOMAIN joined.code :
          IsBlock(entered.code[x]) /\ Goes(entered.code[x]) \subseteq DOMAIN joined.code
    BY <1>14, <1>15, <1>16, <1>17
  <2> QED
    BY <1>12, <1>14, <2>1, BlocksReplaced
<1>19. Open(slotsOf)
  <2> DEFINE t == [n \in DOMAIN copied |-> callee.code[copied[n]]]
  <2>1. IsSeq(t) /\ \A n \in DOMAIN t : IsBlock(t[n])
    <3>. HIDE DEF copied
    <3>1. t = [n \in 1 .. Len(copied) |-> t[n]] /\ DOMAIN t = DOMAIN copied
      BY <1>3
    <3>2. \A n \in DOMAIN t : IsBlock(t[n])
      BY <1>3, FunctionFacts DEF BlocksOf
    <3>. HIDE DEF t
    <3> QED
      BY <1>3, <3>1, <3>2, ListIs
  <2>2. \A op \in {"alloca"} : ~ IsTerminator(op)
    BY DEF IsTerminator
  <2>3. frame = Reverse(Only(FlattenSeq(t), {"alloca"}))
    OBVIOUS
  <2>. HIDE DEF t, frame
  <2>4. Open(frame)
    BY <2>1, <2>2, <2>3, GatheredOpen
  <2>5. slotsOf = [k \in DOMAIN frame |-> slotsOf[k]]
        /\ \A k \in DOMAIN frame : IsInstr(slotsOf[k]) /\ slotsOf[k].op = frame[k].op
    BY <1>5, <2>4, OpenFacts
  <2>. HIDE DEF slotsOf
  <2> QED
    BY <2>4, <2>5, CopiedOpen
<1>. HIDE DEF slotsOf
<1>20. /\ DOMAIN framed = {"code", "values"}
       /\ framed.code = [entered.code EXCEPT ![EntryBlock] = slotsOf \o entered.code[EntryBlock]]
  BY <1>18, FunctionFacts
<1>. HIDE DEF framed
<1>21. IsFunction(framed)
  BY <1>18, <1>19, <1>20, EntryIsBlock, BlockPrefixed DEF SameFlow
<1> QED
  BY <1>1, <1>21

(* inline_one as a whole leaves a function. *)
LEMMA CallInlined ==
  ASSUME NEW f, IsFunction(f), NEW s \in Sites(f), ~ IsTerminator(InstrAt(f, s).op),
         NEW callee, IsFunction(callee)
  PROVE  IsFunction(InlineAt(f, s, callee))
<1> DEFINE dst == InstrAt(f, s).dst
           g == CopyInto(f, s, callee)
<1>1. InlineAt(f, s, callee) = IF dst = NoValue THEN g ELSE ReplaceUses(g, dst, g.values)
  BY DEF InlineAt
<1>2. IsFunction(g)
  BY CalleeCopied
<1>. HIDE DEF g, dst
<1> DEFINE v == g.values
<1>. HIDE DEF v
<1>3. IsFunction(ReplaceUses(g, dst, v))
  BY <1>2, UsesReplaced DEF SameFlow
<1> QED
  BY <1>1, <1>2, <1>3 DEF v

-----------------------------------------------------------------------------
(* The invariant, and the kinds of steps *)

(* The inductive invariant.  The passes edit a function while its         *)
(* analyses wait, so AnalysesCurrent is kept only because no edit moves   *)
(* an edge; to know that of an edit one must know the shape of what is    *)
(* edited.                                                                *)
OptInv == WellShaped /\ AnalysesCurrent

(* The function being worked on, and the sites in it. *)
LEMMA CurIn ==
  ASSUME WellShaped
  PROVE  /\ cur \in DOMAIN prog /\ IsFunction(fn)
         /\ \A S : S \subseteq Sites(fn) => S \subseteq Nat \X Nat
<1>1. cur \in DOMAIN prog /\ IsFunction(fn)
  BY DEF WellShaped, fn
<1>2. \A s \in Sites(fn) : s \in Nat \X Nat
  BY <1>1, SiteFacts
<1> QED
  BY <1>1, <1>2

(* Replace changes one function of the program. *)
LEMMA FnReplaced ==
  ASSUME WellShaped, NEW f, IsFunction(f), Replace(f)
  PROVE  /\ IsSeq(prog') /\ DOMAIN prog' = DOMAIN prog /\ prog'[cur] = f
         /\ \A k \in DOMAIN prog : IsFunction(prog'[k]) /\ (k # cur => prog'[k] = prog[k])
<1>1. /\ IsSeq(prog) /\ cur \in DOMAIN prog /\ \A k \in DOMAIN prog : IsFunction(prog[k])
  BY DEF WellShaped
<1>2. prog' = [prog EXCEPT ![cur] = f]
  BY DEF Replace
<1>3. DOMAIN prog' = DOMAIN prog /\ prog'[cur] = f
      /\ \A k \in DOMAIN prog : k # cur => prog'[k] = prog[k]
  BY <1>1, <1>2
<1>4. IsSeq(prog')
  <2>1. Len(prog) \in Nat /\ DOMAIN prog = 1 .. Len(prog)
    BY <1>1, SeqFacts
  <2>2. prog' = [k \in 1 .. Len(prog) |-> prog'[k]]
    BY <1>2, <2>1
  <2> QED
    BY <2>1, <2>2, ListIs
<1> QED
  BY <1>1, <1>3, <1>4

(* A step that edits the function without changing where control goes.     *)
LEMMA EditingStep ==
  ASSUME OptInv, NEW f, SameFlow(f, fn), Replace(f),
         pc \notin {"analyse", "promote"}, pc' = pc \/ (pc = "rename" /\ pc' = "built"),
         cur' = cur, an' = an, slots' = slots
  PROVE  OptInv'
<1>1. WellShaped /\ IsFunction(f) /\ Analyses(f) = Analyses(fn)
  BY SameAnalyses DEF OptInv, SameFlow
<1>2. /\ IsSeq(prog') /\ DOMAIN prog' = DOMAIN prog /\ prog'[cur] = f
      /\ \A k \in DOMAIN prog : IsFunction(prog'[k]) /\ (k # cur => prog'[k] = prog[k])
  BY <1>1, FnReplaced
<1>3. \A k \in DOMAIN prog : IsFunction(prog'[k])
  BY <1>2
<1>4. \A k \in DOMAIN prog : Unpromoted(k)' => Unpromoted(k) /\ k # cur
  BY <1>1, SeqFacts DEF Unpromoted, WellShaped
<1>5. WellShaped'
  BY <1>1, <1>2, <1>4 DEF WellShaped, Promoting
<1>6. AnalysesCurrent'
  BY <1>1, <1>2 DEF AnalysesCurrent, OptInv, fn
<1> QED
  BY <1>5, <1>6 DEF OptInv

(* The same, at a stage that goes on. *)
LEMMA EditStep ==
  ASSUME OptInv, NEW f, SameFlow(f, fn), Replace(f), pc \notin {"analyse", "promote"},
         UNCHANGED <<cur, an, pc, slots>>
  PROVE  OptInv'
<1>1. pc' = pc /\ cur' = cur /\ an' = an /\ slots' = slots
  OBVIOUS
<1>2. pc' = pc \/ (pc = "rename" /\ pc' = "built")
  BY <1>1
<1> QED
  BY <1>1, <1>2, EditingStep

(* A step that edits nothing. *)
LEMMA QuietStep ==
  ASSUME OptInv, UNCHANGED <<prog, cur, an>>, pc \notin {"analyse", "promote"},
         pc' \notin {"analyse", "promote"},
         pc' \in {"place", "rename", "built"} => pc \in {"place", "rename"} /\ slots' = slots,
         pc' \in {"fold", "copies", "dce", "cse", "licm", "tail"} =>
           pc \in {"fold", "copies", "dce", "cse", "licm", "tail"}
  PROVE  OptInv'
<1>1. \A k \in DOMAIN prog : Unpromoted(k)' => Unpromoted(k)
  BY DEF Unpromoted
<1>2. WellShaped'
  BY <1>1 DEF WellShaped, Promoting, OptInv
<1>3. AnalysesCurrent'
  BY DEF AnalysesCurrent, OptInv, fn
<1> QED
  BY <1>2, <1>3 DEF OptInv

(* A step that analyses the function again: refresh(). *)
LEMMA RefreshStep ==
  ASSUME OptInv, RefreshFn, cur' = cur,
         pc' \notin {"analyse", "promote", "place", "rename", "built"}
  PROVE  OptInv'
<1> DEFINE f == DropUnreachable(fn)
<1>1. WellShaped /\ IsFunction(f)
  BY CurIn, DroppedUnreachable DEF OptInv
<1>2. Replace(f) /\ an' = Analyses(f)
  BY DEF RefreshFn, Refresh
<1>. HIDE DEF f
<1>3. /\ IsSeq(prog') /\ DOMAIN prog' = DOMAIN prog /\ prog'[cur] = f
      /\ \A k \in DOMAIN prog : IsFunction(prog'[k])
  BY <1>1, <1>2, FnReplaced
<1>4. WellShaped'
  BY <1>1, <1>3 DEF WellShaped, Promoting
<1>5. AnalysesCurrent'
  BY <1>2, <1>3 DEF AnalysesCurrent, fn
<1> QED
  BY <1>4, <1>5 DEF OptInv

(* A step to a stage that reads no analyses. *)
LEMMA ShapeStep ==
  ASSUME OptInv, NEW f, IsFunction(f), Replace(f), cur' \in DOMAIN prog,
         pc' \in {"callers", "inline", "round", "straighten", "merge", "check", "next", "done"}
  PROVE  OptInv'
<1>1. /\ IsSeq(prog') /\ DOMAIN prog' = DOMAIN prog
      /\ \A k \in DOMAIN prog : IsFunction(prog'[k])
  BY FnReplaced DEF OptInv
<1>2. WellShaped'
  BY <1>1 DEF WellShaped, Promoting
<1>3. AnalysesCurrent'
  BY DEF AnalysesCurrent
<1> QED
  BY <1>2, <1>3 DEF OptInv

-----------------------------------------------------------------------------
(* Promotion *)

(* main(): the analyses promotion starts from. *)
LEMMA AnalyseStep == ASSUME OptInv, Analyse PROVE OptInv'
<1> DEFINE f == DropUnreachable(fn)
<1>1. WellShaped /\ IsFunction(f) /\ cur \in DOMAIN prog
  BY CurIn, DroppedUnreachable DEF OptInv
<1>2. Replace(f) /\ an' = Analyses(f) /\ pc = "analyse" /\ pc' = "promote" /\ cur' = cur
  BY DEF Analyse
<1>3. SlotsNamed(f)
  <2>1. SlotsNamed(fn)
    BY <1>1, <1>2 DEF WellShaped, Promoting, Unpromoted, fn
  <2> QED
    BY <1>1, <2>1, CurIn, DropKeepsSlots
<1>. HIDE DEF f
<1>4. /\ IsSeq(prog') /\ DOMAIN prog' = DOMAIN prog /\ prog'[cur] = f
      /\ \A k \in DOMAIN prog : IsFunction(prog'[k]) /\ (k # cur => prog'[k] = prog[k])
  BY <1>1, <1>2, FnReplaced
<1>5. \A k \in DOMAIN prog : Unpromoted(k)' => SlotsNamed(prog'[k])
  BY <1>1, <1>2, <1>3, <1>4 DEF WellShaped, Promoting, Unpromoted
<1>6. WellShaped'
  BY <1>1, <1>2, <1>4, <1>5 DEF WellShaped, Promoting
<1>7. AnalysesCurrent'
  BY <1>2, <1>4 DEF AnalysesCurrent, fn
<1> QED
  BY <1>6, <1>7 DEF OptInv

(* The slots are chosen; nothing is edited. *)
LEMMA PromoteStep == ASSUME OptInv, Promote PROVE OptInv'
<1> DEFINE t == KeptAt(fn.code[EntryBlock],
                       {k \in DOMAIN fn.code[EntryBlock] : IsPromotable(fn, fn.code[EntryBlock][k])})
           d == [j \in DOMAIN t |-> t[j].dst]
<1>1. WellShaped /\ IsFunction(fn) /\ pc = "promote" /\ SlotsNamed(fn)
  BY CurIn DEF OptInv, Promote, WellShaped, Promoting, Unpromoted, fn
<1>2. slots' = d /\ UNCHANGED <<prog, cur, an>> /\ pc' \in {"built", "place"}
  BY DEF Promote
<1>3. IsSeq(d) /\ NoValue \notin Range(d)
  BY <1>1, SlotsTaken
<1>. HIDE DEF d
<1>4. \A k \in DOMAIN prog : Unpromoted(k)' => Unpromoted(k)
  BY <1>1, <1>2 DEF Unpromoted
<1>5. WellShaped'
  BY <1>1, <1>2, <1>3, <1>4 DEF WellShaped, Promoting
<1>6. AnalysesCurrent'
  BY <1>1, <1>2 DEF AnalysesCurrent, OptInv, fn
<1> QED
  BY <1>5, <1>6 DEF OptInv

(* place_phis edits between the refreshes, and so must not move an        *)
(* edge.                                                                  *)
LEMMA PlacePhisStep == ASSUME OptInv, PlacePhis PROVE OptInv'
<1> DEFINE M == PhiBlocks(fn, slots[Len(phiOf) + 1])
           slotTy == SlotType(fn, Len(phiOf) + 1)
           g == [fn EXCEPT !.values = @ + Cardinality(M),
                           !.code = [b \in DOMAIN @ |->
                              IF b \in M
                                THEN <<TypedPhi(fn.values + Cardinality({c \in M : c <= b}), slotTy)>>
                                       \o @[b]
                                ELSE @[b]]]
<1>1. IsFunction(fn) /\ pc = "place"
  BY CurIn DEF OptInv, PlacePhis
<1>2. Replace(g) /\ UNCHANGED <<cur, an, pc, slots>>
  BY DEF PlacePhis
<1>3. /\ DOMAIN g = {"code", "values"}
      /\ g.code = [b \in DOMAIN fn.code |-> g.code[b]]
      /\ \A b \in DOMAIN fn.code : \/ g.code[b] = fn.code[b]
                                   \/ \E v, ty : g.code[b] = <<TypedPhi(v, ty)>> \o fn.code[b]
  <2>1. DOMAIN fn = {"code", "values"}
    BY <1>1, FunctionFacts
  <2>. HIDE DEF M, slotTy
  <2> QED
    BY <2>1
<1>. HIDE DEF g, M, slotTy
<1>4. SameFlow(g, fn)
  BY <1>1, <1>3, PhisKeepFlow
<1> QED
  BY <1>1, <1>2, <1>4, EditStep

(* The renaming walk begins. *)
LEMMA StartRenameStep == ASSUME OptInv, StartRename PROVE OptInv'
<1>1. UNCHANGED <<prog, cur, an, slots>> /\ pc = "place" /\ pc' = "rename"
  BY DEF StartRename
<1> QED
  BY <1>1, QuietStep

(* It goes down and up the dominator tree and edits nothing. *)
LEMMA WalkStep == ASSUME OptInv, Descend \/ Leave PROVE OptInv'
<1>1. UNCHANGED <<prog, cur, an, slots>> /\ pc = "rename" /\ pc' = "rename"
  BY DEF Descend, Leave
<1> QED
  BY <1>1, QuietStep

(* What the renaming walk takes out is a load or a store. *)
LEMMA AccessFound ==
  ASSUME WellShaped, NextAccess # 0
  PROVE  Here \in BlocksOf(fn) => /\ NextAccess \in DOMAIN fn.code[Here]
                                  /\ ~ IsTerminator(fn.code[Here][NextAccess].op)
<1> SUFFICES ASSUME Here \in BlocksOf(fn)
             PROVE  /\ NextAccess \in DOMAIN fn.code[Here]
                    /\ ~ IsTerminator(fn.code[Here][NextAccess].op)
  OBVIOUS
<1> DEFINE c == fn.code[Here]
           T == {k \in 1 .. Len(c) : IsPromotedAccess(c[k])}
           n == NextAccess
<1>1. IsSeq(c)
  BY CurIn, FunctionFacts, BlockFacts
<1>2. n = IF T # {} THEN Min(T) ELSE 0
  BY DEF NextAccess, SelectInSeq
<1>3. T = {k \in 1 .. Len(c) : k \in T}
  OBVIOUS
<1>4. \A k \in T : ~ IsTerminator(c[k].op)
  BY DEF IsPromotedAccess, IsTerminator
<1>5. n # 0
  OBVIOUS
<1>. HIDE DEF c, T, n
<1>6. n \in T /\ n \in DOMAIN c
  BY <1>1, <1>2, <1>3, <1>5, FoundAt
<1> QED
  BY <1>4, <1>6 DEF c, n

(* A load goes; a zero may have to come. *)
LEMMA RenameLoadStep == ASSUME OptInv, RenameLoad PROVE OptInv'
<1> DEFINE b == Here
           k == NextAccess
           j == SlotIndex(fn.code[b][k].args[1])
           f == RemoveSite(fn, <<b, k>>)
           g == WithZeros(f, {j})
<1>1. /\ WellShaped /\ IsFunction(fn) /\ pc = "rename" /\ IsSeq(slots)
      /\ b \in BlocksOf(fn) => k \in DOMAIN fn.code[b] /\ ~ IsTerminator(fn.code[b][k].op)
  BY CurIn, AccessFound DEF OptInv, RenameLoad, WellShaped
<1>2. Replace(g) /\ UNCHANGED <<cur, an, pc, slots>>
  BY DEF RenameLoad
<1>. HIDE DEF b, k, j
<1>3. SameFlow(f, fn)
  BY <1>1, SiteRemoved
<1>. HIDE DEF f
<1>4. SameFlow(g, f)
  BY <1>1, <1>3, ZerosKeepFlow DEF SameFlow
<1>. HIDE DEF g
<1>5. SameFlow(g, fn)
  BY <1>3, <1>4, SameFlowTwice
<1> QED
  BY <1>1, <1>2, <1>5, EditStep

(* A store goes. *)
LEMMA RenameStoreStep == ASSUME OptInv, RenameStore PROVE OptInv'
<1> DEFINE b == Here
           k == NextAccess
           f == RemoveSite(fn, <<b, k>>)
<1>1. /\ IsFunction(fn) /\ pc = "rename"
      /\ b \in BlocksOf(fn) => k \in DOMAIN fn.code[b] /\ ~ IsTerminator(fn.code[b][k].op)
  BY CurIn, AccessFound DEF OptInv, RenameStore
<1>2. Replace(f) /\ UNCHANGED <<cur, an, pc, slots>>
  BY DEF RenameStore
<1>. HIDE DEF b, k
<1>3. SameFlow(f, fn)
  BY <1>1, SiteRemoved
<1>. HIDE DEF f
<1> QED
  BY <1>1, <1>2, <1>3, EditStep

(* The phis of the successors get an argument. *)
LEMMA FillSuccessorsStep == ASSUME OptInv, FillSuccessors PROVE OptInv'
<1> DEFINE succ == Successors(fn, Here)
           J    == {j \in DOMAIN slots : \E t \in succ : phiOf[j][t] # NoValue}
           arriving(j) == IF stack[j] # <<>> THEN Last(stack[j]) ELSE ZerosAfter(fn, J)[j]
           Filled(i) ==
             LET j == CHOOSE k \in J : \E t \in succ : phiOf[k][t] = i.dst
             IN IF i.op = "phi" /\ \E k \in J, t \in succ : phiOf[k][t] = i.dst
                  THEN [i EXCEPT !.args = Append(@, arriving(j)), !.from = Append(@, Here)]
                  ELSE i
           f == EditInstrs(fn, Filled)
           g == WithZeros(f, J)
<1>1. WellShaped /\ IsFunction(fn) /\ pc = "rename" /\ IsSeq(slots)
  BY CurIn DEF OptInv, FillSuccessors, WellShaped
<1>2. Replace(g) /\ UNCHANGED <<cur, an, pc, slots>>
  BY DEF FillSuccessors
<1>3. ASSUME NEW i PROVE Touched(Filled(i), i)
  <2>1. CASE Filled(i) = i
    BY <2>1 DEF Touched, IsInstr
  <2>2. CASE Filled(i) # i
    <3>1. \E x, y : Filled(i) = [i EXCEPT !.args = x, !.from = y]
      <4>. HIDE DEF succ, J, arriving
      <4> QED
        BY <2>2
    <3>. HIDE DEF Filled
    <3>2. PICK x, y : Filled(i) = [i EXCEPT !.args = x, !.from = y]
      BY <3>1
    <3> QED
      BY <3>2 DEF Touched, IsInstr, InstrFields
  <2> QED
    BY <2>1, <2>2
<1>. HIDE DEF Filled, J, succ
<1>4. /\ DOMAIN f = {"code", "values"}
      /\ f.code = [b \in DOMAIN fn.code |-> f.code[b]]
      /\ \A b \in DOMAIN fn.code : f.code[b] = [k \in DOMAIN fn.code[b] |-> f.code[b][k]]
      /\ \A b \in DOMAIN fn.code : \A k \in DOMAIN fn.code[b] : f.code[b][k] = Filled(fn.code[b][k])
  BY <1>1, FunctionFacts DEF EditInstrs
<1>. HIDE DEF f
<1>5. SameSlots(f, fn) /\ AllTouched(f, fn)
  BY <1>3, <1>4 DEF SameSlots, AllTouched
<1>6. SameFlow(f, fn)
  BY <1>1, <1>5, Retouched
<1>7. SameFlow(g, f)
  BY <1>1, <1>6, ZerosKeepFlow DEF SameFlow
<1>. HIDE DEF g
<1>8. SameFlow(g, fn)
  BY <1>6, <1>7, SameFlowTwice
<1> QED
  BY <1>1, <1>2, <1>8, EditStep

(* resolve, and the allocas of the promoted slots go: the instructions    *)
(* with a slot as their result, which no terminator has.                  *)
LEMMA ApplyReplacementsStep == ASSUME OptInv, ApplyReplacements PROVE OptInv'
<1> DEFINE Resolved(i) == [i EXCEPT !.args = [a \in DOMAIN @ |-> Resolve(@[a])]]
           f == EditInstrs(fn, Resolved)
           c == f.code[EntryBlock]
           K == {k \in DOMAIN c : c[k].dst \notin Range(slots)}
           g == [f EXCEPT !.code[EntryBlock] = KeptAt(@, {k \in DOMAIN @ : @[k].dst \notin Range(slots)})]
<1>1. IsFunction(fn) /\ pc = "rename" /\ NoValue \notin Range(slots)
  BY CurIn DEF OptInv, ApplyReplacements, WellShaped
<1>2. Replace(g) /\ pc' = "built" /\ cur' = cur /\ an' = an /\ slots' = slots
  BY DEF ApplyReplacements, ssaVars
<1>3. ASSUME NEW i PROVE Touched(Resolved(i), i)
  BY DEF Touched, IsInstr, InstrFields
<1>. HIDE DEF Resolved
<1>4. /\ DOMAIN f = {"code", "values"}
      /\ f.code = [b \in DOMAIN fn.code |-> f.code[b]]
      /\ \A b \in DOMAIN fn.code : f.code[b] = [k \in DOMAIN fn.code[b] |-> f.code[b][k]]
      /\ \A b \in DOMAIN fn.code : \A k \in DOMAIN fn.code[b] : f.code[b][k] = Resolved(fn.code[b][k])
  BY <1>1, FunctionFacts DEF EditInstrs
<1>5. /\ DOMAIN g = {"code", "values"}
      /\ g.code = [f.code EXCEPT ![EntryBlock] = KeptAt(c, K)]
  BY <1>4
<1>. HIDE DEF f
<1>6. SameSlots(f, fn) /\ AllTouched(f, fn)
  BY <1>3, <1>4 DEF SameSlots, AllTouched
<1>7. SameFlow(f, fn)
  BY <1>1, <1>6, Retouched
<1>. HIDE DEF g
<1>8. IsFunction(f) /\ IsBlock(c)
  BY <1>7, EntryIsBlock DEF SameFlow
<1>9. \A k \in DOMAIN c : IsTerminator(c[k].op) => k \in K
  <2>1. \A k \in DOMAIN c : IsInstr(c[k])
    BY <1>8, BlockFacts
  <2> QED
    BY <1>1, <2>1 DEF IsInstr
<1>. HIDE DEF c, K
<1>10. IsBlock(KeptAt(c, K)) /\ Goes(KeptAt(c, K)) = Goes(c)
  BY <1>8, <1>9, Thinned
<1>11. SameFlow(g, f)
  <2>1. Goes(c) = Goes(f.code[EntryBlock])
    BY DEF c
  <2> QED
    BY <1>5, <1>8, <1>10, <2>1, OneBlock
<1>12. SameFlow(g, fn)
  BY <1>7, <1>11, SameFlowTwice
<1> QED
  BY <1>1, <1>2, <1>12, EditingStep

(* Promotion, step by step. *)
LEMMA BuildSsaStep == ASSUME OptInv, BuildSsa PROVE OptInv'
BY AnalyseStep, PromoteStep, PlacePhisStep, StartRenameStep, WalkStep, RenameLoadStep,
   RenameStoreStep, FillSuccessorsStep, ApplyReplacementsStep DEF BuildSsa, SsaNext

(* On to the next function, which promotion has not touched. *)
LEMMA FinishSsaStep == ASSUME OptInv, FinishSsa PROVE OptInv'
<1> DEFINE f == DropUnreachable(fn)
<1>1. WellShaped /\ IsFunction(f) /\ cur \in DOMAIN prog /\ pc = "built"
  BY CurIn, DroppedUnreachable DEF OptInv, FinishSsa
<1>2. Replace(f)
  BY DEF FinishSsa, RefreshFn
<1>3. \/ cur < Len(prog) /\ cur' = cur + 1 /\ pc' = "analyse"
      \/ cur' = 1 /\ pc' \in {"done", "callers"}
  BY DEF FinishSsa
<1>. HIDE DEF f
<1>4. /\ IsSeq(prog') /\ DOMAIN prog' = DOMAIN prog
      /\ \A k \in DOMAIN prog : IsFunction(prog'[k]) /\ (k # cur => prog'[k] = prog[k])
  BY <1>1, <1>2, FnReplaced
<1>5. DOMAIN prog = 1 .. Len(prog) /\ Len(prog) \in Nat
  BY <1>1, SeqFacts DEF WellShaped
<1>6. cur' \in DOMAIN prog
  BY <1>1, <1>3, <1>5
<1>7. ASSUME pc' = "analyse", NEW k \in DOMAIN prog, Unpromoted(k)' PROVE SlotsNamed(prog'[k])
  <2>1. cur < k /\ k # cur
    BY <1>1, <1>3, <1>5, <1>7 DEF Unpromoted
  <2>2. SlotsNamed(prog[k])
    BY <1>1, <2>1 DEF WellShaped, Promoting, Unpromoted
  <2> QED
    BY <1>4, <2>1, <2>2
<1>8. WellShaped'
  BY <1>3, <1>4, <1>6, <1>7 DEF WellShaped, Promoting
<1>9. AnalysesCurrent'
  BY <1>3 DEF AnalysesCurrent
<1> QED
  BY <1>8, <1>9 DEF OptInv

-----------------------------------------------------------------------------
(* Inlining *)

(* The caller as each sweep of opt_inline begins with it. *)
LEMMA SweptFacts ==
  ASSUME WellShaped
  PROVE  /\ DOMAIN Swept = DOMAIN prog /\ cur \in DOMAIN prog
         /\ Swept[cur] = DropUnreachable(fn) /\ IsFunction(Swept[cur])
<1>1. cur \in DOMAIN prog /\ IsFunction(fn)
  BY CurIn
<1>2. DOMAIN Swept = DOMAIN prog /\ Swept[cur] = DropUnreachable(fn)
  BY <1>1 DEF Swept, fn
<1> QED
  BY <1>1, <1>2, DroppedUnreachable

(* A call is inlined: the callee is a function of the program. *)
LEMMA InlineNextStep == ASSUME OptInv, InlineNext PROVE OptInv'
<1> DEFINE f == Swept[cur]
           s == NextSite
           i == InstrAt(f, s)
           S == InlineSites(Swept, cur, budget)
           C == CalleeOf(Swept, f, i)
<1>1. WellShaped /\ pc = "inline" /\ S # {}
      /\ Replace(InlineAt(f, s, prog[NextCallee])) /\ cur' = cur /\ pc' = pc
  BY DEF OptInv, InlineNext
<1>2. DOMAIN Swept = DOMAIN prog /\ cur \in DOMAIN prog /\ IsFunction(f)
  BY <1>1, SweptFacts
<1>3. S \subseteq Sites(f)
  BY DEF InlineSites
<1>4. \A t \in S : t \in Nat \X Nat
  BY <1>2, <1>3, SiteFacts
<1>5. s \in S
  <2>1. s = FirstOf(S)
    BY DEF NextSite
  <2>. HIDE DEF S, s
  <2>2. S \subseteq Nat \X Nat
    BY <1>4
  <2> QED
    BY <1>1, <2>1, <2>2, FirstOfIn
<1>6. CanInline(Swept, cur, s, budget)
  BY <1>5 DEF InlineSites
<1>7. C # {}
  BY <1>6 DEF CanInline
<1>8. NextCallee \in C
  BY <1>7 DEF NextCallee
<1>9. i.op = "call" /\ NextCallee \in DOMAIN Swept
  BY <1>8 DEF CalleeOf
<1>10. IsFunction(prog[NextCallee])
  BY <1>1, <1>2, <1>9 DEF WellShaped, Promoting
<1>11. s \in Sites(f) /\ ~ IsTerminator(InstrAt(f, s).op)
  BY <1>3, <1>5, <1>9 DEF IsTerminator
<1>. HIDE DEF f, s
<1>12. IsFunction(InlineAt(f, s, prog[NextCallee]))
  BY <1>2, <1>10, <1>11, CallInlined
<1> QED
  BY <1>1, <1>2, <1>12, ShapeStep

(* On to the next caller. *)
LEMMA EndInlineStep == ASSUME OptInv, EndInline PROVE OptInv'
<1> DEFINE f == IF budget > 0 THEN Swept[cur] ELSE fn
<1>1. WellShaped /\ Replace(f)
      /\ \/ cur < Len(prog) /\ cur' = cur + 1 /\ pc' = "callers"
         \/ cur' = 1 /\ pc' = "round"
  BY DEF OptInv, EndInline
<1>2. IsFunction(f) /\ cur \in DOMAIN prog
  BY <1>1, CurIn, SweptFacts
<1>3. cur' \in DOMAIN prog
  <2>1. DOMAIN prog = 1 .. Len(prog) /\ Len(prog) \in Nat
    BY <1>1, SeqFacts DEF WellShaped
  <2> QED
    BY <1>1, <1>2, <2>1
<1>. HIDE DEF f
<1> QED
  BY <1>1, <1>2, <1>3, ShapeStep

-----------------------------------------------------------------------------
(* The passes of a round *)

(* What a pass takes next is one of its sites. *)
LEMMA FirstFromCursor ==
  ASSUME WellShaped, NEW S, S \subseteq Sites(fn), FromCursor(S) # {}
  PROVE  FirstOf(FromCursor(S)) \in S
<1>1. FromCursor(S) \subseteq S
  BY DEF FromCursor
<1>2. FromCursor(S) \subseteq Nat \X Nat
  BY <1>1, CurIn
<1>3. FirstOf(FromCursor(S)) \in FromCursor(S)
  BY <1>2, FirstOfIn
<1> QED
  BY <1>1, <1>3

(* The rewrites that run on analyses that wait. *)
LEMMA FoldNextStep == ASSUME OptInv, FoldNext PROVE OptInv'
<1> DEFINE s == FirstOf(FromCursor(FoldSites))
<1>1. WellShaped /\ IsFunction(fn) /\ pc = "fold" /\ FromCursor(FoldSites) # {}
      /\ UNCHANGED <<cur, an, pc, slots>>
  BY CurIn DEF OptInv, FoldNext, ssaVars
<1>2. PICK f \in FoldAt(fn, s) : Replace(f)
  BY DEF FoldNext
<1>3. FoldSites \subseteq Sites(fn)
  BY DEF FoldSites
<1>4. s \in Sites(fn)
  BY <1>1, <1>3, FirstFromCursor
<1>. HIDE DEF s
<1>5. SameFlow(f, fn)
  BY <1>1, <1>2, <1>4, FoldKeepsFlow
<1> QED
  BY <1>1, <1>2, <1>5, EditStep

LEMMA PropagateNextStep == ASSUME OptInv, PropagateNext PROVE OptInv'
<1> DEFINE s == FirstOf(FromCursor(CopySites(fn, an)))
<1>1. WellShaped /\ IsFunction(fn) /\ pc = "copies" /\ FromCursor(CopySites(fn, an)) # {}
      /\ Replace(PropagateAt(fn, s)) /\ UNCHANGED <<cur, an, pc, slots>>
  BY CurIn DEF OptInv, PropagateNext, ssaVars
<1>2. CopySites(fn, an) \subseteq Sites(fn)
  BY DEF CopySites
<1>3. s \in CopySites(fn, an)
  BY <1>1, <1>2, FirstFromCursor
<1>. HIDE DEF s
<1>4. SameFlow(PropagateAt(fn, s), fn)
  BY <1>1, <1>3, PropagateKeepsFlow
<1> QED
  BY <1>1, <1>4, EditStep

LEMMA SweepDeadStep == ASSUME OptInv, SweepDead PROVE OptInv'
<1>1. IsFunction(fn) /\ pc = "dce" /\ Replace(Sweep(fn, an)) /\ UNCHANGED <<cur, an, pc, slots>>
  BY CurIn DEF OptInv, SweepDead, ssaVars
<1> QED
  BY <1>1, SweepKeepsFlow, EditStep

LEMMA ShareNextStep == ASSUME OptInv, ShareNext PROVE OptInv'
<1> DEFINE s == FirstOf(SharedSites)
<1>1. WellShaped /\ IsFunction(fn) /\ pc = "cse" /\ SharedSites # {}
      /\ Replace(ShareAt(fn, an, s)) /\ UNCHANGED <<cur, an, pc, slots>>
  BY CurIn DEF OptInv, ShareNext, ssaVars
<1>2. SharedSites \subseteq Sites(fn)
  BY DEF SharedSites
<1>3. s \in SharedSites
  BY <1>1, <1>2, CurIn, FirstOfIn
<1>4. s \in Sites(fn) /\ Matches(fn, an, s) # {}
  BY <1>3 DEF SharedSites
<1>. HIDE DEF s
<1>5. SameFlow(ShareAt(fn, an, s), fn)
  BY <1>1, <1>4, ShareKeepsFlow
<1> QED
  BY <1>1, <1>5, EditStep

LEMMA HoistNextStep == ASSUME OptInv, HoistNext PROVE OptInv'
<1> DEFINE s == FirstOf(FromCursor(Hoistable))
           h == Head(work)
<1>1. WellShaped /\ IsFunction(fn) /\ pc = "licm" /\ FromCursor(Hoistable) # {}
      /\ Replace(HoistAt(fn, an, h, s)) /\ UNCHANGED <<cur, an, pc, slots>>
  BY CurIn DEF OptInv, HoistNext, ssaVars
<1>2. Hoistable \subseteq Sites(fn)
  BY DEF Hoistable, InvariantSites
<1>3. s \in Hoistable
  BY <1>1, <1>2, FirstFromCursor
<1>4. HasTarget(fn, an, h) /\ s \in InvariantSites(fn, an, h)
  BY <1>3 DEF Hoistable
<1>. HIDE DEF s, h
<1>5. SameFlow(HoistAt(fn, an, h, s), fn)
  BY <1>1, <1>4, HoistKeepsFlow
<1> QED
  BY <1>1, <1>5, EditStep

(* The rewrites after which the analyses are stale. *)
LEMMA LoopTailCallsStep == ASSUME OptInv, LoopTailCalls PROVE OptInv'
<1>1. IsFunction(fn) /\ cur \in DOMAIN prog /\ cur' = cur /\ pc' = "straighten"
      /\ Replace(LoopInsteadOfCalls(fn, an, cur))
  BY CurIn DEF OptInv, LoopTailCalls
<1>2. IsFunction(LoopInsteadOfCalls(fn, an, cur))
  BY <1>1, CallsLooped
<1> QED
  BY <1>1, <1>2, ShapeStep

LEMMA StraightenBranchesStep == ASSUME OptInv, StraightenBranches PROVE OptInv'
<1> DEFINE f == Straighten(fn, an)
<1>1. IsFunction(f) /\ cur \in DOMAIN prog /\ cur' = cur /\ pc' = "merge"
  BY CurIn, Straightened DEF OptInv, StraightenBranches
<1>2. PICK a : Replace(FixPhis(DropUnreachable(f), a))
  BY DEF StraightenBranches, Rederive
<1>. HIDE DEF f
<1>3. IsFunction(FixPhis(DropUnreachable(f), a))
  BY <1>1, Rederived
<1> QED
  BY <1>1, <1>2, <1>3, ShapeStep

LEMMA MergeNextStep == ASSUME OptInv, MergeNext PROVE OptInv'
<1>1. IsFunction(fn) /\ cur \in DOMAIN prog /\ cur' = cur /\ pc' = pc /\ pc = "merge"
  BY CurIn DEF OptInv, MergeNext
<1>2. PICK b, c : c \in MergeTargets(fn, an, b) /\ Replace(Absorb(fn, b, c))
  BY DEF MergeNext
<1>3. IsFunction(Absorb(fn, b, c))
  BY <1>1, <1>2, Absorbed
<1> QED
  BY <1>1, <1>2, <1>3, ShapeStep

LEMMA EndMergeStep == ASSUME OptInv, EndMerge PROVE OptInv'
<1>1. IsFunction(fn) /\ cur \in DOMAIN prog /\ cur' = cur /\ pc' = "check"
  BY CurIn DEF OptInv, EndMerge
<1>2. PICK a : Replace(FixPhis(DropUnreachable(fn), a))
  BY DEF EndMerge, Rederive
<1>3. IsFunction(FixPhis(DropUnreachable(fn), a))
  BY <1>1, Rederived
<1> QED
  BY <1>1, <1>2, <1>3, ShapeStep

(* On to the next function. *)
LEMMA NextFunctionStep == ASSUME OptInv, NextFunction PROVE OptInv'
<1>1. WellShaped /\ prog' = prog /\ cur \in DOMAIN prog
      /\ \/ cur < Len(prog) /\ cur' = cur + 1 /\ pc' = "round"
         \/ cur' = cur /\ pc' = "done"
  BY CurIn DEF OptInv, NextFunction
<1>2. cur' \in DOMAIN prog
  <2>1. DOMAIN prog = 1 .. Len(prog) /\ Len(prog) \in Nat
    BY <1>1, SeqFacts DEF WellShaped
  <2> QED
    BY <1>1, <2>1
<1>3. WellShaped'
  BY <1>1, <1>2 DEF WellShaped, Promoting
<1>4. AnalysesCurrent'
  BY <1>1 DEF AnalysesCurrent
<1> QED
  BY <1>3, <1>4 DEF OptInv

(* refresh() at the ends of the passes. *)
LEMMA RefreshingStep ==
  ASSUME OptInv, StartRound \/ EndDce \/ EndCse \/ EndLicm \/ CheckRound
  PROVE  OptInv'
<1>1. RefreshFn /\ cur' = cur
  BY DEF StartRound, EndDce, EndCse, EndLicm, CheckRound
<1>2. pc' \in {"fold", "cse", "licm", "tail", "round", "next"}
  BY DEF StartRound, EndDce, EndCse, EndLicm, CheckRound
<1> QED
  BY <1>1, <1>2, RefreshStep

(* The decisions of the driver that edit nothing. *)
LEMMA WaitingStep ==
  ASSUME OptInv, \/ StartCaller \/ EndFold \/ EndCopies \/ VisitChildren \/ EndLoop
                 \/ NoTailCalls \/ Terminating
  PROVE  OptInv'
<1>1. UNCHANGED <<prog, cur, an>>
  BY DEF StartCaller, EndFold, EndCopies, VisitChildren, EndLoop, NoTailCalls, Terminating, vars
<1>2. \/ pc \in {"callers", "done", "tail"} /\ pc' \in {"inline", "done", "straighten"}
      \/ pc \in {"fold", "copies", "cse", "licm"} /\ pc' \in {"copies", "dce", "cse", "licm"}
  BY DEF StartCaller, EndFold, EndCopies, VisitChildren, EndLoop, NoTailCalls, Terminating, vars
<1> QED
  BY <1>1, <1>2, QuietStep

-----------------------------------------------------------------------------
(* The whole *)

(* Every step keeps the invariant. *)
LEMMA NextKeeps == ASSUME OptInv, [Next]_vars PROVE OptInv'
<1>1. CASE UNCHANGED vars
  <2>1. UNCHANGED <<prog, cur, an, pc, slots>>
    BY <1>1 DEF vars, ssaVars
  <2> QED
    BY <2>1 DEF OptInv, WellShaped, Promoting, AnalysesCurrent, Unpromoted, fn
<1>2. CASE Next
  BY <1>2, BuildSsaStep, FinishSsaStep, InlineNextStep, EndInlineStep, FoldNextStep,
     PropagateNextStep, SweepDeadStep, ShareNextStep, HoistNextStep, LoopTailCallsStep,
     StraightenBranchesStep, MergeNextStep, EndMergeStep, NextFunctionStep, RefreshingStep,
     WaitingStep DEF Next
<1> QED
  BY <1>1, <1>2

(* What lowering hands over has the shape. *)
LEMMA InitKeeps == ASSUME Init PROVE OptInv
<1>1. prog \in Programs /\ cur = 1 /\ pc = "analyse"
  BY DEF Init, SsaInit
<1>2. /\ IsSeq(prog) /\ prog # <<>>
      /\ \A k \in DOMAIN prog : IsFunction(prog[k]) /\ SlotsNamed(prog[k])
  BY <1>1, ProgramsLowered DEF AsLowered
<1>3. 1 \in DOMAIN prog
  <2>1. DOMAIN prog = 1 .. Len(prog) /\ Len(prog) \in Nat /\ Len(prog) # 0
    BY <1>2, SeqFacts, EmptyList
  <2> QED
    BY <2>1
<1> QED
  BY <1>1, <1>2, <1>3 DEF OptInv, WellShaped, Promoting, AnalysesCurrent

(* At every step of every compilation, each function has the shape the    *)
(* walks of the passes rely on, and the analyses a pass reads are those   *)
(* of the function as it is.                                              *)
THEOREM OptInvariance == Spec => []OptInv
<1>1. Init => OptInv
  BY InitKeeps
<1>2. OptInv /\ [Next]_vars => OptInv'
  BY NextKeeps
<1> QED
  BY <1>1, <1>2, PTL DEF Spec

(* "A stale dominator tree is a wrong answer" (opt.c): for any programs   *)
(* of that shape, any level and any bounds, no pass reads analyses that   *)
(* its own or an earlier edit has made stale.                             *)
THEOREM AnalysesStayCurrent == Spec => []AnalysesCurrent
<1>1. OptInv => AnalysesCurrent
  BY DEF OptInv
<1> QED
  BY <1>1, OptInvariance, PTL

(* What the passes read is dominance: wherever a pass asks which block     *)
(* dominates which, which blocks lead to one or where a definition has to  *)
(* meet others, the answer is the one the definitions at the top of dom.c  *)
(* give for the function as it is.  (That ir_compute_dominators computes   *)
(* those answers is DominanceExact and FrontiersExact.)                    *)
THEOREM PassesReadDominance ==
  Spec => [](pc \in {"promote", "place", "rename", "fold", "copies", "dce", "cse", "licm", "tail"}
               => TellsDominance(an, fn))
<1>1. OptInv => (pc \in {"promote", "place", "rename", "fold", "copies", "dce", "cse", "licm", "tail"}
                   => TellsDominance(an, fn))
  <2> SUFFICES ASSUME OptInv,
                      pc \in {"promote", "place", "rename", "fold", "copies", "dce", "cse", "licm", "tail"}
               PROVE  TellsDominance(an, fn)
    OBVIOUS
  <2>1. an = Analyses(fn)
    BY DEF OptInv, AnalysesCurrent
  <2>2. IsFunction(fn)
    BY DEF OptInv, WellShaped, fn
  <2> QED
    BY <2>1, <2>2, AnalysesTell
<1> QED
  BY <1>1, OptInvariance, PTL

-----------------------------------------------------------------------------
(* Reading one value instead of another. *)
LEMMA UsesRenumbered ==
  ASSUME NEW f, IsFunction(f), Numbered(f), NEW v, NEW w \in 1 .. f.values
  PROVE  /\ Numbered(ReplaceUses(f, v, w)) /\ ReplaceUses(f, v, w).values = f.values
         /\ \A b \in DOMAIN f.code : \A k \in DOMAIN f.code[b] :
              ReplaceUses(f, v, w).code[b][k].dst = f.code[b][k].dst
<1> DEFINE g == ReplaceUses(f, v, w)
           u(b, k) == [a \in DOMAIN f.code[b][k].args |->
                         IF f.code[b][k].args[a] = v THEN w ELSE f.code[b][k].args[a]]
           X(b, k) == [f.code[b][k] EXCEPT !.args = u(b, k)]
<1>1. /\ DOMAIN g = {"code", "values"} /\ g.values = f.values
      /\ g.code = [b \in DOMAIN f.code |-> [k \in DOMAIN f.code[b] |-> X(b, k)]]
  BY FunctionFacts DEF ReplaceUses, EditInstrs
<1>2. ASSUME NEW b \in DOMAIN f.code, NEW k \in DOMAIN f.code[b], NEW a \in DOMAIN f.code[b][k].args
      PROVE  u(b, k)[a] \in 1 .. f.values
  <2>1. f.code[b][k].args[a] \in 1 .. f.values
    BY InstrIsNumbered DEF IsNumbered, Range
  <2> QED
    BY <2>1
<1>3. ASSUME NEW b \in DOMAIN f.code, NEW k \in DOMAIN f.code[b]
      PROVE  Rereads(X(b, k), f.code[b][k], f.values)
  <2>1. u(b, k) = [a \in DOMAIN f.code[b][k].args |-> u(b, k)[a]]
    OBVIOUS
  <2>2. \A a \in DOMAIN f.code[b][k].args : u(b, k)[a] \in 1 .. f.values
    BY <1>2
  <2> DEFINE i == f.code[b][k]
             t == u(b, k)
             x == X(b, k)
  <2>3. t = [a \in DOMAIN i.args |-> t[a]] /\ \A a \in DOMAIN i.args : t[a] \in 1 .. f.values
    BY <2>1, <2>2
  <2>4. x = [i EXCEPT !.args = t]
    OBVIOUS
  <2>. HIDE DEF t, i, x
  <2>5. Rereads(x, i, f.values)
    BY <2>3, <2>4 DEF Rereads
  <2> QED
    BY <2>5 DEF x, t, i
<1>. HIDE DEF u, X, g
<1>4. SameSlots(g, f)
  BY <1>1 DEF SameSlots
<1>5. \A b \in DOMAIN f.code : \A k \in DOMAIN f.code[b] :
        Rereads(g.code[b][k], f.code[b][k], g.values)
  BY <1>1, <1>3
<1>6. f.values \in Nat /\ g.values \in Nat /\ f.values <= g.values
  BY <1>1, NumberedFacts
<1>7. /\ Numbered(g)
      /\ \A b \in DOMAIN f.code : \A k \in DOMAIN f.code[b] : g.code[b][k].dst = f.code[b][k].dst
  BY <1>4, <1>5, <1>6, OperandsEdited
<1> QED
  BY <1>1, <1>7 DEF g

(* An instruction goes. *)
LEMMA RemovedNumbered ==
  ASSUME NEW f, IsFunction(f), Numbered(f), NEW b \in DOMAIN f.code, NEW k \in DOMAIN f.code[b]
  PROVE  /\ Numbered(RemoveSite(f, <<b, k>>)) /\ RemoveSite(f, <<b, k>>).values = f.values
         /\ Defs(RemoveSite(f, <<b, k>>).code[b]) \subseteq Defs(f.code[b]) \ {f.code[b][k].dst}
<1> DEFINE g == RemoveSite(f, <<b, k>>)
           c == f.code[b]
           d == RemoveAt(c, k)
<1>1. g.values = f.values /\ g.code = [f.code EXCEPT ![b] = d]
  BY FunctionFacts DEF RemoveSite
<1>2. /\ f.values \in Nat
      /\ \A x \in DOMAIN f.code : Fine(f.code[x], f.values)
  BY NumberedFacts
<1>3. Fine(c, f.values) /\ k \in DOMAIN c
  BY <1>2
<1>. HIDE DEF c, g
<1>4. Fine(d, f.values) /\ Defs(d) \subseteq Defs(c) \ {c[k].dst}
  BY <1>3, FineRemoved
<1>. HIDE DEF d
<1>5. \A x \in DOMAIN g.code : /\ x \in DOMAIN f.code
                               /\ Fine(g.code[x], g.values)
                               /\ Defs(g.code[x]) \subseteq Defs(f.code[x])
  BY <1>1, <1>2, <1>4 DEF c
<1>6. Numbered(g)
  BY <1>1, <1>2, <1>5, NumberedWithin
<1>7. g.code[b] = d
  BY <1>1
<1> QED
  BY <1>1, <1>4, <1>6, <1>7 DEF g, c

(* Both: what an instruction defined is read no more, and it goes. *)
LEMMA ReplacedNumbered ==
  ASSUME NEW f, IsFunction(f), Numbered(f), NEW s \in Sites(f), NEW v, NEW w \in 1 .. f.values
  PROVE  /\ Numbered(RemoveSite(ReplaceUses(f, v, w), s))
         /\ RemoveSite(ReplaceUses(f, v, w), s).values = f.values
<1> DEFINE g == ReplaceUses(f, v, w)
           b == s[1]
           k == s[2]
<1>1. s = <<b, k>> /\ b \in DOMAIN f.code /\ k \in DOMAIN f.code[b]
  BY SiteFacts
<1>2. /\ SameFlow(g, f) /\ DOMAIN g.code = DOMAIN f.code
      /\ \A x \in DOMAIN f.code : DOMAIN g.code[x] = DOMAIN f.code[x]
  BY UsesReplaced
<1>3. Numbered(g) /\ g.values = f.values
  BY UsesRenumbered
<1>. HIDE DEF g, b, k
<1>4. IsFunction(g) /\ b \in DOMAIN g.code /\ k \in DOMAIN g.code[b]
  BY <1>1, <1>2 DEF SameFlow
<1>5. Numbered(RemoveSite(g, <<b, k>>)) /\ RemoveSite(g, <<b, k>>).values = g.values
  BY <1>3, <1>4, RemovedNumbered
<1> QED
  BY <1>1, <1>3, <1>5 DEF g

(* opt_copies: what a copy passes on is one of its operands. *)
LEMMA PropagateKeepsNumbers ==
  ASSUME NEW f, IsFunction(f), Numbered(f), NEW a, NEW s \in CopySites(f, a)
  PROVE  Numbered(PropagateAt(f, s)) /\ PropagateAt(f, s).values = f.values
<1> DEFINE i == InstrAt(f, s)
           v == CHOOSE w \in CopyOf(i) : TRUE
<1>1. s \in Sites(f) /\ CopyOf(i) # {}
  BY DEF CopySites
<1>2. IsNumbered(i, f.values)
  BY <1>1, InstrIsNumbered
<1>. HIDE DEF i
<1>3. i.op = "copy" => 1 \in DOMAIN i.args
  <2> SUFFICES ASSUME i.op = "copy" PROVE 1 \in DOMAIN i.args
    OBVIOUS
  <2>1. Len(i.args) = 1
    BY <1>2 DEF IsNumbered, RequiredArgs
  <2> QED
    BY <1>2, <2>1, SeqFacts DEF IsNumbered
<1>4. CopyOf(i) \subseteq Range(i.args)
  BY <1>3 DEF CopyOf, TrivialPhiValue, Range
<1>5. v \in 1 .. f.values
  BY <1>1, <1>2, <1>4 DEF IsNumbered
<1>6. PropagateAt(f, s) = RemoveSite(ReplaceUses(f, i.dst, v), s)
  BY DEF PropagateAt, i
<1>. HIDE DEF v
<1> QED
  BY <1>1, <1>5, <1>6, ReplacedNumbered

(* opt_dce *)
LEMMA SweepKeepsNumbers ==
  ASSUME NEW f, IsFunction(f), Numbered(f), NEW a
  PROVE  Numbered(Sweep(f, a)) /\ Sweep(f, a).values = f.values
<1> DEFINE g == Sweep(f, a)
           K(b) == {k \in DOMAIN f.code[b] : <<b, k>> \notin DeadSites(f, a)}
<1>1. /\ g.values = f.values
      /\ g.code = [b \in DOMAIN f.code |-> KeptAt(f.code[b], K(b))]
  BY FunctionFacts DEF Sweep
<1>. HIDE DEF g, K
<1>2. \A b \in DOMAIN g.code : /\ b \in DOMAIN f.code
                               /\ Fine(g.code[b], g.values)
                               /\ Defs(g.code[b]) \subseteq Defs(f.code[b])
  BY <1>1, NumberedFacts, FineKept
<1>3. g.values \in Nat
  BY <1>1, NumberedFacts
<1> QED
  BY <1>1, <1>2, <1>3, NumberedWithin DEF g

(* ir_analyze_cfg *)
LEMMA DropKeepsNumbers ==
  ASSUME NEW f, IsFunction(f), Numbered(f)
  PROVE  Numbered(DropUnreachable(f)) /\ DropUnreachable(f).values = f.values
<1> DEFINE g == DropUnreachable(f)
<1>1. g.values = f.values /\ DOMAIN g.code = DOMAIN f.code
  BY FunctionFacts DEF DropUnreachable
<1>2. \A b \in DOMAIN f.code : g.code[b] \in {f.code[b], <<>>}
  BY DroppedUnreachable
<1>. HIDE DEF g
<1>3. Fine(<<>>, f.values) /\ Defs(<<>>) = {}
  BY FineNothing
<1>4. \A b \in DOMAIN g.code : /\ b \in DOMAIN f.code
                               /\ Fine(g.code[b], g.values)
                               /\ Defs(g.code[b]) \subseteq Defs(f.code[b])
  BY <1>1, <1>2, <1>3, NumberedFacts
<1>5. g.values \in Nat
  BY <1>1, NumberedFacts
<1> QED
  BY <1>1, <1>4, <1>5, NumberedWithin DEF g

(* What dominates what: every block itself; what dominates a dominator;    *)
(* and of two dominators of a block one dominates the other.               *)
LEMMA DominatorSetsAre ==
  ASSUME NEW f, IsFunction(f), NEW an1, an1 = Analyses(f)
  PROVE  /\ DOMAIN an1.doms = BlocksOf(f) /\ an1.reach \subseteq BlocksOf(f)
         /\ EntryBlock \in an1.reach
         /\ \A b \in BlocksOf(f) : an1.doms[b] \subseteq an1.reach
         /\ \A b \in BlocksOf(f) : b \notin an1.reach => an1.doms[b] = {}
         /\ \A a, b \in an1.reach : a \in an1.doms[b] <=> b \notin ReachedAvoiding(EdgesOf(f), a)
<1> DEFINE edges == EdgesOf(f)
           reach == ReachedBlocks(f)
           avoid == [a \in reach |-> ReachedAvoiding(edges, a)]
<1>1. DOMAIN edges = BlocksOf(f)
  BY DEF EdgesOf
<1>2. /\ an1.reach = reach
      /\ an1.doms = [b \in DOMAIN edges |-> IF b \in reach THEN {a \in reach : b \notin avoid[a]} ELSE {}]
  BY DEF Analyses, AnalysesOn, DominatorSets
<1>3. reach \subseteq BlocksOf(f) /\ EntryBlock \in reach
  <2>1. reach = ReachedAvoiding(edges, 0)
    BY DEF ReachedBlocks
  <2>2. BlocksOf(f) = 1 .. Len(f.code) /\ Len(f.code) \in Nat /\ edges = [b \in BlocksOf(f) |-> Goes(f.code[b])]
    BY FunctionFacts
  <2>3. \A b \in DOMAIN edges : edges[b] \subseteq DOMAIN edges
    BY <2>2, FunctionFacts
  <2>6. IsFiniteSet(1 .. Len(f.code))
    BY <2>2, FS_Interval
  <2>4. IsFiniteSet(DOMAIN edges) /\ EntryBlock \in DOMAIN edges
    BY <1>1, <2>2, <2>6, EntryIsBlock
  <2>. HIDE DEF edges
  <2>5. LET S == ReachedAvoiding(edges, 0) IN S \subseteq DOMAIN edges /\ (EntryBlock # 0 => EntryBlock \in S)
    BY <2>3, <2>4, WalkSettles
  <2> QED
    BY <1>1, <2>1, <2>5 DEF EntryBlock
<1>4. \A a \in reach : avoid[a] = ReachedAvoiding(edges, a)
  OBVIOUS
<1>. HIDE DEF edges, reach, avoid
<1>5. \A b \in BlocksOf(f) : an1.doms[b] = IF b \in reach THEN {a \in reach : b \notin avoid[a]} ELSE {}
  BY <1>1, <1>2
<1> QED
  BY <1>1, <1>2, <1>3, <1>4, <1>5 DEF edges

(* Dominance is reflexive, transitive, and orders what is above a block.   *)
LEMMA DominanceOrders ==
  ASSUME NEW f, IsFunction(f), NEW an1, an1 = Analyses(f)
  PROVE  /\ \A b \in an1.reach : b \in an1.doms[b]
         /\ \A b \in an1.reach : \A m \in an1.doms[b] : an1.doms[m] \subseteq an1.doms[b]
         /\ \A c \in an1.reach : \A a, b \in an1.doms[c] : a \in an1.doms[b] \/ b \in an1.doms[a]
<1> DEFINE edges == EdgesOf(f)
           W(a) == ReachedAvoiding(edges, a)
<1>1. /\ BlocksOf(f) = 1 .. Len(f.code) /\ Len(f.code) \in Nat
      /\ DOMAIN edges = BlocksOf(f) /\ EntryBlock \in DOMAIN edges
      /\ \A b \in DOMAIN edges : edges[b] \subseteq DOMAIN edges
  <2>1. edges = [b \in BlocksOf(f) |-> Goes(f.code[b])] /\ \A b \in BlocksOf(f) : Goes(f.code[b]) \subseteq BlocksOf(f)
    BY FunctionFacts
  <2> QED
    BY <2>1, FunctionFacts, EntryIsBlock
<1>2. IsFiniteSet(DOMAIN edges)
  BY <1>1, FS_Interval
<1>3. /\ an1.reach \subseteq BlocksOf(f) /\ an1.reach = W(0)
      /\ \A b \in BlocksOf(f) : an1.doms[b] \subseteq an1.reach
      /\ \A a, b \in an1.reach : a \in an1.doms[b] <=> b \notin W(a)
  BY DominatorSetsAre DEF Analyses, AnalysesOn, ReachedBlocks
<1>. HIDE DEF edges
<1>4. \A a : /\ EntryBlock # a => EntryBlock \in W(a)
             /\ a \notin W(a) /\ Closed(edges, a, W(a))
             /\ \A U : (EntryBlock # a => EntryBlock \in U) /\ Closed(edges, a, U) => W(a) \subseteq U
  BY <1>1, <1>2, WalkSettles
<1>. HIDE DEF W
<1>5. \A b \in an1.reach : b \in an1.doms[b]
  BY <1>3, <1>4
<1>6. ASSUME NEW b \in an1.reach, NEW m \in an1.doms[b], NEW x \in an1.doms[m] PROVE x \in an1.doms[b]
  <2>1. m \in an1.reach /\ x \in an1.reach /\ m \notin W(x) /\ b \notin W(m)
    BY <1>3
  <2> DEFINE U == W(m) \cap W(x)
  <2>2. EntryBlock # x => EntryBlock \in U
    BY <1>4, <2>1
  <2>3. Closed(edges, x, U)
    BY <1>4, <2>1 DEF Closed
  <2>4. W(x) \subseteq U
    BY <1>4, <2>2, <2>3
  <2> QED
    BY <1>3, <2>1, <2>4
<1>7. ASSUME NEW c \in an1.reach, NEW a \in an1.doms[c], NEW b \in an1.doms[c],
             a \notin an1.doms[b], b \notin an1.doms[a]
      PROVE  FALSE
  <2>1. /\ a \in an1.reach /\ b \in an1.reach /\ c \notin W(a) /\ c \notin W(b)
        /\ b \in W(a) /\ a \in W(b)
    BY <1>3, <1>7
  <2> DEFINE U == W(a) \cup W(b)
  <2>2. EntryBlock \in U
    BY <1>4, <2>1
  <2>3. Closed(edges, 0, U)
    BY <1>4, <2>1 DEF Closed
  <2>4. W(0) \subseteq U
    BY <1>4, <2>2, <2>3
  <2> QED
    BY <1>3, <2>1, <2>4
<1> QED
  BY <1>5, <1>6, <1>7

(* There is a newest entry among what the way down has made available.     *)
LEMMA NewestIn ==
  ASSUME NEW f, IsFunction(f), NEW an1, an1 = Analyses(f), NEW s \in Sites(f),
         NEW S, S # {}, S \subseteq AvailableSites(f, an1, s)
  PROVE  Newest(an1, S) \in S
<1> DEFINE A == {t[1] : t \in S}
<1>1. \A t \in S : /\ t \in Sites(f) /\ t = <<t[1], t[2]>> /\ t[1] \in BlocksOf(f) /\ t[2] \in Nat
                   /\ t[1] = s[1] \/ t[1] \in an1.doms[s[1]]
  BY SiteFacts DEF AvailableSites, Dominates
<1>2. s[1] \in BlocksOf(f)
  BY SiteFacts
<1>3. \E m \in A : \A a \in A : a = m \/ a \in an1.doms[m]
  <2>1. CASE s[1] \notin an1.reach
    <3>1. an1.doms[s[1]] = {}
      BY <1>2, <2>1, DominatorSetsAre
    <3> QED
      BY <1>1, <3>1
  <2>2. CASE s[1] \in an1.reach
    <3>1. A \subseteq an1.doms[s[1]] /\ an1.doms[s[1]] \subseteq an1.reach /\ an1.reach \subseteq BlocksOf(f)
      BY <1>1, <1>2, <2>2, DominanceOrders, DominatorSetsAre
    <3>2. BlocksOf(f) = 1 .. Len(f.code) /\ Len(f.code) \in Nat
      BY FunctionFacts
    <3> DEFINE N == Len(f.code)
               C(a) == Cardinality(an1.doms[a])
               T == {N - C(a) : a \in A}
    <3>3. \A a \in an1.reach : IsFiniteSet(an1.doms[a]) /\ C(a) \in 0 .. N
      <4> SUFFICES ASSUME NEW a \in an1.reach PROVE IsFiniteSet(an1.doms[a]) /\ C(a) \in 0 .. N
        OBVIOUS
      <4>1. an1.doms[a] \subseteq 1 .. N
        BY <3>1, <3>2, DominatorSetsAre
      <4>2. IsFiniteSet(1 .. N) /\ Cardinality(1 .. N) = N
        BY <3>2, FS_Interval
      <4>3. IsFiniteSet(an1.doms[a]) /\ C(a) <= N
        BY <4>1, <4>2, FS_Subset
      <4>4. C(a) \in Nat
        BY <4>3, FS_CardinalityType
      <4> QED
        BY <3>2, <4>3, <4>4
    <3>4. T \subseteq Nat /\ T # {}
      <4>1. A # {}
        OBVIOUS
      <4>. HIDE DEF C, A
      <4>2. ASSUME NEW a \in A PROVE N - C(a) \in Nat
        <5>1. C(a) \in 0 .. N
          BY <3>1, <3>3
        <5> QED
          BY <3>2, <5>1
      <4> QED
        BY <4>1, <4>2
    <3>5. PICK k \in T : \A y \in T : k <= y
      <4>. HIDE DEF T
      <4> QED
        BY <3>4, LeastIn
    <3>6. PICK m \in A : k = N - C(m)
      OBVIOUS
    <3>7. \A a \in A : C(a) <= C(m)
      <4> SUFFICES ASSUME NEW a \in A PROVE C(a) <= C(m)
        OBVIOUS
      <4>1. N - C(m) <= N - C(a)
        BY <3>5, <3>6
      <4>2. C(a) \in 0 .. N /\ C(m) \in 0 .. N
        BY <3>1, <3>3
      <4>. HIDE DEF C
      <4> QED
        BY <3>2, <4>1, <4>2
    <3>8. ASSUME NEW a \in A PROVE a \in an1.doms[m]
      <4> SUFFICES ASSUME a \notin an1.doms[m] PROVE FALSE
        OBVIOUS
      <4>1. a \in an1.reach /\ m \in an1.reach
        BY <3>1
      <4>2. m \in an1.doms[a]
        BY <2>2, <3>1, DominanceOrders
      <4>3. an1.doms[m] \subseteq an1.doms[a] /\ a \in an1.doms[a]
        BY <4>1, <4>2, DominanceOrders
      <4>4. C(m) <= C(a) /\ (C(m) = C(a) => an1.doms[m] = an1.doms[a])
        BY <3>3, <4>1, <4>3, FS_Subset
      <4>5. C(m) \in 0 .. N /\ C(a) \in 0 .. N /\ C(a) <= C(m)
        BY <3>3, <3>7, <4>1
      <4>6. C(m) = C(a)
        <5>. HIDE DEF C
        <5> QED
          BY <3>2, <4>4, <4>5
      <4> QED
        BY <4>3, <4>4, <4>6
    <3> QED
      BY <3>8
  <2> QED
    BY <2>1, <2>2
<1>4. PICK m \in A : \A a \in A : a = m \/ a \in an1.doms[m]
  BY <1>3
<1> DEFINE L == Len(f.code[m])
           T == {L - t[2] : t \in {u \in S : u[1] = m}}
<1>5. \A t \in S : t[1] = m => t[2] \in 1 .. L /\ L \in Nat
  BY SiteFacts, BlockFacts, <1>1
<1>6. T \subseteq Nat /\ T # {}
  <2>. HIDE DEF L
  <2>1. T \subseteq Nat
    BY <1>5
  <2> QED
    BY <2>1
<1>7. PICK k \in T : \A y \in T : k <= y
  <2>. HIDE DEF T
  <2> QED
    BY <1>6, LeastIn
<1>8. PICK t \in S : t[1] = m /\ k = L - t[2]
  OBVIOUS
<1>9. ASSUME NEW u \in S \ {t} PROVE IF t[1] = u[1] THEN u[2] < t[2] ELSE Dominates(an1, u[1], t[1])
  <2>1. CASE t[1] = u[1]
    <3>1. L - t[2] <= L - u[2]
      BY <1>7, <1>8, <2>1
    <3>2. u[2] # t[2]
      BY <1>1, <2>1
    <3>3. u[2] \in 1 .. L /\ t[2] \in 1 .. L /\ L \in Nat
      BY <1>5, <1>8, <2>1
    <3>. HIDE DEF L
    <3> QED
      BY <2>1, <3>1, <3>2, <3>3
  <2>2. CASE t[1] # u[1]
    BY <1>4, <1>8, <2>2 DEF Dominates
  <2> QED
    BY <2>1, <2>2
<1> QED
  BY <1>9 DEF Newest

(* opt_cse: the value read instead is one an instruction computes.         *)
LEMMA ShareKeepsNumbers ==
  ASSUME NEW f, IsFunction(f), Numbered(f), NEW an1, an1 = Analyses(f), NEW s \in Sites(f),
         Matches(f, an1, s) # {}
  PROVE  Numbered(ShareAt(f, an1, s)) /\ ShareAt(f, an1, s).values = f.values
<1> DEFINE S == Matches(f, an1, s)
           t == Newest(an1, S)
           w == InstrAt(f, t).dst
<1>1. S # {} /\ S \subseteq AvailableSites(f, an1, s)
  BY DEF Matches
<1>2. ShareAt(f, an1, s) = RemoveSite(ReplaceUses(f, InstrAt(f, s).dst, w), s)
  BY DEF ShareAt
<1>. HIDE DEF S
<1>3. t \in S
  BY <1>1, NewestIn
<1>. HIDE DEF t
<1>4. t \in Sites(f) /\ IsPure(InstrAt(f, t))
  BY <1>1, <1>3 DEF AvailableSites
<1>5. w \in 1 .. f.values
  BY <1>4, InstrIsNumbered, NumberedFacts DEF IsNumbered, IsPure, NoValue
<1>. HIDE DEF w
<1> QED
  BY <1>2, <1>5, ReplacedNumbered

-----------------------------------------------------------------------------
(* opt_licm: what a block before the loop defines more, one in it defines  *)
(* no longer.                                                              *)
LEMMA HoistKeepsNumbers ==
  ASSUME NEW f, IsFunction(f), Numbered(f), NEW a, NEW h, HasTarget(f, a, h),
         NEW s \in InvariantSites(f, a, h)
  PROVE  Numbered(HoistAt(f, a, h, s)) /\ HoistAt(f, a, h, s).values = f.values
<1> DEFINE t == Idom(a, h)
           b == s[1]
           k == s[2]
           i == InstrAt(f, s)
           n == Len(f.code[t])
           g == HoistAt(f, a, h, s)
           d == RemoveAt(f.code[b], k)
           e == InsertAt(f.code[t], n, i)
           own == [x \in DOMAIN f.code |-> IF x = t THEN Defs(f.code[x]) \cup {i.dst}
                                           ELSE Defs(f.code[x]) \ {i.dst}]
<1>1. s \in Sites(f) /\ b # t /\ f.code[t] # <<>> /\ i.dst # NoValue
  BY DEF InvariantSites, HasTarget, IsSafeToSpeculate, IsPure
<1>2. s = <<b, k>> /\ b \in DOMAIN f.code /\ k \in DOMAIN f.code[b] /\ i = f.code[b][k]
  BY <1>1, SiteFacts
<1>3. t \in DOMAIN f.code => n \in DOMAIN f.code[t]
  BY <1>1, FunctionFacts, BlockFacts DEF BlocksOf
<1>4. /\ g.values = f.values
      /\ g.code = [x \in DOMAIN f.code |-> IF x = t THEN e ELSE IF x = b THEN d ELSE f.code[x]]
  BY <1>1, FunctionFacts DEF HoistAt, EmitBefore, RemoveSite
<1>5. /\ f.values \in Nat
      /\ \A x \in DOMAIN f.code : Fine(f.code[x], f.values)
      /\ \A x, y \in DOMAIN f.code : x # y => Defs(f.code[x]) \cap Defs(f.code[y]) = {}
      /\ IsNumbered(i, f.values)
  BY <1>1, NumberedFacts, InstrIsNumbered
<1>6. i.dst \in Defs(f.code[b])
  BY <1>1, <1>2 DEF Defs
<1>. HIDE DEF t, b, k, i, n, g
<1>7. Fine(d, f.values) /\ Defs(d) \subseteq Defs(f.code[b]) \ {i.dst}
  BY <1>2, <1>5, FineRemoved
<1>8. t \in DOMAIN f.code => /\ Fine(e, f.values)
                             /\ Defs(e) \subseteq Defs(f.code[t]) \cup ({i.dst} \ {NoValue})
  <2> SUFFICES ASSUME t \in DOMAIN f.code
               PROVE  /\ Fine(e, f.values)
                      /\ Defs(e) \subseteq Defs(f.code[t]) \cup ({i.dst} \ {NoValue})
    OBVIOUS
  <2> DEFINE c == f.code[t]
  <2>1. Fine(c, f.values) /\ n \in DOMAIN c /\ i.dst \notin Defs(c)
    BY <1>1, <1>2, <1>3, <1>5, <1>6
  <2>. HIDE DEF c
  <2>2. /\ Fine(InsertAt(c, n, i), f.values)
        /\ Defs(InsertAt(c, n, i)) \subseteq Defs(c) \cup ({i.dst} \ {NoValue})
    BY <1>5, <2>1, FineInserted
  <2> QED
    BY <2>2 DEF c
<1>. HIDE DEF d, e
<1>9. \A x \in DOMAIN g.code : Fine(g.code[x], g.values) /\ Defs(g.code[x]) \subseteq own[x]
  <2> SUFFICES ASSUME NEW x \in DOMAIN f.code
               PROVE  Fine(g.code[x], f.values) /\ Defs(g.code[x]) \subseteq own[x]
    BY <1>4
  <2>1. CASE x = t
    BY <1>4, <1>8, <2>1
  <2>2. CASE x = b
    BY <1>1, <1>4, <1>7, <2>2
  <2>3. CASE x # t /\ x # b
    BY <1>2, <1>4, <1>5, <1>6, <2>3
  <2> QED
    BY <2>1, <2>2, <2>3
<1>10. \A x, y \in DOMAIN g.code : x # y => own[x] \cap own[y] = {}
  BY <1>4, <1>5
<1>. HIDE DEF own
<1>11. g.values \in Nat
  BY <1>4, <1>5
<1>12. Numbered(g)
  BY <1>9, <1>10, <1>11, NumberedOf
<1> QED
  BY <1>4, <1>12 DEF g

-----------------------------------------------------------------------------
(* opt_simplify_cfg *)

(* Other blocks a phi comes from, of the same number. *)
LEMMA Reblamed ==
  ASSUME NEW n, NEW i, IsInstr(i), IsNumbered(i, n), NEW u, u = [a \in DOMAIN i.from |-> u[a]],
         NEW x, x = [i EXCEPT !.from = u]
  PROVE  IsNumbered(x, n) /\ x.dst = i.dst
<1>1. x.op = i.op /\ x.dst = i.dst /\ x.args = i.args /\ x.from = u
  BY DEF IsInstr, InstrFields
<1>2. i.op = "phi" => IsSeq(u) /\ Len(u) = Len(i.args)
  <2> SUFFICES ASSUME i.op = "phi" PROVE IsSeq(u) /\ Len(u) = Len(i.args)
    OBVIOUS
  <2>1. IsSeq(i.from) /\ Len(i.from) = Len(i.args)
    BY DEF IsNumbered
  <2>2. Len(i.from) \in Nat /\ DOMAIN i.from = 1 .. Len(i.from)
    BY <2>1, SeqFacts
  <2> QED
    BY <2>1, <2>2, ListIs
<1>3. RequiredArgs(x)
  BY <1>1 DEF IsNumbered, RequiredArgs
<1> QED
  BY <1>1, <1>2, <1>3 DEF IsNumbered

(* Phis that learn their edge from another block.                          *)
LEMMA EdgeRenumbered ==
  ASSUME NEW f, IsFunction(f), Numbered(f), NEW S, NEW c, NEW b
  PROVE  /\ Numbered(RenameEdge(f, S, c, b)) /\ RenameEdge(f, S, c, b).values = f.values
         /\ DOMAIN RenameEdge(f, S, c, b).code = DOMAIN f.code
<1> DEFINE From(i) == [m \in DOMAIN i.from |-> IF i.from[m] = c THEN b ELSE i.from[m]]
           X(i) == [i EXCEPT !.from = From(i)]
           g == RenameEdge(f, S, c, b)
<1>1. /\ DOMAIN g = {"code", "values"} /\ g.values = f.values
      /\ g.code = [t \in DOMAIN f.code |-> g.code[t]]
      /\ \A t \in DOMAIN f.code : \A k \in DOMAIN f.code[t] :
           g.code[t][k] = f.code[t][k] \/ g.code[t][k] = X(f.code[t][k])
  BY FunctionFacts DEF RenameEdge
<1>2. ASSUME NEW t \in DOMAIN f.code PROVE g.code[t] = [k \in DOMAIN f.code[t] |-> g.code[t][k]]
  <2>1. IsSeq(f.code[t])
    BY FunctionFacts, BlockFacts DEF BlocksOf
  <2>2. f.code[t] = [k \in DOMAIN f.code[t] |-> f.code[t][k]]
    BY <2>1 DEF IsSeq
  <2> QED
    BY <2>2, FunctionFacts DEF RenameEdge
<1>3. ASSUME NEW i, IsInstr(i), IsNumbered(i, f.values)
      PROVE  IsNumbered(X(i), f.values) /\ X(i).dst = i.dst
  <2> DEFINE u == From(i)
             x == X(i)
  <2>1. u = [a \in DOMAIN i.from |-> u[a]]
    OBVIOUS
  <2>2. x = [i EXCEPT !.from = u]
    OBVIOUS
  <2>. HIDE DEF x, u, X, From
  <2>3. IsNumbered(x, f.values) /\ x.dst = i.dst
    BY <1>3, <2>1, <2>2, Reblamed
  <2> QED
    BY <2>3 DEF x
<1>. HIDE DEF g, X
<1>4. SameSlots(g, f)
  BY <1>1, <1>2 DEF SameSlots
<1>5. \A t \in DOMAIN f.code : \A k \in DOMAIN f.code[t] :
        IsNumbered(g.code[t][k], g.values) /\ g.code[t][k].dst = f.code[t][k].dst
  BY <1>1, <1>3, InstrIsNumbered
<1>6. g.values \in Nat
  BY <1>1, NumberedFacts
<1>7. Numbered(g)
  BY <1>4, <1>5, <1>6, RewrittenNumbered
<1> QED
  BY <1>1, <1>7 DEF g

(* A jump reads and defines nothing. *)
LEMMA JumpNumbered ==
  ASSUME NEW t, NEW n \in Nat
  PROVE  IsNumbered(Jump(t), n) /\ Jump(t).dst = NoValue
<1> DEFINE j == Jump(t)
<1>1. j.op = "jmp" /\ j.dst = NoValue /\ j.args = <<>>
  BY DEF Jump, Instr
<1>. HIDE DEF j
<1>2. IsSeq(j.args) /\ Len(j.args) = 0 /\ Range(j.args) = {}
  BY <1>1, EmptyList, NothingThere
<1>3. IsNumbered(j, n)
  BY <1>1, <1>2 DEF IsNumbered, IsTerminator, RequiredArgs, NoValue
<1> QED
  BY <1>1, <1>3 DEF j

(* A jump instead of what ended a list. *)
LEMMA JumpsFine ==
  ASSUME NEW n \in Nat, NEW c, Fine(c, n), c # <<>>, NEW t
  PROVE  Fine(Append(Front(c), Jump(t)), n) /\ Defs(Append(Front(c), Jump(t))) \subseteq Defs(c)
<1> DEFINE d == Front(c)
           j == Jump(t)
<1>1. Fine(d, n) /\ Defs(d) \subseteq Defs(c)
  BY FineFront
<1>2. IsNumbered(j, n) /\ j.dst = NoValue
  BY JumpNumbered
<1>3. j.dst \notin Defs(d)
  BY <1>2 DEF Defs
<1>. HIDE DEF d, j
<1>4. Fine(Append(d, j), n) /\ Defs(Append(d, j)) \subseteq Defs(d) \cup ({j.dst} \ {NoValue})
  BY <1>1, <1>2, <1>3, FineAppended
<1> QED
  BY <1>1, <1>2, <1>4 DEF d, j

(* A branch with one target becomes a jump.                                *)
LEMMA StraightenKeepsNumbers ==
  ASSUME NEW f, IsFunction(f), Numbered(f), NEW a
  PROVE  Numbered(Straighten(f, a)) /\ Straighten(f, a).values = f.values
<1> DEFINE S == StraightSites(f, a)
           T(b) == CHOOSE t \in OnlyArm(f, Last(f.code[b])) : TRUE
           g == Straighten(f, a)
<1>1. /\ g.values = f.values /\ DOMAIN g.code = DOMAIN f.code
      /\ \A b \in DOMAIN f.code :
           g.code[b] = IF b \in S THEN Append(Front(f.code[b]), Jump(T(b))) ELSE f.code[b]
  BY FunctionFacts DEF Straighten
<1>2. \A b \in S : f.code[b] # <<>>
  BY DEF StraightSites
<1>. HIDE DEF g, S, T
<1>3. f.values \in Nat /\ \A b \in DOMAIN f.code : Fine(f.code[b], f.values)
  BY NumberedFacts
<1>4. ASSUME NEW b \in DOMAIN f.code
      PROVE  Fine(g.code[b], f.values) /\ Defs(g.code[b]) \subseteq Defs(f.code[b])
  BY <1>1, <1>2, <1>3, JumpsFine
<1> QED
  BY <1>1, <1>3, <1>4, NumberedWithin DEF g

(* merge_blocks: what the absorbed block defined, the other does now.      *)
LEMMA AbsorbKeepsNumbers ==
  ASSUME NEW f, IsFunction(f), Numbered(f), NEW a, NEW b, NEW c \in MergeTargets(f, a, b)
  PROVE  Numbered(Absorb(f, b, c)) /\ Absorb(f, b, c).values = f.values
<1> DEFINE g == [f EXCEPT !.code[b] = Front(@) \o f.code[c], !.code[c] = <<>>]
           own == [x \in DOMAIN f.code |-> IF x = c THEN {}
                                           ELSE IF x = b THEN Defs(f.code[b]) \cup Defs(f.code[c])
                                           ELSE Defs(f.code[x])]
<1>1. c \in Successors(f, b) /\ c # b
  BY DEF MergeTargets
<1>2. \A x \in BlocksOf(f) : Successors(f, x) \subseteq BlocksOf(f)
  BY DEF IsFunction
<1>3. g.values = f.values /\ DOMAIN g.code = DOMAIN f.code
  BY FunctionFacts
<1>4. \A x \in DOMAIN f.code : g.code[x] = IF x = c THEN <<>>
                                           ELSE IF x = b THEN Front(f.code[b]) \o f.code[c]
                                           ELSE f.code[x]
  BY FunctionFacts
<1>5. IsFunction(g)
  BY Absorbed
<1>. HIDE DEF g
<1>6. /\ f.values \in Nat
      /\ \A x \in DOMAIN f.code : Fine(f.code[x], f.values)
      /\ \A x, y \in DOMAIN f.code : x # y => Defs(f.code[x]) \cap Defs(f.code[y]) = {}
  BY NumberedFacts
<1>7. ASSUME NEW x \in DOMAIN f.code
      PROVE  Fine(g.code[x], f.values) /\ Defs(g.code[x]) \subseteq own[x]
  <2>1. CASE x = c
    BY <1>4, <2>1, FineNothing
  <2>2. CASE x # c /\ x = b
    <3> DEFINE d == Front(f.code[b])
               e == f.code[c]
    <3>1. c \in DOMAIN f.code /\ f.code[b] # <<>>
      BY <1>1, <1>2, <2>2 DEF BlocksOf, Successors
    <3>2. Fine(d, f.values) /\ Defs(d) \subseteq Defs(f.code[b]) /\ Fine(e, f.values)
      BY <1>6, <2>2, <3>1, FineFront
    <3>3. Defs(d) \cap Defs(e) = {}
      BY <1>6, <2>2, <3>1, <3>2
    <3>4. g.code[x] = d \o e
      BY <1>4, <2>2
    <3>. HIDE DEF d, e
    <3>5. Fine(d \o e, f.values) /\ Defs(d \o e) \subseteq Defs(d) \cup Defs(e)
      BY <3>2, <3>3, FineJoined
    <3>6. own[x] = Defs(f.code[b]) \cup Defs(e)
      BY <2>2 DEF e
    <3>. HIDE DEF own
    <3> QED
      BY <3>2, <3>4, <3>5, <3>6
  <2>3. CASE x # c /\ x # b
    BY <1>4, <1>6, <2>3
  <2> QED
    BY <2>1, <2>2, <2>3
<1>8. \A x, y \in DOMAIN f.code : x # y => own[x] \cap own[y] = {}
  <2> SUFFICES ASSUME NEW x \in DOMAIN f.code, NEW y \in DOMAIN f.code, x # y,
                      NEW v \in own[x], v \in own[y]
               PROVE  FALSE
    OBVIOUS
  <2>1. c \in DOMAIN f.code \/ (x # b /\ y # b)
    BY <1>1, <1>2 DEF BlocksOf
  <2>2. CASE x = b
    BY <1>6, <2>1, <2>2
  <2>3. CASE y = b
    BY <1>6, <2>1, <2>3
  <2>4. CASE x # b /\ y # b
    BY <1>6, <2>4
  <2> QED
    BY <2>2, <2>3, <2>4
<1>. HIDE DEF own
<1>9. Numbered(g)
  BY <1>3, <1>6, <1>7, <1>8, NumberedOf
<1>10. Absorb(f, b, c) = RenameEdge(g, Successors(g, b), c, b)
  BY DEF Absorb, g
<1> QED
  BY <1>3, <1>5, <1>9, <1>10, EdgeRenumbered

(* ir_fix_phis: as many blocks as values stay. *)
LEMMA FixKeepsNumbers ==
  ASSUME NEW f, IsFunction(f), Numbered(f), NEW a
  PROVE  Numbered(FixPhis(f, a)) /\ FixPhis(f, a).values = f.values
<1> DEFINE Kept(b, i) == Ascending({m \in DOMAIN i.args : i.from[m] \in a.preds[b]}, Len(i.args))
           Args(b, i) == [m \in DOMAIN Kept(b, i) |-> i.args[Kept(b, i)[m]]]
           From(b, i) == [m \in DOMAIN Kept(b, i) |-> i.from[Kept(b, i)[m]]]
           X(b, i) == [i EXCEPT !.args = Args(b, i), !.from = From(b, i)]
           g == FixPhis(f, a)
<1>1. SameSlots(g, f)
  BY FunctionFacts DEF FixPhis, SameSlots
<1>2. g.values = f.values
  BY FunctionFacts DEF FixPhis
<1>3. ASSUME NEW b \in DOMAIN f.code, NEW k \in DOMAIN f.code[b]
      PROVE  \/ g.code[b][k] = f.code[b][k]
             \/ f.code[b][k].op = "phi" /\ g.code[b][k] = X(b, f.code[b][k])
  <2>1. DOMAIN f.code[b] = 1 .. Len(f.code[b]) /\ Len(f.code[b]) \in Nat
    BY FunctionFacts, BlockFacts DEF BlocksOf
  <2>2. k \in 1 .. k
    BY <2>1
  <2>3. CASE b \in a.reach /\ \A j \in 1 .. k : f.code[b][j].op = "phi"
    <3>1. f.code[b][k].op = "phi"
      BY <2>2, <2>3
    <3>2. g.code[b][k] = X(b, f.code[b][k])
      BY <2>3, FunctionFacts DEF FixPhis
    <3> QED
      BY <3>1, <3>2
  <2>4. CASE ~ (b \in a.reach /\ \A j \in 1 .. k : f.code[b][j].op = "phi")
    <3>1. g.code[b][k] = f.code[b][k]
      BY <2>4, FunctionFacts DEF FixPhis
    <3> QED
      BY <3>1
  <2> QED
    BY <2>3, <2>4
<1>4. ASSUME NEW b, NEW i, IsInstr(i), IsNumbered(i, f.values), i.op = "phi"
      PROVE  IsNumbered(X(b, i), f.values) /\ X(b, i).dst = i.dst
  <2> DEFINE kept == Kept(b, i)
             u == Args(b, i)
             w == From(b, i)
             x == X(b, i)
  <2>1. u = [m \in DOMAIN kept |-> i.args[kept[m]]] /\ w = [m \in DOMAIN kept |-> i.from[kept[m]]]
    OBVIOUS
  <2>2. x.op = i.op /\ x.dst = i.dst /\ x.args = u /\ x.from = w
    BY <1>4 DEF IsInstr, InstrFields
  <2>3. IsSeq(i.args) /\ Len(i.args) \in Nat /\ DOMAIN i.args = 1 .. Len(i.args)
    BY <1>4, SeqFacts DEF IsNumbered
  <2>4. IsSeq(kept) /\ \A y \in Range(kept) : y \in 1 .. Len(i.args)
    BY <2>3, AscendingFrom
  <2>. HIDE DEF kept, u, w, x, Kept, Args, From, X
  <2>5. Len(kept) \in Nat /\ DOMAIN kept = 1 .. Len(kept)
    BY <2>4, SeqFacts
  <2>6. u = [m \in 1 .. Len(kept) |-> u[m]] /\ w = [m \in 1 .. Len(kept) |-> w[m]]
    BY <2>1, <2>5
  <2>7. IsSeq(u) /\ Len(u) = Len(kept) /\ DOMAIN u = 1 .. Len(kept)
    BY <2>5, <2>6, ListIs
  <2>8. IsSeq(w) /\ Len(w) = Len(kept)
    BY <2>5, <2>6, ListIs
  <2>9. Range(u) \subseteq 1 .. f.values
    <3>1. \A m \in DOMAIN kept : kept[m] \in DOMAIN i.args
      BY <2>3, <2>4 DEF Range
    <3>2. \A y \in DOMAIN i.args : i.args[y] \in 1 .. f.values
      BY <1>4 DEF IsNumbered, Range
    <3> QED
      BY <2>1, <2>5, <2>7, <3>1, <3>2 DEF Range
  <2>10. IsNumbered(x, f.values)
    BY <1>4, <2>2, <2>7, <2>8, <2>9 DEF IsNumbered, RequiredArgs
  <2> QED
    BY <2>2, <2>10 DEF x
<1>. HIDE DEF g, X
<1>5. \A b \in DOMAIN f.code : \A k \in DOMAIN f.code[b] :
        IsNumbered(g.code[b][k], g.values) /\ g.code[b][k].dst = f.code[b][k].dst
  BY <1>2, <1>3, <1>4, InstrIsNumbered
<1>6. g.values \in Nat
  BY <1>2, NumberedFacts
<1>7. Numbered(g)
  BY <1>1, <1>5, <1>6, RewrittenNumbered
<1> QED
  BY <1>2, <1>7 DEF g

-----------------------------------------------------------------------------
(* opt_fold *)

(* One instruction of a list replaced by another with the same result. *)
LEMMA FineSwapped ==
  ASSUME NEW m \in Nat, NEW n \in Nat, m <= n, NEW c, Fine(c, m), NEW k \in DOMAIN c,
         NEW x, IsNumbered(x, n), x.dst = c[k].dst
  PROVE  Fine([c EXCEPT ![k] = x], n) /\ Defs([c EXCEPT ![k] = x]) = Defs(c)
<1> DEFINE d == [c EXCEPT ![k] = x]
<1>1. d = [j \in DOMAIN c |-> d[j]] /\ \A j \in DOMAIN c : d[j] = IF j = k THEN x ELSE c[j]
  OBVIOUS
<1>. HIDE DEF d
<1>2. \A j \in DOMAIN c : IsNumbered(c[j], n)
  BY NumberedMore DEF Fine
<1>3. \A j \in DOMAIN c : IsNumbered(d[j], n) /\ d[j].dst = c[j].dst
  BY <1>1, <1>2
<1>4. Fine(d, n) /\ Defs(d) = Defs(c)
  BY <1>1, <1>3, FineEdited
<1> QED
  BY <1>4 DEF d

(* A constant reads nothing. *)
LEMMA ConstNumbered ==
  ASSUME NEW n \in Nat, NEW x, x.op = "const", x.args = <<>>, x.dst \in 1 .. n
  PROVE  IsNumbered(x, n)
<1>1. IsSeq(x.args) /\ Len(x.args) = 0 /\ Range(x.args) = {}
  BY EmptyList, NothingThere
<1> QED
  BY <1>1 DEF IsNumbered, RequiredArgs, NoValue

(* The operands of what opt_fold looks at. *)
LEMMA OperandsOf ==
  ASSUME NEW n, NEW i, IsNumbered(i, n)
  PROVE  /\ i.op \in BinaryOps => DOMAIN i.args = 1 .. 2 /\ i.args[1] \in 1 .. n /\ i.args[2] \in 1 .. n
         /\ i.op = "cast" => i.args[1] \in 1 .. n
<1>1. IsSeq(i.args) /\ Range(i.args) \subseteq 1 .. n /\ RequiredArgs(i)
  BY DEF IsNumbered
<1>2. DOMAIN i.args = 1 .. Len(i.args) /\ \A a \in DOMAIN i.args : i.args[a] \in 1 .. n
  BY <1>1, SeqFacts DEF Range
<1>3. i.op \in BinaryOps => Len(i.args) = 2
  BY <1>1 DEF RequiredArgs, BinaryOps
<1>4. i.op = "cast" => Len(i.args) = 1
  BY <1>1 DEF RequiredArgs
<1>5. 1 \in 1 .. 2 /\ 2 \in 1 .. 2 /\ 1 \in 1 .. 1
  OBVIOUS
<1> QED
  BY <1>2, <1>3, <1>4, <1>5

(* Folding defines fresh values, or the value it folds.                    *)
LEMMA FoldKeepsNumbers ==
  ASSUME NEW f, IsFunction(f), Numbered(f), NEW s \in Sites(f), NEW g \in FoldAt(f, s)
  PROVE  Numbered(g) /\ f.values <= g.values
<1> DEFINE i == InstrAt(f, s)
           b == s[1]
           k == s[2]
           c == f.code[b]
<1>1. s = <<b, k>> /\ b \in DOMAIN f.code /\ k \in DOMAIN c /\ i = c[k] /\ IsInstr(i)
  BY SiteFacts
<1>2. /\ i.dst # NoValue
      /\ \/ \E n : g = [f EXCEPT !.code[s[1]][s[2]] = BecomeConst(i, n)]
         \/ \E v \in SameAsOperand(f, i) : g = ReplaceUses(f, i.dst, v)
         \/ \E r \in Cheaper(f, i) : g = ReduceStrength(f, s, r[1], r[2])
  BY FoldRewrites
<1>3. /\ f.values \in Nat /\ IsNumbered(i, f.values)
      /\ \A x \in DOMAIN f.code : Fine(f.code[x], f.values)
      /\ Defs(c) \subseteq 1 .. f.values
  BY <1>1, NumberedFacts, InstrIsNumbered
<1>4. i.dst \in 1 .. f.values
  BY <1>2, <1>3 DEF IsNumbered, NoValue
<1>5. Fine(c, f.values)
  BY <1>1, <1>3
<1>. HIDE DEF i, b, k, c
<1>6. ASSUME NEW n, g = [f EXCEPT !.code[s[1]][s[2]] = BecomeConst(i, n)]
      PROVE  Numbered(g) /\ f.values <= g.values
  <2> DEFINE x == BecomeConst(i, n)
             d == [c EXCEPT ![k] = x]
  <2>1. x.op = "const" /\ x.args = <<>> /\ x.dst = i.dst
    BY <1>1 DEF BecomeConst, IsInstr, InstrFields
  <2>2. g.values = f.values /\ g.code = [f.code EXCEPT ![b] = d]
    BY <1>6, FunctionFacts DEF b, k, c
  <2>. HIDE DEF x
  <2>3. IsNumbered(x, f.values)
    BY <1>3, <1>4, <2>1, ConstNumbered
  <2>4. Fine(d, f.values) /\ Defs(d) = Defs(c)
    BY <1>1, <1>3, <1>5, <2>1, <2>3, FineSwapped
  <2>. HIDE DEF d
  <2>5. \A y \in DOMAIN g.code : /\ y \in DOMAIN f.code
                                 /\ Fine(g.code[y], g.values)
                                 /\ Defs(g.code[y]) \subseteq Defs(f.code[y])
    BY <1>1, <1>3, <2>2, <2>4 DEF c
  <2> QED
    BY <1>3, <2>2, <2>5, NumberedWithin
<1>7. ASSUME NEW v \in SameAsOperand(f, i), g = ReplaceUses(f, i.dst, v)
      PROVE  Numbered(g) /\ f.values <= g.values
  <2>1. \/ v = i.args[1] /\ i.op \in BinaryOps
        \/ v = i.args[1] /\ i.op = "cast"
        \/ v = i.args[2] /\ i.op \in BinaryOps
    BY <1>7 DEF SameAsOperand
  <2>2. v \in 1 .. f.values
    BY <1>3, <2>1, OperandsOf
  <2> QED
    BY <1>3, <1>7, <2>2, UsesRenumbered
<1>8. ASSUME NEW r \in Cheaper(f, i), g = ReduceStrength(f, s, r[1], r[2])
      PROVE  Numbered(g) /\ f.values <= g.values
  <2> DEFINE v == f.values + 1
             u == [i.args EXCEPT ![2] = v]
             x == [i EXCEPT !.op = r[1], !.args[2] = v]
             y == Const(v, r[2], TypeOf(f, i.args[2]))
             d == [c EXCEPT ![k] = x]
             e == InsertAt(d, k, y)
  <2>1. r[1] \in {"shl", "shr", "and"} /\ i.op \in {"mul", "div", "mod"}
    BY <1>8 DEF Cheaper
  <2>2. v \in Nat /\ v \in 1 .. v /\ f.values <= v /\ ~ (v <= f.values) /\ v # NoValue
    BY <1>3 DEF NoValue
  <2>3. x.op = r[1] /\ x.dst = i.dst /\ x.args = u
    BY <1>1 DEF IsInstr, InstrFields
  <2>4. y.op = "const" /\ y.args = <<>> /\ y.dst = v
    BY DEF Const, Instr
  <2>5. g.values = v /\ g.code = [f.code EXCEPT ![b] = e]
    <3> DEFINE h == [f EXCEPT !.values = v, !.code[b][k] = x]
    <3>1. DOMAIN f = {"code", "values"}
      BY FunctionFacts
    <3>2. g = EmitBefore(h, <<b, k>>, y)
      BY <1>1, <1>8 DEF ReduceStrength, FreshValue, i, b, k
    <3>. HIDE DEF x, y
    <3>3. DOMAIN h = {"code", "values"} /\ h.values = v /\ h.code = [f.code EXCEPT ![b] = d]
      BY <3>1 DEF c
    <3>. HIDE DEF h, v, d
    <3>4. g.values = v /\ g.code = [h.code EXCEPT ![b] = InsertAt(h.code[b], k, y)]
      BY <3>2, <3>3 DEF EmitBefore
    <3> QED
      BY <1>1, <3>3, <3>4
  <2>6. DOMAIN i.args = 1 .. 2 /\ i.args[1] \in 1 .. f.values /\ i.args[2] \in 1 .. f.values
    BY <1>3, <2>1, OperandsOf DEF BinaryOps
  <2>7. u = [a \in 1 .. 2 |-> u[a]] /\ u[1] = i.args[1] /\ u[2] = v
    BY <2>6
  <2>. HIDE DEF x, y, v, u
  <2>8. IsSeq(u) /\ Len(u) = 2 /\ DOMAIN u = 1 .. 2
    BY <2>7, ListIs
  <2>9. Range(u) \subseteq 1 .. v
    BY <1>3, <2>2, <2>6, <2>7, <2>8 DEF Range
  <2>10. i.dst \in NoValue .. v /\ x.dst # NoValue
    BY <1>2, <1>3, <1>4, <2>2, <2>3 DEF NoValue
  <2>11. RequiredArgs(x)
    BY <2>1, <2>3, <2>8 DEF RequiredArgs
  <2>12. x.op # "phi"
    BY <2>1, <2>3
  <2>13. IsNumbered(x, v)
    BY <2>3, <2>8, <2>9, <2>10, <2>11, <2>12 DEF IsNumbered
  <2>14. IsNumbered(y, v)
    BY <2>2, <2>4, ConstNumbered
  <2>15. Fine(d, v) /\ Defs(d) = Defs(c)
    BY <1>1, <1>3, <1>5, <2>2, <2>3, <2>13, FineSwapped
  <2>16. k \in DOMAIN d
    BY <1>1
  <2>17. y.dst \notin Defs(d)
    BY <1>3, <2>2, <2>4, <2>15
  <2>. HIDE DEF d
  <2>18. Fine(e, v) /\ Defs(e) \subseteq Defs(d) \cup ({y.dst} \ {NoValue})
    BY <2>14, <2>15, <2>16, <2>17, FineInserted
  <2>. HIDE DEF e
  <2>19. Defs(e) \subseteq Defs(c) \cup f.values + 1 .. v
    BY <1>3, <2>2, <2>4, <2>15, <2>18 DEF v
  <2>20. \A x1 \in DOMAIN f.code : Fine(f.code[x1], v)
    BY <1>3, <2>2, FineMore
  <2>21. \A x1 \in DOMAIN g.code :
           /\ x1 \in DOMAIN f.code
           /\ Fine(g.code[x1], g.values)
           /\ Defs(g.code[x1]) \subseteq
                Defs(f.code[x1]) \cup (IF x1 = b THEN f.values + 1 .. g.values ELSE {})
    BY <1>1, <2>5, <2>18, <2>19, <2>20 DEF c
  <2>22. Numbered(g)
    BY <2>2, <2>5, <2>21, NumberedFresh
  <2> QED
    BY <2>2, <2>5, <2>22
<1> QED
  BY <1>2, <1>6, <1>7, <1>8

-----------------------------------------------------------------------------
(* place_phis *)

(* The members of a set of numbers, counted in order. *)
LEMMA Ranked ==
  ASSUME NEW N \in Nat, NEW M, M \subseteq 1 .. N
  PROVE  /\ Cardinality(M) \in Nat
         /\ \E r \in [M -> 1 .. Cardinality(M)] :
              /\ \A b \in M : r[b] = Cardinality({c \in M : c <= b})
              /\ \A b, d \in M : r[b] = r[d] => b = d
<1> DEFINE U(b) == {c \in M : c <= b}
<1>1. IsFiniteSet(M) /\ Cardinality(M) \in Nat
  <2>1. IsFiniteSet(1 .. N)
    BY FS_Interval
  <2>2. IsFiniteSet(M)
    BY <2>1, FS_Subset
  <2> QED
    BY <2>2, FS_CardinalityType
<1>2. ASSUME NEW b \in M
      PROVE  /\ IsFiniteSet(U(b)) /\ Cardinality(U(b)) \in Nat
             /\ Cardinality(U(b)) <= Cardinality(M) /\ Cardinality(U(b)) # 0
  <2>1. U(b) \in SUBSET M /\ b \in U(b)
    OBVIOUS
  <2>. HIDE DEF U
  <2>2. IsFiniteSet(U(b)) /\ Cardinality(U(b)) <= Cardinality(M)
    BY <1>1, <2>1, FS_Subset
  <2>3. Cardinality(U(b)) \in Nat /\ Cardinality(U(b)) # 0
    BY <2>1, <2>2, FS_CardinalityType, FS_EmptySet
  <2> QED
    BY <2>2, <2>3
<1>3. ASSUME NEW b \in M, NEW d \in M, b < d PROVE Cardinality(U(b)) # Cardinality(U(d))
  <2>1. U(b) \in SUBSET U(d) /\ d \in U(d) /\ d \notin U(b)
    <3>1. b \in Int /\ d \in Int /\ M \subseteq Int
      OBVIOUS
    <3>2. \A c \in M : c <= b => c <= d
      BY <1>3, <3>1
    <3>4. U(b) \subseteq U(d)
      BY <3>2
    <3>3. d \in U(d) /\ d \notin U(b)
      BY <1>3, <3>1
    <3> QED
      BY <3>3, <3>4
  <2>2. IsFiniteSet(U(d))
    BY <1>2
  <2>. HIDE DEF U
  <2> QED
    BY <2>1, <2>2, FS_Subset
<1>4. \A b, d \in M : b = d \/ b < d \/ d < b
  OBVIOUS
<1> DEFINE r == [b \in M |-> Cardinality(U(b))]
<1>5. \A b \in M : r[b] = Cardinality(U(b))
  OBVIOUS
<1>6. \A b \in M : r[b] = Cardinality({c \in M : c <= b})
  BY <1>5
<1>. HIDE DEF U
<1>7. \A b \in M : Cardinality(U(b)) \in 1 .. Cardinality(M)
  BY <1>1, <1>2
<1>8. r \in [M -> 1 .. Cardinality(M)]
  BY <1>7
<1>. HIDE DEF r
<1>9. \A b, d \in M : r[b] = r[d] => b = d
  BY <1>3, <1>4, <1>5
<1> QED
  BY <1>1, <1>6, <1>8, <1>9

(* A phi without arguments yet. *)
LEMMA NewPhiNumbered ==
  ASSUME NEW n \in Nat, NEW v \in 1 .. n, NEW ty
  PROVE  IsNumbered(TypedPhi(v, ty), n) /\ TypedPhi(v, ty).dst = v
<1> DEFINE i == TypedPhi(v, ty)
<1>1. i.op = "phi" /\ i.dst = v /\ i.args = <<>> /\ i.from = <<>>
  BY DEF TypedPhi, Instr
<1>. HIDE DEF i
<1>2. IsSeq(i.args) /\ Range(i.args) = {} /\ Len(i.args) = Len(i.from)
  BY <1>1, EmptyList, NothingThere
<1>3. RequiredArgs(i)
  BY <1>1 DEF RequiredArgs
<1>4. i.dst \in NoValue .. n /\ i.dst # NoValue
  BY <1>1 DEF NoValue
<1>5. IsNumbered(i, n)
  BY <1>1, <1>2, <1>3, <1>4 DEF IsNumbered
<1> QED
  BY <1>1, <1>5 DEF i

(* A phi more at the top of each block of M. *)
PhisPut(g, f, M, m, r, phi) ==
  /\ \A b, d \in M : r[b] = r[d] => b = d
  /\ \A b \in M : phi[b] = f.values + r[b]
  /\ g.values = f.values + m
  /\ DOMAIN g.code = DOMAIN f.code
  /\ \A b \in M : \E ty : g.code[b] = <<TypedPhi(phi[b], ty)>> \o f.code[b]
  /\ \A b \in DOMAIN f.code \ M : g.code[b] = f.code[b]

(* The function with those phis: each defines a value of its own.          *)
LEMMA PhisNumbered ==
  ASSUME NEW f, IsFunction(f), Numbered(f), NEW M, M \subseteq DOMAIN f.code,
         NEW m \in Nat, NEW r \in [M -> 1 .. m], NEW phi, NEW g, PhisPut(g, f, M, m, r, phi)
  PROVE  /\ Numbered(g) /\ f.values <= g.values
         /\ \A b \in M : phi[b] \in 1 .. g.values
<1> USE DEF PhisPut
<1> DEFINE n == g.values
           own == [b \in DOMAIN f.code |-> Defs(f.code[b]) \cup (IF b \in M THEN {phi[b]} ELSE {})]
<1>2. m \in Nat /\ \A b \in M : r[b] \in 1 .. m
  OBVIOUS
<1>3. /\ f.values \in Nat
      /\ \A b \in DOMAIN f.code : Fine(f.code[b], f.values) /\ Defs(f.code[b]) \subseteq 1 .. f.values
      /\ \A b, c \in DOMAIN f.code : b # c => Defs(f.code[b]) \cap Defs(f.code[c]) = {}
  BY NumberedFacts
<1>4. n \in Nat /\ f.values <= n
  BY <1>2, <1>3
<1>5. \A b \in M : phi[b] \in f.values + 1 .. n
  BY <1>2, <1>3
<1>6. \A b, d \in M : phi[b] = phi[d] => b = d
  BY <1>2, <1>3
<1>. HIDE DEF n
<1>7. \A b \in M : phi[b] \in 1 .. n /\ phi[b] \notin 1 .. f.values
  BY <1>3, <1>4, <1>5
<1>8. ASSUME NEW b \in DOMAIN f.code, NEW c \in DOMAIN f.code, b # c
      PROVE  own[b] \cap own[c] = {}
  <2>1. \A v \in own[b] : v \in Defs(f.code[b]) \/ (b \in M /\ v = phi[b])
    OBVIOUS
  <2>2. \A v \in own[c] : v \in Defs(f.code[c]) \/ (c \in M /\ v = phi[c])
    OBVIOUS
  <2>. HIDE DEF own
  <2> QED
    BY <1>3, <1>6, <1>7, <1>8, <2>1, <2>2
<1>9. ASSUME NEW b \in DOMAIN f.code
      PROVE  Fine(g.code[b], n) /\ Defs(g.code[b]) \subseteq own[b]
  <2>1. Fine(f.code[b], n)
    BY <1>3, <1>4, FineMore
  <2>2. CASE b \notin M
    BY <2>1, <2>2
  <2>3. CASE b \in M
    <3>0. PICK ty : g.code[b] = <<TypedPhi(phi[b], ty)>> \o f.code[b]
      BY <2>3
    <3> DEFINE i == TypedPhi(phi[b], ty)
               c == f.code[b]
               d == <<i>>
    <3>1. IsNumbered(i, n) /\ i.dst = phi[b]
      BY <1>4, <1>7, <2>3, NewPhiNumbered
    <3>2. g.code[b] = d \o c /\ own[b] = Defs(c) \cup {phi[b]}
      BY <2>3, <3>0
    <3>3. Fine(c, n) /\ Defs(c) \subseteq 1 .. f.values
      BY <1>3, <2>1
    <3>. HIDE DEF i, c, own, n
    <3>4. Fine(d, n) /\ Defs(d) = {i.dst} \ {NoValue}
      BY <3>1, FineOne
    <3>5. Defs(d) \cap Defs(c) = {}
      BY <1>7, <2>3, <3>1, <3>3, <3>4
    <3>. HIDE DEF d
    <3>6. Fine(d \o c, n) /\ Defs(d \o c) \subseteq Defs(d) \cup Defs(c)
      BY <3>3, <3>4, <3>5, FineJoined
    <3> QED
      BY <3>1, <3>2, <3>4, <3>6
  <2> QED
    BY <2>2, <2>3
<1>10. DOMAIN g.code = DOMAIN f.code
  OBVIOUS
<1>. HIDE DEF own
<1>12. \A b \in DOMAIN g.code : Fine(g.code[b], g.values) /\ Defs(g.code[b]) \subseteq own[b]
  BY <1>9, <1>10 DEF n
<1>13. \A b, c \in DOMAIN g.code : b # c => own[b] \cap own[c] = {}
  BY <1>8, <1>10
<1>14. g.values \in Nat
  BY <1>4 DEF n
<1>11. Numbered(g)
  BY <1>12, <1>13, <1>14, NumberedOf
<1> QED
  BY <1>4, <1>7, <1>11 DEF n

(* Phis are placed in blocks that are reached. *)
FrontiersOf(S, P) == UNION {FrontierOf(an, b) : b \in S \cup P}

(* Phis are only placed where control reaches.                             *)
LEMMA PhiBlocksReached ==
  ASSUME NEW f, Len(f.code) \in Nat, NEW v
  PROVE  PhiBlocks(f, v) \subseteq an.reach
<1> DEFINE N == Len(f.code)
           V == SUBSET an.reach
           S == StoringBlocks(f, v)
           F == [p \in Nat \X V |-> FrontiersOf(S, p[2])]
           Walk(h) == h = [n \in 0 .. N |-> IF n = 0 THEN {} ELSE
                             FrontiersOf(S, h[n - 1])]
<1>1. \A P : FrontiersOf(S, P) \in V
  BY DEF FrontierOf, FrontiersOf
<1>2. F \in [Nat \X V -> V] /\ {} \in V
  BY <1>1
<1>3. PhiBlocks(f, v) = (CHOOSE h : Walk(h))[N]
  BY DEF PhiBlocks, FrontiersOf
<1>9. N \in Nat
  OBVIOUS
<1>. HIDE DEF S, N
<1>4. PICK g \in [0 .. N -> V] : IteratesFrom(g, {}, F, N)
  <2>. HIDE DEF F, V
  <2> QED
    BY <1>2, <1>9, Iterate
<1>5. ASSUME NEW k \in 1 .. N PROVE g[k] = FrontiersOf(S, g[k - 1])
  <2>1. g[k] = F[<<k, g[k - 1]>>]
    BY <1>4 DEF IteratesFrom
  <2>2. k \in Nat /\ k - 1 \in 0 .. N /\ g[k - 1] \in V
    BY <1>9
  <2>3. F[<<k, g[k - 1]>>] = FrontiersOf(S, g[k - 1])
    <3>. HIDE DEF V
    <3> QED
      BY <2>2
  <2> QED
    BY <2>1, <2>3
<1>6. g[0] = {}
  BY <1>4 DEF IteratesFrom
<1>7. Walk(g)
  <2>1. ASSUME NEW k \in 0 .. N PROVE g[k] = IF k = 0 THEN {} ELSE FrontiersOf(S, g[k - 1])
    BY <1>5, <1>6, <1>9
  <2>2. g = [k \in 0 .. N |-> g[k]]
    BY <1>4
  <2> QED
    BY <2>1, <2>2
<1>8. ASSUME NEW h, Walk(h) PROVE h[N] \in V
  <2>1. N \in 0 .. N
    BY <1>9
  <2>2. h = [n \in 0 .. N |-> IF n = 0 THEN {} ELSE FrontiersOf(S, h[n - 1])]
    BY <1>8
  <2>3. h[N] = IF N = 0 THEN {} ELSE FrontiersOf(S, h[N - 1])
    BY <2>1, <2>2, Zenon
  <2> QED
    BY <1>1, <2>3
<1> QED
  <2>. HIDE DEF Walk
  <2>1. Walk(CHOOSE h : Walk(h))
    BY <1>7
  <2> QED
    BY <1>3, <1>8, <2>1

-----------------------------------------------------------------------------
(* current_def: the zeros made for slots nothing has been stored in *)

ZerosFor(J) == Ascending(Missing(J), Len(slots))

(* The zeros of current_def define fresh values, one each.                 *)
LEMMA ZerosFine ==
  ASSUME NEW v \in Nat, NEW z, IsSeq(z), NEW p, p = [k \in DOMAIN z |-> p[k]],
         \A k \in DOMAIN z : \E ty : p[k] = Const(v + k, 0, ty)
  PROVE  Fine(p, v + Len(z)) /\ Defs(p) \subseteq v + 1 .. v + Len(z)
<1>1. Len(z) \in Nat /\ DOMAIN z = 1 .. Len(z)
  BY SeqFacts
<1>2. p = [k \in 1 .. Len(z) |-> p[k]]
  BY <1>1
<1>3. IsSeq(p) /\ DOMAIN p = 1 .. Len(z)
  BY <1>1, <1>2, ListIs
<1>4. ASSUME NEW k \in 1 .. Len(z)
      PROVE  p[k].op = "const" /\ p[k].args = <<>> /\ p[k].dst = v + k
  <2>1. PICK ty : p[k] = Const(v + k, 0, ty)
    BY <1>1
  <2> QED
    BY <2>1 DEF Const, Instr
<1> DEFINE n == v + Len(z)
<1>5. n \in Nat /\ \A k \in 1 .. Len(z) : p[k].dst \in 1 .. n /\ p[k].dst \in v + 1 .. n
  BY <1>1, <1>4
<1>6. \A j, k \in 1 .. Len(z) : p[j].dst = p[k].dst => j = k
  BY <1>1, <1>4
<1>. HIDE DEF n
<1>7. \A k \in DOMAIN p : IsNumbered(p[k], n)
  BY <1>3, <1>4, <1>5, ConstNumbered
<1>8. Fine(p, n)
  BY <1>3, <1>6, <1>7 DEF Fine, Once
<1>9. Defs(p) \subseteq v + 1 .. n
  BY <1>3, <1>5 DEF Defs
<1> QED
  BY <1>8, <1>9 DEF n

(* The entry block gets them; its other instructions, and those of the     *)
(* other blocks, may read them already.                                    *)
LEMMA ZerosNumbered ==
  ASSUME NEW f, IsFunction(f), Numbered(f), IsSeq(slots), NEW J,
         NEW h, DOMAIN h = {"code", "values"}, DOMAIN h.code = DOMAIN f.code, h.values = f.values,
         \A b \in DOMAIN f.code : /\ Fine(h.code[b], f.values + Len(ZerosFor(J)))
                                  /\ Defs(h.code[b]) \subseteq Defs(f.code[b])
  PROVE  /\ Numbered(WithZeros(h, J))
         /\ WithZeros(h, J).values = f.values + Len(ZerosFor(J))
         /\ Len(ZerosFor(J)) \in Nat
<1> DEFINE z == ZerosFor(J)
           p == [k \in DOMAIN z |-> Const(f.values + k, 0, SlotType(h, z[k]))]
           g == WithZeros(h, J)
           n == f.values + Len(z)
<1>1. IsSeq(z) /\ Len(z) \in Nat
  <2>1. Len(slots) \in Nat
    BY SeqFacts
  <2>2. IsSeq(z)
    BY <2>1, AscendingIsSeq DEF ZerosFor
  <2> QED
    BY <2>2, SeqFacts
<1>2. g.values = n /\ g.code = [h.code EXCEPT ![EntryBlock] = p \o h.code[EntryBlock]]
  BY DEF WithZeros, ZerosFor
<1>3. /\ f.values \in Nat
      /\ \A b \in DOMAIN f.code : Defs(f.code[b]) \subseteq 1 .. f.values
  BY NumberedFacts
<1>4. \A b \in DOMAIN f.code : Fine(h.code[b], n) /\ Defs(h.code[b]) \subseteq Defs(f.code[b])
  OBVIOUS
<1>5. Fine(p, n) /\ Defs(p) \subseteq f.values + 1 .. n
  <2>1. p = [k \in DOMAIN z |-> p[k]] /\ \A k \in DOMAIN z : \E ty : p[k] = Const(f.values + k, 0, ty)
    OBVIOUS
  <2>. HIDE DEF p, z
  <2> QED
    BY <1>1, <1>3, <2>1, ZerosFine
<1>6. n \in Nat
  BY <1>1, <1>3
<1> DEFINE e == EntryBlock
           c == h.code[e]
<1>7. e \in DOMAIN f.code
  BY EntryIsBlock
<1>. HIDE DEF p, g, n, z, e
<1>8. Fine(p \o c, n) /\ Defs(p \o c) \subseteq Defs(p) \cup Defs(c)
  <2>1. Fine(c, n) /\ Defs(c) \subseteq 1 .. f.values
    BY <1>3, <1>4, <1>7
  <2>2. ~ \E v : v \in 1 .. f.values /\ v \in f.values + 1 .. n
    BY <1>3
  <2>3. Defs(p) \cap Defs(c) = {}
    BY <1>5, <2>1, <2>2
  <2>. HIDE DEF c
  <2> QED
    BY <1>5, <2>1, <2>3, FineJoined
<1>9. \A b \in DOMAIN g.code :
        /\ b \in DOMAIN f.code
        /\ Fine(g.code[b], g.values)
        /\ Defs(g.code[b]) \subseteq
             Defs(f.code[b]) \cup (IF b = e THEN f.values + 1 .. g.values ELSE {})
  <2>1. DOMAIN g.code = DOMAIN f.code
    BY <1>2
  <2> SUFFICES ASSUME NEW b \in DOMAIN f.code
               PROVE  /\ Fine(g.code[b], g.values)
                      /\ Defs(g.code[b]) \subseteq
                           Defs(f.code[b]) \cup (IF b = e THEN f.values + 1 .. g.values ELSE {})
    BY <2>1
  <2>2. CASE b = e
    <3>1. g.code[b] = p \o c
      BY <1>2, <2>2 DEF e
    <3> QED
      BY <1>2, <1>4, <1>5, <1>7, <1>8, <2>2, <3>1
  <2>3. CASE b # e
    <3>1. g.code[b] = h.code[b]
      BY <1>2, <2>3 DEF e
    <3> QED
      BY <1>2, <1>4, <2>3, <3>1
  <2> QED
    BY <2>2, <2>3
<1>10. g.values \in Nat
  BY <1>2, <1>6
<1>11. Numbered(g)
  BY <1>9, <1>10, NumberedFresh
<1> QED
  BY <1>1, <1>2, <1>11 DEF g, n, z

(* What is noted of them are values. *)
LEMMA ZerosAreValues ==
  ASSUME NEW f, f.values \in Nat, IsSeq(slots), NEW J,
         zero \in [DOMAIN slots -> {NoValue} \cup (1 .. f.values)]
  PROVE  LET n == f.values + Len(ZerosFor(J))
         IN /\ n \in Nat /\ f.values <= n
            /\ ZerosAfter(f, J) \in [DOMAIN slots -> {NoValue} \cup (1 .. n)]
            /\ \A j \in J \cap DOMAIN slots :
                 stack[j] = <<>> /\ f.values >= 1 => ZerosAfter(f, J)[j] \in 1 .. n
<1> DEFINE z == ZerosFor(J)
           L == Len(z)
           n == f.values + L
           At(j) == SelectInSeq(z, LAMBDA m : m = j)
           A == ZerosAfter(f, J)
<1>1. IsSeq(z) /\ L \in Nat
  <2>1. Len(slots) \in Nat
    BY SeqFacts
  <2>2. IsSeq(z)
    BY <2>1, AscendingIsSeq DEF ZerosFor
  <2> QED
    BY <2>2, SeqFacts
<1>2. A = [j \in DOMAIN zero |-> IF j \in Missing(J) THEN f.values + At(j) ELSE zero[j]]
  BY DEF ZerosAfter, ZerosFor
<1>3. ASSUME NEW j PROVE At(j) \in 0 .. L
  <2> DEFINE I == {k \in 1 .. L : z[k] = j}
             a == At(j)
  <2>1. a = IF I # {} THEN Min(I) ELSE 0
    BY DEF SelectInSeq
  <2>2. I \subseteq 1 .. L
    OBVIOUS
  <2>. HIDE DEF a, I, L
  <2>3. a \in 0 .. L
    BY <1>1, <2>1, <2>2, PositionOrNone
  <2> QED
    BY <2>3 DEF a
<1>. HIDE DEF z, L, At, A
<1>4. n \in Nat /\ f.values <= n
  BY <1>1
<1>5. DOMAIN A = DOMAIN slots
  BY <1>2
<1>6. ASSUME NEW j \in DOMAIN slots
      PROVE  /\ A[j] \in {NoValue} \cup (1 .. n)
             /\ (j \in Missing(J) \/ zero[j] # NoValue) /\ f.values >= 1 => A[j] \in 1 .. n
  <2>1. zero[j] \in {NoValue} \cup (1 .. f.values) /\ j \in DOMAIN zero
    OBVIOUS
  <2>2. CASE j \in Missing(J)
    <3>1. A[j] = f.values + At(j)
      BY <1>2, <2>1, <2>2
    <3>2. At(j) \in 0 .. L
      BY <1>3
    <3> QED
      BY <1>1, <2>2, <3>1, <3>2 DEF NoValue
  <2>3. CASE j \notin Missing(J)
    <3>1. A[j] = zero[j]
      BY <1>2, <2>1, <2>3
    <3> QED
      BY <1>4, <2>1, <2>3, <3>1 DEF NoValue
  <2> QED
    BY <2>2, <2>3
<1>7. A \in [DOMAIN slots -> {NoValue} \cup (1 .. n)]
  <2>1. A = [j \in DOMAIN slots |-> A[j]]
    BY <1>2
  <2> QED
    BY <1>6, <2>1
<1>8. ASSUME NEW j \in J \cap DOMAIN slots, stack[j] = <<>>, f.values >= 1
      PROVE  A[j] \in 1 .. n
  <2>1. j \in Missing(J) \/ zero[j] # NoValue
    BY <1>8 DEF Missing
  <2> QED
    BY <1>6, <1>8, <2>1
<1>9. n = f.values + Len(ZerosFor(J))
  BY DEF L, z
<1> QED
  BY <1>4, <1>7, <1>8, <1>9 DEF A

-----------------------------------------------------------------------------
(* What a phi learns of one edge: a value, and the block it arrives from.  *)
Fills(x, i, n) ==
  /\ i.op = "phi"
  /\ \E v \in 1 .. n : \E q : x = [i EXCEPT !.args = Append(i.args, v), !.from = Append(i.from, q)]

(* A phi that gets one more argument.                                      *)
LEMMA Filling ==
  ASSUME NEW m \in Nat, NEW n \in Nat, m <= n, NEW i, IsInstr(i), IsNumbered(i, m),
         NEW x, Fills(x, i, n)
  PROVE  IsNumbered(x, n) /\ x.dst = i.dst
<1>0. PICK v \in 1 .. n : \E q : x = [i EXCEPT !.args = Append(i.args, v), !.from = Append(i.from, q)]
  BY DEF Fills
<1>1. PICK q : x = [i EXCEPT !.args = Append(i.args, v), !.from = Append(i.from, q)]
  BY <1>0
<1> DEFINE s == Append(i.args, v)
           t == Append(i.from, q)
<1>2. x.op = "phi" /\ x.dst = i.dst /\ x.args = s /\ x.from = t
  BY <1>1 DEF Fills, IsInstr, InstrFields
<1>3. IsNumbered(i, n)
  BY NumberedMore
<1>4. IsSeq(i.args) /\ IsSeq(i.from) /\ Len(i.args) = Len(i.from) /\ Range(i.args) \subseteq 1 .. n
  BY <1>3 DEF Fills, IsNumbered
<1>5. Len(i.args) \in Nat /\ DOMAIN i.args = 1 .. Len(i.args)
  BY <1>4, SeqFacts
<1>6. /\ IsSeq(s) /\ Len(s) = Len(i.args) + 1 /\ DOMAIN s = 1 .. Len(i.args) + 1
      /\ \A k \in 1 .. Len(i.args) : s[k] = i.args[k]
      /\ s[Len(i.args) + 1] = v
  BY <1>4, Appended
<1>7. IsSeq(t) /\ Len(t) = Len(i.from) + 1
  BY <1>4, Appended
<1>. HIDE DEF s, t
<1>8. Range(s) \subseteq 1 .. n
  <2> SUFFICES ASSUME NEW k \in DOMAIN s PROVE s[k] \in 1 .. n
    BY DEF Range
  <2>1. k \in 1 .. Len(i.args) \/ k = Len(i.args) + 1
    BY <1>5, <1>6
  <2>2. \A j \in 1 .. Len(i.args) : i.args[j] \in 1 .. n
    BY <1>4, <1>5 DEF Range
  <2> QED
    BY <1>6, <2>1, <2>2
<1>9. RequiredArgs(x)
  BY <1>2 DEF RequiredArgs
<1>10. i.dst \in NoValue .. n /\ i.dst # NoValue
  BY <1>3 DEF Fills, IsNumbered, IsTerminator
<1>11. Len(x.from) = Len(x.args) /\ IsSeq(x.from) /\ IsSeq(x.args) /\ Range(x.args) \subseteq 1 .. n
  BY <1>2, <1>4, <1>6, <1>7, <1>8
<1>12. x.dst \in NoValue .. n /\ x.dst # NoValue
  BY <1>2, <1>10
<1> QED
  BY <1>2, <1>9, <1>11, <1>12 DEF IsNumbered

(* The function whose phis got one.                                        *)
LEMMA PhisFilled ==
  ASSUME NEW f, IsFunction(f), Numbered(f), NEW n \in Nat, f.values <= n,
         NEW h, SameSlots(h, f),
         \A b \in DOMAIN f.code : \A k \in DOMAIN f.code[b] :
           h.code[b][k] = f.code[b][k] \/ Fills(h.code[b][k], f.code[b][k], n)
  PROVE  /\ DOMAIN h.code = DOMAIN f.code
         /\ \A b \in DOMAIN f.code : Fine(h.code[b], n) /\ Defs(h.code[b]) \subseteq Defs(f.code[b])
<1>1. f.values \in Nat
  BY NumberedFacts
<1>2. ASSUME NEW b \in DOMAIN f.code, NEW k \in DOMAIN f.code[b]
      PROVE  IsNumbered(h.code[b][k], n) /\ h.code[b][k].dst = f.code[b][k].dst
  <2> DEFINE i == f.code[b][k]
             x == h.code[b][k]
             m == f.values
  <2>1. IsInstr(i) /\ IsNumbered(i, m) /\ m \in Nat /\ m <= n
    BY <1>1, InstrIsNumbered
  <2>2. x = i \/ Fills(x, i, n)
    OBVIOUS
  <2>. HIDE DEF i, x, m
  <2>3. IsNumbered(x, n) /\ x.dst = i.dst
    BY <2>1, <2>2, Filling, NumberedMore
  <2> QED
    BY <2>3 DEF i, x
<1>3. /\ DOMAIN h.code = DOMAIN f.code
      /\ \A b \in DOMAIN f.code : Fine(h.code[b], n) /\ Defs(h.code[b]) = Defs(f.code[b])
  BY <1>2, RewrittenFine
<1> QED
  BY <1>3

(* Following replacements never leaves the values. *)
LEMMA Resolves ==
  ASSUME NEW m \in Nat, DOMAIN repl \subseteq 1 .. m, repl \in [DOMAIN repl -> {NoValue} \cup (1 .. m)],
         NEW v \in 1 .. m
  PROVE  Resolve(v) \in 1 .. m
<1> DEFINE N == Cardinality(Replaced)
           V == 1 .. m
           Step(w) == IF w \in Replaced THEN repl[w] ELSE w
           F == [p \in Nat \X V |-> Step(p[2])]
           Walk(h) == h = [n \in 0 .. N |-> IF n = 0 THEN v ELSE
                             LET w == h[n - 1] IN IF w \in Replaced THEN repl[w] ELSE w]
<1>1. N \in Nat
  <2>1. Replaced \subseteq 1 .. m /\ IsFiniteSet(1 .. m)
    BY FS_Interval DEF Replaced
  <2>2. IsFiniteSet(Replaced)
    BY <2>1, FS_Subset
  <2> QED
    BY <2>2, FS_CardinalityType
<1>2. \A w \in V : Step(w) \in V
  BY DEF Replaced
<1>3. F \in [Nat \X V -> V] /\ v \in V
  <2>. HIDE DEF V, Step
  <2> QED
    BY <1>2 DEF V
<1>4. Resolve(v) = (CHOOSE h : Walk(h))[N]
  BY DEF Resolve
<1>5. PICK g \in [0 .. N -> V] : IteratesFrom(g, v, F, N)
  <2>. HIDE DEF F, V, N
  <2> QED
    BY <1>1, <1>3, Iterate
<1>6. ASSUME NEW k \in 1 .. N PROVE g[k] = Step(g[k - 1])
  <2>1. g[k] = F[<<k, g[k - 1]>>]
    BY <1>5 DEF IteratesFrom
  <2>. HIDE DEF V, Step, N
  <2>2. k \in Nat /\ k - 1 \in 0 .. N /\ g[k - 1] \in V
    BY <1>1, <1>5
  <2> QED
    BY <2>1, <2>2
<1>. HIDE DEF V, N, F
<1>7. g[0] = v
  BY <1>5 DEF IteratesFrom
<1>8. Walk(g)
  <2>1. ASSUME NEW k \in 0 .. N PROVE g[k] = IF k = 0 THEN v ELSE
            LET w == g[k - 1] IN IF w \in Replaced THEN repl[w] ELSE w
    BY <1>1, <1>6, <1>7
  <2>2. g = [k \in 0 .. N |-> g[k]]
    BY <1>5
  <2> QED
    BY <2>1, <2>2
<1>9. ASSUME NEW h, Walk(h) PROVE h[N] \in V
  <2> DEFINE T == {k \in 0 .. N : h[k] \in V}
  <2>1. 0 \in T
    BY <1>1, <1>3, <1>9
  <2>2. ASSUME NEW k \in 0 .. N - 1, k \in T PROVE k + 1 \in T
    <3>1. k + 1 \in 0 .. N /\ k + 1 # 0 /\ (k + 1) - 1 = k
      BY <1>1
    <3>2. h[k + 1] = Step(h[k])
      BY <1>9, <3>1
    <3>. HIDE DEF Step
    <3> QED
      BY <1>2, <2>2, <3>1, <3>2
  <2>. HIDE DEF T
  <2>3. \A k \in 0 .. N : k \in T
    BY <1>1, <2>1, <2>2, Induct
  <2> QED
    BY <1>1, <2>3 DEF T
<1> QED
  <2>. HIDE DEF Walk
  <2>1. Walk(CHOOSE h : Walk(h))
    BY <1>8
  <2> QED
    BY <1>4, <1>9, <2>1 DEF V

(* What reads a removed load reads what it read. *)
Resolving(f) ==
  LET Resolved(i) == [i EXCEPT !.args = [a \in DOMAIN @ |-> Resolve(@[a])]]
  IN EditInstrs(f, Resolved)

(* The function whose operands were replaced.                              *)
LEMMA ResolvedNumbered ==
  ASSUME NEW f, IsFunction(f), Numbered(f), DOMAIN repl \subseteq 1 .. f.values,
         repl \in [DOMAIN repl -> {NoValue} \cup (1 .. f.values)]
  PROVE  Numbered(Resolving(f)) /\ Resolving(f).values = f.values /\ SameFlow(Resolving(f), f)
<1> DEFINE h == Resolving(f)
           u(b, k) == [a \in DOMAIN f.code[b][k].args |-> Resolve(f.code[b][k].args[a])]
           X(b, k) == [f.code[b][k] EXCEPT !.args = u(b, k)]
<1>1. /\ DOMAIN h = {"code", "values"} /\ h.values = f.values
      /\ h.code = [b \in DOMAIN f.code |-> [k \in DOMAIN f.code[b] |-> X(b, k)]]
  BY FunctionFacts DEF Resolving, EditInstrs
<1>2. ASSUME NEW b \in DOMAIN f.code, NEW k \in DOMAIN f.code[b], NEW a \in DOMAIN f.code[b][k].args
      PROVE  u(b, k)[a] \in 1 .. f.values
  <2>1. f.code[b][k].args[a] \in 1 .. f.values
    BY InstrIsNumbered DEF IsNumbered, Range
  <2>2. f.values \in Nat
    BY NumberedFacts
  <2>3. Resolve(f.code[b][k].args[a]) \in 1 .. f.values
    BY <2>1, <2>2, Resolves
  <2> QED
    BY <2>3
<1>3. ASSUME NEW b \in DOMAIN f.code, NEW k \in DOMAIN f.code[b]
      PROVE  Rereads(X(b, k), f.code[b][k], f.values)
  <2>1. u(b, k) = [a \in DOMAIN f.code[b][k].args |-> u(b, k)[a]]
    OBVIOUS
  <2>2. \A a \in DOMAIN f.code[b][k].args : u(b, k)[a] \in 1 .. f.values
    BY <1>2
  <2> DEFINE i == f.code[b][k]
             t == u(b, k)
             x == X(b, k)
  <2>3. t = [a \in DOMAIN i.args |-> t[a]] /\ \A a \in DOMAIN i.args : t[a] \in 1 .. f.values
    BY <2>1, <2>2
  <2>4. x = [i EXCEPT !.args = t]
    OBVIOUS
  <2>. HIDE DEF t, i, x
  <2>5. Rereads(x, i, f.values)
    BY <2>3, <2>4 DEF Rereads
  <2> QED
    BY <2>5 DEF x, t, i
<1>9. \A b \in DOMAIN f.code : \A k \in DOMAIN f.code[b] : Touched(X(b, k), f.code[b][k])
  BY DEF Touched, IsInstr, InstrFields
<1>. HIDE DEF u, X, h
<1>4. SameSlots(h, f)
  BY <1>1 DEF SameSlots
<1>5. \A b \in DOMAIN f.code : \A k \in DOMAIN f.code[b] :
        Rereads(h.code[b][k], f.code[b][k], h.values)
  BY <1>1, <1>3
<1>6. f.values \in Nat /\ h.values \in Nat /\ f.values <= h.values
  BY <1>1, NumberedFacts
<1>7. Numbered(h)
  BY <1>4, <1>5, <1>6, OperandsEdited
<1>8. SameFlow(h, f)
  <2>1. AllTouched(h, f)
    BY <1>1, <1>9 DEF AllTouched
  <2> QED
    BY <1>4, <2>1, Retouched
<1> QED
  BY <1>1, <1>7, <1>8 DEF h

(* Some of a block goes. *)
LEMMA ThinnedNumbered ==
  ASSUME NEW f, IsFunction(f), Numbered(f), NEW e \in DOMAIN f.code, NEW K, NEW g, g.values = f.values,
         g.code = [f.code EXCEPT ![e] = KeptAt(f.code[e], K)]
  PROVE  Numbered(g)
<1> DEFINE c == f.code[e]
           d == KeptAt(c, K)
<1>1. \A b \in DOMAIN f.code : Fine(f.code[b], f.values)
  BY NumberedFacts
<1>2. Fine(c, f.values)
  BY <1>1
<1>3. g.code = [f.code EXCEPT ![e] = d]
  OBVIOUS
<1>. HIDE DEF c
<1>4. Fine(d, f.values) /\ Defs(d) \subseteq Defs(c)
  BY <1>2, FineKept
<1>. HIDE DEF d
<1>5. \A b \in DOMAIN g.code : /\ b \in DOMAIN f.code
                               /\ Fine(g.code[b], g.values)
                               /\ Defs(g.code[b]) \subseteq Defs(f.code[b])
  BY <1>1, <1>3, <1>4 DEF c
<1>6. g.values \in Nat
  BY NumberedFacts
<1> QED
  BY <1>5, <1>6, NumberedWithin

(* What the last two are kept in front of. *)
LEMMA KeptLastTwo ==
  ASSUME NEW s, IsSeq(s), Len(s) >= 2, NEW K, Len(s) \in K, Len(s) - 1 \in K
  PROVE  /\ Len(KeptAt(s, K)) >= 2
         /\ KeptAt(s, K)[Len(KeptAt(s, K)) - 1] = s[Len(s) - 1]
<1> DEFINE N == Len(s)
           t == KeptAt(s, K)
<1>1. N \in Nat /\ N >= 2 /\ N \in K /\ N - 1 \in K
  BY SeqFacts
<1>2. PICK h : KeptFun(s, K, h) /\ t = h[N]
  BY KeptUnfolds
<1>3. /\ h[0] = <<>>
      /\ \A n \in 1 .. N : h[n] = IF n \in K THEN Append(h[n - 1], s[n]) ELSE h[n - 1]
  BY <1>2, KeptStep
<1>. HIDE DEF N, t
<1>4. \A n \in 0 .. N : IsSeq(h[n])
  <2> DEFINE T == {n \in 0 .. N : IsSeq(h[n])}
  <2>1. 0 \in T
    BY <1>1, <1>3, EmptyList
  <2>2. ASSUME NEW n \in 0 .. N - 1, n \in T PROVE n + 1 \in T
    <3>1. n + 1 \in 1 .. N /\ (n + 1) - 1 = n /\ n + 1 \in 0 .. N
      BY <1>1
    <3>2. h[n + 1] = IF n + 1 \in K THEN Append(h[n], s[n + 1]) ELSE h[n]
      BY <1>3, <3>1
    <3> DEFINE x == s[n + 1]
               p == h[n]
    <3>3. IsSeq(p)
      BY <2>2
    <3>. HIDE DEF x, p
    <3>4. IsSeq(Append(p, x))
      BY <3>3, Appended
    <3> QED
      BY <3>1, <3>2, <3>3, <3>4 DEF p, x
  <2>. HIDE DEF T
  <2>3. \A n \in 0 .. N : n \in T
    BY <1>1, <2>1, <2>2, Induct
  <2> QED
    BY <2>3 DEF T
<1> DEFINE g == h[N - 2]
           x == s[N - 1]
           y == s[N]
           u == Append(g, x)
<1>5. IsSeq(g)
  BY <1>1, <1>4
<1>6. t = Append(u, y)
  <2>1. N \in 1 .. N /\ N - 1 \in 1 .. N /\ (N - 1) - 1 = N - 2
    BY <1>1
  <2>2. h[N - 1] = u
    BY <1>1, <1>3, <2>1
  <2> QED
    BY <1>1, <1>2, <1>3, <2>1, <2>2
<1>. HIDE DEF x, y, g
<1>7. IsSeq(u) /\ Len(u) = Len(g) + 1 /\ u[Len(g) + 1] = x /\ Len(g) \in Nat
  BY <1>5, Appended, SeqFacts
<1>. HIDE DEF u
<1>8. /\ Len(t) = Len(u) + 1 /\ \A k \in 1 .. Len(u) : t[k] = u[k]
  BY <1>6, <1>7, Appended
<1>9. Len(t) >= 2 /\ t[Len(t) - 1] = x
  BY <1>7, <1>8
<1> QED
  BY <1>9 DEF t, x, N

-----------------------------------------------------------------------------
(* A block cut in two, one of them new. *)
LEMMA NumberedSplit ==
  ASSUME NEW f, IsFunction(f), Numbered(f), NEW e \in DOMAIN f.code, NEW r, r \notin DOMAIN f.code,
         NEW g, g.values = f.values,
         \A b \in DOMAIN g.code : b \in DOMAIN f.code \/ b = r,
         \A b \in DOMAIN g.code : b # e /\ b # r => g.code[b] = f.code[b],
         Fine(g.code[e], f.values), Defs(g.code[e]) \subseteq Defs(f.code[e]),
         Fine(g.code[r], f.values), Defs(g.code[r]) \subseteq Defs(f.code[e]),
         Defs(g.code[e]) \cap Defs(g.code[r]) = {}
  PROVE  Numbered(g)
<1> DEFINE own == [b \in DOMAIN g.code |-> Defs(g.code[b])]
<1>1. /\ f.values \in Nat
      /\ \A b \in DOMAIN f.code : Fine(f.code[b], f.values)
      /\ \A b, c \in DOMAIN f.code : b # c => Defs(f.code[b]) \cap Defs(f.code[c]) = {}
  BY NumberedFacts
<1>2. \A b \in DOMAIN g.code : Fine(g.code[b], g.values) /\ Defs(g.code[b]) \subseteq own[b]
  BY <1>1
<1>3. ASSUME NEW b \in DOMAIN g.code, NEW c \in DOMAIN g.code, b # c
      PROVE  own[b] \cap own[c] = {}
  <2>1. \A x \in DOMAIN g.code :
          \/ x \in DOMAIN f.code /\ x # r /\ Defs(g.code[x]) \subseteq Defs(f.code[x])
          \/ x = r /\ Defs(g.code[x]) \subseteq Defs(f.code[e])
    OBVIOUS
  <2>2. own[b] = Defs(g.code[b]) /\ own[c] = Defs(g.code[c])
    OBVIOUS
  <2>. HIDE DEF own
  <2>3. CASE b # r /\ c # r
    BY <1>1, <1>3, <2>1, <2>2, <2>3
  <2>4. CASE b = r
    <3>1. c = e \/ (c # e /\ c \in DOMAIN f.code /\ Defs(g.code[c]) \subseteq Defs(f.code[c]))
      BY <1>3, <2>1, <2>4
    <3> QED
      BY <1>1, <2>1, <2>2, <2>4, <3>1
  <2>5. CASE c = r
    <3>1. b = e \/ (b # e /\ b \in DOMAIN f.code /\ Defs(g.code[b]) \subseteq Defs(f.code[b]))
      BY <1>3, <2>1, <2>5
    <3> QED
      BY <1>1, <2>1, <2>2, <2>5, <3>1
  <2> QED
    BY <2>3, <2>4, <2>5
<1>4. g.values \in Nat
  BY <1>1
<1>. HIDE DEF own
<1> QED
  BY <1>2, <1>3, <1>4, NumberedOf

-----------------------------------------------------------------------------
(* opt_tail_calls *)

(* A parameter is a value, so ir_param gave it one. *)
LEMMA ParamsNumbered ==
  ASSUME NEW f, IsFunction(f), Numbered(f)
  PROVE  /\ Fine(Params(f), f.values) /\ Len(Params(f)) \in Nat
         /\ DOMAIN Params(f) = 1 .. Len(Params(f))
         /\ \A j \in DOMAIN Params(f) : Params(f)[j].dst \in 1 .. f.values
<1> DEFINE c == f.code[EntryBlock]
           K == {k \in DOMAIN c : c[k].op \in {"param"}}
           t == Params(f)
<1>1. Fine(c, f.values)
  BY EntryIsBlock, NumberedFacts
<1>2. t = KeptAt(c, K)
  BY DEF Params, Only
<1>3. \A k \in DOMAIN c : k \in K => c[k].dst \in 1 .. f.values
  <2> SUFFICES ASSUME NEW k \in DOMAIN c, k \in K PROVE c[k].dst \in 1 .. f.values
    OBVIOUS
  <2>1. c[k].op = "param" /\ IsNumbered(c[k], f.values)
    BY <1>1 DEF Fine
  <2>2. c[k].dst # NoValue
    BY <2>1 DEF IsNumbered, IsTerminator
  <2> QED
    BY <2>1, <2>2, NumberedFacts DEF IsNumbered, NoValue
<1>. HIDE DEF c, K, t
<1>4. Fine(t, f.values)
  BY <1>1, <1>2, FineKept
<1>5. IsSeq(t) /\ \A k \in DOMAIN t : \E j \in DOMAIN c : j \in K /\ t[k] = c[j]
  <2>1. IsSeq(c)
    BY <1>1 DEF Fine
  <2> QED
    BY <1>2, <2>1, KeptFrom
<1>6. \A j \in DOMAIN t : t[j].dst \in 1 .. f.values
  BY <1>3, <1>5
<1> QED
  BY <1>4, <1>5, <1>6, SeqFacts DEF t

(* The entry split below its parameters.                                   *)
LEMMA SplitNumbered ==
  ASSUME NEW f, IsFunction(f), Numbered(f)
  PROVE  /\ Numbered(SplitEntry(f)) /\ SplitEntry(f).values = f.values
         /\ Len(SplitEntry(f).code) = Len(f.code) + 1
         /\ SplitEntry(f).code[Len(f.code) + 1] = Without(f.code[EntryBlock], {"param"})
         /\ \A b \in DOMAIN f.code : b # EntryBlock => SplitEntry(f).code[b] = f.code[b]
<1> DEFINE g == SplitEntry(f)
           c == f.code[EntryBlock]
           r == Len(f.code) + 1
           K == {k \in DOMAIN c : c[k].op \notin {"param"}}
           L == {k \in DOMAIN c : c[k].op \in {"param"}}
           top == KeptAt(c, L)
           jump == Jump(r)
           head == Append(top, jump)
           rest == KeptAt(c, K)
           h == NewBlock(f)
           e == EntryBlock
<1>1. /\ IsFunction(h) /\ DOMAIN h = {"code", "values"} /\ Len(h.code) = r /\ DOMAIN h.code = 1 .. r
      /\ \A b \in DOMAIN f.code : h.code[b] = f.code[b]
  BY BlockAdded
<1>2. /\ Len(f.code) \in Nat /\ Len(f.code) >= 1 /\ DOMAIN f.code = 1 .. Len(f.code)
      /\ e \in DOMAIN f.code
  BY EntryIsBlock, FunctionFacts DEF BlocksOf
<1>3. h.values = f.values
  BY FunctionFacts DEF NewBlock
<1>4. g = [h EXCEPT !.code[r] = rest, !.code[e] = head]
  BY DEF SplitEntry, LastBlock, Without, Params, Only
<1>5. f.values \in Nat /\ Fine(c, f.values)
  BY <1>2, NumberedFacts
<1>6. \A k \in DOMAIN c : ~ (k \in L /\ k \in K)
  OBVIOUS
<1>7. rest = Without(c, {"param"})
  BY DEF Without
<1>. HIDE DEF g, h, top, head, rest, c, K, L, jump
<1>8. r \in DOMAIN h.code /\ e \in DOMAIN h.code /\ r # e /\ r \notin DOMAIN f.code
      /\ DOMAIN f.code \subseteq DOMAIN h.code
  BY <1>1, <1>2
<1>9. \A b \in DOMAIN h.code : b \in DOMAIN f.code \/ b = r
  BY <1>1, <1>2
<1>. HIDE DEF r, e
<1>10. /\ g.values = f.values /\ DOMAIN g.code = DOMAIN h.code
       /\ g.code[r] = rest /\ g.code[e] = head
       /\ \A b \in DOMAIN h.code : b # r /\ b # e => g.code[b] = h.code[b]
  BY <1>1, <1>3, <1>4, <1>8
<1>11. /\ Fine(rest, f.values) /\ Defs(rest) \subseteq Defs(c)
       /\ \A v \in Defs(rest) : \E k \in DOMAIN c : k \in K /\ v = c[k].dst
  BY <1>5, FineKept DEF rest
<1>12. /\ Fine(top, f.values) /\ Defs(top) \subseteq Defs(c)
       /\ \A v \in Defs(top) : \E k \in DOMAIN c : k \in L /\ v = c[k].dst
  BY <1>5, FineKept DEF top
<1>13. IsNumbered(jump, f.values) /\ jump.dst = NoValue
  BY <1>5, JumpNumbered DEF jump
<1>14. Fine(head, f.values) /\ Defs(head) \subseteq Defs(top)
  <2>1. jump.dst \notin Defs(top)
    BY <1>13 DEF Defs
  <2>2. Fine(head, f.values) /\ Defs(head) \subseteq Defs(top) \cup ({jump.dst} \ {NoValue})
    BY <1>12, <1>13, <2>1, FineAppended DEF head
  <2> QED
    BY <1>13, <2>2
<1>15. Defs(head) \cap Defs(rest) = {}
  <2>1. \A v \in Defs(head) : v # NoValue /\ \E k \in DOMAIN c : k \in L /\ v = c[k].dst
    BY <1>12, <1>14 DEF Defs
  <2> QED
    BY <1>5, <1>6, <1>11, <2>1 DEF Fine, Once
<1>16. Numbered(g)
  <2>1. \A b \in DOMAIN g.code : b \in DOMAIN f.code \/ b = r
    BY <1>9, <1>10
  <2>2. \A b \in DOMAIN g.code : b # e /\ b # r => g.code[b] = f.code[b]
    BY <1>1, <1>9, <1>10
  <2>3. /\ Fine(g.code[e], f.values) /\ Defs(g.code[e]) \subseteq Defs(f.code[e])
        /\ Fine(g.code[r], f.values) /\ Defs(g.code[r]) \subseteq Defs(f.code[e])
        /\ Defs(g.code[e]) \cap Defs(g.code[r]) = {}
    BY <1>10, <1>11, <1>12, <1>14, <1>15 DEF c, e
  <2>4. g.values = f.values /\ e \in DOMAIN f.code /\ r \notin DOMAIN f.code
    BY <1>2, <1>8, <1>10
  <2> QED
    BY <2>1, <2>2, <2>3, <2>4, NumberedSplit
<1>17. Len(g.code) = r
  BY EntrySplit DEF g, r
<1>18. \A b \in DOMAIN f.code : b # e => g.code[b] = f.code[b]
  BY <1>1, <1>8, <1>10
<1> QED
  BY <1>7, <1>10, <1>16, <1>17, <1>18 DEF g, r, e, c

(* The phi of a parameter reads it along the edge from the entry, and what *)
(* the calls passed along the others.                                      *)
LEMMA HeaderPhiNumbered ==
  ASSUME NEW n \in Nat, NEW x, x.op = "phi", x.dst \in 1 .. n, NEW v \in 1 .. n,
         NEW t, IsSeq(t), NEW q, q = [k \in DOMAIN t |-> q[k]], \A k \in DOMAIN t : q[k] \in 1 .. n,
         NEW e, x.args = <<v>> \o q, x.from = <<e>> \o t
  PROVE  IsNumbered(x, n)
<1> DEFINE a == <<v>>
           f == <<e>>
<1>1. IsSeq(a) /\ Len(a) = 1 /\ a[1] = v
  <2>1. a \in Seq({v})
    OBVIOUS
  <2>2. Len(a) = 1 /\ a[1] = v
    OBVIOUS
  <2>. HIDE DEF a
  <2> QED
    BY <2>1, <2>2, TypedSeq
<1>2. IsSeq(f) /\ Len(f) = 1
  <2>1. f \in Seq({e})
    OBVIOUS
  <2>2. Len(f) = 1
    OBVIOUS
  <2>. HIDE DEF f
  <2> QED
    BY <2>1, <2>2, TypedSeq
<1>3. Len(t) \in Nat /\ DOMAIN t = 1 .. Len(t)
  BY SeqFacts
<1>4. IsSeq(q) /\ Len(q) = Len(t) /\ DOMAIN q = 1 .. Len(t)
  BY <1>3, ListIs
<1>. HIDE DEF a, f
<1>5. /\ IsSeq(a \o q) /\ Len(a \o q) = 1 + Len(t) /\ DOMAIN (a \o q) = 1 .. 1 + Len(t)
      /\ \A k \in 1 .. 1 + Len(t) : (a \o q)[k] = IF k <= 1 THEN a[k] ELSE q[k - 1]
  <2>1. /\ IsSeq(a \o q) /\ Len(a \o q) = Len(a) + Len(q) /\ DOMAIN (a \o q) = 1 .. Len(a) + Len(q)
        /\ \A k \in 1 .. Len(a) + Len(q) : (a \o q)[k] = IF k <= Len(a) THEN a[k] ELSE q[k - Len(a)]
    BY <1>1, <1>4, JoinedSeq
  <2> QED
    BY <1>1, <1>4, <2>1
<1>6. IsSeq(f \o t) /\ Len(f \o t) = 1 + Len(t)
  <2>1. IsSeq(f \o t) /\ Len(f \o t) = Len(f) + Len(t)
    BY <1>2, JoinedSeq
  <2> QED
    BY <1>2, <2>1
<1>7. ASSUME NEW k \in 1 .. 1 + Len(t) PROVE (a \o q)[k] \in 1 .. n
  <2>1. CASE k = 1
    BY <1>1, <1>5, <2>1
  <2>2. CASE k # 1
    <3>1. k - 1 \in DOMAIN t /\ ~ (k <= 1)
      BY <1>3, <2>2
    <3> QED
      BY <1>5, <3>1
  <2> QED
    BY <2>1, <2>2
<1> DEFINE s == a \o q
           u == f \o t
<1>8. IsSeq(s) /\ Range(s) \subseteq 1 .. n /\ Len(u) = Len(s) /\ IsSeq(u)
  <2>1. Range(s) \subseteq 1 .. n
    BY <1>5, <1>7 DEF Range
  <2> QED
    BY <1>5, <1>6, <2>1
<1>9. x.args = s /\ x.from = u
  BY DEF a, f
<1>. HIDE DEF s, u
<1>10. RequiredArgs(x)
  BY DEF RequiredArgs
<1>11. x.dst \in NoValue .. n /\ x.dst # NoValue
  BY DEF NoValue
<1> QED
  BY <1>8, <1>9, <1>10, <1>11 DEF IsNumbered

(* The tail call of a block, where the split has left it. *)
LEMMA TailCallAt ==
  ASSUME NEW f, IsFunction(f), Numbered(f), NEW self, NEW b \in DOMAIN f.code, EndsInTailCall(f, self, b)
  PROVE  LET g == SplitEntry(f)
             h == CallSite(g, b)[1]
         IN /\ h \in DOMAIN g.code /\ Len(g.code[h]) >= 2
            /\ h = (IF b = EntryBlock THEN Len(g.code) ELSE b)
            /\ CallSite(g, b)[2] = Len(g.code[h]) - 1
            /\ g.code[h][Len(g.code[h]) - 1] = TailCall(f, b)
<1> DEFINE g == SplitEntry(f)
           h == CallSite(g, b)[1]
           c == f.code[b]
           n == Len(c)
<1>1. n >= 2 /\ c[n].op = "ret" /\ c[n - 1].op = "call" /\ TailCall(f, b) = c[n - 1]
  BY DEF EndsInTailCall, CallsItself, TailCall
<1>2. IsFunction(g) /\ Len(g.code) = Len(f.code) + 1
  BY EntrySplit
<1>3. /\ g.code[Len(f.code) + 1] = Without(f.code[EntryBlock], {"param"})
      /\ (b # EntryBlock => g.code[b] = c)
  BY SplitNumbered
<1>4. /\ DOMAIN f.code = 1 .. Len(f.code) /\ DOMAIN g.code = 1 .. Len(g.code)
      /\ Len(f.code) \in Nat
  BY <1>2, FunctionFacts
<1>5. IsSeq(c)
  BY FunctionFacts, BlockFacts DEF BlocksOf
<1>6. h = (IF b = EntryBlock THEN Len(g.code) ELSE b) /\ CallSite(g, b)[2] = Len(g.code[h]) - 1
  BY DEF CallSite
<1>. HIDE DEF g, h
<1>7. CASE b # EntryBlock
  BY <1>1, <1>2, <1>3, <1>4, <1>6, <1>7 DEF g, h
<1>8. CASE b = EntryBlock
  <2> DEFINE K == {k \in DOMAIN c : c[k].op \notin {"param"}}
             t == KeptAt(c, K)
  <2>1. g.code[h] = t
    BY <1>2, <1>3, <1>6, <1>8 DEF Without
  <2>2. n \in K /\ n - 1 \in K
    <3>1. DOMAIN c = 1 .. n /\ n \in Nat
      BY <1>5, SeqFacts
    <3>2. n \in DOMAIN c /\ n - 1 \in DOMAIN c
      BY <1>1, <3>1
    <3> QED
      BY <1>1, <3>2
  <2>. HIDE DEF K
  <2>3. Len(t) >= 2 /\ t[Len(t) - 1] = c[n - 1]
    BY <1>1, <1>5, <2>2, KeptLastTwo
  <2>4. h \in DOMAIN g.code
    BY <1>2, <1>4, <1>6, <1>8
  <2>. HIDE DEF t
  <2> QED
    BY <1>1, <1>6, <2>1, <2>3, <2>4 DEF g, h
<1> QED
  BY <1>7, <1>8

(* The list without the call before its return.                            *)
LEMMA FineLastButOne ==
  ASSUME NEW n, NEW c, Fine(c, n), Len(c) >= 2
  PROVE  Fine(RemoveAt(c, Len(c) - 1), n) /\ Defs(RemoveAt(c, Len(c) - 1)) \subseteq Defs(c)
<1> DEFINE m == Len(c) - 1
<1>1. m \in DOMAIN c
  BY SeqFacts DEF Fine
<1>. HIDE DEF m
<1>2. Fine(RemoveAt(c, m), n) /\ Defs(RemoveAt(c, m)) \subseteq Defs(c)
  BY <1>1, FineRemoved
<1> QED
  BY <1>2 DEF m

(* The blocks once their tail calls jump back.                             *)
LEMMA ClosedFine ==
  ASSUME NEW g, IsFunction(g), NEW n \in Nat, \A b \in DOMAIN g.code : Fine(g.code[b], n), NEW T,
         \A b \in DOMAIN g.code : b \in T \ {EntryBlock} => Len(g.code[b]) >= 2,
         EntryBlock \in T => Len(g.code[Len(g.code)]) >= 2
  PROVE  /\ DOMAIN CloseLoops(g, T).code = DOMAIN g.code
         /\ \A b \in DOMAIN g.code : /\ Fine(CloseLoops(g, T).code[b], n)
                                     /\ Defs(CloseLoops(g, T).code[b]) \subseteq Defs(g.code[b])
<1> DEFINE h == CloseLoops(g, T)
           m == Len(g.code)
           Loop(c) == Append(Front(Front(c)), Jump(m))
<1>1. /\ DOMAIN h.code = DOMAIN g.code
      /\ \A b \in DOMAIN g.code :
           h.code[b] = IF b \in T \ {EntryBlock} THEN Loop(g.code[b])
                       ELSE IF b = m /\ EntryBlock \in T THEN RemoveAt(g.code[b], Len(g.code[b]) - 1)
                       ELSE g.code[b]
  BY FunctionFacts DEF CloseLoops
<1>2. ASSUME NEW c, Fine(c, n), Len(c) >= 2 PROVE Fine(Loop(c), n) /\ Defs(Loop(c)) \subseteq Defs(c)
  <2> DEFINE d == Front(c)
  <2>1. c # <<>> /\ IsSeq(c) /\ Len(c) \in Nat
    BY <1>2, SeqFacts, EmptyList DEF Fine
  <2>2. Len(d) = Len(c) - 1
    BY <2>1, FrontOf
  <2>3. d # <<>>
    BY <1>2, <2>1, <2>2, EmptyList
  <2>4. Fine(d, n) /\ Defs(d) \subseteq Defs(c)
    BY <1>2, <2>1, FineFront
  <2>5. Fine(Append(Front(d), Jump(m)), n) /\ Defs(Append(Front(d), Jump(m))) \subseteq Defs(d)
    <3>. HIDE DEF d, m
    <3> QED
      BY <2>3, <2>4, JumpsFine
  <2> QED
    BY <2>4, <2>5
<1>. HIDE DEF h, Loop
<1>3. ASSUME NEW b \in DOMAIN g.code
      PROVE  Fine(h.code[b], n) /\ Defs(h.code[b]) \subseteq Defs(g.code[b])
  <2>1. CASE b \in T \ {EntryBlock}
    BY <1>1, <1>2, <2>1
  <2>2. CASE b \notin T \ {EntryBlock} /\ b = m /\ EntryBlock \in T
    <3> DEFINE c == g.code[b]
    <3>1. h.code[b] = RemoveAt(c, Len(c) - 1) /\ Fine(c, n) /\ Len(c) >= 2
      BY <1>1, <2>2
    <3>. HIDE DEF c
    <3>2. Fine(RemoveAt(c, Len(c) - 1), n) /\ Defs(RemoveAt(c, Len(c) - 1)) \subseteq Defs(c)
      BY <3>1, FineLastButOne
    <3> QED
      BY <3>1, <3>2 DEF c
  <2>3. CASE b \notin T \ {EntryBlock} /\ ~ (b = m /\ EntryBlock \in T)
    BY <1>1, <2>3
  <2> QED
    BY <2>1, <2>2, <2>3
<1> QED
  BY <1>1, <1>3 DEF h

(* opt_tail_calls gives each parameter a phi, and every use of the         *)
(* parameter, but the phi's own, that phi.                                 *)
LEMMA LoopsKeepNumbers ==
  ASSUME NEW f, IsFunction(f), Numbered(f), NEW a, NEW self, CanLoop(f, a, self)
  PROVE  Numbered(LoopInsteadOfCalls(f, a, self))
<1> DEFINE tails   == TailBlocks(f, a, self)
           params  == Params(f)
           n       == Len(params)
           split   == SplitEntry(f)
           NewName(v) == IF ParamIndex(f, v) = 0 THEN v ELSE f.values + ParamIndex(f, v)
           Renamed(i) == [i EXCEPT !.args = [m \in DOMAIN @ |-> NewName(@[m])]]
           renamed == EditInstrs(split, Renamed)
           passed(j) == [t \in DOMAIN tails |->
                          InstrAt(renamed, CallSite(split, tails[t])).args[j + 1]]
           phi(j)  == [Instr("phi", f.values + j, <<params[j].dst>> \o passed(j))
                       EXCEPT !.ty = params[j].ty, !.from = <<EntryBlock>> \o tails]
           phis == [j \in 1 .. n |-> phi(n + 1 - j)]
           closed == CloseLoops(renamed, Range(tails))
           g == LoopInsteadOfCalls(f, a, self)
           top == f.values + n
           e == Len(split.code)
<1>1. g = [closed EXCEPT !.values = top, !.code[e] = phis \o @]
  BY DEF LoopInsteadOfCalls
<1>2. ASSUME NEW j
      PROVE  /\ phi(j).op = "phi" /\ phi(j).dst = f.values + j
             /\ phi(j).args = <<params[j].dst>> \o passed(j) /\ phi(j).from = <<EntryBlock>> \o tails
  BY DEF Instr
<1>3. \A j \in 1 .. n : phis[j] = phi(n + 1 - j)
  OBVIOUS
<1>4. phis = [j \in 1 .. n |-> phis[j]]
  OBVIOUS
<1>5. ASSUME NEW j
      PROVE  /\ passed(j) = [t \in DOMAIN tails |-> passed(j)[t]]
             /\ \A t \in DOMAIN tails :
                  passed(j)[t] = InstrAt(renamed, CallSite(split, tails[t])).args[j + 1]
  OBVIOUS
<1>. HIDE DEF passed, phi, phis, g
<1>6. /\ Numbered(split) /\ split.values = f.values /\ IsFunction(split)
      /\ Len(split.code) = Len(f.code) + 1 /\ e \in DOMAIN split.code
      /\ DOMAIN split.code = 1 .. e
      /\ \A b \in DOMAIN f.code : b # EntryBlock => split.code[b] = f.code[b]
  <2>1. Numbered(split) /\ split.values = f.values /\ IsFunction(split) /\ Len(split.code) = Len(f.code) + 1
    BY SplitNumbered, EntrySplit
  <2>2. \A b \in DOMAIN f.code : b # EntryBlock => split.code[b] = f.code[b]
    BY SplitNumbered
  <2>. HIDE DEF split
  <2>3. DOMAIN split.code = 1 .. Len(split.code) /\ Len(split.code) \in Nat /\ Len(split.code) >= 1
    BY <2>1, FunctionFacts
  <2> QED
    BY <2>1, <2>2, <2>3
<1>7. /\ f.values \in Nat /\ n \in Nat /\ top \in Nat /\ f.values <= top
      /\ DOMAIN params = 1 .. n /\ \A j \in 1 .. n : params[j].dst \in 1 .. f.values
  <2>1. f.values \in Nat
    BY NumberedFacts
  <2>2. /\ n \in Nat /\ DOMAIN params = 1 .. n
        /\ \A j \in DOMAIN params : params[j].dst \in 1 .. f.values
    BY ParamsNumbered
  <2>. HIDE DEF params, n
  <2> QED
    BY <2>1, <2>2
<1>8. IsSeq(tails) /\ \A b \in Range(tails) : b \in DOMAIN f.code /\ EndsInTailCall(f, self, b)
  <2>1. Len(f.code) \in Nat /\ DOMAIN f.code = 1 .. Len(f.code)
    BY FunctionFacts
  <2> DEFINE B == {b \in a.reach : EndsInTailCall(f, self, b)}
             N == Len(f.code)
  <2>2. tails = Ascending(B, N)
    BY DEF TailBlocks
  <2>. HIDE DEF B, tails, N
  <2>3. IsSeq(tails) /\ \A x \in Range(tails) : x \in B /\ x \in 1 .. N
    BY <2>1, <2>2, AscendingFrom DEF N
  <2> QED
    BY <2>1, <2>3 DEF B, N
<1>9. \A b \in Range(tails) : Len(TailCall(f, b).args) - 1 = n
  BY DEF CanLoop
<1>10. ASSUME NEW v \in 1 .. f.values PROVE NewName(v) \in 1 .. top
  <2> DEFINE I == {k \in 1 .. Len(params) : params[k].dst = v}
             p == ParamIndex(f, v)
  <2>1. p = IF I # {} THEN Min(I) ELSE 0
    BY DEF ParamIndex, SelectInSeq
  <2>2. I \subseteq 1 .. n
    OBVIOUS
  <2>3. NewName(v) = IF p = 0 THEN v ELSE f.values + p
    OBVIOUS
  <2>. HIDE DEF I, p, n, NewName
  <2>4. p \in 0 .. n
    BY <1>7, <2>1, <2>2, PositionOrNone
  <2> QED
    BY <1>7, <2>3, <2>4
<1>. HIDE DEF NewName, tails, split, params
<1>11. /\ SameSlots(renamed, split)
       /\ \A b \in DOMAIN split.code : \A k \in DOMAIN split.code[b] :
            renamed.code[b][k] = Renamed(split.code[b][k])
  BY <1>6, FunctionFacts DEF EditInstrs, SameSlots
<1>12. \A i : IsInstr(i) => /\ Renamed(i).args = [m \in DOMAIN i.args |-> NewName(i.args[m])]
                            /\ Renamed(i) = [i EXCEPT !.args = Renamed(i).args]
                            /\ Touched(Renamed(i), i)
  BY DEF IsInstr, InstrFields, Touched
<1>. HIDE DEF renamed, Renamed, e, n, top
<1>13. ASSUME NEW i, IsInstr(i), IsNumbered(i, f.values)
       PROVE  /\ IsNumbered(Renamed(i), top) /\ Renamed(i).dst = i.dst
              /\ DOMAIN Renamed(i).args = DOMAIN i.args
              /\ \A m \in DOMAIN i.args : Renamed(i).args[m] \in 1 .. top
  <2> DEFINE t == Renamed(i).args
             x == Renamed(i)
  <2>1. t = [m \in DOMAIN i.args |-> NewName(i.args[m])] /\ x = [i EXCEPT !.args = t]
    BY <1>12, <1>13
  <2>2. \A m \in DOMAIN i.args : i.args[m] \in 1 .. f.values
    BY <1>13 DEF IsNumbered, Range
  <2>. HIDE DEF t, x
  <2>3. /\ t = [m \in DOMAIN i.args |-> t[m]] /\ DOMAIN t = DOMAIN i.args
        /\ \A m \in DOMAIN i.args : t[m] \in 1 .. top
    BY <1>10, <2>1, <2>2
  <2>4. Rereads(x, i, top)
    BY <2>1, <2>3 DEF Rereads
  <2>5. i.dst \in NoValue .. top
    BY <1>7, <1>13 DEF IsNumbered, NoValue
  <2>6. IsNumbered(x, top) /\ x.dst = i.dst
    BY <1>7, <1>13, <2>4, <2>5, Reread
  <2> QED
    BY <2>3, <2>6 DEF t, x
<1>14. \A b \in DOMAIN split.code : \A k \in DOMAIN split.code[b] :
         IsInstr(split.code[b][k]) /\ IsNumbered(split.code[b][k], f.values)
  BY <1>6, InstrIsNumbered
<1>15. /\ DOMAIN renamed.code = DOMAIN split.code
       /\ \A b \in DOMAIN split.code :
            Fine(renamed.code[b], top) /\ Defs(renamed.code[b]) = Defs(split.code[b])
  <2>1. \A b \in DOMAIN split.code : \A k \in DOMAIN split.code[b] :
          IsNumbered(renamed.code[b][k], top) /\ renamed.code[b][k].dst = split.code[b][k].dst
    BY <1>11, <1>13, <1>14
  <2>2. IsFunction(split) /\ Numbered(split) /\ SameSlots(renamed, split)
    BY <1>6, <1>11
  <2> DEFINE Again(h, r, m) == \A b \in DOMAIN h.code : \A k \in DOMAIN h.code[b] :
                                  /\ IsNumbered(r.code[b][k], m)
                                  /\ r.code[b][k].dst = h.code[b][k].dst
             Same(h, r, m) == /\ DOMAIN r.code = DOMAIN h.code
                              /\ \A b \in DOMAIN h.code :
                                   Fine(r.code[b], m) /\ Defs(r.code[b]) = Defs(h.code[b])
  <2>3. ASSUME NEW h, NEW r, NEW m, IsFunction(h), Numbered(h), SameSlots(r, h), Again(h, r, m)
        PROVE  Same(h, r, m)
    BY <2>3, RewrittenFine
  <2>4. Again(split, renamed, top)
    BY <2>1
  <2>. HIDE DEF closed, Again, Same
  <2>5. Same(split, renamed, top)
    BY <2>2, <2>3, <2>4
  <2> QED
    BY <2>5 DEF Same
<1>16. /\ IsFunction(renamed)
       /\ \A b \in DOMAIN split.code : Len(renamed.code[b]) = Len(split.code[b])
       /\ Len(renamed.code) = e
  <2>1. AllTouched(renamed, split)
    BY <1>11, <1>12, <1>14 DEF AllTouched
  <2>2. /\ SameFlow(renamed, split)
        /\ \A b \in DOMAIN split.code : DOMAIN renamed.code[b] = DOMAIN split.code[b]
    BY <1>6, <1>11, <2>1, Retouched
  <2>3. IsFunction(renamed)
    BY <2>2 DEF SameFlow
  <2>4. ASSUME NEW b \in DOMAIN split.code PROVE Len(renamed.code[b]) = Len(split.code[b])
    <3>1. IsSeq(renamed.code[b]) /\ IsSeq(split.code[b])
      BY <1>6, <1>15, NumberedFacts DEF Fine
    <3>2. DOMAIN renamed.code[b] = DOMAIN split.code[b]
      BY <2>2
    <3> QED
      BY <3>1, <3>2, LenProperties DEF IsSeq
  <2>5. Len(renamed.code) = e
    <3>1. IsSeq(renamed.code) /\ IsSeq(split.code) /\ DOMAIN renamed.code = DOMAIN split.code
      BY <1>6, <1>15, <2>3, FunctionFacts
    <3> QED
      BY <3>1, LenProperties DEF IsSeq, e
  <2> QED
    BY <2>3, <2>4, <2>5
<1>17. ASSUME NEW t \in DOMAIN tails, NEW j \in 1 .. n
       PROVE  /\ InstrAt(renamed, CallSite(split, tails[t])).args[j + 1] \in 1 .. top
  <2> DEFINE b == tails[t]
             h == CallSite(split, b)[1]
             k == Len(split.code[h]) - 1
             i == split.code[h][k]
  <2>1. b \in Range(tails)
    BY DEF Range
  <2>2. b \in DOMAIN f.code /\ EndsInTailCall(f, self, b) /\ Len(TailCall(f, b).args) - 1 = n
    BY <1>8, <1>9, <2>1
  <2>3. /\ h \in DOMAIN split.code /\ Len(split.code[h]) >= 2 /\ CallSite(split, b)[2] = k
        /\ i = TailCall(f, b)
    BY <2>2, TailCallAt DEF split
  <2>4. InstrAt(renamed, CallSite(split, b)) = renamed.code[h][k]
    BY <2>3 DEF InstrAt
  <2>. HIDE DEF b, h
  <2>5. IsSeq(split.code[h])
    BY <1>6, <2>3, NumberedFacts DEF Fine
  <2>6. k \in DOMAIN split.code[h]
    BY <2>3, <2>5, SeqFacts
  <2>. HIDE DEF k
  <2>7. renamed.code[h][k] = Renamed(i) /\ IsInstr(i) /\ IsNumbered(i, f.values)
    BY <1>11, <1>14, <2>3, <2>6
  <2>8. Len(i.args) = n + 1 /\ IsSeq(i.args)
    <3>1. IsSeq(i.args)
      BY <2>7 DEF IsNumbered
    <3>. HIDE DEF i
    <3> QED
      BY <1>7, <2>2, <2>3, <3>1, SeqFacts
  <2>9. j + 1 \in DOMAIN i.args
    <3>. HIDE DEF i
    <3> QED
      BY <1>7, <2>8, SeqFacts
  <2>. HIDE DEF i
  <2> QED
    BY <1>13, <2>4, <2>7, <2>9 DEF b
<1>18. ASSUME NEW j \in 1 .. n PROVE IsNumbered(phi(j), top) /\ phi(j).dst = f.values + j
  <2> DEFINE x == phi(j)
             q == passed(j)
             v == params[j].dst
  <2>1. /\ x.op = "phi" /\ x.dst = f.values + j
        /\ x.args = <<v>> \o q /\ x.from = <<EntryBlock>> \o tails
    BY <1>2
  <2>2. q = [t \in DOMAIN tails |-> q[t]] /\ \A t \in DOMAIN tails : q[t] \in 1 .. top
    BY <1>5, <1>17
  <2>3. v \in 1 .. top /\ f.values + j \in 1 .. top
    BY <1>7 DEF top
  <2>. HIDE DEF x, q, v
  <2>4. IsNumbered(x, top)
    BY <1>7, <1>8, <2>1, <2>2, <2>3, HeaderPhiNumbered
  <2> QED
    BY <2>1, <2>4 DEF x
<1>19. Fine(phis, top) /\ Defs(phis) \subseteq f.values + 1 .. top
  <2>1. IsSeq(phis) /\ DOMAIN phis = 1 .. n
    BY <1>4, <1>7, ListIs
  <2>2. ASSUME NEW j \in 1 .. n
        PROVE  IsNumbered(phis[j], top) /\ phis[j].dst = f.values + (n + 1 - j)
    <3> DEFINE m == n + 1 - j
    <3>1. m \in 1 .. n
      BY <1>7
    <3>2. phis[j] = phi(m)
      BY <1>3
    <3>. HIDE DEF m
    <3> QED
      BY <1>18, <3>1, <3>2 DEF m
  <2>3. Once(phis)
    BY <1>7, <2>1, <2>2 DEF Once
  <2>4. Defs(phis) \subseteq f.values + 1 .. top
    BY <1>7, <2>1, <2>2 DEF Defs, top
  <2> QED
    BY <2>1, <2>2, <2>3, <2>4 DEF Fine
<1>20. /\ DOMAIN closed.code = DOMAIN split.code
       /\ \A b \in DOMAIN split.code : /\ Fine(closed.code[b], top)
                                       /\ Defs(closed.code[b]) \subseteq Defs(split.code[b])
  <2>1. ASSUME NEW b \in Range(tails)
        PROVE  IF b = EntryBlock THEN Len(renamed.code[e]) >= 2 ELSE Len(renamed.code[b]) >= 2
    <3> DEFINE h == CallSite(split, b)[1]
    <3>1. /\ h \in DOMAIN split.code /\ Len(split.code[h]) >= 2
          /\ h = (IF b = EntryBlock THEN Len(split.code) ELSE b)
      BY <1>8, TailCallAt DEF split
    <3>. HIDE DEF h
    <3> QED
      BY <1>16, <3>1 DEF e
  <2>2. \A b \in DOMAIN renamed.code : Fine(renamed.code[b], top)
    BY <1>15
  <2>3. \A b \in DOMAIN renamed.code : b \in Range(tails) \ {EntryBlock} => Len(renamed.code[b]) >= 2
    BY <2>1
  <2>4. EntryBlock \in Range(tails) => Len(renamed.code[Len(renamed.code)]) >= 2
    BY <1>16, <2>1
  <2>5. /\ DOMAIN closed.code = DOMAIN renamed.code
        /\ \A b \in DOMAIN renamed.code : /\ Fine(closed.code[b], top)
                                          /\ Defs(closed.code[b]) \subseteq Defs(renamed.code[b])
    BY <1>7, <1>16, <2>2, <2>3, <2>4, ClosedFine
  <2>. HIDE DEF closed
  <2> QED
    BY <1>15, <2>5
<1>. HIDE DEF closed
<1>21. g.values = top /\ g.code = [closed.code EXCEPT ![e] = phis \o closed.code[e]]
  <2>1. DOMAIN renamed = {"code", "values"}
    BY <1>16 DEF IsFunction
  <2>2. DOMAIN closed = {"code", "values"}
    BY <2>1 DEF closed, CloseLoops
  <2> QED
    BY <1>1, <2>2
<1> DEFINE c == closed.code[e]
<1>22. Fine(c, top) /\ Defs(c) \subseteq Defs(split.code[e])
  BY <1>6, <1>20 DEF e
<1>23. Fine(phis \o c, top) /\ Defs(phis \o c) \subseteq Defs(phis) \cup Defs(c)
  <2>1. Defs(split.code[e]) \subseteq 1 .. f.values
    BY <1>6, NumberedFacts DEF e
  <2>2. ~ \E v : v \in 1 .. f.values /\ v \in f.values + 1 .. top
    BY <1>7
  <2>3. Defs(phis) \cap Defs(c) = {}
    BY <1>19, <1>22, <2>1, <2>2
  <2>. HIDE DEF c
  <2> QED
    BY <1>19, <1>22, <2>3, FineJoined
<1>24. \A b \in DOMAIN g.code :
         /\ b \in DOMAIN split.code
         /\ Fine(g.code[b], g.values)
         /\ Defs(g.code[b]) \subseteq
              Defs(split.code[b]) \cup (IF b = e THEN split.values + 1 .. g.values ELSE {})
  <2>1. DOMAIN g.code = DOMAIN split.code
    BY <1>20, <1>21
  <2> SUFFICES ASSUME NEW b \in DOMAIN split.code
               PROVE  /\ Fine(g.code[b], g.values)
                      /\ Defs(g.code[b]) \subseteq
                           Defs(split.code[b]) \cup (IF b = e THEN split.values + 1 .. g.values ELSE {})
    BY <2>1
  <2>2. CASE b = e
    <3>1. g.code[b] = phis \o c
      BY <1>20, <1>21, <2>2
    <3>. HIDE DEF c
    <3> QED
      BY <1>6, <1>19, <1>21, <1>22, <1>23, <2>2, <3>1
  <2>3. CASE b # e
    <3>1. g.code[b] = closed.code[b]
      BY <1>20, <1>21, <2>3
    <3> QED
      BY <1>20, <1>21, <2>3, <3>1
  <2> QED
    BY <2>2, <2>3
<1>25. g.values \in Nat
  BY <1>7, <1>21
<1>26. Numbered(g)
  BY <1>6, <1>24, <1>25, NumberedFresh
<1> QED
  BY <1>26 DEF g

-----------------------------------------------------------------------------
(* opt_inline *)

(* split_after moves what is behind the call. *)
LEMMA CutNumbered ==
  ASSUME NEW f, IsFunction(f), Numbered(f), NEW s \in Sites(f), ~ IsTerminator(InstrAt(f, s).op)
  PROVE  Numbered(SplitAfter(f, s)) /\ SplitAfter(f, s).values = f.values
<1> DEFINE b == s[1]
           k == s[2]
           c == f.code[b]
           r == Len(f.code) + 1
           h == NewBlock(f)
           top == SubSeq(c, 1, k)
           end == SubSeq(c, k + 1, Len(c))
           cut == CutAt(f, s)
<1>1. /\ IsBlock(c) /\ b \in DOMAIN f.code /\ k \in DOMAIN c
  BY SiteFacts
<1>2. /\ IsFunction(h) /\ DOMAIN h = {"code", "values"} /\ Len(h.code) = r
      /\ DOMAIN h.code = 1 .. r /\ \A x \in DOMAIN f.code : h.code[x] = f.code[x]
  BY BlockAdded
<1>3. /\ Len(f.code) \in Nat /\ DOMAIN f.code = 1 .. Len(f.code) /\ h.values = f.values
  BY FunctionFacts DEF NewBlock
<1>4. r \in DOMAIN h.code /\ b # r /\ b \in DOMAIN h.code /\ r \notin DOMAIN f.code
      /\ \A x \in DOMAIN h.code : x \in DOMAIN f.code \/ x = r
  BY <1>1, <1>2, <1>3
<1>5. Fine(c, f.values)
  BY <1>1, NumberedFacts
<1>6. Len(c) \in Nat /\ DOMAIN c = 1 .. Len(c)
  BY <1>1, BlockFacts
<1>7. /\ DOMAIN cut = {"code", "values"} /\ cut.values = f.values
      /\ cut.code = [x \in DOMAIN h.code |-> cut.code[x]]
      /\ \A x \in DOMAIN h.code : cut.code[x] = IF x = b THEN top ELSE IF x = r THEN end ELSE h.code[x]
  BY <1>1, <1>2, <1>3, <1>4 DEF CutAt
<1>8. /\ IsFunction(cut)
      /\ SplitAfter(f, s) = RenameEdge(cut, Successors(cut, r), s[1], r)
  BY CallCut, CallSplit
<1>9. Fine(top, f.values) /\ Defs(top) \subseteq Defs(c)
      /\ \A v \in Defs(top) : \E j \in DOMAIN c : j \in 1 .. k /\ v = c[j].dst
  <2> DEFINE l == 1
             m == k
  <2>. HIDE DEF c, k
  <2>1. l \in Int /\ m \in Int /\ 1 <= l /\ l <= m + 1 /\ m <= Len(c)
    BY <1>1, <1>6
  <2>. HIDE DEF l, m
  <2>2. /\ Fine(SubSeq(c, l, m), f.values) /\ Defs(SubSeq(c, l, m)) \subseteq Defs(c)
        /\ \A v \in Defs(SubSeq(c, l, m)) : \E j \in DOMAIN c : j \in l .. m /\ v = c[j].dst
    BY <1>5, <2>1, FinePart
  <2> QED
    BY <2>2 DEF l, m, c, k
<1>10. Fine(end, f.values) /\ Defs(end) \subseteq Defs(c)
       /\ \A v \in Defs(end) : \E j \in DOMAIN c : j \in k + 1 .. Len(c) /\ v = c[j].dst
  <2> DEFINE l == k + 1
             m == Len(c)
  <2>. HIDE DEF c, k
  <2>1. l \in Int /\ m \in Int /\ 1 <= l /\ l <= m + 1 /\ m <= Len(c)
    BY <1>1, <1>6
  <2>. HIDE DEF l, m
  <2>2. /\ Fine(SubSeq(c, l, m), f.values) /\ Defs(SubSeq(c, l, m)) \subseteq Defs(c)
        /\ \A v \in Defs(SubSeq(c, l, m)) : \E j \in DOMAIN c : j \in l .. m /\ v = c[j].dst
    BY <1>5, <2>1, FinePart
  <2> QED
    BY <2>2 DEF l, m, c, k
<1>11. Defs(top) \cap Defs(end) = {}
  <2>. HIDE DEF top, end, c, k
  <2>1. \A v \in Defs(top) : v # NoValue
    BY DEF Defs
  <2>2. \A i, j : ~ (i \in 1 .. k /\ i \in k + 1 .. Len(c))
    BY <1>1, <1>6
  <2> QED
    BY <1>5, <1>9, <1>10, <2>1, <2>2 DEF Fine, Once
<1>. HIDE DEF cut, top, end, h, r, b, k
<1>12. Numbered(cut)
  <2>1. \A x \in DOMAIN cut.code : x \in DOMAIN f.code \/ x = r
    BY <1>4, <1>7
  <2>2. \A x \in DOMAIN cut.code : x # b /\ x # r => cut.code[x] = f.code[x]
    BY <1>2, <1>4, <1>7
  <2>3. cut.code[b] = top /\ cut.code[r] = end
    BY <1>4, <1>7
  <2>4. /\ Fine(cut.code[b], f.values) /\ Defs(cut.code[b]) \subseteq Defs(f.code[b])
        /\ Fine(cut.code[r], f.values) /\ Defs(cut.code[r]) \subseteq Defs(f.code[b])
        /\ Defs(cut.code[b]) \cap Defs(cut.code[r]) = {}
    BY <1>9, <1>10, <1>11, <2>3 DEF c
  <2>5. b \in DOMAIN f.code /\ r \notin DOMAIN f.code /\ cut.values = f.values
    BY <1>1, <1>4, <1>7
  <2> QED
    BY <2>1, <2>2, <2>4, <2>5, NumberedSplit
<1> DEFINE S == Successors(cut, r)
           g == RenameEdge(cut, S, b, r)
<1>13. Numbered(g) /\ g.values = cut.values
  <2>. HIDE DEF S
  <2> QED
    BY <1>8, <1>12, EdgeRenumbered
<1> QED
  BY <1>7, <1>8, <1>13 DEF b

(* Ascending lists its numbers once each. *)
LEMMA AscendingOnce ==
  ASSUME NEW S, NEW n \in Nat
  PROVE  LET t == Ascending(S, n)
         IN \A j, k \in DOMAIN t : t[j] = t[k] => j = k
<1> DEFINE s == [k \in 1 .. n |-> k]
           t == KeptAt(s, S)
<1>1. IsSeq(s) /\ DOMAIN s = 1 .. n /\ \A k \in 1 .. n : s[k] = k
  <2>1. s = [k \in 1 .. n |-> s[k]] /\ \A k \in 1 .. n : s[k] = k
    OBVIOUS
  <2>. HIDE DEF s
  <2> QED
    BY <2>1, ListIs
<1>. HIDE DEF s
<1>2. PICK p \in [DOMAIN KeptAt(s, S) -> DOMAIN s \cap S] :
        /\ \A j, k \in DOMAIN KeptAt(s, S) : p[j] = p[k] => j = k
        /\ \A k \in DOMAIN KeptAt(s, S) : KeptAt(s, S)[k] = s[p[k]]
  BY <1>1, KeptPicked
<1>3. \A k \in DOMAIN t : p[k] \in 1 .. n /\ t[k] = p[k]
  BY <1>1, <1>2
<1>4. Ascending(S, n) = t
  BY DEF Ascending, s
<1>. HIDE DEF t
<1> QED
  BY <1>2, <1>3, <1>4 DEF t

(* x does what i does, to other values, between other blocks. *)
Transplants(x, i, n) ==
  \E args, from : /\ x.op = i.op /\ x.args = args /\ x.from = from
                  /\ args = [a \in DOMAIN i.args |-> args[a]]
                  /\ from = [a \in DOMAIN i.from |-> from[a]]
                  /\ \A a \in DOMAIN i.args : args[a] \in 1 .. n
                  /\ x.dst \in NoValue .. n
                  /\ x.dst = NoValue => i.dst = NoValue

(* It is an instruction of the caller.                                     *)
LEMMA Transplanted ==
  ASSUME NEW m, NEW n, NEW i, IsNumbered(i, m), NEW x, Transplants(x, i, n)
  PROVE  IsNumbered(x, n)
<1> PICK args, from : /\ x.op = i.op /\ x.args = args /\ x.from = from
                      /\ args = [a \in DOMAIN i.args |-> args[a]]
                      /\ from = [a \in DOMAIN i.from |-> from[a]]
                      /\ \A a \in DOMAIN i.args : args[a] \in 1 .. n
                      /\ x.dst \in NoValue .. n
                      /\ x.dst = NoValue => i.dst = NoValue
  BY DEF Transplants
<1>1. IsSeq(i.args) /\ Len(i.args) \in Nat /\ DOMAIN i.args = 1 .. Len(i.args)
  BY SeqFacts DEF IsNumbered
<1>2. IsSeq(args) /\ Len(args) = Len(i.args)
  BY <1>1, ListIs
<1>3. Range(args) \subseteq 1 .. n
  BY DEF Range
<1>4. RequiredArgs(x)
  BY <1>2 DEF RequiredArgs, IsNumbered
<1>5. x.op = "phi" => IsSeq(x.from) /\ Len(x.from) = Len(x.args)
  <2> SUFFICES ASSUME x.op = "phi" PROVE IsSeq(from) /\ Len(from) = Len(args)
    OBVIOUS
  <2>1. IsSeq(i.from) /\ Len(i.from) = Len(i.args)
    BY DEF IsNumbered
  <2>2. DOMAIN i.from = 1 .. Len(i.args)
    BY <2>1, SeqFacts
  <2>3. IsSeq(from) /\ Len(from) = Len(i.args)
    BY <1>1, <2>2, ListIs
  <2> QED
    BY <1>2, <2>3
<1>6. x.dst = NoValue => IsTerminator(x.op) \/ x.op \in {"store", "memcpy", "call"}
  BY DEF IsNumbered
<1> QED
  BY <1>2, <1>3, <1>4, <1>5, <1>6 DEF IsNumbered

(* d is c copied, what it defines v higher. *)
MovedUp(d, c, n, v) ==
  /\ d = [k \in DOMAIN c |-> d[k]]
  /\ \A k \in DOMAIN c : /\ IsNumbered(d[k], n)
                         /\ d[k].dst = IF c[k].dst = NoValue THEN NoValue ELSE v + c[k].dst

(* A list of them defines values that are fresh there.                     *)
LEMMA FineMoved ==
  ASSUME NEW m \in Nat, NEW n, NEW v \in Nat, NEW c, Fine(c, m), NEW d, MovedUp(d, c, n, v)
  PROVE  Fine(d, n) /\ \A w \in Defs(d) : \E u \in Defs(c) : w = v + u
<1>0. /\ d = [k \in DOMAIN c |-> d[k]]
      /\ \A k \in DOMAIN c : /\ IsNumbered(d[k], n)
                             /\ d[k].dst = IF c[k].dst = NoValue THEN NoValue ELSE v + c[k].dst
  BY DEF MovedUp
<1>1. Len(c) \in Nat /\ DOMAIN c = 1 .. Len(c)
  BY SeqFacts DEF Fine
<1>2. IsSeq(d) /\ DOMAIN d = 1 .. Len(c)
  BY <1>0, <1>1, ListIs
<1>3. \A k \in DOMAIN c : c[k].dst \in Int /\ c[k].dst >= 0 /\ NoValue = 0
  BY DEF Fine, IsNumbered, NoValue
<1>4. Once(d)
  <2> SUFFICES ASSUME NEW j \in DOMAIN c, NEW k \in DOMAIN c, d[j].dst # NoValue, d[j].dst = d[k].dst
               PROVE  j = k
    BY <1>1, <1>2 DEF Once
  <2>1. c[j].dst # NoValue /\ c[j].dst = c[k].dst
    BY <1>0, <1>3
  <2> QED
    BY <2>1 DEF Fine, Once
<1>5. Fine(d, n)
  BY <1>0, <1>1, <1>2, <1>4 DEF Fine
<1>6. ASSUME NEW w \in Defs(d) PROVE \E u \in Defs(c) : w = v + u
  <2>1. PICK k \in DOMAIN c : w = d[k].dst /\ w # NoValue
    BY <1>1, <1>2 DEF Defs
  <2>2. c[k].dst # NoValue /\ w = v + c[k].dst
    BY <1>0, <2>1
  <2>3. c[k].dst \in Defs(c)
    BY <2>2 DEF Defs
  <2> QED
    BY <2>2, <2>3
<1> QED
  BY <1>5, <1>6

(* What a call to a parameterless name cannot be: no other instruction     *)
(* defines a parameter.                                                    *)
LEMMA NoParameter ==
  ASSUME NEW f, IsFunction(f), Numbered(f), NEW b \in DOMAIN f.code, NEW k \in DOMAIN f.code[b],
         f.code[b][k].op # "param", f.code[b][k].dst # NoValue
  PROVE  ParamIndex(f, f.code[b][k].dst) = 0
<1> DEFINE v == f.code[b][k].dst
           t == Params(f)
           I == {j \in 1 .. Len(t) : t[j].dst = v}
           c == f.code[EntryBlock]
           K == {j \in DOMAIN c : c[j].op \in {"param"}}
<1>1. ParamIndex(f, v) = IF I # {} THEN Min(I) ELSE 0
  BY DEF ParamIndex, SelectInSeq
<1>2. t = KeptAt(c, K)
  BY DEF Params, Only
<1>3. EntryBlock \in DOMAIN f.code /\ Fine(c, f.values) /\ Fine(f.code[b], f.values)
  BY EntryIsBlock, NumberedFacts
<1>4. v \in Defs(f.code[b])
  BY DEF Defs
<1>5. b # EntryBlock => Defs(f.code[b]) \cap Defs(c) = {}
  BY <1>3, NumberedFacts
<1>6. \A j \in DOMAIN c : j \in K => c[j].op = "param"
  OBVIOUS
<1>7. DOMAIN t = 1 .. Len(t)
  BY ParamsNumbered
<1>8. I = {}
  <2> SUFFICES ASSUME NEW j \in 1 .. Len(t), t[j].dst = v PROVE FALSE
    OBVIOUS
  <2>. HIDE DEF K, t, v
  <2>1. IsSeq(c)
    BY <1>3 DEF Fine
  <2>2. PICK l \in DOMAIN c : l \in K /\ t[j] = c[l]
    BY <1>2, <1>7, <2>1, KeptFrom
  <2>3. c[l].op = "param" /\ c[l].dst = v
    BY <1>6, <2>2
  <2>4. v # NoValue
    BY DEF v
  <2>5. v \in Defs(c)
    BY <2>3, <2>4 DEF Defs
  <2>6. b = EntryBlock
    BY <1>4, <1>5, <2>5
  <2>7. l = k
    BY <1>3, <2>3, <2>4, <2>6 DEF Fine, Once, v
  <2> QED
    BY <2>3, <2>6, <2>7
<1>. HIDE DEF I
<1> QED
  BY <1>1, <1>8 DEF v

(* The end of a block replaced by a jump, if the block has one. *)
LEMMA JumpsAnyway ==
  ASSUME NEW n \in Nat, NEW c, Fine(c, n), NEW t
  PROVE  Fine(Append(Front(c), Jump(t)), n) /\ Defs(Append(Front(c), Jump(t))) \subseteq Defs(c)
<1>1. CASE c # <<>>
  BY <1>1, JumpsFine
<1>2. CASE c = <<>>
  <2> DEFINE d == Front(c)
             j == Jump(t)
             m == Len(c) - 1
  <2>1. d = <<>>
    <3>1. d = SubSeq(c, 1, m)
      BY DEF Front
    <3>2. m \in Int /\ m < 1
      BY <1>2, EmptyList
    <3>. HIDE DEF m, d
    <3> QED
      BY <3>1, <3>2, SubSeqEmpty
  <2>2. IsNumbered(j, n) /\ j.dst = NoValue
    BY JumpNumbered
  <2>3. Fine(<<>>, n) /\ Defs(<<>>) = {}
    BY FineNothing
  <2>. HIDE DEF d, j
  <2>4. j.dst \notin Defs(d)
    BY <2>1, <2>3
  <2>5. Fine(Append(d, j), n) /\ Defs(Append(d, j)) \subseteq Defs(d) \cup ({j.dst} \ {NoValue})
    BY <2>1, <2>2, <2>3, <2>4, FineAppended
  <2> QED
    BY <2>1, <2>2, <2>3, <2>5 DEF d, j
<1> QED
  BY <1>1, <1>2

(* Two instructions, the second of which defines nothing. *)
LEMMA FineTwo ==
  ASSUME NEW n, NEW i, IsNumbered(i, n), NEW j, IsNumbered(j, n), j.dst = NoValue
  PROVE  Fine(<<i, j>>, n) /\ Defs(<<i, j>>) \subseteq {i.dst}
<1> DEFINE t == <<i, j>>
<1>1. t = [k \in 1 .. 2 |-> t[k]] /\ t[1] = i /\ t[2] = j
  OBVIOUS
<1>. HIDE DEF t
<1>2. IsSeq(t) /\ DOMAIN t = 1 .. 2
  BY <1>1, ListIs
<1>3. Fine(t, n)
  BY <1>1, <1>2 DEF Fine, Once
<1>4. Defs(t) \subseteq {i.dst}
  BY <1>1, <1>2 DEF Defs
<1> QED
  BY <1>3, <1>4 DEF t

(* Whatever is in r is in one of the lists of s, and of the kinds ops. *)
Gathers(r, s, ops) ==
  \A k \in DOMAIN r : \E j \in DOMAIN s : \E l \in DOMAIN s[j] :
    r[k] = s[j][l] /\ s[j][l].op \in ops

(* All the instructions of some blocks that are of some kinds, last first. *)
LEMMA GatheredFine ==
  ASSUME NEW n, NEW s, IsSeq(s), \A j \in DOMAIN s : Fine(s[j], n),
         \A j, k \in DOMAIN s : j # k => Defs(s[j]) \cap Defs(s[k]) = {}, NEW ops,
         NEW r, r = Reverse(Only(FlattenSeq(s), ops))
  PROVE  Fine(r, n) /\ Gathers(r, s, ops)
<1> DEFINE E == UNION {Range(s[j]) : j \in DOMAIN s}
           all == FlattenSeq(s)
           K == {k \in DOMAIN all : all[k].op \in ops}
           c == KeptAt(all, K)
           d == Reverse(c)
<1>1. ASSUME NEW j \in DOMAIN s PROVE s[j] \in Seq(E)
  <2>1. s[j] \in Seq(Range(s[j])) /\ Range(s[j]) \subseteq E
    BY DEF IsSeq, Fine
  <2>. HIDE DEF E
  <2> QED
    BY <2>1, SeqMonotonic
<1>2. \A i \in E : \E j \in DOMAIN s : \E l \in DOMAIN s[j] : i = s[j][l]
  BY DEF Range
<1>3. all \in Seq(E)
  <2>. HIDE DEF E
  <2> QED
    BY <1>1, Flattened
<1>4. Fine(all, n)
  BY FineFlattened
<1>5. \A k \in DOMAIN all : k \in K => all[k].op \in ops
  OBVIOUS
<1>. HIDE DEF all, E, K
<1>6. \A k \in DOMAIN all : all[k] \in E
  BY <1>3
<1>7. Fine(c, n) /\ \A k \in DOMAIN c : \E j \in DOMAIN all : j \in K /\ c[k] = all[j]
  <2>1. IsSeq(all)
    BY <1>4 DEF Fine
  <2> QED
    BY <1>4, <2>1, FineKept, KeptFrom
<1>. HIDE DEF c
<1>8. Fine(d, n)
  BY <1>7, FineReversed
<1>9. Len(c) \in Nat /\ DOMAIN c = 1 .. Len(c)
  BY <1>7, SeqFacts DEF Fine
<1>10. d = [k \in 1 .. Len(c) |-> d[k]] /\ \A k \in 1 .. Len(c) : d[k] = c[Len(c) - k + 1]
  BY DEF Reverse
<1>. HIDE DEF d
<1>11. ASSUME NEW k \in DOMAIN d
       PROVE  \E j \in DOMAIN s : \E l \in DOMAIN s[j] : d[k] = s[j][l] /\ s[j][l].op \in ops
  <2>1. k \in 1 .. Len(c) /\ Len(c) - k + 1 \in DOMAIN c
    BY <1>9, <1>10
  <2>2. PICK j \in DOMAIN all : j \in K /\ d[k] = all[j]
    BY <1>7, <1>10, <2>1
  <2> QED
    BY <1>2, <1>5, <1>6, <2>2
<1>12. d = r
  BY DEF d, c, K, all, Only
<1> QED
  BY <1>8, <1>11, <1>12 DEF Gathers

(* What blocks define, in layers: up to a, from there to b, and beyond.    *)
Layered(D, a, b, low, mid, high) ==
  /\ \A x \in D : low[x] \subseteq 1 .. a
  /\ \A x \in D : mid[x] \subseteq a + 1 .. b
  /\ \A x \in D : \A v \in high[x] : v \in Nat /\ v > b
  /\ \A x, y \in D : x # y => low[x] \cap low[y] = {}
  /\ \A x, y \in D : x # y => mid[x] \cap mid[y] = {}
  /\ \A x, y \in D : x # y => high[x] \cap high[y] = {}

InLayers(g, D, low, mid, high) ==
  /\ DOMAIN g.code = D /\ g.values \in Nat
  /\ \A x \in D : Fine(g.code[x], g.values) /\ Defs(g.code[x]) \subseteq low[x] \cup mid[x] \cup high[x]

(* Blocks define each value once when they define it once in its layer.    *)
LEMMA Layers ==
  ASSUME NEW a \in Nat, NEW b \in Nat, a <= b, NEW D, NEW low, NEW mid, NEW high,
         Layered(D, a, b, low, mid, high), NEW g, InLayers(g, D, low, mid, high)
  PROVE  Numbered(g)
<1> DEFINE own == [x \in D |-> low[x] \cup mid[x] \cup high[x]]
<1>1. ASSUME NEW x \in D, NEW y \in D PROVE low[x] \cap mid[y] = {} /\ low[x] \cap high[y] = {} /\ mid[x] \cap high[y] = {}
  <2>1. \A v : v \in 1 .. a => ~ (v \in a + 1 .. b) /\ ~ (v > b)
    OBVIOUS
  <2>2. \A v : v \in a + 1 .. b => ~ (v > b)
    OBVIOUS
  <2>3. low[x] \subseteq 1 .. a /\ mid[x] \subseteq a + 1 .. b
        /\ mid[y] \subseteq a + 1 .. b /\ \A v \in high[y] : v > b
    BY DEF Layered
  <2> QED
    BY <2>1, <2>2, <2>3
<1>2. ASSUME NEW x \in D, NEW y \in D, x # y PROVE own[x] \cap own[y] = {}
  <2>1. low[x] \cap low[y] = {} /\ mid[x] \cap mid[y] = {} /\ high[x] \cap high[y] = {}
    BY <1>2 DEF Layered
  <2>2. /\ low[x] \cap mid[y] = {} /\ low[x] \cap high[y] = {} /\ mid[x] \cap high[y] = {}
        /\ low[y] \cap mid[x] = {} /\ low[y] \cap high[x] = {} /\ mid[y] \cap high[x] = {}
    BY <1>1
  <2> QED
    BY <2>1, <2>2
<1>3. /\ \A x \in DOMAIN g.code : Fine(g.code[x], g.values) /\ Defs(g.code[x]) \subseteq own[x]
      /\ DOMAIN g.code = D /\ g.values \in Nat
  BY DEF InLayers
<1>. HIDE DEF own
<1> QED
  BY <1>2, <1>3, NumberedOf

(* inline_one: the values of the callee become as many above those of the  *)
(* caller, but for the parameters, which are not defined a second time.    *)
LEMMA CopyKeepsNumbers ==
  ASSUME NEW f, IsFunction(f), Numbered(f), NEW s \in Sites(f), ~ IsTerminator(InstrAt(f, s).op),
         NEW callee, IsFunction(callee), Numbered(callee),
         IsNumbered(InstrAt(f, s), f.values),
         Len(InstrAt(f, s).args) - 1 = Len(Params(callee))
  PROVE  /\ Numbered(CopyInto(f, s, callee))
         /\ CopyInto(f, s, callee).values = f.values + callee.values + Len(callee.code) + 1
<1> DEFINE call    == InstrAt(f, s)
           split   == SplitAfter(f, s)
           resume  == Len(split.code)
           copied  == Ascending(ReachedBlocks(callee), Len(callee.code))
           fv      == f.values
           cv      == callee.values
           N       == Len(callee.code)
           base    == fv + cv
           result  == f.values + callee.values + Len(callee.code) + 1
           M(v)    == LET p == ParamIndex(callee, v)
                      IN IF p # 0 THEN ArgumentFor(call, p) ELSE f.values + v
           B(b)    == resume + SelectInSeq(copied, LAMBDA c : c = b)
           ZeroIn(b)  == f.values + callee.values + b
           Copy(i) == [i EXCEPT !.dst  = IF @ = NoValue THEN NoValue ELSE M(@),
                                !.args = [a \in DOMAIN @ |-> M(@[a])],
                                !.to   = [a \in DOMAIN @ |-> B(@[a])],
                                !.from = [a \in DOMAIN @ |-> B(@[a])]]
           all     == FlattenSeq([n \in DOMAIN copied |-> callee.code[copied[n]]])
           allocas   == Reverse(Only(all, {"alloca"}))
           IsBare(b) == Last(callee.code[b]).args = <<>>
           End(b)  == IF ~ ReturnsFrom(callee, b) THEN <<>>
                      ELSE IF IsBare(b) /\ call.dst # NoValue
                        THEN <<Const(ZeroIn(b), 0, call.ty), Jump(resume)>>
                        ELSE <<Jump(resume)>>
           Plain(b) == Without(callee.code[b], {"param", "alloca", "ret"})
           Moved(b) == [k \in DOMAIN Plain(b) |-> Copy(Plain(b)[k])]
           Body(b) == [k \in DOMAIN Plain(b) |-> Copy(Plain(b)[k])] \o End(b)
           returns == Ascending({b \in Range(copied) : ReturnsFrom(callee, b)}, Len(callee.code))
           returned == [n \in DOMAIN returns |->
                          IF IsBare(returns[n]) THEN ZeroIn(returns[n])
                          ELSE M(Last(callee.code[returns[n]]).args[1])]
           origins == [n \in DOMAIN returns |-> B(returns[n])]
           phi     == [Instr("phi", result,
                             [n \in DOMAIN returns |->
                                IF IsBare(returns[n]) THEN ZeroIn(returns[n])
                                ELSE M(Last(callee.code[returns[n]]).args[1])])
                       EXCEPT !.ty = call.ty, !.from = [n \in DOMAIN returns |-> B(returns[n])]]
           bodies  == [n \in DOMAIN copied |-> Body(copied[n])]
           joined  == [split EXCEPT !.code = @ \o bodies]
           top     == IF call.dst = NoValue THEN <<>> ELSE <<phi>>
           entered == [joined EXCEPT
                         !.values = result,
                         !.code[s[1]] = Append(Front(@), Jump(B(EntryBlock))),
                         !.code[resume] = top \o @]
           slotsOf == [k \in DOMAIN allocas |-> Copy(allocas[k])]
           framed  == [entered EXCEPT !.code[EntryBlock] = slotsOf \o @]
<1>1. CopyInto(f, s, callee) = framed
  BY DEF CopyInto
<1>2. /\ IsFunction(split) /\ resume = Len(f.code) + 1 /\ resume \in Nat /\ resume >= 2
      /\ Numbered(split) /\ split.values = fv /\ DOMAIN split.code = 1 .. resume
  <2>1. IsFunction(split) /\ resume = Len(f.code) + 1
    BY CallSplit
  <2>2. Len(f.code) \in Nat /\ Len(f.code) >= 1
    BY FunctionFacts
  <2>3. Numbered(split) /\ split.values = fv
    BY CutNumbered
  <2>. HIDE DEF split
  <2>4. DOMAIN split.code = 1 .. resume
    BY <2>1, FunctionFacts
  <2> QED
    BY <2>1, <2>2, <2>3, <2>4
<1>3. /\ IsSeq(copied) /\ Len(copied) \in Nat /\ DOMAIN copied = 1 .. Len(copied)
      /\ \A n \in DOMAIN copied : copied[n] \in DOMAIN callee.code
      /\ \A n, m \in DOMAIN copied : copied[n] = copied[m] => n = m
      /\ DOMAIN callee.code = 1 .. N /\ N \in Nat
  <2>1. N \in Nat /\ DOMAIN callee.code = 1 .. N
    BY FunctionFacts
  <2>2. IsSeq(copied) /\ \A x \in Range(copied) : x \in 1 .. N
    BY <2>1, AscendingFrom
  <2>3. \A n, m \in DOMAIN copied : copied[n] = copied[m] => n = m
    BY <2>1, AscendingOnce
  <2>. HIDE DEF copied, N
  <2> QED
    BY <2>1, <2>2, <2>3, SeqFacts DEF Range
<1>4. /\ fv \in Nat /\ cv \in Nat /\ base \in Nat /\ result = base + N + 1
      /\ fv <= base /\ result \in Nat /\ base <= result /\ fv <= result
  <2>1. fv \in Nat /\ cv \in Nat
    BY NumberedFacts
  <2>. HIDE DEF N
  <2>2. result = base + N + 1
    BY DEF N
  <2>. HIDE DEF fv, cv, result
  <2> QED
    BY <1>3, <2>1, <2>2
<1>5. ASSUME NEW v \in 1 .. cv PROVE M(v) \in 1 .. base
  <2> DEFINE p == ParamIndex(callee, v)
             params == Params(callee)
             I == {k \in 1 .. Len(params) : params[k].dst = v}
             args == call.args
  <2>1. p = IF I # {} THEN Min(I) ELSE 0
    BY DEF ParamIndex, SelectInSeq
  <2>2. I \subseteq 1 .. Len(params)
    OBVIOUS
  <2>3. Len(params) \in Nat
    BY ParamsNumbered
  <2>4. M(v) = IF p # 0 THEN args[p + 1] ELSE fv + v
    BY DEF ArgumentFor
  <2>5. IsSeq(args) /\ Range(args) \subseteq 1 .. fv /\ Len(args) - 1 = Len(params)
    BY DEF IsNumbered
  <2>. HIDE DEF p, I, params, M, args, fv, cv
  <2>6. p \in 0 .. Len(params)
    BY <2>1, <2>2, <2>3, PositionOrNone
  <2>7. Len(args) \in Nat /\ DOMAIN args = 1 .. Len(args)
    BY <2>5, SeqFacts
  <2>8. CASE p # 0
    <3>1. p + 1 \in DOMAIN args
      BY <2>3, <2>5, <2>6, <2>7, <2>8
    <3>2. args[p + 1] \in 1 .. fv
      BY <2>5, <3>1 DEF Range
    <3> QED
      BY <1>4, <2>4, <2>8, <3>2
  <2>9. CASE p = 0
    BY <1>4, <2>4, <2>9
  <2> QED
    BY <2>8, <2>9
<1>. HIDE DEF M
<1>51. \A v \in 1 .. cv : M(v) \in 1 .. result /\ M(v) # NoValue
  <2>. HIDE DEF cv, base, result
  <2> QED
    BY <1>4, <1>5 DEF NoValue
<1>6. ASSUME NEW i, IsInstr(i), IsNumbered(i, cv)
      PROVE  /\ IsNumbered(Copy(i), result)
             /\ Copy(i).dst = IF i.dst = NoValue THEN NoValue ELSE M(i.dst)
  <2> DEFINE x == Copy(i)
             args == [a \in DOMAIN i.args |-> M(i.args[a])]
             from == [a \in DOMAIN i.from |-> B(i.from[a])]
  <2>1. /\ x.op = i.op /\ x.args = args /\ x.from = from
        /\ x.dst = IF i.dst = NoValue THEN NoValue ELSE M(i.dst)
    <3>. HIDE DEF B, M
    <3> QED
      BY <1>6 DEF IsInstr, InstrFields
  <2>2. /\ args = [a \in DOMAIN i.args |-> args[a]] /\ from = [a \in DOMAIN i.from |-> from[a]]
        /\ \A a \in DOMAIN i.args : args[a] = M(i.args[a])
    OBVIOUS
  <2>3. \A a \in DOMAIN i.args : i.args[a] \in 1 .. cv
    BY <1>6 DEF IsNumbered, Range
  <2>4. i.dst \in NoValue .. cv
    BY <1>6 DEF IsNumbered
  <2>. HIDE DEF x, args, from, M, B, base, result, cv, fv
  <2>5. \A a \in DOMAIN i.args : args[a] \in 1 .. result
    BY <1>51, <2>2, <2>3
  <2>6. i.dst # NoValue => i.dst \in 1 .. cv
    BY <1>4, <2>4 DEF NoValue
  <2>7. x.dst \in NoValue .. result /\ (x.dst = NoValue => i.dst = NoValue)
    BY <1>4, <1>51, <2>1, <2>6 DEF NoValue
  <2>8. Transplants(x, i, result)
    BY <2>1, <2>2, <2>5, <2>7 DEF Transplants
  <2>9. IsNumbered(x, result)
    BY <1>6, <2>8, Transplanted
  <2> QED
    BY <2>1, <2>9 DEF x
<1>7. \A b \in DOMAIN callee.code : \A k \in DOMAIN callee.code[b] :
        IsInstr(callee.code[b][k]) /\ IsNumbered(callee.code[b][k], cv)
  BY InstrIsNumbered
<1>8. ASSUME NEW b \in DOMAIN callee.code, NEW k \in DOMAIN callee.code[b], callee.code[b][k].op # "param"
      PROVE  LET i == callee.code[b][k]
             IN Copy(i).dst = IF i.dst = NoValue THEN NoValue ELSE fv + i.dst
  <2> DEFINE i == callee.code[b][k]
  <2>1. IsInstr(i) /\ IsNumbered(i, cv)
    BY <1>7
  <2>2. i.dst # NoValue => ParamIndex(callee, i.dst) = 0
    BY <1>8, NoParameter
  <2>3. i.dst # NoValue => M(i.dst) = fv + i.dst
    BY <2>2 DEF M
  <2>. HIDE DEF i, Copy
  <2>4. Copy(i).dst = IF i.dst = NoValue THEN NoValue ELSE M(i.dst)
    BY <1>6, <2>1
  <2> QED
    BY <2>3, <2>4 DEF i
<1>. HIDE DEF Copy
<1>9. ASSUME NEW b \in DOMAIN callee.code
      PROVE  /\ Fine(Plain(b), cv) /\ Defs(Plain(b)) \subseteq Defs(callee.code[b])
             /\ \A v \in Defs(Plain(b)) : \E k \in DOMAIN callee.code[b] :
                  callee.code[b][k].op # "alloca" /\ v = callee.code[b][k].dst
             /\ Fine(Moved(b), result)
             /\ \A w \in Defs(Moved(b)) : \E u \in Defs(Plain(b)) : w = fv + u
  <2> DEFINE c == callee.code[b]
             K == {k \in DOMAIN c : c[k].op \notin {"param", "alloca", "ret"}}
             p == Plain(b)
             d == Moved(b)
  <2>1. Fine(c, cv)
    BY NumberedFacts
  <2>2. p = KeptAt(c, K)
    BY DEF Without
  <2>3. \A k \in DOMAIN c : k \in K => c[k].op # "param" /\ c[k].op # "alloca"
    OBVIOUS
  <2>4. d = [k \in DOMAIN p |-> d[k]] /\ \A k \in DOMAIN p : d[k] = Copy(p[k])
    OBVIOUS
  <2>5. \A k \in DOMAIN c : /\ IsInstr(c[k]) /\ IsNumbered(c[k], cv)
                            /\ c[k].op # "param" =>
                                 Copy(c[k]).dst = IF c[k].dst = NoValue THEN NoValue ELSE fv + c[k].dst
    BY <1>7, <1>8
  <2>. HIDE DEF c, K, p, d, cv, fv, result, M, Plain, Moved
  <2>6. /\ Fine(p, cv) /\ Defs(p) \subseteq Defs(c)
        /\ \A v \in Defs(p) : \E k \in DOMAIN c : k \in K /\ v = c[k].dst
    BY <2>1, <2>2, FineKept
  <2>7. \A k \in DOMAIN p : \E j \in DOMAIN c : j \in K /\ p[k] = c[j]
    <3>1. IsSeq(c)
      BY <2>1 DEF Fine
    <3> QED
      BY <2>2, <3>1, KeptFrom
  <2>8. \A k \in DOMAIN p : /\ IsNumbered(d[k], result)
                            /\ d[k].dst = IF p[k].dst = NoValue THEN NoValue ELSE fv + p[k].dst
    BY <1>6, <2>3, <2>4, <2>5, <2>7
  <2>9. Fine(d, result) /\ \A w \in Defs(d) : \E u \in Defs(p) : w = fv + u
    <3>1. cv \in Nat /\ fv \in Nat /\ Fine(p, cv)
      BY <1>4, <2>6
    <3>2. MovedUp(d, p, result, fv)
      BY <2>4, <2>8 DEF MovedUp
    <3> QED
      BY <3>1, <3>2, FineMoved
  <2> QED
    BY <2>3, <2>6, <2>9 DEF c, p, d
<1>10. ASSUME NEW b \in DOMAIN callee.code
       PROVE  Fine(End(b), result) /\ Defs(End(b)) \subseteq {base + b}
  <2> DEFINE nought == Const(ZeroIn(b), 0, call.ty)
             back == Jump(resume)
  <2>1. End(b) = <<>> \/ End(b) = <<nought, back>> \/ End(b) = <<back>>
    <3>. HIDE DEF IsBare, nought, back
    <3> QED
      BY DEF nought, back
  <2>2. nought.op = "const" /\ nought.args = <<>> /\ nought.dst = base + b
    BY DEF Const, Instr
  <2>3. IsNumbered(back, result) /\ back.dst = NoValue
    <3>. HIDE DEF resume, result
    <3> QED
      BY <1>4, JumpNumbered
  <2>. HIDE DEF End, nought, back, base, result, N
  <2>4. base + b \in 1 .. result
    BY <1>3, <1>4
  <2>5. IsNumbered(nought, result)
    BY <1>4, <2>2, <2>4, ConstNumbered
  <2>6. Fine(<<nought, back>>, result) /\ Defs(<<nought, back>>) \subseteq {base + b}
    BY <2>2, <2>3, <2>5, FineTwo
  <2>7. Fine(<<back>>, result) /\ Defs(<<back>>) = {}
    BY <2>3, FineOne
  <2>8. Fine(<<>>, result) /\ Defs(<<>>) = {}
    BY FineNothing
  <2> QED
    BY <2>1, <2>6, <2>7, <2>8
<1>11. ASSUME NEW b \in DOMAIN callee.code
       PROVE  /\ Fine(Body(b), result)
              /\ \A w \in Defs(Body(b)) : (\E u \in Defs(Plain(b)) : w = fv + u) \/ w = base + b
  <2> DEFINE d == Moved(b)
             e == End(b)
             p == Plain(b)
  <2>1. Body(b) = d \o e
    OBVIOUS
  <2>2. Fine(d, result) /\ (\A w \in Defs(d) : \E u \in Defs(p) : w = fv + u) /\ Defs(p) \subseteq 1 .. cv
    <3>1. Fine(p, cv) /\ Fine(d, result) /\ \A w \in Defs(d) : \E u \in Defs(p) : w = fv + u
      BY <1>9
    <3>. HIDE DEF p, d, cv, result
    <3> QED
      BY <1>4, <3>1, DefsAreValues
  <2>3. Fine(e, result) /\ Defs(e) \subseteq {base + b}
    BY <1>10
  <2>4. base = fv + cv
    OBVIOUS
  <2>. HIDE DEF d, e, p, Body, base, fv, cv, result, N
  <2>5. \A w \in Defs(d) : w <= base
    BY <1>4, <2>2, <2>4
  <2>6. ~ (base + b <= base)
    BY <1>3, <1>4
  <2>7. Defs(d) \cap Defs(e) = {}
    BY <2>3, <2>5, <2>6
  <2>8. Fine(d \o e, result) /\ Defs(d \o e) \subseteq Defs(d) \cup Defs(e)
    BY <2>2, <2>3, <2>7, FineJoined
  <2> QED
    BY <2>1, <2>2, <2>3, <2>8 DEF p
<1>12. /\ Fine(allocas, cv)
       /\ \A k \in DOMAIN allocas : \E b \in DOMAIN callee.code : \E l \in DOMAIN callee.code[b] :
            allocas[k] = callee.code[b][l] /\ callee.code[b][l].op = "alloca"
  <2> DEFINE t == [n \in DOMAIN copied |-> callee.code[copied[n]]]
  <2>0. t = [n \in 1 .. Len(copied) |-> t[n]]
    BY <1>3
  <2>1. \A n \in DOMAIN copied : t[n] = callee.code[copied[n]]
    OBVIOUS
  <2>2. allocas = Reverse(Only(FlattenSeq(t), {"alloca"}))
    OBVIOUS
  <2>. HIDE DEF t, allocas, copied, cv, N
  <2>3. IsSeq(t) /\ DOMAIN t = DOMAIN copied
    BY <1>3, <2>0, ListIs
  <2> DEFINE code == callee.code
  <2>8. \A n \in DOMAIN t : t[n] = code[copied[n]] /\ copied[n] \in DOMAIN code
    BY <1>3, <2>1, <2>3
  <2>4. \A n \in DOMAIN t : Fine(t[n], cv)
    BY <2>8, NumberedFacts DEF cv
  <2>5. \A n, m \in DOMAIN t : n # m => Defs(t[n]) \cap Defs(t[m]) = {}
    <3> SUFFICES ASSUME NEW n \in DOMAIN t, NEW m \in DOMAIN t, n # m
                 PROVE  Defs(t[n]) \cap Defs(t[m]) = {}
      OBVIOUS
    <3>1. copied[n] # copied[m] /\ copied[n] \in DOMAIN callee.code /\ copied[m] \in DOMAIN callee.code
      BY <1>3, <2>3
    <3>2. Defs(callee.code[copied[n]]) \cap Defs(callee.code[copied[m]]) = {}
      BY <3>1, NumberedFacts
    <3>. HIDE DEF code
    <3> QED
      BY <2>8, <3>2 DEF code
  <2> DEFINE ops == {"alloca"}
  <2>6. allocas = Reverse(Only(FlattenSeq(t), ops)) /\ \A op \in ops : op = "alloca"
    BY <2>2
  <2>. HIDE DEF ops
  <2>7. /\ Fine(allocas, cv)
        /\ \A k \in DOMAIN allocas : \E j \in DOMAIN t : \E l \in DOMAIN t[j] :
             allocas[k] = t[j][l] /\ t[j][l].op \in ops
    <3>1. Fine(allocas, cv)
      BY <2>3, <2>4, <2>5, <2>6, GatheredFine
    <3>2. Gathers(allocas, t, ops)
      BY <2>3, <2>4, <2>5, <2>6, GatheredFine
    <3> QED
      BY <3>1, <3>2 DEF Gathers
  <2> QED
    BY <2>6, <2>7, <2>8
<1>13. Fine(slotsOf, result) /\ \A w \in Defs(slotsOf) : \E u \in Defs(allocas) : w = fv + u
  <2>1. slotsOf = [k \in DOMAIN allocas |-> slotsOf[k]] /\ \A k \in DOMAIN allocas : slotsOf[k] = Copy(allocas[k])
    OBVIOUS
  <2>2. \A b \in DOMAIN callee.code : \A k \in DOMAIN callee.code[b] :
          callee.code[b][k].op = "alloca" =>
            LET i == callee.code[b][k]
            IN /\ IsNumbered(Copy(i), result)
               /\ Copy(i).dst = IF i.dst = NoValue THEN NoValue ELSE fv + i.dst
    BY <1>6, <1>7, <1>8
  <2>. HIDE DEF slotsOf, allocas, cv, fv, result
  <2>3. MovedUp(slotsOf, allocas, result, fv)
    BY <1>12, <2>1, <2>2 DEF MovedUp
  <2> QED
    <3>1. cv \in Nat /\ fv \in Nat /\ Fine(allocas, cv)
      BY <1>4, <1>12
    <3>2. Fine(slotsOf, result)
      BY <2>3, <3>1, FineMoved
    <3>3. \A w \in Defs(slotsOf) : \E u \in Defs(allocas) : w = fv + u
      BY <2>3, <3>1, FineMoved
    <3> QED
      BY <3>2, <3>3
<1>14. \A b \in DOMAIN callee.code : Defs(allocas) \cap Defs(Plain(b)) = {}
  <2>. HIDE DEF allocas, Plain, cv
  <2> SUFFICES ASSUME NEW b \in DOMAIN callee.code, NEW v, v \in Defs(allocas), v \in Defs(Plain(b))
               PROVE  FALSE
    OBVIOUS
  <2>1. v # NoValue
    BY DEF Defs
  <2>2. PICK k \in DOMAIN callee.code[b] : callee.code[b][k].op # "alloca" /\ v = callee.code[b][k].dst
    BY <1>9
  <2>3. PICK c \in DOMAIN callee.code : \E l \in DOMAIN callee.code[c] :
          v = callee.code[c][l].dst /\ callee.code[c][l].op = "alloca"
    BY <1>12 DEF Defs
  <2>4. PICK l \in DOMAIN callee.code[c] : v = callee.code[c][l].dst /\ callee.code[c][l].op = "alloca"
    BY <2>3
  <2>5. v \in Defs(callee.code[b]) /\ v \in Defs(callee.code[c])
    BY <2>1, <2>2, <2>4 DEF Defs
  <2>6. b = c
    BY <2>5, NumberedFacts
  <2>7. k = l
    BY <2>1, <2>2, <2>4, <2>6, NumberedFacts DEF Fine, Once
  <2> QED
    BY <2>2, <2>4, <2>6, <2>7
<1>15. IsNumbered(phi, result) /\ phi.dst = result
  <2>1. /\ phi.op = "phi" /\ phi.dst = result /\ phi.args = returned /\ phi.from = origins
    <3>. HIDE DEF returns, result, B, IsBare, ZeroIn
    <3> QED
      BY DEF Instr
  <2>2. IsSeq(returns) /\ \A n \in DOMAIN returns : returns[n] \in DOMAIN callee.code /\ ReturnsFrom(callee, returns[n])
    <3> DEFINE S == {b \in Range(copied) : ReturnsFrom(callee, b)}
    <3>1. returns = Ascending(S, N)
      OBVIOUS
    <3>2. \A b \in S : ReturnsFrom(callee, b)
      OBVIOUS
    <3>. HIDE DEF S, returns, N, copied
    <3>3. IsSeq(returns) /\ \A x \in Range(returns) : x \in S /\ x \in 1 .. N
      BY <1>3, <3>1, AscendingFrom
    <3> QED
      BY <1>3, <3>2, <3>3 DEF Range
  <2>3. /\ returned = [n \in DOMAIN returns |-> returned[n]]
        /\ \A n \in DOMAIN returns :
             returned[n] = IF IsBare(returns[n]) THEN base + returns[n]
                           ELSE M(Last(callee.code[returns[n]]).args[1])
        /\ origins = [n \in DOMAIN returns |-> origins[n]]
    OBVIOUS
  <2>. HIDE DEF returned, origins, phi, returns, B
  <2>4. ASSUME NEW n \in DOMAIN returns PROVE returned[n] \in 1 .. result
    <3> DEFINE b == returns[n]
               i == Last(callee.code[b])
    <3>1. b \in DOMAIN callee.code /\ ReturnsFrom(callee, b)
      BY <2>2
    <3>2. IsNumbered(i, cv)
      <4>1. callee.code[b] # <<>>
        BY <3>1 DEF ReturnsFrom
      <4>2. IsSeq(callee.code[b])
        BY <3>1, NumberedFacts DEF Fine
      <4>3. i = callee.code[b][Len(callee.code[b])] /\ Len(callee.code[b]) \in DOMAIN callee.code[b]
        BY <4>1, <4>2, SeqFacts
      <4>. HIDE DEF i, b, cv
      <4> QED
        BY <1>7, <3>1, <4>3
    <3>3. returned[n] = IF i.args = <<>> THEN base + b ELSE M(i.args[1])
      BY <2>3
    <3>. HIDE DEF i, b, cv, base, result, N, fv, IsBare
    <3>4. base + b \in 1 .. result
      BY <1>3, <1>4, <3>1
    <3>5. i.args # <<>> => i.args[1] \in 1 .. cv
      <4>1. IsSeq(i.args) /\ Range(i.args) \subseteq 1 .. cv
        BY <3>2 DEF IsNumbered
      <4> QED
        BY <4>1, SeqFacts DEF Range
    <3> QED
      BY <1>51, <3>3, <3>4, <3>5
  <2>. HIDE DEF IsBare, result
  <2>5. Len(returns) \in Nat /\ DOMAIN returns = 1 .. Len(returns)
    BY <2>2, SeqFacts
  <2>6. /\ IsSeq(returned) /\ Len(returned) = Len(returns) /\ DOMAIN returned = DOMAIN returns
        /\ IsSeq(origins) /\ Len(origins) = Len(returns)
    BY <2>3, <2>5, ListIs
  <2>7. Range(returned) \subseteq 1 .. result
    BY <2>4, <2>6 DEF Range
  <2>8. RequiredArgs(phi)
    BY <2>1 DEF RequiredArgs
  <2>9. result # NoValue /\ result \in NoValue .. result
    BY <1>3, <1>4 DEF NoValue
  <2> QED
    BY <2>1, <2>6, <2>7, <2>8, <2>9 DEF IsNumbered
<1>16. /\ IsSeq(bodies) /\ Len(bodies) = Len(copied) /\ DOMAIN bodies = DOMAIN copied
       /\ \A n \in DOMAIN copied : bodies[n] = Body(copied[n])
  <2>1. bodies = [n \in 1 .. Len(copied) |-> bodies[n]]
    BY <1>3
  <2>2. \A n \in DOMAIN copied : bodies[n] = Body(copied[n])
    OBVIOUS
  <2>. HIDE DEF bodies, copied
  <2>3. IsSeq(bodies) /\ Len(bodies) = Len(copied) /\ DOMAIN bodies = DOMAIN copied
    BY <1>3, <2>1, ListIs
  <2> QED
    BY <2>2, <2>3
<1> DEFINE size == resume + Len(copied)
           b == s[1]
           t == B(EntryBlock)
           e == EntryBlock
<1>. HIDE DEF Body, End, Plain, Moved, B, phi, allocas, slotsOf, returns, returned, origins, N, cv
<1>17. /\ DOMAIN joined = {"code", "values"} /\ IsSeq(joined.code)
       /\ DOMAIN joined.code = 1 .. size /\ size \in Nat /\ resume \in 1 .. size
       /\ \A x \in 1 .. size : joined.code[x] = IF x <= resume THEN split.code[x] ELSE Body(copied[x - resume])
  <2>1. DOMAIN joined = {"code", "values"} /\ joined.code = split.code \o bodies
    BY <1>2, FunctionFacts
  <2>2. IsSeq(split.code)
    BY <1>2, FunctionFacts
  <2>. HIDE DEF joined, bodies, split, copied
  <2>3. /\ IsSeq(joined.code) /\ DOMAIN joined.code = 1 .. Len(split.code) + Len(bodies)
        /\ \A x \in 1 .. Len(split.code) + Len(bodies) :
             joined.code[x] = IF x <= Len(split.code) THEN split.code[x] ELSE bodies[x - Len(split.code)]
    <3> DEFINE p == split.code
    <3>1. joined.code = p \o bodies /\ IsSeq(p) /\ IsSeq(bodies)
      BY <1>16, <2>1, <2>2
    <3>. HIDE DEF p
    <3>2. /\ IsSeq(p \o bodies) /\ DOMAIN (p \o bodies) = 1 .. Len(p) + Len(bodies)
          /\ \A x \in 1 .. Len(p) + Len(bodies) :
               (p \o bodies)[x] = IF x <= Len(p) THEN p[x] ELSE bodies[x - Len(p)]
      BY <3>1, JoinedSeq
    <3> QED
      BY <3>1, <3>2 DEF p
  <2>4. size = Len(split.code) + Len(bodies) /\ size \in Nat /\ resume \in 1 .. size
    BY <1>2, <1>3, <1>16
  <2>5. \A x \in 1 .. size : ~ (x <= resume) => x - resume \in DOMAIN copied
    BY <1>2, <1>3
  <2> QED
    BY <1>16, <2>1, <2>3, <2>4, <2>5
<1>18. b \in 1 .. resume - 1 /\ e \in 1 .. resume - 1
  <2>1. b \in DOMAIN f.code /\ e \in DOMAIN f.code /\ DOMAIN f.code = 1 .. Len(f.code) /\ Len(f.code) \in Nat
    BY SiteFacts, EntryIsBlock, FunctionFacts
  <2>. HIDE DEF resume, b, e
  <2> QED
    BY <1>2, <2>1
<1> DEFINE jump(c) == Append(Front(c), Jump(t))
<1>19. /\ DOMAIN entered = {"code", "values"} /\ entered.values = result
       /\ entered.code = [x \in 1 .. size |-> entered.code[x]]
       /\ \A x \in 1 .. size : entered.code[x] = IF x = resume THEN top \o joined.code[x]
                                                 ELSE IF x = b THEN jump(joined.code[x])
                                                 ELSE joined.code[x]
  <2>1. DOMAIN joined.code = 1 .. size /\ b \in 1 .. size /\ resume \in 1 .. size /\ b # resume
        /\ joined.code = [x \in 1 .. size |-> joined.code[x]] /\ DOMAIN joined = {"code", "values"}
    <3>1. joined.code = [x \in DOMAIN joined.code |-> joined.code[x]]
      BY <1>17 DEF IsSeq
    <3>. HIDE DEF resume, size, b, copied, joined
    <3> QED
      BY <1>2, <1>17, <1>18, <3>1
  <2>. HIDE DEF top, resume, result, joined, size
  <2> QED
    BY <2>1
<1>. HIDE DEF entered, jump
<1>20. /\ DOMAIN framed = {"code", "values"} /\ framed.values = result
       /\ DOMAIN framed.code = 1 .. size
       /\ \A x \in 1 .. size : framed.code[x] = IF x = e THEN slotsOf \o entered.code[x] ELSE entered.code[x]
  <2>1. e \in 1 .. size
    <3>. HIDE DEF resume, size, e
    <3> QED
      BY <1>2, <1>17, <1>18
  <2>. HIDE DEF size
  <2> QED
    BY <1>19, <2>1
<1>. HIDE DEF framed
<1>21. ASSUME NEW x \in 1 .. resume
       PROVE  /\ Fine(split.code[x], result) /\ Defs(split.code[x]) \subseteq 1 .. fv
              /\ Fine(jump(split.code[x]), result) /\ Defs(jump(split.code[x])) \subseteq Defs(split.code[x])
  <2> DEFINE c == split.code[x]
  <2>1. Fine(c, fv) /\ Defs(c) \subseteq 1 .. fv
    BY <1>2, NumberedFacts
  <2>. HIDE DEF c, t, fv, result
  <2>2. Fine(c, result)
    BY <1>4, <2>1, FineMore
  <2>3. Fine(jump(c), result) /\ Defs(jump(c)) \subseteq Defs(c)
    BY <1>4, <2>2, JumpsAnyway DEF jump
  <2> QED
    BY <2>1, <2>2, <2>3 DEF c
<1>22. Fine(top, result) /\ Defs(top) \subseteq {result}
  <2>1. Fine(<<phi>>, result) /\ Defs(<<phi>>) = {phi.dst} \ {NoValue}
    BY <1>15, FineOne
  <2>2. Fine(<<>>, result) /\ Defs(<<>>) = {}
    BY FineNothing
  <2>3. top = <<>> \/ top = <<phi>>
    OBVIOUS
  <2>. HIDE DEF top, result
  <2> QED
    BY <1>15, <2>1, <2>2, <2>3
<1>. HIDE DEF top, split, joined, copied
<1> DEFINE low  == [x \in 1 .. size |-> IF x <= resume THEN Defs(split.code[x]) ELSE {}]
           high == [x \in 1 .. size |-> IF x = resume THEN {result}
                                        ELSE IF x > resume THEN {base + copied[x - resume]} ELSE {}]
           from == [x \in 1 .. size |-> IF x = e THEN Defs(allocas)
                                        ELSE IF x > resume THEN Defs(Plain(copied[x - resume])) ELSE {}]
           mid  == [x \in 1 .. size |-> {w \in fv + 1 .. base : w - fv \in from[x]}]
<1>23. \A x \in 1 .. size : /\ x <= resume => low[x] = Defs(split.code[x])
                            /\ ~ (x <= resume) => low[x] = {}
                            /\ x = resume => high[x] = {result}
                            /\ x > resume => high[x] = {base + copied[x - resume]}
                            /\ x < resume => high[x] = {}
                            /\ x = e => from[x] = Defs(allocas)
                            /\ x # e /\ x > resume => from[x] = Defs(Plain(copied[x - resume]))
                            /\ x # e /\ x <= resume => from[x] = {}
  <2>. HIDE DEF size, result, base, e
  <2>1. resume \in Nat /\ size \in Nat
    BY <1>2, <1>17
  <2>. HIDE DEF resume
  <2> QED
    BY <2>1
<1>24. \A x \in 1 .. size : /\ mid[x] \subseteq fv + 1 .. base
                            /\ \A w : w \in fv + 1 .. base /\ w - fv \in from[x] => w \in mid[x]
                            /\ \A w \in mid[x] : w - fv \in from[x]
  <2>. HIDE DEF size, from, fv, base
  <2> QED
    OBVIOUS
<1>. HIDE DEF low, high, from, mid
<1>25. ASSUME NEW x \in 1 .. size, x > resume
       PROVE  x - resume \in DOMAIN copied /\ copied[x - resume] \in 1 .. N /\ x # e
  <2>. HIDE DEF e
  <2>1. size = resume + Len(copied) /\ resume \in Nat /\ Len(copied) \in Nat
        /\ DOMAIN copied = 1 .. Len(copied) /\ e \in 1 .. resume - 1
    BY <1>2, <1>3, <1>18
  <2>. HIDE DEF resume, size
  <2>2. x - resume \in DOMAIN copied /\ x # e
    BY <1>25, <2>1
  <2> QED
    BY <1>3, <2>2
<1>26. ASSUME NEW x \in 1 .. size
       PROVE  /\ Fine(entered.code[x], result)
              /\ x <= resume => Defs(entered.code[x]) \subseteq low[x] \cup high[x]
              /\ x > resume => Defs(entered.code[x]) \subseteq mid[x] \cup high[x]
  <2>. HIDE DEF size, resume, b, fv, base, result, e
  <2>1. resume \in Nat /\ size \in Nat /\ x \in Nat
    BY <1>2, <1>17
  <2>2. CASE x = resume
    <3>1. x \in 1 .. resume /\ x <= resume
      BY <1>2, <2>1, <2>2
    <3> DEFINE c == split.code[x]
    <3>2. Fine(c, result) /\ Defs(c) \subseteq 1 .. fv
      BY <1>21, <3>1
    <3>3. ~ (result \in 1 .. fv)
      BY <1>3, <1>4
    <3>4. entered.code[x] = top \o c
      <4>1. entered.code[x] = top \o joined.code[x]
        BY <1>19, <2>2
      <4>2. joined.code[x] = split.code[x]
        BY <1>17, <3>1
      <4> QED
        BY <4>1, <4>2
    <3>. HIDE DEF c
    <3>5. Defs(top) \cap Defs(c) = {}
      BY <1>22, <3>2, <3>3
    <3>6. Fine(top \o c, result) /\ Defs(top \o c) \subseteq Defs(top) \cup Defs(c)
      BY <1>22, <3>2, <3>5, FineJoined
    <3>7. low[x] = Defs(c) /\ high[x] = {result} /\ ~ (x > resume)
      <4>1. low[x] = Defs(split.code[x])
        BY <1>23, <2>1, <3>1
      <4>2. high[x] = {result}
        BY <1>23, <2>1, <2>2
      <4> QED
        BY <2>1, <2>2, <4>1, <4>2 DEF c
    <3> QED
      BY <1>22, <2>1, <2>2, <3>4, <3>6, <3>7
  <2>3. CASE x < resume
    <3>1. x \in 1 .. resume /\ x # resume /\ x <= resume
      BY <2>1, <2>3
    <3>2. entered.code[x] = jump(split.code[x]) \/ entered.code[x] = split.code[x]
      BY <1>17, <1>19, <3>1
    <3>3. /\ Fine(split.code[x], result)
          /\ Fine(jump(split.code[x]), result) /\ Defs(jump(split.code[x])) \subseteq Defs(split.code[x])
      BY <1>21, <3>1
    <3>4. low[x] = Defs(split.code[x]) /\ ~ (x > resume)
      <4>1. low[x] = Defs(split.code[x])
        BY <1>23, <2>1, <3>1
      <4> QED
        BY <2>1, <3>1, <4>1
    <3> QED
      BY <3>2, <3>3, <3>4
  <2>4. CASE x > resume
    <3> DEFINE c == copied[x - resume]
    <3>1. x # resume /\ x # b /\ ~ (x <= resume) /\ b \in 1 .. resume - 1
      BY <1>18, <2>1, <2>4
    <3>2. entered.code[x] = Body(c)
      BY <1>17, <1>19, <3>1
    <3>3. c \in DOMAIN callee.code /\ c \in 1 .. N
      BY <1>3, <1>25, <2>4
    <3>4. high[x] = {base + c} /\ from[x] = Defs(Plain(c))
      <4>1. x # e
        BY <1>25, <2>4
      <4>2. high[x] = {base + copied[x - resume]}
        BY <1>23, <2>1, <2>4
      <4>3. from[x] = Defs(Plain(copied[x - resume]))
        BY <1>23, <2>1, <2>4, <4>1
      <4> QED
        BY <4>2, <4>3
    <3>. HIDE DEF c
    <3>5. Fine(Body(c), result) /\ \A w \in Defs(Body(c)) : (\E u \in Defs(Plain(c)) : w = fv + u) \/ w = base + c
      BY <1>11, <3>3
    <3>6. Defs(Plain(c)) \subseteq 1 .. cv
      BY <1>4, <1>9, <3>3, DefsAreValues
    <3>7. \A u \in Defs(Plain(c)) : fv + u \in mid[x]
      <4> SUFFICES ASSUME NEW u \in Defs(Plain(c)) PROVE fv + u \in mid[x]
        OBVIOUS
      <4>1. u \in 1 .. cv
        BY <3>6
      <4>2. fv + u \in fv + 1 .. base /\ (fv + u) - fv = u
        BY <1>4, <4>1 DEF base
      <4> QED
        BY <1>24, <3>4, <4>2
    <3> QED
      BY <3>1, <3>2, <3>4, <3>5, <3>7
  <2> QED
    BY <2>1, <2>2, <2>3, <2>4
<1>27. Defs(allocas) \subseteq 1 .. cv
  <2>. HIDE DEF cv
  <2> QED
    BY <1>4, <1>12, DefsAreValues
<1>28. ASSUME NEW u \in Defs(allocas) PROVE fv + u \in mid[e]
  <2>. HIDE DEF size, resume, fv, cv, e
  <2>1. u \in 1 .. cv
    BY <1>27
  <2>2. fv + u \in fv + 1 .. base /\ (fv + u) - fv = u
    BY <1>4, <2>1 DEF base
  <2>3. e \in 1 .. size
    BY <1>2, <1>17, <1>18
  <2>4. from[e] = Defs(allocas)
    BY <1>23, <2>3
  <2> QED
    BY <1>24, <2>2, <2>3, <2>4
<1>29. ASSUME NEW x \in 1 .. size
       PROVE  /\ Fine(framed.code[x], result)
              /\ Defs(framed.code[x]) \subseteq low[x] \cup mid[x] \cup high[x]
  <2>. HIDE DEF size, resume, b, fv, base, result, e
  <2>1. resume \in Nat /\ size \in Nat /\ x \in Nat
    BY <1>2, <1>17
  <2>2. Fine(entered.code[x], result) /\ Defs(entered.code[x]) \subseteq low[x] \cup mid[x] \cup high[x]
    <3>1. x <= resume \/ x > resume
      BY <2>1
    <3> QED
      BY <1>26, <3>1
  <2>3. CASE x # e
    BY <1>20, <2>2, <2>3
  <2>4. CASE x = e
    <3> DEFINE c == entered.code[x]
    <3>1. x < resume /\ x <= resume /\ x \in 1 .. resume
      BY <1>2, <1>18, <2>1, <2>4
    <3>2. framed.code[x] = slotsOf \o c
      BY <1>20, <2>4
    <3>3. low[x] = Defs(split.code[x]) /\ high[x] = {}
      BY <1>23, <2>1, <3>1
    <3>4. Defs(split.code[x]) \subseteq 1 .. fv
      BY <1>21, <3>1
    <3>5. Defs(c) \subseteq low[x] /\ Defs(c) \subseteq 1 .. fv
      BY <1>26, <3>1, <3>3, <3>4
    <3>6. Defs(slotsOf) \subseteq mid[x]
      BY <1>13, <1>28, <2>4
    <3>7. mid[x] \subseteq fv + 1 .. base
      BY <1>24
    <3>8. \A v \in fv + 1 .. base : ~ (v \in 1 .. fv)
      BY <1>4
    <3>9. Defs(slotsOf) \cap Defs(c) = {}
      BY <3>5, <3>6, <3>7, <3>8
    <3>. HIDE DEF c
    <3>10. Fine(slotsOf \o c, result) /\ Defs(slotsOf \o c) \subseteq Defs(slotsOf) \cup Defs(c)
      BY <1>13, <2>2, <3>9, FineJoined DEF c
    <3> QED
      BY <3>2, <3>5, <3>6, <3>10
  <2> QED
    BY <2>3, <2>4
<1>30. \A x, y \in 1 .. size : x # y => low[x] \cap low[y] = {}
  <2>. HIDE DEF size, resume
  <2> SUFFICES ASSUME NEW x \in 1 .. size, NEW y \in 1 .. size, x # y
               PROVE  low[x] \cap low[y] = {}
    OBVIOUS
  <2>1. resume \in Nat /\ size \in Nat
    BY <1>2, <1>17
  <2>2. CASE x <= resume /\ y <= resume
    <3>1. x \in DOMAIN split.code /\ y \in DOMAIN split.code
      BY <1>2, <2>1, <2>2
    <3>2. Defs(split.code[x]) \cap Defs(split.code[y]) = {}
      BY <1>2, <3>1, NumberedFacts
    <3>3. low[x] = Defs(split.code[x]) /\ low[y] = Defs(split.code[y])
      BY <1>23, <2>1, <2>2
    <3> QED
      BY <3>2, <3>3
  <2>3. CASE ~ (x <= resume)
    BY <1>23, <2>1, <2>3
  <2>4. CASE ~ (y <= resume)
    BY <1>23, <2>1, <2>4
  <2> QED
    BY <2>2, <2>3, <2>4
<1>31. \A x, y \in 1 .. size : x # y => from[x] \cap from[y] = {}
  <2>. HIDE DEF size, resume, e
  <2>1. resume \in Nat /\ size \in Nat /\ e \in 1 .. resume - 1
    BY <1>2, <1>17, <1>18
  <2>2. ASSUME NEW x \in 1 .. size, NEW y \in 1 .. size, x > resume, y > resume, x # y
        PROVE  from[x] \cap from[y] = {}
    <3>1. copied[x - resume] # copied[y - resume]
      <4>1. x - resume \in DOMAIN copied /\ y - resume \in DOMAIN copied
        BY <1>25, <2>2
      <4>2. x - resume # y - resume
        BY <2>1, <2>2
      <4> QED
        BY <1>3, <4>1, <4>2
    <3>2. copied[x - resume] \in DOMAIN callee.code /\ copied[y - resume] \in DOMAIN callee.code
      BY <1>3, <1>25, <2>2
    <3>3. Defs(callee.code[copied[x - resume]]) \cap Defs(callee.code[copied[y - resume]]) = {}
      BY <3>1, <3>2, NumberedFacts
    <3>4. /\ Defs(Plain(copied[x - resume])) \subseteq Defs(callee.code[copied[x - resume]])
          /\ Defs(Plain(copied[y - resume])) \subseteq Defs(callee.code[copied[y - resume]])
      BY <1>9, <3>2
    <3>5. x # e /\ y # e
      BY <2>1, <2>2
    <3>6. from[x] = Defs(Plain(copied[x - resume])) /\ from[y] = Defs(Plain(copied[y - resume]))
      BY <1>23, <2>1, <2>2, <3>5
    <3> QED
      BY <3>3, <3>4, <3>6
  <2>3. ASSUME NEW x \in 1 .. size, NEW y \in 1 .. size, x > resume, y = e
        PROVE  from[x] \cap from[y] = {}
    <3>1. from[x] = Defs(Plain(copied[x - resume])) /\ from[y] = Defs(allocas)
      <4>1. x # e
        BY <2>1, <2>3
      <4> QED
        BY <1>23, <2>1, <2>3, <4>1
    <3>2. copied[x - resume] \in DOMAIN callee.code
      BY <1>3, <1>25, <2>3
    <3> QED
      BY <1>14, <3>1, <3>2
  <2>4. ASSUME NEW x \in 1 .. size, ~ (x > resume), x # e PROVE from[x] = {}
    BY <1>23, <2>1, <2>4
  <2> QED
    BY <2>2, <2>3, <2>4
<1>32. \A x, y \in 1 .. size : x # y => mid[x] \cap mid[y] = {}
  <2>. HIDE DEF size, fv
  <2> QED
    BY <1>24, <1>31
<1>33. \A x, y \in 1 .. size : x # y => high[x] \cap high[y] = {}
  <2>. HIDE DEF size, resume, result, base
  <2>1. resume \in Nat /\ size \in Nat
    BY <1>2, <1>17
  <2>2. ASSUME NEW x \in 1 .. size, NEW y \in 1 .. size, x > resume, y > resume, x # y
        PROVE  high[x] \cap high[y] = {}
    <3>1. copied[x - resume] # copied[y - resume]
      <4>1. x - resume \in DOMAIN copied /\ y - resume \in DOMAIN copied
        BY <1>25, <2>2
      <4>2. x - resume # y - resume
        BY <2>1, <2>2
      <4> QED
        BY <1>3, <4>1, <4>2
    <3>2. copied[x - resume] \in 1 .. N /\ copied[y - resume] \in 1 .. N
      BY <1>25, <2>2
    <3>3. base + copied[x - resume] # base + copied[y - resume]
      BY <1>3, <1>4, <3>1, <3>2
    <3>4. high[x] = {base + copied[x - resume]} /\ high[y] = {base + copied[y - resume]}
      BY <1>23, <2>1, <2>2
    <3> QED
      BY <3>3, <3>4
  <2>3. ASSUME NEW x \in 1 .. size, NEW y \in 1 .. size, x > resume, y = resume
        PROVE  high[x] \cap high[y] = {}
    <3>1. copied[x - resume] \in 1 .. N
      BY <1>25, <2>3
    <3>2. base + copied[x - resume] # result
      BY <1>3, <1>4, <3>1
    <3>3. high[x] = {base + copied[x - resume]} /\ high[y] = {result}
      BY <1>23, <2>1, <2>3
    <3> QED
      BY <3>2, <3>3
  <2>4. ASSUME NEW x \in 1 .. size, x < resume PROVE high[x] = {}
    BY <1>23, <2>1, <2>4
  <2>5. \A x \in 1 .. size : x < resume \/ x = resume \/ x > resume
    BY <2>1
  <2> QED
    BY <2>2, <2>3, <2>4, <2>5
<1>34. \A x \in 1 .. size : \A v \in high[x] : v \in Nat /\ v > base
  <2>. HIDE DEF size, resume, result, base
  <2> SUFFICES ASSUME NEW x \in 1 .. size, NEW v \in high[x] PROVE v \in Nat /\ v > base
    OBVIOUS
  <2>1. resume \in Nat /\ size \in Nat
    BY <1>2, <1>17
  <2>2. CASE x < resume
    BY <1>23, <2>1, <2>2
  <2>3. CASE x = resume
    <3>1. v = result
      BY <1>23, <2>1, <2>3
    <3> QED
      BY <1>3, <1>4, <3>1
  <2>4. CASE x > resume
    <3>1. v = base + copied[x - resume] /\ copied[x - resume] \in 1 .. N
      BY <1>23, <1>25, <2>1, <2>4
    <3> QED
      BY <1>3, <1>4, <3>1
  <2> QED
    BY <2>1, <2>2, <2>3, <2>4
<1>35. \A x \in 1 .. size : low[x] \subseteq 1 .. fv
  <2>. HIDE DEF size, resume, fv
  <2> SUFFICES ASSUME NEW x \in 1 .. size PROVE low[x] \subseteq 1 .. fv
    OBVIOUS
  <2>1. resume \in Nat /\ size \in Nat
    BY <1>2, <1>17
  <2>2. CASE x <= resume
    <3>1. x \in 1 .. resume
      BY <2>1, <2>2
    <3>2. Defs(split.code[x]) \subseteq 1 .. fv
      BY <1>21, <3>1
    <3>3. low[x] = Defs(split.code[x])
      BY <1>23, <2>1, <2>2
    <3> QED
      BY <3>2, <3>3
  <2>3. CASE ~ (x <= resume)
    BY <1>23, <2>1, <2>3
  <2> QED
    BY <2>2, <2>3
<1>36. Numbered(framed)
  <2> DEFINE D == 1 .. size
             g == framed
  <2>1. fv \in Nat /\ base \in Nat /\ fv <= base
    BY <1>4
  <2>2. DOMAIN g.code = D /\ g.values \in Nat /\ g.values = result
    BY <1>4, <1>20
  <2>3. \A x \in D : mid[x] \subseteq fv + 1 .. base
    BY <1>24
  <2>4. \A x \in D : low[x] \subseteq 1 .. fv
    BY <1>35
  <2>5. \A x \in D : \A v \in high[x] : v \in Nat /\ v > base
    BY <1>34
  <2>6. \A x, y \in D : x # y => low[x] \cap low[y] = {}
    BY <1>30
  <2>7. \A x, y \in D : x # y => mid[x] \cap mid[y] = {}
    BY <1>32
  <2>8. \A x, y \in D : x # y => high[x] \cap high[y] = {}
    BY <1>33
  <2>9. \A x \in D : Fine(g.code[x], g.values) /\ Defs(g.code[x]) \subseteq low[x] \cup mid[x] \cup high[x]
    BY <1>29, <2>2
  <2>11. DOMAIN g.code = D /\ g.values \in Nat
    BY <2>2
  <2>. HIDE DEF D, g, fv, base, result
  <2>12. Layered(D, fv, base, low, mid, high)
    BY <2>3, <2>4, <2>5, <2>6, <2>7, <2>8 DEF Layered
  <2>13. InLayers(g, D, low, mid, high)
    BY <2>9, <2>11 DEF InLayers
  <2>10. Numbered(g)
    BY <2>1, <2>12, <2>13, Layers
  <2> QED
    BY <2>10 DEF g
<1> QED
  BY <1>1, <1>20, <1>36

(* inline_one, with what used the result of the call reading the phi.      *)
LEMMA InlineKeepsNumbers ==
  ASSUME NEW f, IsFunction(f), Numbered(f), NEW s \in Sites(f), ~ IsTerminator(InstrAt(f, s).op),
         NEW callee, IsFunction(callee), Numbered(callee),
         IsNumbered(InstrAt(f, s), f.values),
         Len(InstrAt(f, s).args) - 1 = Len(Params(callee))
  PROVE  Numbered(InlineAt(f, s, callee))
<1> DEFINE g   == CopyInto(f, s, callee)
           dst == InstrAt(f, s).dst
<1>1. Numbered(g)
  BY CopyKeepsNumbers
<1>2. IsFunction(g)
  BY CalleeCopied
<1>3. g.values \in Nat /\ g.values >= 1
  <2>1. g.values = f.values + callee.values + Len(callee.code) + 1
    BY CopyKeepsNumbers
  <2>2. f.values \in Nat /\ callee.values \in Nat /\ Len(callee.code) \in Nat
    BY NumberedFacts, FunctionFacts
  <2>. HIDE DEF g
  <2> QED
    BY <2>1, <2>2
<1>4. InlineAt(f, s, callee) = IF dst = NoValue THEN g ELSE ReplaceUses(g, dst, g.values)
  BY DEF InlineAt
<1>. HIDE DEF g, dst
<1>5. Numbered(ReplaceUses(g, dst, g.values))
  <2>1. g.values \in 1 .. g.values
    BY <1>3
  <2> QED
    BY <1>1, <1>2, <2>1, UsesRenumbered
<1> QED
  BY <1>1, <1>4, <1>5

-----------------------------------------------------------------------------
(* The invariant *)

(* How the driver stands, one part at a time.                              *)
Flags  == pc \in Pcs /\ level \in Levels /\ changed \in BOOLEAN /\ moved \in BOOLEAN
Rounds == round \in 0 .. MaxRounds /\ (pc = "round" => round < MaxRounds)
Visits == /\ IsSeq(work) /\ Range(work) \subseteq BlocksOf(fn)
          /\ pc \notin {"cse", "licm"} => Range(work) \subseteq {EntryBlock}

(* The inductive invariant.                                                *)
NumInv == /\ OptInv
          /\ AllNumbered /\ TablesHoldValues
          /\ Flags /\ Rounds /\ Visits /\ budget \in Int

(* The steps that take the driver on.                                      *)
LEMMA FlagsKept == ASSUME Flags, [Next]_vars PROVE Flags'
<1>1. CASE UNCHANGED vars
  BY <1>1 DEF Flags, vars, optVars
<1>2. CASE BuildSsa
  <2>1. UNCHANGED <<level, changed, moved>> /\ SsaNext
    BY <1>2 DEF BuildSsa, optVars
  <2>2. pc' \in {pc, "promote", "built", "place", "rename"}
    BY <2>1 DEF SsaNext, Analyse, Promote, PlacePhis, StartRename, RenameLoad, RenameStore,
                FillSuccessors, Descend, Leave, ApplyReplacements
  <2> QED
    BY <2>1, <2>2 DEF Flags, Pcs
<1>3. CASE FinishSsa \/ StartCaller \/ InlineNext \/ EndInline \/ StartRound
  BY <1>3 DEF Flags, Pcs, FinishSsa, StartCaller, InlineNext, EndInline, StartRound, optVars
<1>4. CASE FoldNext \/ EndFold \/ PropagateNext \/ EndCopies \/ SweepDead \/ EndDce
  BY <1>4 DEF Flags, Pcs, FoldNext, EndFold, PropagateNext, EndCopies, SweepDead, EndDce, optVars
<1>5. CASE ShareNext \/ VisitChildren \/ EndCse \/ HoistNext \/ EndLoop \/ EndLicm
  BY <1>5 DEF Flags, Pcs, ShareNext, VisitChildren, EndCse, HoistNext, EndLoop, EndLicm, optVars
<1>6. CASE LoopTailCalls \/ NoTailCalls \/ MergeNext
  BY <1>6 DEF Flags, Pcs, LoopTailCalls, NoTailCalls, MergeNext, optVars
<1>7. CASE StraightenBranches \/ EndMerge
  <2>1. level' = level /\ moved' = moved /\ pc' \in Pcs
    BY <1>7 DEF StraightenBranches, EndMerge, Pcs
  <2>2. changed' \in BOOLEAN
    BY <1>7 DEF StraightenBranches, EndMerge, Rederive
  <2> QED
    BY <2>1, <2>2 DEF Flags
<1>8. CASE CheckRound \/ NextFunction \/ Terminating
  BY <1>8 DEF Flags, Pcs, CheckRound, NextFunction, Terminating, vars, optVars
<1> QED
  BY <1>1, <1>2, <1>3, <1>4, <1>5, <1>6, <1>7, <1>8 DEF Next

(* A round begins only if one is left.                                     *)
LEMMA RoundsKept == ASSUME Rounds, [Next]_vars PROVE Rounds'
<1>0. MaxRounds \in Nat /\ MaxRounds > 0
  BY BoundsAssumption
<1>1. CASE round' = round /\ pc' # "round"
  BY <1>1 DEF Rounds
<1>2. CASE round' = round /\ pc' = pc
  BY <1>2 DEF Rounds
<1>3. CASE round' = 0
  BY <1>0, <1>3 DEF Rounds
<1>4. CASE StartRound
  <2>1. pc = "round" /\ round' = round + 1 /\ pc' = "fold"
    BY <1>4 DEF StartRound
  <2> QED
    BY <1>0, <2>1 DEF Rounds
<1>5. CASE CheckRound
  <2>1. round' = round /\ (pc' = "round" => round < MaxRounds)
    BY <1>5 DEF CheckRound, optVars
  <2> QED
    BY <2>1 DEF Rounds
<1>6. CASE UNCHANGED vars \/ Terminating
  <2>1. round' = round /\ pc' = pc
    BY <1>6 DEF Terminating, vars, optVars
  <2> QED
    BY <1>2, <2>1
<1>7. CASE BuildSsa
  <2>1. round' = round /\ SsaNext
    BY <1>7 DEF BuildSsa, optVars
  <2>2. pc' = pc \/ pc' # "round"
    BY <2>1 DEF SsaNext, Analyse, Promote, PlacePhis, StartRename, RenameLoad, RenameStore,
                FillSuccessors, Descend, Leave, ApplyReplacements
  <2> QED
    BY <1>1, <1>2, <2>1, <2>2
<1>8. CASE FinishSsa \/ StartCaller \/ InlineNext \/ EndInline
  BY <1>1, <1>2, <1>3, <1>8 DEF FinishSsa, StartCaller, InlineNext, EndInline, optVars
<1>9. CASE FoldNext \/ EndFold \/ PropagateNext \/ EndCopies \/ SweepDead \/ EndDce
  BY <1>1, <1>2, <1>9 DEF FoldNext, EndFold, PropagateNext, EndCopies, SweepDead, EndDce
<1>10. CASE ShareNext \/ VisitChildren \/ EndCse \/ HoistNext \/ EndLoop \/ EndLicm
  BY <1>1, <1>2, <1>10 DEF ShareNext, VisitChildren, EndCse, HoistNext, EndLoop, EndLicm, optVars
<1>11. CASE LoopTailCalls \/ NoTailCalls \/ StraightenBranches \/ MergeNext \/ EndMerge
  BY <1>1, <1>2, <1>11 DEF LoopTailCalls, NoTailCalls, StraightenBranches, MergeNext, EndMerge, optVars
<1>12. CASE NextFunction
  BY <1>3, <1>12 DEF NextFunction
<1> QED
  BY <1>4, <1>5, <1>6, <1>7, <1>8, <1>9, <1>10, <1>11, <1>12 DEF Next

(* The instructions of a function can be counted.                          *)
LEMMA InstrsCounted ==
  ASSUME NEW f, IsFunction(f)
  PROVE  InstrCount(f) \in Nat
<1> DEFINE C == {s \in Sites(f) : s[1] \in ReachedBlocks(f)}
           B == DOMAIN f.code
           K == {{b} \X DOMAIN f.code[b] : b \in B}
<1>1. IsFiniteSet(B) /\ \A b \in B : IsFiniteSet({b} \X DOMAIN f.code[b])
  <2>1. B = 1 .. Len(f.code) /\ Len(f.code) \in Nat
    BY FunctionFacts
  <2>2. ASSUME NEW b \in B PROVE IsFiniteSet({b} \X DOMAIN f.code[b])
    <3>1. DOMAIN f.code[b] = 1 .. Len(f.code[b]) /\ Len(f.code[b]) \in Nat
      BY FunctionFacts, BlockFacts DEF BlocksOf
    <3>2. IsFiniteSet(DOMAIN f.code[b])
      <4> DEFINE n == Len(f.code[b])
      <4>1. n \in Nat
        BY <3>1
      <4>. HIDE DEF n
      <4>2. IsFiniteSet(1 .. n)
        BY <4>1, FS_Interval
      <4> QED
        BY <3>1, <4>2 DEF n
    <3>3. IsFiniteSet({b})
      BY FS_Singleton
    <3> QED
      BY <3>2, <3>3, FS_Product
  <2> QED
    BY <2>1, <2>2, FS_Interval
<1>2. IsFiniteSet(K)
  <2> DEFINE h == [b \in B |-> {b} \X DOMAIN f.code[b]]
  <2>1. h \in Surjection(B, K)
    BY DEF Surjection
  <2>. HIDE DEF h, B, K
  <2> QED
    BY <1>1, <2>1, FS_Surjection
<1>3. IsFiniteSet(Sites(f))
  <2>1. \A T \in K : IsFiniteSet(T)
    BY <1>1
  <2>2. Sites(f) = UNION K
    BY DEF Sites, BlocksOf
  <2>. HIDE DEF K
  <2> QED
    BY <1>2, <2>1, <2>2, FS_UNION
<1>4. IsFiniteSet(C)
  BY <1>3, FS_Subset
<1>5. InstrCount(f) = Cardinality(C)
  BY DEF InstrCount
<1> QED
  BY <1>4, <1>5, FS_CardinalityType

(* What a walk of the dominator tree visits next are blocks.               *)
LEMMA ChildrenAreBlocks ==
  ASSUME NEW f, IsFunction(f), NEW b
  PROVE  /\ IsSeq(Children(Analyses(f), b))
         /\ Range(Children(Analyses(f), b)) \subseteq BlocksOf(f)
<1> DEFINE a == Analyses(f)
           S == {c \in a.reach : HasIdom(a, c) /\ Idom(a, c) = b}
           n == Len(a.doms)
<1>1. DOMAIN a.doms = BlocksOf(f) /\ a.doms = [x \in BlocksOf(f) |-> a.doms[x]]
      /\ a.reach \subseteq BlocksOf(f)
  <2>1. a.doms = [x \in DOMAIN EdgesOf(f) |-> IF x \in ReachedBlocks(f)
                                                THEN {c \in ReachedBlocks(f) :
                                                        x \notin [y \in ReachedBlocks(f) |->
                                                                    ReachedAvoiding(EdgesOf(f), y)][c]}
                                                ELSE {}]
    BY DEF Analyses, AnalysesOn, DominatorSets
  <2>. HIDE DEF a
  <2>2. DOMAIN a.doms = BlocksOf(f) /\ a.reach \subseteq BlocksOf(f)
    BY DominatorSetsAre DEF a
  <2>3. a.doms = [x \in DOMAIN a.doms |-> a.doms[x]]
    BY <2>1
  <2> QED
    BY <2>2, <2>3
<1>2. BlocksOf(f) = 1 .. Len(f.code) /\ Len(f.code) \in Nat
  BY FunctionFacts
<1>3. n = Len(f.code)
  <2>. HIDE DEF a
  <2>1. a.doms = [x \in 1 .. Len(f.code) |-> a.doms[x]]
    BY <1>1, <1>2
  <2> QED
    BY <1>2, <2>1, ListIs
<1>4. Children(a, b) = Ascending(S, n)
  BY DEF Children
<1>. HIDE DEF S, n, a
<1>5. IsSeq(Ascending(S, n)) /\ \A x \in Range(Ascending(S, n)) : x \in S /\ x \in 1 .. n
  BY <1>2, <1>3, AscendingFrom
<1> QED
  BY <1>2, <1>3, <1>4, <1>5 DEF a

(* What stays of a list, and what is in two of them.                       *)
LEMMA TailOf ==
  ASSUME NEW s, IsSeq(s), s # <<>>
  PROVE  IsSeq(Tail(s)) /\ Range(Tail(s)) \subseteq Range(s) /\ Head(s) \in Range(s)
<1>1. s \in Seq(Range(s))
  BY DEF IsSeq
<1>2. Tail(s) \in Seq(Range(s)) /\ Head(s) \in Range(s)
  BY <1>1, HeadTailProperties
<1>3. IsSeq(Tail(s))
  BY <1>2, TypedSeq
<1>4. Range(Tail(s)) \subseteq Range(s)
  BY <1>2, RangeOfSeq DEF Range
<1> QED
  BY <1>2, <1>3, <1>4

(* Two lists of the same elements.                                         *)
LEMMA JoinedRange ==
  ASSUME NEW s, IsSeq(s), NEW t, IsSeq(t), NEW S, Range(s) \subseteq S, Range(t) \subseteq S
  PROVE  IsSeq(s \o t) /\ Range(s \o t) \subseteq S
<1>1. /\ IsSeq(s \o t) /\ DOMAIN (s \o t) = 1 .. Len(s) + Len(t)
      /\ \A k \in 1 .. Len(s) + Len(t) : (s \o t)[k] = IF k <= Len(s) THEN s[k] ELSE t[k - Len(s)]
  BY JoinedSeq
<1>2. Len(s) \in Nat /\ DOMAIN s = 1 .. Len(s) /\ Len(t) \in Nat /\ DOMAIN t = 1 .. Len(t)
  BY SeqFacts
<1>3. ASSUME NEW k \in 1 .. Len(s) + Len(t) PROVE (s \o t)[k] \in S
  <2>1. CASE k <= Len(s)
    <3>1. k \in DOMAIN s /\ (s \o t)[k] = s[k]
      BY <1>1, <1>2, <2>1
    <3> QED
      BY <3>1 DEF Range
  <2>2. CASE ~ (k <= Len(s))
    <3>1. k - Len(s) \in DOMAIN t /\ (s \o t)[k] = t[k - Len(s)]
      BY <1>1, <1>2, <2>2
    <3> QED
      BY <3>1 DEF Range
  <2> QED
    BY <2>1, <2>2
<1> QED
  BY <1>1, <1>3 DEF Range

(* The blocks and headers still to be visited are blocks of the function:  *)
(* no edit while they are visited adds a block or takes one away.          *)
LEMMA VisitsKept == ASSUME OptInv, OptInv', Visits, [Next]_vars PROVE Visits'
<1>1. IsFunction(fn) /\ IsFunction(fn') /\ cur \in DOMAIN prog
  BY CurIn DEF OptInv, WellShaped, fn
<1>2. {EntryBlock} \subseteq BlocksOf(fn')
  BY <1>1, EntryIsBlock
<1>3. CASE work' = work /\ pc \notin {"cse", "licm"} /\ pc' \notin {"cse", "licm"}
  BY <1>2, <1>3 DEF Visits
<1>4. ASSUME pc \in {"cse", "licm"}, pc' \in {"cse", "licm"}, an' = an
      PROVE  BlocksOf(fn') = BlocksOf(fn)
  <2>1. an = Analyses(fn) /\ an' = Analyses(fn')
    BY <1>4 DEF OptInv, AnalysesCurrent
  <2> DEFINE f == fn
             g == fn'
             a == an
  <2>2. IsFunction(f) /\ IsFunction(g) /\ a = Analyses(f) /\ a = Analyses(g)
    BY <1>1, <1>4, <2>1
  <2>. HIDE DEF f, g, a
  <2>3. DOMAIN a.doms = BlocksOf(f) /\ DOMAIN a.doms = BlocksOf(g)
    BY <2>2, DominatorSetsAre
  <2>4. BlocksOf(g) = BlocksOf(f)
    BY <2>3
  <2> QED
    BY <2>4 DEF f, g
<1>5. CASE ShareNext \/ HoistNext
  <2>1. pc \in {"cse", "licm"} /\ pc' = pc /\ an' = an /\ work' = work
    BY <1>5 DEF ShareNext, HoistNext
  <2> QED
    BY <1>4, <2>1 DEF Visits
<1>6. CASE VisitChildren
  <2> DEFINE kids == Children(an, Head(work))
  <2>1. pc = "cse" /\ pc' = pc /\ an' = an /\ work # <<>> /\ work' = kids \o Tail(work)
    BY <1>6 DEF VisitChildren
  <2>2. an = Analyses(fn)
    BY <2>1 DEF OptInv, AnalysesCurrent
  <2>3. IsSeq(kids) /\ Range(kids) \subseteq BlocksOf(fn)
    BY <1>1, <2>2, ChildrenAreBlocks
  <2>4. IsSeq(Tail(work)) /\ Range(Tail(work)) \subseteq BlocksOf(fn)
    BY <2>1, TailOf DEF Visits
  <2>. HIDE DEF kids
  <2>5. IsSeq(kids \o Tail(work)) /\ Range(kids \o Tail(work)) \subseteq BlocksOf(fn)
    BY <2>3, <2>4, JoinedRange
  <2> QED
    BY <1>4, <2>1, <2>5 DEF Visits
<1>7. CASE EndLoop
  <2>1. pc = "licm" /\ pc' = pc /\ an' = an /\ work # <<>> /\ work' \in {work, Tail(work)}
    BY <1>7 DEF EndLoop
  <2>2. IsSeq(work') /\ Range(work') \subseteq BlocksOf(fn)
    BY <2>1, TailOf DEF Visits
  <2> QED
    BY <1>4, <2>1, <2>2 DEF Visits
<1>8. CASE EndDce
  <2>1. work' = <<EntryBlock>>
    BY <1>8 DEF EndDce
  <2>2. IsSeq(<<EntryBlock>>) /\ Range(<<EntryBlock>>) \subseteq {EntryBlock}
    <3> DEFINE s == <<EntryBlock>>
    <3>1. s \in Seq({EntryBlock})
      OBVIOUS
    <3>. HIDE DEF s
    <3>2. IsSeq(s) /\ Range(s) \subseteq {EntryBlock}
      BY <3>1, TypedSeq, RangeOfSeq DEF Range
    <3> QED
      BY <3>2 DEF s
  <2> QED
    BY <1>2, <2>1, <2>2 DEF Visits
<1>9. CASE EndCse
  <2> DEFINE S == {b \in BlocksOf(fn) : IsLoopHeader(an', b)}
             f == fn
  <2>1. CASE pc' = "licm" /\ work' = Ascending(S, Len(fn.code))
    <3>1. Len(f.code) \in Nat /\ BlocksOf(f) = 1 .. Len(f.code)
      BY <1>1, FunctionFacts
    <3>2. work' = Ascending(S, Len(f.code))
      BY <2>1
    <3>3. BlocksOf(fn') = BlocksOf(fn)
      <4>1. prog' = [prog EXCEPT ![cur] = DropUnreachable(fn)] /\ cur' = cur
        BY <1>9 DEF EndCse, RefreshFn, Replace
      <4>2. fn' = DropUnreachable(fn)
        BY <1>1, <4>1 DEF fn
      <4>3. BlocksOf(DropUnreachable(f)) = BlocksOf(f)
        <5>1. DOMAIN f = {"code", "values"}
          BY <1>1, FunctionFacts
        <5>. HIDE DEF f
        <5> QED
          BY <5>1 DEF DropUnreachable, BlocksOf
      <4> QED
        BY <4>2, <4>3
    <3>. HIDE DEF S
    <3>4. IsSeq(work') /\ \A x \in Range(work') : x \in 1 .. Len(f.code)
      BY <3>1, <3>2, AscendingFrom
    <3> QED
      BY <2>1, <3>1, <3>3, <3>4 DEF Visits
  <2>2. CASE work' = <<>>
    <3>1. IsSeq(work') /\ Range(work') = {}
      BY <2>2, EmptyList, NothingThere
    <3> QED
      BY <3>1 DEF Visits
  <2> QED
    BY <1>9, <2>1, <2>2 DEF EndCse
<1>10. CASE EndLicm
  <2>1. work' = <<>>
    BY <1>10 DEF EndLicm, optVars
  <2>2. IsSeq(work') /\ Range(work') = {}
    BY <2>1, EmptyList, NothingThere
  <2> QED
    BY <2>2 DEF Visits
<1>11. CASE BuildSsa
  <2>1. work' = work /\ SsaNext
    BY <1>11 DEF BuildSsa, optVars
  <2>2. pc \notin {"cse", "licm"} /\ pc' \notin {"cse", "licm"}
    BY <2>1 DEF SsaNext, Analyse, Promote, PlacePhis, StartRename, RenameLoad, RenameStore,
                FillSuccessors, Descend, Leave, ApplyReplacements
  <2> QED
    BY <1>3, <2>1, <2>2
<1>12. CASE FinishSsa \/ StartCaller \/ InlineNext \/ EndInline \/ StartRound
  BY <1>3, <1>12 DEF FinishSsa, StartCaller, InlineNext, EndInline, StartRound, optVars
<1>13. CASE FoldNext \/ EndFold \/ PropagateNext \/ EndCopies \/ SweepDead
  BY <1>3, <1>13 DEF FoldNext, EndFold, PropagateNext, EndCopies, SweepDead
<1>14. CASE LoopTailCalls \/ NoTailCalls \/ StraightenBranches \/ MergeNext \/ EndMerge
  BY <1>3, <1>14 DEF LoopTailCalls, NoTailCalls, StraightenBranches, MergeNext, EndMerge, optVars
<1>15. CASE CheckRound \/ NextFunction
  BY <1>3, <1>15 DEF CheckRound, NextFunction, optVars
<1>16. CASE UNCHANGED vars \/ Terminating
  BY <1>16 DEF Visits, Terminating, vars, optVars, fn
<1> QED
  BY <1>5, <1>6, <1>7, <1>8, <1>9, <1>10, <1>11, <1>12, <1>13, <1>14, <1>15, <1>16 DEF Next

(* The function being worked on, once it has been analysed.                *)
LEMMA FnNumbered ==
  ASSUME WellShaped, AllNumbered, pc # "analyse"
  PROVE  cur \in DOMAIN prog /\ IsFunction(fn) /\ Numbered(fn)
<1>1. cur \in DOMAIN prog /\ IsFunction(fn)
  BY CurIn
<1>2. ~ Unanalysed(cur)
  <2>1. cur \in Nat
    BY <1>1, SeqFacts DEF WellShaped
  <2> QED
    BY <2>1 DEF Unanalysed
<1> QED
  BY <1>1, <1>2 DEF AllNumbered, fn

(* A step that changes one function.                                       *)
LEMMA NumberedStep ==
  ASSUME WellShaped, AllNumbered, NEW f, IsFunction(f), Numbered(f), Replace(f),
         \A k \in DOMAIN prog : IF k = cur THEN ~ Unanalysed(k)' ELSE Unanalysed(k)' <=> Unanalysed(k)
  PROVE  AllNumbered'
<1>1. /\ DOMAIN prog' = DOMAIN prog /\ prog'[cur] = f /\ cur \in DOMAIN prog
      /\ \A k \in DOMAIN prog : k # cur => prog'[k] = prog[k]
  BY FnReplaced, CurIn
<1>2. ASSUME NEW k \in DOMAIN prog
      PROVE  Numbered(IF Unanalysed(k)' THEN DropUnreachable(prog'[k]) ELSE prog'[k])
  <2>1. CASE k = cur
    BY <1>1, <2>1
  <2>2. CASE k # cur
    BY <1>1, <2>2 DEF AllNumbered
  <2> QED
    BY <2>1, <2>2
<1> QED
  BY <1>1, <1>2 DEF AllNumbered

(* A step that edits the function at a stage, or ends the stage.           *)
LEMMA EditNumbered ==
  ASSUME WellShaped, AllNumbered, NEW f, IsFunction(f), Numbered(f), Replace(f), cur' = cur,
         pc # "analyse", pc' # "analyse", Promoting' <=> Promoting
  PROVE  AllNumbered'
<1>1. \A k \in DOMAIN prog : IF k = cur THEN ~ Unanalysed(k)' ELSE Unanalysed(k)' <=> Unanalysed(k)
  <2>1. cur \in Nat
    BY SeqFacts DEF WellShaped
  <2>2. \A k \in DOMAIN prog : Unanalysed(k)' <=> Unanalysed(k)
    BY DEF Unanalysed
  <2>3. ~ Unanalysed(cur)
    BY <2>1 DEF Unanalysed
  <2> QED
    BY <2>2, <2>3
<1> QED
  BY <1>1, NumberedStep

(* A step of the passes, which come after promotion.                       *)
LEMMA PassNumbered ==
  ASSUME WellShaped, AllNumbered, NEW f, IsFunction(f), Numbered(f), Replace(f),
         ~ Promoting, ~ Promoting'
  PROVE  AllNumbered'
<1>1. \A k \in DOMAIN prog : ~ Unanalysed(k) /\ ~ Unanalysed(k)'
  BY DEF Unanalysed
<1> QED
  BY <1>1, NumberedStep

(* A step that edits nothing.                                              *)
LEMMA QuietNumbered ==
  ASSUME AllNumbered, prog' = prog, \A k \in DOMAIN prog : Unanalysed(k)' <=> Unanalysed(k)
  PROVE  AllNumbered'
BY DEF AllNumbered

-----------------------------------------------------------------------------
(* The steps of the passes *)

(* The rewrites that run on analyses that wait.                            *)
LEMMA RewriteNumbers ==
  ASSUME OptInv, AllNumbered, FoldNext \/ PropagateNext \/ SweepDead \/ ShareNext \/ HoistNext
  PROVE  AllNumbered'
<1>1. WellShaped /\ pc \in {"fold", "copies", "dce", "cse", "licm"} /\ pc' = pc /\ cur' = cur
  BY DEF OptInv, FoldNext, PropagateNext, SweepDead, ShareNext, HoistNext
<1>2. IsFunction(fn) /\ Numbered(fn) /\ an = Analyses(fn)
  BY <1>1, FnNumbered DEF OptInv, AnalysesCurrent
<1>3. ASSUME NEW f, SameFlow(f, fn), Numbered(f), Replace(f) PROVE AllNumbered'
  <2>1. IsFunction(f) /\ ~ Promoting /\ ~ Promoting'
    BY <1>1, <1>3 DEF SameFlow, Promoting
  <2> QED
    BY <1>1, <1>3, <2>1, PassNumbered
<1>4. CASE FoldNext
  <2> DEFINE s == FirstOf(FromCursor(FoldSites))
  <2>1. PICK f \in FoldAt(fn, s) : Replace(f)
    BY <1>4 DEF FoldNext
  <2>2. s \in Sites(fn)
    <3>1. FoldSites \subseteq Sites(fn)
      BY DEF FoldSites
    <3>2. FromCursor(FoldSites) # {}
      BY <1>4 DEF FoldNext
    <3>3. s \in FoldSites
      BY <1>1, <3>1, <3>2, FirstFromCursor
    <3> QED
      BY <3>1, <3>3
  <2>. HIDE DEF s
  <2>3. SameFlow(f, fn)
    BY <1>2, <2>2, FoldKeepsFlow
  <2>4. Numbered(f)
    BY <1>2, <2>2, FoldKeepsNumbers
  <2> QED
    BY <1>3, <2>1, <2>3, <2>4
<1>5. CASE PropagateNext
  <2> DEFINE s == FirstOf(FromCursor(CopySites(fn, an)))
  <2>1. Replace(PropagateAt(fn, s)) /\ FromCursor(CopySites(fn, an)) # {}
    BY <1>5 DEF PropagateNext
  <2>2. CopySites(fn, an) \subseteq Sites(fn)
    BY DEF CopySites
  <2>3. s \in CopySites(fn, an)
    BY <1>1, <2>1, <2>2, FirstFromCursor
  <2>. HIDE DEF s
  <2>4. SameFlow(PropagateAt(fn, s), fn)
    BY <1>2, <2>3, PropagateKeepsFlow
  <2>5. Numbered(PropagateAt(fn, s))
    BY <1>2, <2>3, PropagateKeepsNumbers
  <2> QED
    BY <1>3, <2>1, <2>4, <2>5
<1>6. CASE SweepDead
  <2>1. Replace(Sweep(fn, an))
    BY <1>6 DEF SweepDead
  <2>2. SameFlow(Sweep(fn, an), fn)
    BY <1>2, SweepKeepsFlow
  <2>3. Numbered(Sweep(fn, an))
    BY <1>2, SweepKeepsNumbers
  <2> QED
    BY <1>3, <2>1, <2>2, <2>3
<1>7. CASE ShareNext
  <2> DEFINE s == FirstOf(SharedSites)
  <2>1. Replace(ShareAt(fn, an, s)) /\ SharedSites # {}
    BY <1>7 DEF ShareNext
  <2>2. SharedSites \subseteq Sites(fn)
    BY DEF SharedSites
  <2>3. s \in SharedSites
    BY <1>1, <2>1, <2>2, CurIn, FirstOfIn
  <2>4. s \in Sites(fn) /\ Matches(fn, an, s) # {}
    BY <2>3 DEF SharedSites
  <2>. HIDE DEF s
  <2>5. SameFlow(ShareAt(fn, an, s), fn)
    BY <1>2, <2>4, ShareKeepsFlow
  <2>6. Numbered(ShareAt(fn, an, s))
    BY <1>2, <2>4, ShareKeepsNumbers
  <2> QED
    BY <1>3, <2>1, <2>5, <2>6
<1>8. CASE HoistNext
  <2> DEFINE s == FirstOf(FromCursor(Hoistable))
             h == Head(work)
  <2>1. Replace(HoistAt(fn, an, h, s)) /\ FromCursor(Hoistable) # {}
    BY <1>8 DEF HoistNext
  <2>2. Hoistable \subseteq Sites(fn)
    BY DEF Hoistable, InvariantSites
  <2>3. s \in Hoistable
    BY <1>1, <2>1, <2>2, FirstFromCursor
  <2>4. HasTarget(fn, an, h) /\ s \in InvariantSites(fn, an, h)
    BY <2>3 DEF Hoistable
  <2>. HIDE DEF s, h
  <2>5. SameFlow(HoistAt(fn, an, h, s), fn)
    BY <1>2, <2>4, HoistKeepsFlow
  <2>6. Numbered(HoistAt(fn, an, h, s))
    BY <1>2, <2>4, HoistKeepsNumbers
  <2> QED
    BY <1>3, <2>1, <2>5, <2>6
<1> QED
  BY <1>4, <1>5, <1>6, <1>7, <1>8

(* The rewrites after which the analyses are stale.                        *)
LEMMA ReshapeNumbers ==
  ASSUME OptInv, AllNumbered, LoopTailCalls \/ StraightenBranches \/ MergeNext \/ EndMerge
  PROVE  AllNumbered'
<1>1. WellShaped /\ ~ Promoting /\ ~ Promoting' /\ pc # "analyse"
  BY DEF OptInv, Promoting, LoopTailCalls, StraightenBranches, MergeNext, EndMerge
<1>2. IsFunction(fn) /\ Numbered(fn)
  BY <1>1, FnNumbered
<1>3. ASSUME NEW f, IsFunction(f), Numbered(f), Replace(f) PROVE AllNumbered'
  BY <1>1, <1>3, PassNumbered
<1>4. ASSUME NEW f, IsFunction(f), Numbered(f), NEW a, Replace(FixPhis(DropUnreachable(f), a))
      PROVE  AllNumbered'
  <2> DEFINE g == DropUnreachable(f)
  <2>1. IsFunction(g) /\ Numbered(g)
    BY <1>4, DroppedUnreachable, DropKeepsNumbers
  <2>2. Replace(FixPhis(g, a))
    BY <1>4
  <2>. HIDE DEF g
  <2>3. IsFunction(FixPhis(g, a))
    BY <2>1, PhisFixed DEF SameFlow
  <2>4. Numbered(FixPhis(g, a))
    BY <2>1, FixKeepsNumbers
  <2> QED
    BY <1>3, <2>2, <2>3, <2>4
<1>5. CASE LoopTailCalls
  <2>1. CanLoop(fn, an, cur) /\ Replace(LoopInsteadOfCalls(fn, an, cur))
    BY <1>5 DEF LoopTailCalls
  <2>2. IsFunction(LoopInsteadOfCalls(fn, an, cur))
    BY <1>2, <2>1, CallsLooped
  <2>3. Numbered(LoopInsteadOfCalls(fn, an, cur))
    BY <1>2, <2>1, LoopsKeepNumbers
  <2> QED
    BY <1>3, <2>1, <2>2, <2>3
<1>6. CASE StraightenBranches
  <2> DEFINE f == Straighten(fn, an)
  <2>1. IsFunction(f)
    BY <1>2, Straightened
  <2>2. Numbered(f)
    BY <1>2, StraightenKeepsNumbers
  <2>3. PICK a : Replace(FixPhis(DropUnreachable(f), a))
    BY <1>6 DEF StraightenBranches, Rederive
  <2>. HIDE DEF f
  <2> QED
    BY <1>4, <2>1, <2>2, <2>3
<1>7. CASE MergeNext
  <2>1. PICK b, c : c \in MergeTargets(fn, an, b) /\ Replace(Absorb(fn, b, c))
    BY <1>7 DEF MergeNext
  <2>2. IsFunction(Absorb(fn, b, c))
    BY <1>2, <2>1, Absorbed
  <2>3. Numbered(Absorb(fn, b, c))
    BY <1>2, <2>1, AbsorbKeepsNumbers
  <2> QED
    BY <1>3, <2>1, <2>2, <2>3
<1>8. CASE EndMerge
  <2>1. PICK a : Replace(FixPhis(DropUnreachable(fn), a))
    BY <1>8 DEF EndMerge, Rederive
  <2> QED
    BY <1>2, <1>4, <2>1
<1> QED
  BY <1>5, <1>6, <1>7, <1>8

(* refresh() at the ends of the passes.                                    *)
LEMMA RefreshNumbers ==
  ASSUME OptInv, AllNumbered, StartRound \/ EndDce \/ EndCse \/ EndLicm \/ CheckRound
  PROVE  AllNumbered'
<1> DEFINE f == DropUnreachable(fn)
<1>1. WellShaped /\ ~ Promoting /\ ~ Promoting' /\ pc # "analyse" /\ Replace(f)
  BY DEF OptInv, Promoting, RefreshFn, StartRound, EndDce, EndCse, EndLicm, CheckRound
<1>2. IsFunction(fn) /\ Numbered(fn)
  BY <1>1, FnNumbered
<1>3. IsFunction(f)
  BY <1>2, DroppedUnreachable
<1>4. Numbered(f)
  BY <1>2, DropKeepsNumbers
<1>. HIDE DEF f
<1> QED
  BY <1>1, <1>3, <1>4, PassNumbered

(* The decisions of the driver that edit nothing.                          *)
LEMMA WaitNumbers ==
  ASSUME AllNumbered, \/ StartCaller \/ EndFold \/ EndCopies \/ VisitChildren \/ EndLoop
                      \/ NoTailCalls \/ NextFunction \/ Terminating
  PROVE  AllNumbered'
<1>1. prog' = prog /\ ~ Promoting /\ ~ Promoting'
  BY DEF StartCaller, EndFold, EndCopies, VisitChildren, EndLoop, NoTailCalls, NextFunction,
         Terminating, vars, Promoting
<1>2. \A k \in DOMAIN prog : Unanalysed(k)' <=> Unanalysed(k)
  BY <1>1 DEF Unanalysed
<1> QED
  BY <1>1, <1>2, QuietNumbered

(* The call that is inlined, and the function it calls.                    *)
LEMMA CallTaken ==
  ASSUME OptInv, AllNumbered, InlineNext
  PROVE  LET f == Swept[cur]
             c == prog[NextCallee]
         IN /\ IsFunction(f) /\ Numbered(f) /\ IsFunction(c) /\ Numbered(c)
            /\ NextSite \in Sites(f) /\ ~ IsTerminator(InstrAt(f, NextSite).op)
            /\ IsNumbered(InstrAt(f, NextSite), f.values)
            /\ Len(InstrAt(f, NextSite).args) - 1 = Len(Params(c))
<1> DEFINE f == Swept[cur]
           s == NextSite
           i == InstrAt(f, s)
           S == InlineSites(Swept, cur, budget)
           C == CalleeOf(Swept, f, i)
<1>1. WellShaped /\ pc = "inline" /\ S # {}
  BY DEF OptInv, InlineNext
<1>2. IsFunction(fn) /\ Numbered(fn) /\ ~ Promoting
  BY <1>1, FnNumbered DEF Promoting
<1>3. DOMAIN Swept = DOMAIN prog /\ cur \in DOMAIN prog /\ f = DropUnreachable(fn) /\ IsFunction(f)
  BY <1>1, SweptFacts
<1>4. Numbered(f)
  BY <1>2, <1>3, DropKeepsNumbers
<1>5. S \subseteq Sites(f)
  BY DEF InlineSites
<1>6. s \in S
  <2>1. s = FirstOf(S)
    BY DEF NextSite
  <2>2. \A t \in S : t \in Nat \X Nat
    BY <1>3, <1>5, SiteFacts
  <2>. HIDE DEF S, s
  <2>3. S \subseteq Nat \X Nat
    BY <2>2
  <2> QED
    BY <1>1, <2>1, <2>3, FirstOfIn
<1>7. CanInline(Swept, cur, s, budget)
  BY <1>6 DEF InlineSites
<1>8. PICK c \in C \ {cur} : Len(i.args) - 1 = Len(Params(Swept[c]))
  BY <1>7 DEF CanInline
<1>9. NextCallee = c
  <2>1. NextCallee \in C
    BY <1>8 DEF NextCallee
  <2>2. \A x, y \in C : x = y
    BY DEF CalleeOf
  <2> QED
    BY <1>8, <2>1, <2>2
<1>10. i.op = "call" /\ c \in DOMAIN prog
  BY <1>3, <1>8 DEF CalleeOf
<1>11. Swept[c] = prog[c]
  BY <1>8, <1>10 DEF Swept
<1>12. IsFunction(prog[c]) /\ Numbered(prog[c])
  BY <1>1, <1>2, <1>10 DEF WellShaped, AllNumbered, Unanalysed
<1>13. s \in Sites(f) /\ ~ IsTerminator(i.op)
  BY <1>5, <1>6, <1>10 DEF IsTerminator
<1>14. IsNumbered(i, f.values)
  <2>. HIDE DEF f, s
  <2> QED
    BY <1>3, <1>4, <1>13, InstrIsNumbered
<1> QED
  BY <1>3, <1>4, <1>8, <1>9, <1>11, <1>12, <1>13, <1>14

(* A call is inlined.                                                      *)
LEMMA InlineNumbers == ASSUME OptInv, AllNumbered, InlineNext PROVE AllNumbered'
<1> DEFINE f == Swept[cur]
           c == prog[NextCallee]
           s == NextSite
<1>1. /\ IsFunction(f) /\ Numbered(f) /\ IsFunction(c) /\ Numbered(c)
      /\ s \in Sites(f) /\ ~ IsTerminator(InstrAt(f, s).op)
      /\ IsNumbered(InstrAt(f, s), f.values)
      /\ Len(InstrAt(f, s).args) - 1 = Len(Params(c))
  BY CallTaken
<1>2. WellShaped /\ Replace(InlineAt(f, s, c)) /\ ~ Promoting /\ ~ Promoting'
  BY DEF OptInv, InlineNext, Promoting
<1>. HIDE DEF f, c, s
<1>3. IsFunction(InlineAt(f, s, c))
  BY <1>1, CallInlined
<1>4. Numbered(InlineAt(f, s, c))
  BY <1>1, InlineKeepsNumbers
<1> QED
  BY <1>2, <1>3, <1>4, PassNumbered

(* On to the next caller.                                                  *)
LEMMA EndInlineNumbers == ASSUME OptInv, AllNumbered, EndInline PROVE AllNumbered'
<1> DEFINE f == IF budget > 0 THEN Swept[cur] ELSE fn
<1>1. WellShaped /\ Replace(f) /\ ~ Promoting /\ ~ Promoting' /\ pc # "analyse"
  BY DEF OptInv, EndInline, Promoting
<1>2. IsFunction(fn) /\ Numbered(fn) /\ Swept[cur] = DropUnreachable(fn) /\ IsFunction(Swept[cur])
  BY <1>1, FnNumbered, SweptFacts
<1>3. Numbered(Swept[cur])
  BY <1>2, DropKeepsNumbers
<1>4. IsFunction(f) /\ Numbered(f)
  BY <1>2, <1>3
<1>. HIDE DEF f
<1> QED
  BY <1>1, <1>4, PassNumbered

(* What opt_inline may add is a number.                                    *)
LEMMA BudgetKept ==
  ASSUME OptInv, AllNumbered, budget \in Int, [Next]_vars
  PROVE  budget' \in Int
<1>1. CASE StartCaller
  <2>1. budget' = IF level < 2 THEN 0 ELSE InstrCount(fn) * (Growth - 1)
    BY <1>1 DEF StartCaller
  <2>2. InstrCount(fn) \in Nat
    BY CurIn, InstrsCounted DEF OptInv
  <2>3. Growth - 1 \in Int
    BY BoundsAssumption
  <2>4. InstrCount(fn) * (Growth - 1) \in Int
    BY <2>2, <2>3
  <2> QED
    BY <2>1, <2>4
<1>2. CASE InlineNext
  <2> DEFINE c == prog[NextCallee]
  <2>1. IsFunction(c) /\ Numbered(c)
    BY <1>2, CallTaken
  <2>2. budget' = budget - Added(c)
    BY <1>2 DEF InlineNext
  <2>. HIDE DEF c
  <2>3. InstrCount(c) \in Nat /\ Len(Params(c)) \in Nat
    BY <2>1, InstrsCounted, ParamsNumbered
  <2> QED
    BY <2>2, <2>3 DEF Added
<1>3. CASE UNCHANGED vars \/ BuildSsa \/ FinishSsa
  BY <1>3 DEF vars, optVars, BuildSsa, FinishSsa
<1>4. CASE EndInline \/ StartRound
  BY <1>4 DEF EndInline, StartRound
<1>5. CASE FoldNext \/ EndFold \/ PropagateNext \/ EndCopies \/ SweepDead \/ EndDce
  BY <1>5 DEF FoldNext, EndFold, PropagateNext, EndCopies, SweepDead, EndDce
<1>6. CASE ShareNext \/ VisitChildren \/ EndCse \/ HoistNext \/ EndLoop \/ EndLicm
  BY <1>6 DEF ShareNext, VisitChildren, EndCse, HoistNext, EndLoop, EndLicm, optVars
<1>7. CASE LoopTailCalls \/ NoTailCalls \/ StraightenBranches \/ MergeNext \/ EndMerge
  BY <1>7 DEF LoopTailCalls, NoTailCalls, StraightenBranches, MergeNext, EndMerge, optVars
<1>8. CASE CheckRound \/ NextFunction \/ Terminating
  BY <1>8 DEF CheckRound, NextFunction, Terminating, vars, optVars
<1> QED
  BY <1>1, <1>2, <1>3, <1>4, <1>5, <1>6, <1>7, <1>8 DEF Next

-----------------------------------------------------------------------------
(* What the renaming walk notes *)

(* The tables of promotion, of a function with n values and the blocks B.  *)
Fits(n, B, sl, st, ze, re, ph, pa) ==
  /\ st \in [DOMAIN sl -> Seq(1 .. n)]
  /\ ze \in [DOMAIN sl -> {NoValue} \cup (1 .. n)]
  /\ DOMAIN re \subseteq 1 .. n /\ re \in [DOMAIN re -> {NoValue} \cup (1 .. n)]
  /\ IsSeq(ph) /\ Len(ph) <= Len(sl)
  /\ \A j \in DOMAIN ph : ph[j] \in [B -> {NoValue} \cup (1 .. n)]
  /\ pa \in Seq([b : B, filled : BOOLEAN, todo : Seq(B), pushed : [DOMAIN sl -> Nat]])

(* That is what TablesHoldValues says of them.                             *)
LEMMA TablesFit ==
  ASSUME TablesHoldValues, pc \in {"place", "rename"}
  PROVE  /\ Fits(fn.values, BlocksOf(fn), slots, stack, zero, repl, phiOf, path)
         /\ pc = "rename" => Len(phiOf) = Len(slots)
BY DEF TablesHoldValues, Fits

(* And what it takes to say it of the next state.                          *)
LEMMA TablesSet ==
  ASSUME NEW f, prog'[cur'] = f,
         Fits(f.values, DOMAIN f.code, slots', stack', zero', repl', phiOf', path'),
         pc' = "rename" => Len(phiOf') = Len(slots')
  PROVE  TablesHoldValues'
BY DEF TablesHoldValues, Fits, fn, BlocksOf

(* Sequences of more.                                                      *)
LEMMA SeqMore ==
  ASSUME NEW S, NEW T, S \subseteq T, NEW s \in Seq(S)
  PROVE  s \in Seq(T)
<1>1. Len(s) \in Nat /\ s \in [1 .. Len(s) -> S]
  BY LenProperties
<1>2. s \in [1 .. Len(s) -> T]
  BY <1>1
<1> QED
  BY <1>1, <1>2, SeqDef

(* What the tables hold stays in them when there are more values.          *)
LEMMA FitsMore ==
  ASSUME NEW m \in Nat, NEW n \in Nat, m <= n, NEW B, NEW sl, NEW st, NEW ze, NEW re, NEW ph, NEW pa,
         Fits(m, B, sl, st, ze, re, ph, pa)
  PROVE  Fits(n, B, sl, st, ze, re, ph, pa)
<1>1. 1 .. m \subseteq 1 .. n /\ {NoValue} \cup (1 .. m) \subseteq {NoValue} \cup (1 .. n)
  OBVIOUS
<1> DEFINE V == 1 .. m
           W == 1 .. n
<1>2. \A s \in Seq(V) : s \in Seq(W)
  BY <1>1, SeqMore
<1>3. /\ st \in [DOMAIN sl -> Seq(V)] /\ ze \in [DOMAIN sl -> {NoValue} \cup V]
      /\ DOMAIN re \subseteq V /\ re \in [DOMAIN re -> {NoValue} \cup V]
      /\ \A j \in DOMAIN ph : ph[j] \in [B -> {NoValue} \cup V]
  BY DEF Fits
<1>4. V \subseteq W
  BY <1>1
<1>. HIDE DEF V, W
<1>5. st \in [DOMAIN sl -> Seq(W)]
  BY <1>2, <1>3
<1>6. ze \in [DOMAIN sl -> {NoValue} \cup W]
  BY <1>3, <1>4
<1>7. DOMAIN re \subseteq W /\ re \in [DOMAIN re -> {NoValue} \cup W]
  BY <1>3, <1>4
<1>8. ASSUME NEW j \in DOMAIN ph PROVE ph[j] \in [B -> {NoValue} \cup W]
  <2>1. ph[j] \in [B -> {NoValue} \cup V]
    BY <1>3
  <2> QED
    BY <1>4, <2>1
<1> QED
  BY <1>5, <1>6, <1>7, <1>8 DEF Fits, W

(* The block the walk is in.                                               *)
LEMMA HereIs ==
  ASSUME TablesHoldValues, pc = "rename", Depth > 0
  PROVE  /\ Here \in BlocksOf(fn) /\ Depth \in DOMAIN path /\ Depth \in Nat
         /\ path[Depth] \in [b : BlocksOf(fn), filled : BOOLEAN, todo : Seq(BlocksOf(fn)),
                             pushed : [DOMAIN slots -> Nat]]
<1>1. path \in Seq([b : BlocksOf(fn), filled : BOOLEAN, todo : Seq(BlocksOf(fn)),
                    pushed : [DOMAIN slots -> Nat]])
  BY DEF TablesHoldValues
<1> DEFINE A == [b : BlocksOf(fn), filled : BOOLEAN, todo : Seq(BlocksOf(fn)), pushed : [DOMAIN slots -> Nat]]
<1>2. path \in Seq(A)
  BY <1>1
<1>3. \A a \in A : a.b \in BlocksOf(fn)
  OBVIOUS
<1>. HIDE DEF A
<1>4. Len(path) \in Nat /\ path \in [1 .. Len(path) -> A]
  BY <1>2, LenProperties
<1>5. Depth \in DOMAIN path /\ Depth \in Nat /\ path[Depth] \in A
  BY <1>4 DEF Depth
<1> QED
  BY <1>3, <1>5 DEF Here, A

(* An access to a promoted slot: which slot, and what it reads.            *)
LEMMA AccessIs ==
  ASSUME OptInv, AllNumbered, TablesHoldValues, pc = "rename", Depth > 0, NextAccess # 0
  PROVE  LET i == fn.code[Here][NextAccess]
         IN /\ Here \in DOMAIN fn.code /\ NextAccess \in DOMAIN fn.code[Here]
            /\ ~ IsTerminator(i.op) /\ IsNumbered(i, fn.values)
            /\ SlotIndex(i.args[1]) \in DOMAIN slots
            /\ i.op \in {"load", "store"} => i.args[1] \in 1 .. fn.values
            /\ i.op = "store" => i.args[2] \in 1 .. fn.values
<1> DEFINE c == fn.code[Here]
           n == NextAccess
           i == c[n]
           T == {k \in 1 .. Len(c) : IsPromotedAccess(c[k])}
<1>1. WellShaped /\ IsFunction(fn) /\ Numbered(fn) /\ IsSeq(slots)
  BY FnNumbered DEF OptInv, WellShaped
<1>2. Here \in BlocksOf(fn)
  BY HereIs
<1>3. n \in DOMAIN c /\ ~ IsTerminator(i.op)
  BY <1>1, <1>2, AccessFound
<1>4. IsNumbered(i, fn.values)
  <2>1. Here \in DOMAIN fn.code
    BY <1>2 DEF BlocksOf
  <2> QED
    BY <1>1, <1>3, <2>1, InstrIsNumbered
<1>5. n \in T
  <2>1. n = IF T # {} THEN Min(T) ELSE 0
    BY DEF NextAccess, SelectInSeq
  <2>2. T = {k \in 1 .. Len(c) : k \in T} /\ n # 0
    OBVIOUS
  <2>3. IsSeq(c)
    BY <1>1, <1>2, FunctionFacts, BlockFacts
  <2>. HIDE DEF T, c, n
  <2> QED
    BY <2>1, <2>2, <2>3, FoundAt
<1>6. i.op \in {"load", "store"} /\ SlotIndex(i.args[1]) # 0
  BY <1>5 DEF IsPromotedAccess
<1>7. SlotIndex(i.args[1]) \in DOMAIN slots
  <2> DEFINE v == i.args[1]
             U == {k \in 1 .. Len(slots) : slots[k] = v}
             m == SlotIndex(v)
  <2>1. m = IF U # {} THEN Min(U) ELSE 0
    BY DEF SlotIndex, SelectInSeq
  <2>2. U = {k \in 1 .. Len(slots) : k \in U} /\ m # 0
    BY <1>6
  <2>. HIDE DEF U, m, v
  <2>3. m \in DOMAIN slots
    BY <1>1, <2>1, <2>2, FoundAt
  <2> QED
    BY <2>3 DEF m, v
<1>8. i.args[1] \in 1 .. fn.values /\ (i.op = "store" => i.args[2] \in 1 .. fn.values)
  <2>1. IsSeq(i.args) /\ Range(i.args) \subseteq 1 .. fn.values /\ RequiredArgs(i)
    BY <1>4 DEF IsNumbered
  <2>2. DOMAIN i.args = 1 .. Len(i.args) /\ Len(i.args) \in Nat
    BY <2>1, SeqFacts
  <2>. HIDE DEF i
  <2>3. i.op = "load" => Len(i.args) >= 1
    <3> SUFFICES ASSUME i.op = "load" PROVE Len(i.args) = 1
      BY <2>2
    <3> QED
      BY <2>1 DEF RequiredArgs
  <2>4. i.op = "store" => Len(i.args) >= 2
    <3> SUFFICES ASSUME i.op = "store" PROVE Len(i.args) = 2
      BY <2>2
    <3> QED
      BY <2>1 DEF RequiredArgs
  <2>5. 1 \in DOMAIN i.args /\ (i.op = "store" => 2 \in DOMAIN i.args)
    BY <1>6, <2>2, <2>3, <2>4
  <2> QED
    BY <2>1, <2>5 DEF Range
<1> QED
  BY <1>2, <1>3, <1>4, <1>7, <1>8 DEF BlocksOf

(* One element of a sequence exchanged, and one more or some fewer.        *)
LEMMA TypedExcept ==
  ASSUME NEW A, NEW s \in Seq(A), NEW k \in DOMAIN s, NEW x \in A
  PROVE  [s EXCEPT ![k] = x] \in Seq(A)
<1>1. Len(s) \in Nat /\ s \in [1 .. Len(s) -> A]
  BY LenProperties
<1>2. [s EXCEPT ![k] = x] \in [1 .. Len(s) -> A]
  BY <1>1
<1> QED
  BY <1>1, <1>2, SeqDef

(* One more element.                                                       *)
LEMMA TypedAppend ==
  ASSUME NEW A, NEW s \in Seq(A), NEW x \in A
  PROVE  Append(s, x) \in Seq(A)
BY AppendProperties

(* The front of a sequence.                                                *)
LEMMA TypedPart ==
  ASSUME NEW A, NEW s \in Seq(A), NEW k \in Int, k <= Len(s)
  PROVE  SubSeq(s, 1, k) \in Seq(A)
<1>1. Len(s) \in Nat /\ s \in [1 .. Len(s) -> A] /\ IsSeq(s)
  BY LenProperties, TypedSeq
<1>2. CASE k >= 0
  BY <1>1, <1>2, SubSeqProperties
<1>3. CASE k < 0
  <2>1. SubSeq(s, 1, k) = <<>>
    BY <1>1, <1>3
  <2> QED
    BY <2>1
<1> QED
  BY <1>2, <1>3

(* Its last element, and what is before it.                                *)
LEMMA TypedLast ==
  ASSUME NEW A, NEW s \in Seq(A), s # <<>>
  PROVE  Last(s) \in A /\ Front(s) \in Seq(A)
<1>1. Len(s) \in Nat /\ s \in [1 .. Len(s) -> A] /\ IsSeq(s)
  BY LenProperties, TypedSeq
<1>2. Len(s) >= 1 /\ Last(s) = s[Len(s)]
  BY <1>1, SeqFacts
<1>3. Last(s) \in A
  BY <1>1, <1>2
<1>4. Front(s) \in Seq(A)
  <2> DEFINE n == Len(s) - 1
  <2>1. Front(s) = SubSeq(s, 1, n) /\ n \in Int /\ n <= Len(s)
    BY <1>1 DEF Front
  <2>. HIDE DEF n
  <2> QED
    BY <2>1, TypedPart
<1> QED
  BY <1>3, <1>4

(* Its first element, and what is behind it.                               *)
LEMMA TypedParts ==
  ASSUME NEW A, NEW s \in Seq(A), s # <<>>
  PROVE  Head(s) \in A /\ Tail(s) \in Seq(A)
BY HeadTailProperties

(* An activation of rename_block, whatever it notes next.                  *)
Activations(B, sl) == [b : B, filled : BOOLEAN, todo : Seq(B), pushed : [DOMAIN sl -> Nat]]

(* It stays one whatever it notes next.                                    *)
LEMMA ActivationEdited ==
  ASSUME NEW B, NEW sl, NEW a \in Activations(B, sl), NEW t \in Seq(B), NEW q \in [DOMAIN sl -> Nat],
         NEW u \in BOOLEAN
  PROVE  /\ [a EXCEPT !.todo = t] \in Activations(B, sl)
         /\ [a EXCEPT !.pushed = q] \in Activations(B, sl)
         /\ [a EXCEPT !.filled = u, !.todo = t] \in Activations(B, sl)
         /\ a.todo \in Seq(B) /\ a.pushed \in [DOMAIN sl -> Nat] /\ a.b \in B
<1> DEFINE Q == Seq(B)
           P == [DOMAIN sl -> Nat]
<1>1. t \in Q /\ q \in P
  OBVIOUS
<1>2. a \in [b : B, filled : BOOLEAN, todo : Q, pushed : P]
  BY DEF Activations
<1>. HIDE DEF Q, P
<1>3. /\ [a EXCEPT !.todo = t] \in [b : B, filled : BOOLEAN, todo : Q, pushed : P]
      /\ [a EXCEPT !.pushed = q] \in [b : B, filled : BOOLEAN, todo : Q, pushed : P]
      /\ [a EXCEPT !.filled = u, !.todo = t] \in [b : B, filled : BOOLEAN, todo : Q, pushed : P]
      /\ a.todo \in Q /\ a.pushed \in P /\ a.b \in B
  BY <1>1, <1>2
<1> QED
  BY <1>3 DEF Activations, Q, P

(* The one Enter begins with.                                              *)
LEMMA ActivationNew ==
  ASSUME NEW B, NEW sl, NEW b \in B, NEW q \in [DOMAIN sl -> Nat]
  PROVE  [b |-> b, filled |-> FALSE, todo |-> <<>>, pushed |-> q] \in Activations(B, sl)
<1> DEFINE Q == Seq(B)
           P == [DOMAIN sl -> Nat]
           none == <<>>
<1>1. none \in Q /\ q \in P
  OBVIOUS
<1>. HIDE DEF Q, P, none
<1>2. [b |-> b, filled |-> FALSE, todo |-> none, pushed |-> q]
        \in [b : B, filled : BOOLEAN, todo : Q, pushed : P]
  BY <1>1
<1> QED
  BY <1>2 DEF Activations, Q, P, none

(* Entering a block.                                                       *)
LEMMA EnterFits ==
  ASSUME NEW n, NEW B, NEW b \in B, NEW c, Enter(b, c), IsSeq(slots), Len(phiOf) = Len(slots),
         Fits(n, B, slots, stack, zero, repl, phiOf, c)
  PROVE  Fits(n, B, slots, stack', zero, repl, phiOf, path')
<1> DEFINE pushed == [j \in DOMAIN slots |-> IF phiOf[j][b] # NoValue THEN 1 ELSE 0]
           V == 1 .. n
           x == [b |-> b, filled |-> FALSE, todo |-> <<>>, pushed |-> pushed]
<1>1. path' = Append(c, x)
      /\ stack' = [j \in DOMAIN slots |-> IF pushed[j] = 1 THEN Append(stack[j], phiOf[j][b]) ELSE stack[j]]
  BY DEF Enter
<1>2. IsSeq(phiOf) /\ DOMAIN phiOf = DOMAIN slots
  <2>1. IsSeq(phiOf)
    BY DEF Fits
  <2> QED
    BY <2>1, SeqFacts
<1>3. c \in Seq(Activations(B, slots)) /\ stack \in [DOMAIN slots -> Seq(V)]
      /\ \A j \in DOMAIN slots : phiOf[j] \in [B -> {NoValue} \cup V]
  BY <1>2 DEF Fits, Activations
<1>4. pushed \in [DOMAIN slots -> Nat]
  OBVIOUS
<1>5. path' \in Seq(Activations(B, slots))
  <2>. HIDE DEF pushed
  <2>1. x \in Activations(B, slots)
    BY <1>4, ActivationNew
  <2>. HIDE DEF x
  <2> QED
    BY <1>1, <1>3, <2>1, TypedAppend
<1>6. stack' \in [DOMAIN slots -> Seq(V)]
  <2> SUFFICES ASSUME NEW j \in DOMAIN slots
               PROVE  (IF pushed[j] = 1 THEN Append(stack[j], phiOf[j][b]) ELSE stack[j]) \in Seq(V)
    BY <1>1
  <2>1. CASE pushed[j] = 1
    <3>1. phiOf[j][b] # NoValue
      BY <2>1
    <3>2. phiOf[j][b] \in {NoValue} \cup V
      BY <1>3
    <3>. HIDE DEF V
    <3>3. stack[j] \in Seq(V) /\ phiOf[j][b] \in V
      BY <1>3, <3>1, <3>2
    <3>4. Append(stack[j], phiOf[j][b]) \in Seq(V)
      BY <3>3, TypedAppend
    <3> QED
      BY <2>1, <3>4
  <2>2. CASE pushed[j] # 1
    BY <1>3, <2>2
  <2> QED
    BY <2>1, <2>2
<1>. HIDE DEF pushed, x
<1> QED
  BY <1>5, <1>6 DEF Fits, Activations

-----------------------------------------------------------------------------
(* The steps of promotion *)

(* The function is analysed for the first time.                            *)
LEMMA AnalyseNumbers ==
  ASSUME OptInv, AllNumbered, Analyse
  PROVE  AllNumbered' /\ TablesHoldValues'
<1> DEFINE f == DropUnreachable(fn)
<1>1. WellShaped /\ IsFunction(fn) /\ IsFunction(f) /\ cur \in DOMAIN prog
  BY CurIn, DroppedUnreachable DEF OptInv
<1>2. Replace(f) /\ pc = "analyse" /\ pc' = "promote" /\ cur' = cur
  BY DEF Analyse
<1>3. cur \in Nat /\ \A k \in DOMAIN prog : k \in Nat
  BY <1>1, SeqFacts DEF WellShaped
<1>4. Numbered(f)
  BY <1>1, <1>2 DEF AllNumbered, Unanalysed, Promoting, fn
<1>5. \A k \in DOMAIN prog : IF k = cur THEN ~ Unanalysed(k)' ELSE Unanalysed(k)' <=> Unanalysed(k)
  BY <1>2, <1>3 DEF Unanalysed, Promoting
<1>. HIDE DEF f
<1>6. AllNumbered'
  BY <1>1, <1>2, <1>4, <1>5, NumberedStep
<1>7. TablesHoldValues'
  BY <1>2 DEF TablesHoldValues
<1> QED
  BY <1>6, <1>7

(* A step of promotion that edits nothing.                                 *)
LEMMA PauseNumbers ==
  ASSUME AllNumbered, UNCHANGED <<prog, cur>>, pc \in {"promote", "place", "rename"},
         pc' \in {"place", "rename", "built"}
  PROVE  AllNumbered'
<1>1. Promoting /\ Promoting' /\ prog' = prog
  BY DEF Promoting
<1>2. \A k \in DOMAIN prog : Unanalysed(k)' <=> Unanalysed(k)
  BY <1>1 DEF Unanalysed
<1> QED
  BY <1>1, <1>2, QuietNumbered

(* The tables are empty when the slots are chosen.                         *)
LEMMA PromoteNumbers ==
  ASSUME OptInv, AllNumbered, Promote
  PROVE  AllNumbered' /\ TablesHoldValues'
<1> DEFINE t == KeptAt(fn.code[EntryBlock],
                       {k \in DOMAIN fn.code[EntryBlock] : IsPromotable(fn, fn.code[EntryBlock][k])})
           d == [j \in DOMAIN t |-> t[j].dst]
           st == [j \in DOMAIN t |-> <<>>]
           ze == [j \in DOMAIN t |-> NoValue]
           re == [v \in 1 .. fn.values |-> NoValue]
           none == <<>>
<1>1. WellShaped /\ pc = "promote" /\ SlotsNamed(fn) /\ IsFunction(fn) /\ cur \in DOMAIN prog
  BY CurIn DEF OptInv, Promote, WellShaped, Promoting, Unpromoted, fn
<1>2. /\ slots' = d /\ stack' = st /\ zero' = ze /\ phiOf' = none /\ repl' = re /\ path' = none
      /\ prog' = prog /\ cur' = cur /\ pc' \in {"built", "place"}
  BY DEF Promote
<1>3. AllNumbered'
  BY <1>1, <1>2, PauseNumbers
<1>4. IsSeq(d) /\ DOMAIN d = DOMAIN t
  BY <1>1, SlotsTaken
<1>5. /\ st \in [DOMAIN d -> Seq(1 .. fn.values)]
      /\ ze \in [DOMAIN d -> {NoValue} \cup (1 .. fn.values)]
      /\ DOMAIN re \subseteq 1 .. fn.values /\ re \in [DOMAIN re -> {NoValue} \cup (1 .. fn.values)]
  <2>1. \A j \in DOMAIN t : st[j] = <<>> /\ ze[j] = NoValue
    OBVIOUS
  <2>2. st = [j \in DOMAIN d |-> st[j]] /\ ze = [j \in DOMAIN d |-> ze[j]]
    BY <1>4
  <2>3. DOMAIN re \subseteq 1 .. fn.values /\ re \in [DOMAIN re -> {NoValue} \cup (1 .. fn.values)]
    OBVIOUS
  <2>. HIDE DEF d, st, ze, t, re
  <2>4. <<>> \in Seq(1 .. fn.values)
    OBVIOUS
  <2>5. st \in [DOMAIN d -> Seq(1 .. fn.values)]
    BY <1>4, <2>1, <2>2, <2>4
  <2>6. ze \in [DOMAIN d -> {NoValue} \cup (1 .. fn.values)]
    BY <1>4, <2>1, <2>2
  <2> QED
    BY <2>3, <2>5, <2>6
<1>6. Len(d) \in Nat /\ IsSeq(none) /\ Len(none) = 0 /\ DOMAIN none = {}
  BY <1>4, EmptyList, SeqFacts
<1>7. none \in Seq([b : BlocksOf(fn), filled : BOOLEAN, todo : Seq(BlocksOf(fn)), pushed : [DOMAIN d -> Nat]])
  OBVIOUS
<1>. HIDE DEF d, st, ze, re, t, none
<1>8. Fits(fn.values, DOMAIN fn.code, d, st, ze, re, none, none)
  BY <1>5, <1>6, <1>7 DEF Fits, BlocksOf
<1>9. prog'[cur'] = fn /\ pc' # "rename"
  BY <1>2 DEF fn
<1>10. TablesHoldValues'
  BY <1>2, <1>8, <1>9, TablesSet
<1> QED
  BY <1>3, <1>10

(* The walk begins, goes down and comes back.                              *)
LEMMA StartRenameNumbers ==
  ASSUME OptInv, AllNumbered, TablesHoldValues, StartRename
  PROVE  AllNumbered' /\ TablesHoldValues'
<1>1. /\ UNCHANGED <<prog, cur, slots, phiOf, zero, repl>> /\ pc = "place" /\ pc' = "rename"
      /\ Len(phiOf) = Len(slots) /\ Enter(EntryBlock, <<>>)
  BY DEF StartRename
<1>2. AllNumbered'
  BY <1>1, PauseNumbers
<1>3. IsFunction(fn) /\ IsSeq(slots) /\ EntryBlock \in BlocksOf(fn)
  BY <1>1, CurIn, EntryIsBlock DEF OptInv, WellShaped
<1>4. Fits(fn.values, BlocksOf(fn), slots, stack, zero, repl, phiOf, path)
  BY <1>1, TablesFit
<1> DEFINE n == fn.values
           B == BlocksOf(fn)
           none == <<>>
<1>5. none \in Seq([b : B, filled : BOOLEAN, todo : Seq(B), pushed : [DOMAIN slots -> Nat]])
  OBVIOUS
<1>6. Enter(EntryBlock, none) /\ EntryBlock \in B
  BY <1>1, <1>3
<1>. HIDE DEF n, B, none
<1>7. Fits(n, B, slots, stack, zero, repl, phiOf, none)
  BY <1>4, <1>5 DEF Fits, n, B
<1>8. Fits(n, B, slots, stack', zero, repl, phiOf, path')
  BY <1>1, <1>3, <1>6, <1>7, EnterFits
<1>9. prog'[cur'] = fn /\ DOMAIN fn.code = B /\ n = fn.values
  BY <1>1 DEF fn, B, n, BlocksOf
<1>10. Fits(fn.values, DOMAIN fn.code, slots', stack', zero', repl', phiOf', path')
  BY <1>1, <1>8, <1>9
<1>11. TablesHoldValues'
  BY <1>1, <1>9, <1>10, TablesSet
<1> QED
  BY <1>2, <1>11

(* Down into a child.                                                      *)
LEMMA DescendNumbers ==
  ASSUME OptInv, AllNumbered, TablesHoldValues, Descend
  PROVE  AllNumbered' /\ TablesHoldValues'
<1> DEFINE n == fn.values
           B == BlocksOf(fn)
           c == [path EXCEPT ![Depth].todo = Tail(@)]
           b == Head(path[Depth].todo)
           x == [path[Depth] EXCEPT !.todo = Tail(path[Depth].todo)]
<1>1. /\ UNCHANGED <<prog, cur, slots, phiOf, zero, repl>> /\ pc = "rename" /\ pc' = "rename"
      /\ Depth > 0 /\ path[Depth].todo # <<>> /\ Enter(b, c)
  BY DEF Descend
<1>2. AllNumbered'
  BY <1>1, PauseNumbers
<1>3. Fits(n, B, slots, stack, zero, repl, phiOf, path) /\ Len(phiOf) = Len(slots)
  BY <1>1, TablesFit
<1>4. IsSeq(slots)
  BY <1>1 DEF OptInv, WellShaped
<1>5. Depth \in DOMAIN path /\ path[Depth] \in Activations(B, slots) /\ path \in Seq(Activations(B, slots))
  BY <1>1, <1>3, HereIs DEF Activations, Fits
<1>6. c = [path EXCEPT ![Depth] = x]
  BY <1>5
<1>7. b \in B /\ c \in Seq(Activations(B, slots))
  <2>1. path[Depth].todo \in Seq(B)
    <3>. HIDE DEF B
    <3> QED
      BY <1>5 DEF Activations
  <2>2. b \in B /\ Tail(path[Depth].todo) \in Seq(B)
    BY <1>1, <2>1, TypedParts
  <2> DEFINE r == Tail(path[Depth].todo)
             a == path[Depth]
             z == [a EXCEPT !.pushed = a.pushed]
  <2>3. r \in Seq(B) /\ a \in Activations(B, slots) /\ a.pushed \in [DOMAIN slots -> Nat]
    <3>. HIDE DEF B
    <3> QED
      BY <1>5, <2>2 DEF Activations
  <2>. HIDE DEF r, a, B
  <2>4. [a EXCEPT !.todo = r] \in Activations(B, slots)
    BY <2>3, ActivationEdited
  <2>5. x \in Activations(B, slots)
    BY <2>4 DEF r, a
  <2>. HIDE DEF x, c
  <2>6. [path EXCEPT ![Depth] = x] \in Seq(Activations(B, slots))
    BY <1>5, <2>5, TypedExcept
  <2> QED
    BY <1>6, <2>2, <2>6
<1>. HIDE DEF n, B, c, b, x
<1>8. Fits(n, B, slots, stack, zero, repl, phiOf, c)
  BY <1>3, <1>7 DEF Fits, Activations
<1>9. Fits(n, B, slots, stack', zero, repl, phiOf, path')
  BY <1>1, <1>3, <1>4, <1>7, <1>8, EnterFits
<1>10. prog'[cur'] = fn /\ DOMAIN fn.code = B /\ n = fn.values
  BY <1>1 DEF fn, B, n, BlocksOf
<1>11. Fits(fn.values, DOMAIN fn.code, slots', stack', zero', repl', phiOf', path')
  BY <1>1, <1>9, <1>10
<1>12. TablesHoldValues'
  BY <1>1, <1>3, <1>10, <1>11, TablesSet
<1> QED
  BY <1>2, <1>12

(* And back out of it.                                                     *)
LEMMA LeaveNumbers ==
  ASSUME OptInv, AllNumbered, TablesHoldValues, Leave
  PROVE  AllNumbered' /\ TablesHoldValues'
<1> DEFINE n == fn.values
           B == BlocksOf(fn)
           st == [j \in DOMAIN slots |-> SubSeq(stack[j], 1, Len(stack[j]) - path[Depth].pushed[j])]
<1>1. /\ UNCHANGED <<prog, cur, slots, phiOf, zero, repl>> /\ pc = "rename" /\ pc' = "rename"
      /\ Depth > 0 /\ stack' = st /\ path' = Front(path)
  BY DEF Leave
<1>2. AllNumbered'
  BY <1>1, PauseNumbers
<1>3. Fits(n, B, slots, stack, zero, repl, phiOf, path) /\ Len(phiOf) = Len(slots)
  BY <1>1, TablesFit
<1>4. Depth \in DOMAIN path /\ path[Depth] \in Activations(B, slots) /\ path \in Seq(Activations(B, slots))
  BY <1>1, <1>3, HereIs DEF Activations, Fits
<1>5. path' \in Seq(Activations(B, slots))
  <2>1. path # <<>>
    BY <1>4
  <2>. HIDE DEF B
  <2> QED
    BY <1>1, <1>4, <2>1, TypedLast
<1>6. st \in [DOMAIN slots -> Seq(1 .. n)]
  <2> DEFINE V == 1 .. n
  <2>1. stack \in [DOMAIN slots -> Seq(V)]
    BY <1>3 DEF Fits
  <2>2. path[Depth].pushed \in [DOMAIN slots -> Nat]
    <3>. HIDE DEF B
    <3> QED
      BY <1>4 DEF Activations
  <2>. HIDE DEF V
  <2>3. ASSUME NEW j \in DOMAIN slots
        PROVE  SubSeq(stack[j], 1, Len(stack[j]) - path[Depth].pushed[j]) \in Seq(V)
    <3> DEFINE s == stack[j]
               k == Len(s) - path[Depth].pushed[j]
    <3>1. s \in Seq(V) /\ path[Depth].pushed[j] \in Nat
      BY <2>1, <2>2
    <3>2. Len(s) \in Nat
      BY <3>1, LenProperties
    <3>3. k \in Int /\ k <= Len(s)
      BY <3>1, <3>2
    <3>. HIDE DEF s, k
    <3>4. SubSeq(s, 1, k) \in Seq(V)
      BY <3>1, <3>3, TypedPart
    <3> QED
      BY <3>4 DEF s, k
  <2> QED
    BY <2>3 DEF V
<1>. HIDE DEF n, B, st
<1>7. Fits(n, B, slots, st, zero, repl, phiOf, path')
  BY <1>3, <1>5, <1>6 DEF Fits, Activations
<1>8. prog'[cur'] = fn /\ DOMAIN fn.code = B /\ n = fn.values
  BY <1>1 DEF fn, B, n, BlocksOf
<1>9. Fits(fn.values, DOMAIN fn.code, slots', stack', zero', repl', phiOf', path')
  BY <1>1, <1>7, <1>8
<1>10. TablesHoldValues'
  BY <1>1, <1>3, <1>8, <1>9, TablesSet
<1> QED
  BY <1>2, <1>10

(* One more slot has its phis.                                             *)
LEMMA FitsPhis ==
  ASSUME NEW n, NEW B, NEW sl, IsSeq(sl), NEW st, NEW ze, NEW re, NEW ph, NEW pa,
         Fits(n, B, sl, st, ze, re, ph, pa), Len(ph) < Len(sl),
         NEW x \in [B -> {NoValue} \cup (1 .. n)]
  PROVE  Fits(n, B, sl, st, ze, re, Append(ph, x), pa)
<1> DEFINE V == {NoValue} \cup (1 .. n)
<1>1. IsSeq(ph) /\ \A j \in DOMAIN ph : ph[j] \in [B -> V]
  BY DEF Fits
<1>2. Len(ph) \in Nat /\ Len(sl) \in Nat /\ DOMAIN ph = 1 .. Len(ph)
  BY <1>1, SeqFacts
<1>3. x \in [B -> V]
  OBVIOUS
<1>. HIDE DEF V
<1> DEFINE p == Append(ph, x)
<1>4. /\ IsSeq(p) /\ Len(p) = Len(ph) + 1 /\ DOMAIN p = 1 .. Len(ph) + 1
      /\ \A k \in 1 .. Len(ph) : p[k] = ph[k]
      /\ p[Len(ph) + 1] = x
  BY <1>1, Appended
<1>. HIDE DEF p
<1>5. Len(p) <= Len(sl)
  BY <1>2, <1>4
<1>6. ASSUME NEW j \in DOMAIN p PROVE p[j] \in [B -> V]
  <2>1. CASE j \in DOMAIN ph
    BY <1>1, <1>2, <1>4, <2>1
  <2>2. CASE j \notin DOMAIN ph
    <3>1. j = Len(ph) + 1
      BY <1>2, <1>4, <2>2
    <3> QED
      BY <1>3, <1>4, <3>1
  <2> QED
    BY <2>1, <2>2
<1> QED
  BY <1>4, <1>5, <1>6 DEF Fits, V, p

(* place_phis: every phi has a value of its own.                           *)
LEMMA PlacePhisNumbers ==
  ASSUME OptInv, AllNumbered, TablesHoldValues, PlacePhis
  PROVE  AllNumbered' /\ TablesHoldValues'
<1> DEFINE v == slots[Len(phiOf) + 1]
           M == PhiBlocks(fn, v)
           m == Cardinality(M)
           slotTy == SlotType(fn, Len(phiOf) + 1)
           phi(b) == fn.values + Cardinality({c \in M : c <= b})
           B == DOMAIN fn.code
           ph == [b \in B |-> phi(b)]
           g == [fn EXCEPT !.values = @ + m,
                           !.code = [b \in DOMAIN @ |->
                              IF b \in M THEN <<TypedPhi(phi(b), slotTy)>> \o @[b] ELSE @[b]]]
           x == [b \in BlocksOf(fn) |-> IF b \in M THEN phi(b) ELSE NoValue]
<1>1. /\ WellShaped /\ IsFunction(fn) /\ Numbered(fn) /\ pc = "place" /\ IsSeq(slots)
      /\ an = Analyses(fn)
  BY FnNumbered DEF OptInv, PlacePhis, WellShaped, AnalysesCurrent
<1>2. /\ Replace(g) /\ phiOf' = Append(phiOf, x) /\ Len(phiOf) < Len(slots)
      /\ UNCHANGED <<cur, pc, slots, stack, zero, repl, path>>
  BY DEF PlacePhis
<1>3. Len(fn.code) \in Nat /\ B = 1 .. Len(fn.code) /\ DOMAIN fn = {"code", "values"} /\ fn.values \in Nat
  BY <1>1, FunctionFacts, SeqFacts DEF Numbered, IsFunction
<1>4. M \subseteq B
  <2>1. an.reach \subseteq BlocksOf(fn)
    BY <1>1, DominatorSetsAre
  <2>. HIDE DEF v
  <2> QED
    BY <1>3, <2>1, PhiBlocksReached DEF BlocksOf
<1>5. /\ g.values = fn.values + m /\ DOMAIN g.code = B /\ DOMAIN g = {"code", "values"}
      /\ g.code = [b \in B |-> g.code[b]]
      /\ \A b \in M : g.code[b] = <<TypedPhi(ph[b], slotTy)>> \o fn.code[b]
      /\ \A b \in B \ M : g.code[b] = fn.code[b]
  <2>. HIDE DEF M, slotTy
  <2> QED
    BY <1>3, <1>4
<1>6. x = [b \in B |-> IF b \in M THEN ph[b] ELSE NoValue]
  BY DEF BlocksOf
<1>7. \A b \in M : ph[b] = phi(b)
  BY <1>4
<1>. HIDE DEF M, v, g, x, B, slotTy
<1>8. /\ m \in Nat
      /\ \E r \in [M -> 1 .. m] : /\ \A b \in M : r[b] = Cardinality({c \in M : c <= b})
                                  /\ \A b, d \in M : r[b] = r[d] => b = d
  BY <1>3, <1>4, Ranked
<1>9. PICK r \in [M -> 1 .. m] : /\ \A b \in M : r[b] = Cardinality({c \in M : c <= b})
                                 /\ \A b, d \in M : r[b] = r[d] => b = d
  BY <1>8
<1>10. \A b \in M : ph[b] = fn.values + r[b]
  BY <1>7, <1>9
<1>. HIDE DEF m, ph
<1>11. /\ Numbered(g) /\ fn.values <= g.values
       /\ \A b \in M : ph[b] \in 1 .. g.values
  <2>1. M \subseteq DOMAIN fn.code /\ m \in Nat /\ DOMAIN g.code = DOMAIN fn.code
    BY <1>4, <1>5, <1>8 DEF B
  <2>2. \A b \in DOMAIN fn.code \ M : g.code[b] = fn.code[b]
    BY <1>5 DEF B
  <2>3. \A b \in M : g.code[b] = <<TypedPhi(ph[b], slotTy)>> \o fn.code[b]
    BY <1>5
  <2>4. \A b, d \in M : r[b] = r[d] => b = d
    BY <1>9
  <2>5. g.values = fn.values + m
    BY <1>5
  <2>6. IsFunction(fn) /\ Numbered(fn)
    BY <1>1
  <2>7. PhisPut(g, fn, M, m, r, ph)
    BY <1>10, <2>1, <2>2, <2>3, <2>4, <2>5 DEF PhisPut
  <2>8. Numbered(g) /\ fn.values <= g.values
    BY <2>1, <2>6, <2>7, PhisNumbered
  <2>9. fn.values \in Nat /\ \A b \in M : r[b] \in 1 .. m
    BY <1>3
  <2>10. \A b \in M : ph[b] \in 1 .. g.values
    BY <1>10, <2>1, <2>5, <2>9
  <2> QED
    BY <2>8, <2>10
<1>12. IsFunction(g)
  <2>1. \A b \in DOMAIN fn.code : \/ g.code[b] = fn.code[b]
                                  \/ \E w, ty : g.code[b] = <<TypedPhi(w, ty)>> \o fn.code[b]
    BY <1>5 DEF B
  <2>2. g.code = [b \in DOMAIN fn.code |-> g.code[b]]
    BY <1>5 DEF B
  <2> QED
    BY <1>1, <1>5, <2>1, <2>2, PhisKeepFlow DEF SameFlow
<1>13. AllNumbered'
  <2>1. Promoting' <=> Promoting
    BY <1>2 DEF Promoting
  <2> QED
    BY <1>1, <1>2, <1>11, <1>12, <2>1, EditNumbered
<1>14. x \in [B -> {NoValue} \cup (1 .. g.values)]
  BY <1>6, <1>11
<1>15. g.values \in Nat
  BY <1>11 DEF Numbered
<1>16. Fits(fn.values, B, slots, stack, zero, repl, phiOf, path)
  BY <1>1, TablesFit DEF B, BlocksOf
<1>17. Fits(g.values, B, slots, stack, zero, repl, phiOf, path)
  BY <1>3, <1>11, <1>15, <1>16, FitsMore
<1>18. Fits(g.values, B, slots, stack, zero, repl, Append(phiOf, x), path)
  BY <1>1, <1>2, <1>14, <1>17, FitsPhis
<1>19. Fits(g.values, DOMAIN g.code, slots', stack', zero', repl', phiOf', path')
  BY <1>2, <1>5, <1>18
<1>20. prog'[cur'] = g
  BY <1>1, <1>2, <1>12, FnReplaced
<1>21. TablesHoldValues'
  <2>1. pc' # "rename"
    BY <1>1, <1>2
  <2> QED
    BY <1>19, <1>20, <2>1, TablesSet
<1> QED
  BY <1>13, <1>21

(* A load goes, and what it read is a value.                               *)
LEMMA RenameLoadNumbers ==
  ASSUME OptInv, AllNumbered, TablesHoldValues, RenameLoad
  PROVE  AllNumbered' /\ TablesHoldValues'
<1> DEFINE b == Here
           k == NextAccess
           i == fn.code[b][k]
           j == SlotIndex(i.args[1])
           f == RemoveSite(fn, <<b, k>>)
           z == ZerosAfter(fn, {j})
           v == CurrentDef(fn, j)
           g == WithZeros(f, {j})
           n == fn.values + Len(ZerosFor({j}))
           B == DOMAIN fn.code
           re == [repl EXCEPT ![i.dst] = v]
<1>1. /\ WellShaped /\ IsFunction(fn) /\ Numbered(fn) /\ pc = "rename" /\ IsSeq(slots)
      /\ Depth > 0 /\ NextAccess # 0
  BY FnNumbered DEF OptInv, RenameLoad, WellShaped
<1>2. /\ Replace(g) /\ zero' = z /\ repl' = re /\ i.op = "load"
      /\ UNCHANGED <<cur, pc, slots, phiOf, stack, path>>
  BY DEF RenameLoad
<1>3. /\ b \in DOMAIN fn.code /\ k \in DOMAIN fn.code[b] /\ ~ IsTerminator(i.op)
      /\ j \in DOMAIN slots /\ i.args[1] \in 1 .. fn.values
  BY <1>1, <1>2, AccessIs
<1>4. Fits(fn.values, B, slots, stack, zero, repl, phiOf, path) /\ Len(phiOf) = Len(slots)
  BY <1>1, TablesFit DEF BlocksOf
<1>5. fn.values \in Nat /\ fn.values >= 1
  BY <1>1, <1>3 DEF Numbered
<1>6. v = IF stack[j] # <<>> THEN Last(stack[j]) ELSE z[j]
  BY DEF CurrentDef
<1>. HIDE DEF b, k, i, j, z, v, B
<1>7. SameFlow(f, fn)
  BY <1>1, <1>3, SiteRemoved DEF i, BlocksOf
<1>8. Numbered(f) /\ f.values = fn.values /\ DOMAIN f.code = B /\ IsFunction(f) /\ DOMAIN f = {"code", "values"}
  <2>1. Numbered(f) /\ f.values = fn.values
    BY <1>1, <1>3, RemovedNumbered
  <2>2. DOMAIN f.code = B
    BY DEF RemoveSite, B
  <2>3. IsFunction(f)
    BY <1>7 DEF SameFlow
  <2> QED
    BY <2>1, <2>2, <2>3, FunctionFacts
<1>. HIDE DEF f, g, n
<1>9. /\ n \in Nat /\ fn.values <= n /\ z \in [DOMAIN slots -> {NoValue} \cup (1 .. n)]
      /\ stack[j] = <<>> => z[j] \in 1 .. n
  <2>1. zero \in [DOMAIN slots -> {NoValue} \cup (1 .. fn.values)]
    BY <1>4 DEF Fits
  <2>2. j \in {j} \cap DOMAIN slots
    BY <1>3
  <2> QED
    BY <1>1, <1>5, <2>1, <2>2, ZerosAreValues DEF n, z
<1>10. Numbered(g) /\ g.values = n /\ DOMAIN g.code = B /\ IsFunction(g)
  <2>1. \A x \in DOMAIN f.code : Fine(f.code[x], f.values) /\ Defs(f.code[x]) \subseteq Defs(f.code[x])
    BY <1>8, NumberedFacts
  <2>2. f.values \in Nat /\ Len(ZerosFor({j})) \in Nat
    BY <1>1, <1>5, <1>8, SeqFacts, AscendingIsSeq DEF ZerosFor
  <2> DEFINE m == f.values + Len(ZerosFor({j}))
  <2>3. m \in Nat /\ f.values <= m
    BY <2>2
  <2>. HIDE DEF m
  <2>4. \A x \in DOMAIN f.code : Fine(f.code[x], m) /\ Defs(f.code[x]) \subseteq Defs(f.code[x])
    BY <2>1, <2>2, <2>3, FineMore
  <2>5. Numbered(g) /\ g.values = m
    BY <1>1, <1>8, <2>4, ZerosNumbered DEF g, m
  <2>6. SameFlow(g, f)
    BY <1>1, <1>8, ZerosKeepFlow DEF g
  <2>7. IsFunction(g) /\ DOMAIN g.code = DOMAIN f.code
    BY <1>8, <2>6 DEF SameFlow, WithZeros, g
  <2> QED
    BY <1>8, <2>5, <2>7 DEF m, n
<1>11. AllNumbered'
  <2>1. Promoting' <=> Promoting
    BY <1>2 DEF Promoting
  <2> QED
    BY <1>1, <1>2, <1>10, <2>1, EditNumbered
<1>12. Fits(n, B, slots, stack, zero, repl, phiOf, path)
  BY <1>4, <1>5, <1>9, FitsMore
<1>13. v \in 1 .. n
  <2>1. CASE stack[j] = <<>>
    BY <1>6, <1>9, <2>1
  <2>2. CASE stack[j] # <<>>
    <3> DEFINE V == 1 .. n
    <3>1. stack[j] \in Seq(V)
      BY <1>3, <1>12 DEF Fits
    <3>. HIDE DEF V
    <3>2. Last(stack[j]) \in V
      BY <2>2, <3>1, TypedLast
    <3> QED
      BY <1>6, <2>2, <3>2 DEF V
  <2> QED
    BY <2>1, <2>2
<1>14. DOMAIN re \subseteq 1 .. n /\ re \in [DOMAIN re -> {NoValue} \cup (1 .. n)]
  <2>1. DOMAIN repl \subseteq 1 .. n /\ repl \in [DOMAIN repl -> {NoValue} \cup (1 .. n)]
    BY <1>12 DEF Fits
  <2> DEFINE V == {NoValue} \cup (1 .. n)
  <2>2. v \in V
    BY <1>13
  <2>. HIDE DEF V
  <2>3. DOMAIN re = DOMAIN repl /\ re \in [DOMAIN repl -> V]
    BY <2>1, <2>2 DEF V
  <2> QED
    BY <2>1, <2>3 DEF V
<1>. HIDE DEF re
<1>15. Fits(n, B, slots, stack, z, re, phiOf, path)
  BY <1>9, <1>12, <1>14 DEF Fits
<1>16. prog'[cur'] = g
  BY <1>1, <1>2, <1>10, FnReplaced
<1>17. Fits(g.values, DOMAIN g.code, slots', stack', zero', repl', phiOf', path')
  BY <1>2, <1>10, <1>15
<1>18. TablesHoldValues'
  BY <1>2, <1>4, <1>16, <1>17, TablesSet
<1> QED
  BY <1>11, <1>18

(* A store goes, and what it stored is a value.                            *)
LEMMA RenameStoreNumbers ==
  ASSUME OptInv, AllNumbered, TablesHoldValues, RenameStore
  PROVE  AllNumbered' /\ TablesHoldValues'
<1> DEFINE b == Here
           k == NextAccess
           i == fn.code[b][k]
           j == SlotIndex(i.args[1])
           g == RemoveSite(fn, <<b, k>>)
           n == fn.values
           B == DOMAIN fn.code
           a == path[Depth]
           st == [stack EXCEPT ![j] = Append(stack[j], i.args[2])]
           q == [a.pushed EXCEPT ![j] = a.pushed[j] + 1]
           x == [a EXCEPT !.pushed = q]
<1>1. /\ WellShaped /\ IsFunction(fn) /\ Numbered(fn) /\ pc = "rename" /\ IsSeq(slots)
      /\ Depth > 0 /\ NextAccess # 0
  BY FnNumbered DEF OptInv, RenameStore, WellShaped
<1>2. /\ Replace(g) /\ i.op = "store"
      /\ stack' = [stack EXCEPT ![j] = Append(@, i.args[2])]
      /\ path' = [path EXCEPT ![Depth].pushed[j] = @ + 1]
      /\ UNCHANGED <<cur, pc, slots, phiOf, zero, repl>>
  BY DEF RenameStore
<1>3. /\ b \in DOMAIN fn.code /\ k \in DOMAIN fn.code[b] /\ ~ IsTerminator(i.op)
      /\ j \in DOMAIN slots /\ i.args[2] \in 1 .. fn.values
  BY <1>1, <1>2, AccessIs
<1>4. Fits(n, B, slots, stack, zero, repl, phiOf, path) /\ Len(phiOf) = Len(slots)
  BY <1>1, TablesFit DEF BlocksOf
<1>5. Depth \in DOMAIN path /\ a \in Activations(B, slots) /\ path \in Seq(Activations(B, slots))
  BY <1>1, <1>4, HereIs DEF Activations, Fits, BlocksOf
<1>6. stack' = st /\ path' = [path EXCEPT ![Depth] = x]
  BY <1>2
<1>. HIDE DEF b, k, i, j, g, B
<1>7. Numbered(g) /\ g.values = n /\ DOMAIN g.code = B /\ IsFunction(g)
  <2>1. Numbered(g) /\ g.values = fn.values
    BY <1>1, <1>3, RemovedNumbered DEF g
  <2>2. DOMAIN g.code = B
    BY DEF RemoveSite, B, g
  <2>3. SameFlow(g, fn)
    BY <1>1, <1>3, SiteRemoved DEF i, BlocksOf, g
  <2>4. IsFunction(g)
    BY <2>3 DEF SameFlow
  <2> QED
    BY <2>1, <2>2, <2>4
<1>8. AllNumbered'
  <2>1. Promoting' <=> Promoting
    BY <1>2 DEF Promoting
  <2> QED
    BY <1>1, <1>2, <1>7, <2>1, EditNumbered
<1> DEFINE V == 1 .. n
           u == i.args[2]
<1>9. u \in V /\ stack \in [DOMAIN slots -> Seq(V)]
  BY <1>3, <1>4 DEF Fits
<1>. HIDE DEF V, n, u
<1>10. st \in [DOMAIN slots -> Seq(V)]
  <2>1. stack[j] \in Seq(V)
    BY <1>3, <1>9
  <2> DEFINE w == Append(stack[j], u)
  <2>2. w \in Seq(V)
    BY <1>9, <2>1, TypedAppend
  <2>3. st = [stack EXCEPT ![j] = w]
    BY DEF u
  <2>. HIDE DEF w, st
  <2> QED
    BY <1>9, <2>2, <2>3
<1>11. x \in Activations(B, slots)
  <2>1. a.pushed \in [DOMAIN slots -> Nat] /\ a.todo \in Seq(B)
    <3>. HIDE DEF a
    <3> QED
      BY <1>5, ActivationEdited DEF Activations
  <2>2. a.pushed[j] + 1 \in Nat
    BY <1>3, <2>1
  <2>3. q \in [DOMAIN slots -> Nat]
    BY <2>1, <2>2
  <2>. HIDE DEF q, a
  <2> QED
    BY <1>5, <2>1, <2>3, ActivationEdited
<1>. HIDE DEF st, x, a, q
<1>12. path' \in Seq(Activations(B, slots))
  BY <1>5, <1>6, <1>11, TypedExcept
<1>13. Fits(n, B, slots, stack', zero, repl, phiOf, path')
  BY <1>4, <1>6, <1>10, <1>12 DEF Fits, Activations, V
<1>14. prog'[cur'] = g
  BY <1>1, <1>2, <1>7, FnReplaced
<1>15. Fits(g.values, DOMAIN g.code, slots', stack', zero', repl', phiOf', path')
  BY <1>2, <1>7, <1>13
<1>16. TablesHoldValues'
  BY <1>2, <1>4, <1>14, <1>15, TablesSet
<1> QED
  BY <1>8, <1>16

(* What arrives at a phi is a value.                                       *)
LEMMA FillSuccessorsNumbers ==
  ASSUME OptInv, AllNumbered, TablesHoldValues, FillSuccessors
  PROVE  AllNumbered' /\ TablesHoldValues'
<1> DEFINE succ == Successors(fn, Here)
           J    == {j \in DOMAIN slots : \E t \in succ : phiOf[j][t] # NoValue}
           z    == ZerosAfter(fn, J)
           arriving(j) == IF stack[j] # <<>> THEN Last(stack[j]) ELSE z[j]
           Filled(i) ==
             LET j == CHOOSE k \in J : \E t \in succ : phiOf[k][t] = i.dst
             IN IF i.op = "phi" /\ \E k \in J, t \in succ : phiOf[k][t] = i.dst
                  THEN [i EXCEPT !.args = Append(@, arriving(j)), !.from = Append(@, Here)]
                  ELSE i
           f == EditInstrs(fn, Filled)
           g == WithZeros(f, J)
           m == fn.values
           n == m + Len(ZerosFor(J))
           B == DOMAIN fn.code
           a == path[Depth]
           w == Children(an, Here)
           x == [a EXCEPT !.filled = TRUE, !.todo = w]
<1>1. /\ WellShaped /\ IsFunction(fn) /\ Numbered(fn) /\ pc = "rename" /\ IsSeq(slots)
      /\ Depth > 0 /\ an = Analyses(fn)
  BY FnNumbered DEF OptInv, FillSuccessors, WellShaped, AnalysesCurrent
<1>2. /\ Replace(g) /\ zero' = z
      /\ path' = [path EXCEPT ![Depth].filled = TRUE, ![Depth].todo = w]
      /\ UNCHANGED <<cur, pc, slots, phiOf, stack, repl>>
  BY DEF FillSuccessors
<1>3. Fits(m, B, slots, stack, zero, repl, phiOf, path) /\ Len(phiOf) = Len(slots)
  BY <1>1, TablesFit DEF BlocksOf
<1>4. m \in Nat
  BY <1>1 DEF Numbered
<1>5. Depth \in DOMAIN path /\ a \in Activations(B, slots) /\ path \in Seq(Activations(B, slots))
  BY <1>1, <1>3, HereIs DEF Activations, Fits, BlocksOf
<1>6. path' = [path EXCEPT ![Depth] = x]
  BY <1>2, <1>5
<1>7. /\ n \in Nat /\ m <= n /\ z \in [DOMAIN slots -> {NoValue} \cup (1 .. n)]
      /\ \A j \in J \cap DOMAIN slots : stack[j] = <<>> /\ m >= 1 => z[j] \in 1 .. n
  <2>1. zero \in [DOMAIN slots -> {NoValue} \cup (1 .. fn.values)]
    BY <1>3 DEF Fits
  <2>. HIDE DEF J
  <2> QED
    BY <1>1, <1>4, <2>1, ZerosAreValues
<1>8. ASSUME NEW i, Filled(i) # i
      PROVE  /\ i.op = "phi"
             /\ \E j \in J : Filled(i) = [i EXCEPT !.args = Append(i.args, arriving(j)),
                                                   !.from = Append(i.from, Here)]
  <2>1. i.op = "phi" /\ \E k \in J, t \in succ : phiOf[k][t] = i.dst
    <3>. HIDE DEF J, succ, arriving
    <3> QED
      BY <1>8
  <2> DEFINE j == CHOOSE k \in J : \E t \in succ : phiOf[k][t] = i.dst
  <2>2. j \in J
    <3>. HIDE DEF J, succ
    <3> QED
      BY <2>1
  <2>3. Filled(i) = [i EXCEPT !.args = Append(i.args, arriving(j)), !.from = Append(i.from, Here)]
    <3>. HIDE DEF J, succ, arriving
    <3> QED
      BY <2>1
  <2>. HIDE DEF j, Filled
  <2> QED
    BY <2>1, <2>2, <2>3
<1>9. ASSUME m >= 1, NEW j \in J PROVE arriving(j) \in 1 .. n
  <2>1. j \in DOMAIN slots
    OBVIOUS
  <2>2. CASE stack[j] = <<>>
    <3>. HIDE DEF J, z
    <3> QED
      BY <1>7, <1>9, <2>1, <2>2
  <2>3. CASE stack[j] # <<>>
    <3> DEFINE V == 1 .. m
    <3>1. stack[j] \in Seq(V)
      BY <1>3, <2>1 DEF Fits
    <3>. HIDE DEF V
    <3>2. Last(stack[j]) \in V
      BY <2>3, <3>1, TypedLast
    <3>3. arriving(j) = Last(stack[j])
      BY <2>3
    <3>. HIDE DEF arriving
    <3> QED
      BY <1>4, <1>7, <3>2, <3>3 DEF V
  <2> QED
    BY <2>2, <2>3
<1>10. ASSUME NEW i PROVE Touched(Filled(i), i)
  <2>1. CASE Filled(i) = i
    BY <2>1 DEF Touched, IsInstr
  <2>2. CASE Filled(i) # i
    <3>. HIDE DEF Filled, J, arriving
    <3>1. PICK j \in J : Filled(i) = [i EXCEPT !.args = Append(i.args, arriving(j)),
                                               !.from = Append(i.from, Here)]
      BY <1>8, <2>2
    <3>2. PICK u, y : Filled(i) = [i EXCEPT !.args = u, !.from = y]
      BY <3>1
    <3> QED
      BY <3>2 DEF Touched, IsInstr, InstrFields
  <2> QED
    BY <2>1, <2>2
<1>. HIDE DEF Filled, J, succ, n, z
<1>11. /\ DOMAIN f = {"code", "values"} /\ f.values = m
       /\ f.code = [b \in DOMAIN fn.code |-> f.code[b]] /\ DOMAIN f.code = B
       /\ \A b \in DOMAIN fn.code : f.code[b] = [k \in DOMAIN fn.code[b] |-> f.code[b][k]]
       /\ \A b \in DOMAIN fn.code : \A k \in DOMAIN fn.code[b] : f.code[b][k] = Filled(fn.code[b][k])
  BY <1>1, FunctionFacts DEF EditInstrs
<1>. HIDE DEF f, g, arriving
<1>12. SameSlots(f, fn) /\ AllTouched(f, fn)
  BY <1>10, <1>11 DEF SameSlots, AllTouched
<1>13. IsFunction(f)
  BY <1>1, <1>12, Retouched DEF SameFlow
<1>14. ASSUME NEW b \in DOMAIN fn.code, NEW k \in DOMAIN fn.code[b]
       PROVE  f.code[b][k] = fn.code[b][k] \/ Fills(f.code[b][k], fn.code[b][k], n)
  <2> DEFINE i == fn.code[b][k]
  <2>1. f.code[b][k] = Filled(i)
    BY <1>11
  <2>2. IsNumbered(i, m)
    BY <1>1, InstrIsNumbered
  <2>. HIDE DEF i, m
  <2>3. CASE Filled(i) # i
    <3>1. i.op = "phi"
      BY <1>8, <2>3
    <3>2. m >= 1
      BY <1>4, <2>2, <3>1 DEF IsNumbered, IsTerminator, NoValue
    <3>3. PICK j \in J : Filled(i) = [i EXCEPT !.args = Append(i.args, arriving(j)),
                                               !.from = Append(i.from, Here)]
      BY <1>8, <2>3
    <3>4. arriving(j) \in 1 .. n
      BY <1>9, <3>2
    <3>5. Fills(Filled(i), i, n)
      BY <3>1, <3>3, <3>4 DEF Fills
    <3> QED
      BY <2>1, <3>5 DEF i
  <2> QED
    BY <2>1, <2>3 DEF i
<1>15. \A b \in DOMAIN fn.code : Fine(f.code[b], n) /\ Defs(f.code[b]) \subseteq Defs(fn.code[b])
  BY <1>1, <1>7, <1>12, <1>14, PhisFilled
<1>16. Numbered(g) /\ g.values = n
  <2> DEFINE l == m + Len(ZerosFor(J))
  <2>1. l = n
    BY DEF n
  <2>2. \A b \in DOMAIN fn.code : Fine(f.code[b], l) /\ Defs(f.code[b]) \subseteq Defs(fn.code[b])
    BY <1>15, <2>1
  <2>3. Numbered(g) /\ g.values = l
    BY <1>1, <1>11, <2>2, ZerosNumbered DEF g
  <2> QED
    BY <2>1, <2>3
<1>17. IsFunction(g) /\ DOMAIN g.code = B
  <2>1. IsFunction(g)
    BY <1>1, <1>13, ZerosKeepFlow DEF SameFlow, g
  <2>2. DOMAIN g.code = B
    BY <1>11 DEF WithZeros, g
  <2> QED
    BY <2>1, <2>2
<1>18. AllNumbered'
  <2>1. Promoting' <=> Promoting
    BY <1>2 DEF Promoting
  <2> QED
    BY <1>1, <1>2, <1>16, <1>17, <2>1, EditNumbered
<1>. HIDE DEF m, B
<1>19. Fits(n, B, slots, stack, zero, repl, phiOf, path)
  BY <1>3, <1>4, <1>7, FitsMore
<1>20. x \in Activations(B, slots)
  <2>1. IsSeq(w) /\ Range(w) \subseteq BlocksOf(fn)
    BY <1>1, ChildrenAreBlocks
  <2>2. w \in Seq(B)
    <3>1. w \in Seq(Range(w)) /\ Range(w) \subseteq B
      BY <2>1 DEF IsSeq, B, BlocksOf
    <3>. HIDE DEF w
    <3> QED
      BY <3>1, SeqMore
  <2>3. a.pushed \in [DOMAIN slots -> Nat]
    <3>. HIDE DEF a
    <3> QED
      BY <1>5, ActivationEdited DEF Activations
  <2>. HIDE DEF w, a
  <2> QED
    BY <1>5, <2>2, <2>3, ActivationEdited
<1>. HIDE DEF x, a, w
<1>21. path' \in Seq(Activations(B, slots))
  BY <1>5, <1>6, <1>20, TypedExcept
<1>22. Fits(n, B, slots, stack, z, repl, phiOf, path')
  BY <1>7, <1>19, <1>21 DEF Fits, Activations
<1>23. prog'[cur'] = g
  BY <1>1, <1>2, <1>17, FnReplaced
<1>24. Fits(g.values, DOMAIN g.code, slots', stack', zero', repl', phiOf', path')
  BY <1>2, <1>16, <1>17, <1>22
<1>25. TablesHoldValues'
  BY <1>2, <1>3, <1>23, <1>24, TablesSet
<1> QED
  BY <1>18, <1>25

(* What is left of the loads is what they read.                            *)
LEMMA ApplyReplacementsNumbers ==
  ASSUME OptInv, AllNumbered, TablesHoldValues, ApplyReplacements
  PROVE  AllNumbered' /\ TablesHoldValues'
<1> DEFINE f == Resolving(fn)
           K == {k \in DOMAIN f.code[EntryBlock] : f.code[EntryBlock][k].dst \notin Range(slots)}
           g == [f EXCEPT !.code[EntryBlock] = KeptAt(@, {k \in DOMAIN @ : @[k].dst \notin Range(slots)})]
<1>1. WellShaped /\ IsFunction(fn) /\ Numbered(fn) /\ pc = "rename"
  BY FnNumbered DEF OptInv, ApplyReplacements
<1>2. Replace(g) /\ pc' = "built" /\ cur' = cur
  BY DEF ApplyReplacements, Resolving
<1>3. DOMAIN repl \subseteq 1 .. fn.values /\ repl \in [DOMAIN repl -> {NoValue} \cup (1 .. fn.values)]
  BY <1>1, TablesFit DEF Fits
<1>4. Numbered(f) /\ SameFlow(f, fn)
  BY <1>1, <1>3, ResolvedNumbered
<1>5. IsFunction(f) /\ EntryBlock \in DOMAIN f.code /\ DOMAIN f = {"code", "values"}
  BY <1>4, EntryIsBlock, FunctionFacts DEF SameFlow, BlocksOf
<1>6. g.values = f.values /\ g.code = [f.code EXCEPT ![EntryBlock] = KeptAt(f.code[EntryBlock], K)]
  <2>. HIDE DEF f
  <2> QED
    BY <1>5
<1>. HIDE DEF f, g, K
<1>7. Numbered(g)
  BY <1>4, <1>5, <1>6, ThinnedNumbered
<1>8. prog' = [prog EXCEPT ![cur] = g] /\ cur \in DOMAIN prog
  BY <1>1, <1>2, CurIn DEF Replace
<1>9. prog'[cur] = g
  BY <1>8
<1>10. IsFunction(g)
  <2>1. OptInv'
    BY ApplyReplacementsStep
  <2> QED
    BY <1>2, <1>9, <2>1, <1>8 DEF OptInv, WellShaped
<1>11. Promoting' <=> Promoting
  BY <1>1, <1>2 DEF Promoting
<1>12. AllNumbered'
  BY <1>1, <1>2, <1>7, <1>10, <1>11, EditNumbered
<1>13. TablesHoldValues'
  BY <1>2 DEF TablesHoldValues
<1> QED
  BY <1>12, <1>13

(* Promotion, step by step.                                                *)
LEMMA BuildSsaNumbers ==
  ASSUME OptInv, AllNumbered, TablesHoldValues, BuildSsa
  PROVE  AllNumbered' /\ TablesHoldValues'
BY AnalyseNumbers, PromoteNumbers, PlacePhisNumbers, StartRenameNumbers, RenameLoadNumbers,
   RenameStoreNumbers, FillSuccessorsNumbers, DescendNumbers, LeaveNumbers,
   ApplyReplacementsNumbers DEF BuildSsa, SsaNext

(* On to the next function.                                                *)
LEMMA FinishSsaNumbers ==
  ASSUME OptInv, AllNumbered, FinishSsa
  PROVE  AllNumbered' /\ TablesHoldValues'
<1> DEFINE f == DropUnreachable(fn)
<1>1. WellShaped /\ IsFunction(fn) /\ Numbered(fn) /\ pc = "built" /\ IsSeq(prog) /\ cur \in DOMAIN prog
  BY FnNumbered DEF OptInv, FinishSsa, WellShaped
<1>2. Replace(f)
  BY DEF FinishSsa, RefreshFn
<1>3. \/ cur < Len(prog) /\ cur' = cur + 1 /\ pc' = "analyse"
      \/ cur >= Len(prog) /\ cur' = 1 /\ pc' \in {"done", "callers"}
  <2>1. cur \in Int /\ Len(prog) \in Nat
    BY <1>1, SeqFacts
  <2> QED
    BY <2>1 DEF FinishSsa
<1>4. Numbered(f) /\ IsFunction(f)
  BY <1>1, DropKeepsNumbers, DroppedUnreachable
<1>5. DOMAIN prog = 1 .. Len(prog) /\ Len(prog) \in Nat
  BY <1>1, SeqFacts
<1>6. \A k \in DOMAIN prog : IF k = cur THEN ~ Unanalysed(k)' ELSE Unanalysed(k)' <=> Unanalysed(k)
  <2> SUFFICES ASSUME NEW k \in DOMAIN prog
               PROVE  IF k = cur THEN ~ Unanalysed(k)' ELSE Unanalysed(k)' <=> Unanalysed(k)
    OBVIOUS
  <2>1. Unanalysed(k) <=> cur < k
    BY <1>1 DEF Unanalysed, Promoting
  <2>2. CASE cur' = cur + 1 /\ pc' = "analyse"
    <3>1. Unanalysed(k)' <=> cur + 1 < k \/ cur + 1 = k
      BY <2>2 DEF Unanalysed, Promoting
    <3> QED
      BY <1>1, <1>5, <2>1, <3>1
  <2>3. CASE cur >= Len(prog) /\ pc' \in {"done", "callers"}
    <3>1. ~ Unanalysed(k)'
      BY <2>3 DEF Unanalysed, Promoting
    <3> QED
      BY <1>1, <1>5, <2>1, <2>3, <3>1
  <2> QED
    BY <1>3, <2>2, <2>3
<1>. HIDE DEF f
<1>7. AllNumbered'
  BY <1>1, <1>2, <1>4, <1>6, NumberedStep
<1>8. TablesHoldValues'
  BY <1>3 DEF TablesHoldValues
<1> QED
  BY <1>7, <1>8

-----------------------------------------------------------------------------
(* The whole *)

(* Nothing the driver or a pass does lets go of it.                        *)
LEMMA NumbersKept ==
  ASSUME OptInv, AllNumbered, TablesHoldValues, [Next]_vars
  PROVE  AllNumbered' /\ TablesHoldValues'
<1>1. CASE UNCHANGED vars
  <2>1. UNCHANGED <<prog, cur, pc, slots, stack, zero, repl, phiOf, path>>
    BY <1>1 DEF vars, ssaVars
  <2>2. AllNumbered'
    BY <2>1 DEF AllNumbered, Unanalysed, Promoting
  <2>3. TablesHoldValues'
    BY <2>1 DEF TablesHoldValues, fn, BlocksOf
  <2> QED
    BY <2>2, <2>3
<1>2. CASE BuildSsa \/ FinishSsa
  BY <1>2, BuildSsaNumbers, FinishSsaNumbers
<1> DEFINE Inlines == StartCaller \/ InlineNext \/ EndInline
           Edits   == FoldNext \/ PropagateNext \/ SweepDead \/ ShareNext \/ HoistNext
           Shapes  == LoopTailCalls \/ StraightenBranches \/ MergeNext \/ EndMerge
           Renews  == StartRound \/ EndDce \/ EndCse \/ EndLicm \/ CheckRound
           Waits   == EndFold \/ EndCopies \/ VisitChildren \/ EndLoop \/ NoTailCalls
                        \/ NextFunction \/ Terminating
<1>3. CASE Inlines \/ Edits \/ Shapes \/ Renews \/ Waits
  <2>1. AllNumbered'
    BY <1>3, WaitNumbers, InlineNumbers, EndInlineNumbers, RewriteNumbers, ReshapeNumbers, RefreshNumbers
  <2>2. Inlines => pc' \notin {"place", "rename"}
    BY DEF StartCaller, InlineNext, EndInline
  <2>3. Edits => pc' \notin {"place", "rename"}
    BY DEF FoldNext, PropagateNext, SweepDead, ShareNext, HoistNext
  <2>4. Shapes => pc' \notin {"place", "rename"}
    BY DEF LoopTailCalls, StraightenBranches, MergeNext, EndMerge
  <2>5. Renews => pc' \notin {"place", "rename"}
    BY DEF StartRound, EndDce, EndCse, EndLicm, CheckRound
  <2>6. Waits => pc' \notin {"place", "rename"}
    BY DEF EndFold, EndCopies, VisitChildren, EndLoop, NoTailCalls, NextFunction, Terminating, vars
  <2>7. TablesHoldValues'
    BY <1>3, <2>2, <2>3, <2>4, <2>5, <2>6 DEF TablesHoldValues
  <2> QED
    BY <2>1, <2>7
<1> QED
  BY <1>1, <1>2, <1>3 DEF Next

(* Every step keeps the invariant.                                         *)
LEMMA NumNext == ASSUME NumInv, [Next]_vars PROVE NumInv'
<1>1. OptInv' /\ AllNumbered' /\ TablesHoldValues'
  BY NextKeeps, NumbersKept DEF NumInv
<1>2. Flags' /\ Rounds'
  BY FlagsKept, RoundsKept DEF NumInv
<1>3. Visits'
  BY <1>1, VisitsKept DEF NumInv
<1>4. budget' \in Int
  BY BudgetKept DEF NumInv
<1> QED
  BY <1>1, <1>2, <1>3, <1>4 DEF NumInv

(* What lowering hands over is numbered, once it is analysed.              *)
LEMMA NumInit == ASSUME Init PROVE NumInv
<1>1. /\ prog \in Programs /\ cur = 1 /\ pc = "analyse" /\ work = <<>> /\ budget = 0
      /\ round = 0 /\ changed = FALSE /\ moved = FALSE /\ level \in Levels
  BY DEF Init, SsaInit
<1>2. OptInv
  BY InitKeeps
<1>3. AllNumbered
  <2>1. /\ IsSeq(prog)
        /\ \A k \in DOMAIN prog : Numbered(DropUnreachable(prog[k]))
    BY <1>1, ProgramsLowered DEF AsLowered
  <2>2. \A k \in DOMAIN prog : Unanalysed(k)
    <3>1. \A k \in DOMAIN prog : k \in Nat /\ k >= 1
      BY <2>1, SeqFacts
    <3> QED
      BY <1>1, <3>1 DEF Unanalysed, Promoting
  <2> QED
    BY <2>1, <2>2 DEF AllNumbered
<1>4. TablesHoldValues
  BY <1>1 DEF TablesHoldValues
<1>5. Flags
  BY <1>1 DEF Flags, Pcs
<1>6. Rounds
  BY <1>1, BoundsAssumption DEF Rounds
<1>7. Visits
  BY <1>1, EmptyList, NothingThere DEF Visits, Range
<1>8. budget \in Int
  BY <1>1
<1> QED
  BY <1>2, <1>3, <1>4, <1>5, <1>6, <1>7, <1>8 DEF NumInv

(* Whatever program of that shape is compiled, at every level and every    *)
(* step of every pass.                                                     *)
THEOREM NumInvariance == Spec => []NumInv
<1>1. Init => NumInv
  BY NumInit
<1>2. NumInv /\ [Next]_vars => NumInv'
  BY NumNext
<1> QED
  BY <1>1, <1>2, PTL DEF Spec

(* Single assignment: in every function, at every step of promotion, of    *)
(* inlining and of every pass, no value has two definitions, every operand *)
(* is a value of its function and every instruction has as many of them as *)
(* its kind takes; what renaming notes of the slots are values; no round   *)
(* begins beyond OPT_MAX_ROUNDS.                                           *)
THEOREM ValuesDefinedOnce == Spec => []TypeOK
<1>1. NumInv => TypeOK
  BY DEF NumInv, OptInv, Flags, Rounds, Visits, TypeOK
<1> QED
  BY <1>1, NumInvariance, PTL
=============================================================================
