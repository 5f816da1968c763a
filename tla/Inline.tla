------------------------------- MODULE Inline -------------------------------
(***************************************************************************)
(* src/src/opt/inline.c: copying the body of one function into another.    *)
(* Functions are named by their position in the program.                   *)
(***************************************************************************)
EXTENDS Simplify, Tailcall

CONSTANTS
  MaxInline,   \* INLINE_MAX_INSTRUCTIONS
  Growth       \* INLINE_MAX_GROWTH_FACTOR

InstrCount(f) == LET reached == ReachedBlocks(f)
                 IN Cardinality({s \in Sites(f) : s[1] \in reached})

(* callee_of: the function of the program a call names directly. *)
CalleeOf(P, f, i) ==
  IF /\ i.op = "call" /\ IsDefined(f, i.args[1])
     /\ Def(f, i.args[1]).op = "global" /\ Def(f, i.args[1]).imm \in DOMAIN P
    THEN {Def(f, i.args[1]).imm}
    ELSE {}

CanInline(P, caller, s, budget) ==
  LET i == InstrAt(P[caller], s) IN
  \E callee \in CalleeOf(P, P[caller], i) \ {caller} :
     /\ Len(i.args) - 1 = Len(Params(P[callee]))
     /\ InstrCount(P[callee]) <= MaxInline
     /\ InstrCount(P[callee]) <= budget

InlineSites(P, caller, budget) ==
  {s \in Sites(P[caller]) : /\ s[1] \in ReachedBlocks(P[caller])
                            /\ CanInline(P, caller, s, budget)}

(* Slip: blocks are counted, not what is in them. *)
AddedBlocks(callee) == Cardinality(ReachedBlocks(callee))

(* What inline_one returns: the instructions it copied. *)
Added(callee) == InstrCount(callee) - Len(Params(callee))

(* Slip: args[0], the address called, counts as the first argument. *)
OperandFor(call, p) == call.args[p]

(* The argument the call passes for a parameter. *)
ArgumentFor(call, p) == call.args[p + 1]

(* Slip: phis behind the call still name the block that was split. *)
SplitAndForget(f, s) ==
  LET rest == Len(f.code) + 1
  IN [NewBlock(f) EXCEPT !.code[rest] = SubSeq(f.code[s[1]], s[2] + 1, Len(f.code[s[1]])),
                         !.code[s[1]] = SubSeq(@, 1, s[2])]

(* Slip: what is behind the call is copied and not moved. *)
SplitByCopying(f, s) ==
  [NewBlock(f) EXCEPT !.code[Len(f.code) + 1] = SubSeq(f.code[s[1]], s[2] + 1, Len(f.code[s[1]]))]

(* split_after: everything behind the call moves to a block of its own. *)
SplitAfter(f, s) ==
  LET rest == Len(f.code) + 1
      cut  == [NewBlock(f) EXCEPT !.code[rest] = SubSeq(f.code[s[1]], s[2] + 1, Len(f.code[s[1]])),
                                  !.code[s[1]] = SubSeq(@, 1, s[2])]
  IN RenameEdge(cut, Successors(cut, rest), s[1], rest)

ReturnsFrom(f, b) == f.code[b] # <<>> /\ Last(f.code[b]).op = "ret"

(* inline_one: the body of callee takes the place of the call at s.  A     *)
(* parameter becomes the argument; a frame slot moves to the caller's      *)
(* entry; a return becomes a jump behind the call, and the result a phi of *)
(* what the returns return, the last value there is.                       *)
CopyInto(f, s, callee) ==
  LET call    == InstrAt(f, s)
      split   == SplitAfter(f, s)
      resume  == Len(split.code)
      copied  == Ascending(ReachedBlocks(callee), Len(callee.code))
      M(v)    == LET p == ParamIndex(callee, v)
                 IN IF p # 0 THEN ArgumentFor(call, p) ELSE f.values + v
      B(b)    == resume + SelectInSeq(copied, LAMBDA c : c = b)
      ZeroIn(b)  == f.values + callee.values + b
      result  == f.values + callee.values + Len(callee.code) + 1
      Copy(i) == [i EXCEPT !.dst  = IF @ = NoValue THEN NoValue ELSE M(@),
                           !.args = [a \in DOMAIN @ |-> M(@[a])],
                           !.to   = [a \in DOMAIN @ |-> B(@[a])],
                           !.from = [a \in DOMAIN @ |-> B(@[a])]]
      all     == FlattenSeq([n \in DOMAIN copied |-> callee.code[copied[n]]])
      slots   == Reverse(Only(all, {"alloca"}))
      IsBare(b) == Last(callee.code[b]).args = <<>>
      End(b)  == IF ~ ReturnsFrom(callee, b) THEN <<>>
                 ELSE IF IsBare(b) /\ call.dst # NoValue
                   THEN <<Const(ZeroIn(b), 0, call.ty), Jump(resume)>>
                   ELSE <<Jump(resume)>>
      Body(b) == LET plain == Without(callee.code[b], {"param", "alloca", "ret"})
                 IN [k \in DOMAIN plain |-> Copy(plain[k])] \o End(b)
      returns == Ascending({b \in Range(copied) : ReturnsFrom(callee, b)}, Len(callee.code))
      phi     == [Instr("phi", result,
                        [n \in DOMAIN returns |->
                           IF IsBare(returns[n]) THEN ZeroIn(returns[n])
                           ELSE M(Last(callee.code[returns[n]]).args[1])])
                  EXCEPT !.ty = call.ty, !.from = [n \in DOMAIN returns |-> B(returns[n])]]
      joined  == [split EXCEPT !.code = @ \o [n \in DOMAIN copied |-> Body(copied[n])]]
      entered == [joined EXCEPT
                    !.values = result,
                    !.code[s[1]] = Append(Front(@), Jump(B(EntryBlock))),
                    !.code[resume] = (IF call.dst = NoValue THEN <<>> ELSE <<phi>>) \o @]
  IN [entered EXCEPT !.code[EntryBlock] = [k \in DOMAIN slots |-> Copy(slots[k])] \o @]

(* What used the result of the call reads the phi. *)
InlineAt(f, s, callee) ==
  LET dst == InstrAt(f, s).dst
      g   == CopyInto(f, s, callee)
  IN IF dst = NoValue THEN g ELSE ReplaceUses(g, dst, g.values)
=============================================================================
