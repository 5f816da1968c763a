------------------------------ MODULE Tailcall ------------------------------
(* src/src/opt/tailcall.c: self-recursion in tail position becomes a loop. *)
EXTENDS Ir

(* self is the symbol of the function f. *)
CallsItself(f, self, i) ==
  /\ i.op = "call"
  /\ IsDefined(f, i.args[1])
  /\ Def(f, i.args[1]).op = "global" /\ Def(f, i.args[1]).imm = self

(* tail_call_in: the call directly before the return of its own result. *)
EndsInTailCall(f, self, b) ==
  LET n == Len(f.code[b]) IN
  /\ n >= 2
  /\ f.code[b][n].op = "ret"
  /\ CallsItself(f, self, f.code[b][n - 1])
  /\ IF f.code[b][n].args = <<>> THEN f.code[b][n - 1].dst = NoValue
     ELSE f.code[b][n].args[1] = f.code[b][n - 1].dst

TailBlocks(f, an, self) ==
  Ascending({b \in an.reach : EndsInTailCall(f, self, b)}, Len(f.code))

TailCall(f, b) == f.code[b][Len(f.code[b]) - 1]

HasFrameSlots(f) == \E s \in Sites(f) : InstrAt(f, s).op = "alloca"

Params(f) == Only(f.code[EntryBlock], {"param"})

(* The parameter of f that value v is, or 0. *)
ParamIndex(f, v) == SelectInSeq(Params(f), LAMBDA i : i.dst = v)

CanLoop(f, an, self) ==
  /\ ~ HasFrameSlots(f)
  /\ TailBlocks(f, an, self) # <<>>
  /\ \A b \in Range(TailBlocks(f, an, self)) :
       Len(TailCall(f, b).args) - 1 = Len(Params(f))

(* split_entry: the parameters stay, the rest moves into the loop header.  *)
SplitEntry(f) ==
  [NewBlock(f) EXCEPT !.code[LastBlock(f) + 1] = Without(f.code[EntryBlock], {"param"}),
                      !.code[EntryBlock] = Append(Params(f), Jump(LastBlock(f) + 1))]

(* A call the entry ended in has moved along with the rest of its body.    *)
CallSite(split, b) ==
  LET home == IF b = EntryBlock THEN Len(split.code) ELSE b
  IN <<home, Len(split.code[home]) - 1>>

(* The calls go, and so do the terminators of the blocks they were found   *)
(* in, which now jump to the header.  Of the entry that is the jump to the *)
(* header it has just been given.                                          *)
CloseLoops(g, tails) ==
  LET header == Len(g.code)
      Closed(b) ==
        IF b \in tails \ {EntryBlock} THEN Append(Front(Front(g.code[b])), Jump(header))
        ELSE IF b = header /\ EntryBlock \in tails THEN RemoveAt(g.code[b], Len(g.code[b]) - 1)
        ELSE g.code[b]
  IN [g EXCEPT !.code = [b \in DOMAIN @ |-> Closed(b)]]

(* Every use of a parameter reads its phi, except the phi's own argument   *)
(* along the edge from the entry.                                          *)
LoopInsteadOfCalls(f, an, self) ==
  LET tails   == TailBlocks(f, an, self)
      params  == Params(f)
      n       == Len(params)
      split   == SplitEntry(f)
      NewName(v) == IF ParamIndex(f, v) = 0 THEN v ELSE f.values + ParamIndex(f, v)
      Renamed(i) == [i EXCEPT !.args = [a \in DOMAIN @ |-> NewName(@[a])]]
      renamed == EditInstrs(split, Renamed)
      phi(j)  == [Instr("phi", f.values + j, <<params[j].dst>> \o
                          [t \in DOMAIN tails |->
                             InstrAt(renamed, CallSite(split, tails[t])).args[j + 1]])
                  EXCEPT !.ty = params[j].ty, !.from = <<EntryBlock>> \o tails]
  IN [CloseLoops(renamed, Range(tails)) EXCEPT
        !.values = f.values + n,
        !.code[Len(split.code)] = [j \in 1 .. n |-> phi(n + 1 - j)] \o @]
=============================================================================
