-------------------------------- MODULE Licm --------------------------------
(* src/src/opt/licm.c: loop-invariant code motion. *)
EXTENDS Ir

(* Slip: anything pure may run early, even what can trap. *)
IsHarmlessIfNotUsed(i) == IsPure(i) /\ i.op \notin {"alloca", "param"}

IsSafeToSpeculate(i) == IsPure(i) /\ i.op \notin {"div", "mod", "alloca", "param"}

BackEdgeTails(an, h) == {q \in an.preds[h] : q \in an.reach /\ Dominates(an, h, q)}

(* collect_loop over every back edge to h: what reaches a tail without     *)
(* going through h.                                                        *)
LoopOf(an, h) ==
  LET L[n \in 0 .. Len(an.preds)] ==
        IF n = 0 THEN {h} \cup BackEdgeTails(an, h)
        ELSE LET S == L[n - 1] IN S \cup UNION {an.preds[b] : b \in S \ {h}}
  IN L[Len(an.preds)]

IsLoopHeader(an, h) == h \in an.reach /\ BackEdgeTails(an, h) # {}

DefinedOutside(f, v, loop) == IsDefined(f, v) => DefSite(f, v)[1] \notin loop

(* The block hoist_from_loop moves into exists and is not in the loop. *)
HasTarget(f, an, h) ==
  HasIdom(an, h) /\ Idom(an, h) \notin LoopOf(an, h) /\ f.code[Idom(an, h)] # <<>>

(* Slip: blocks that are not in the loop are walked as well. *)
InvariantAnywhere(f, an, h) ==
  {s \in Sites(f) : LET i == InstrAt(f, s) IN
     /\ s[1] \in an.reach
     /\ IsSafeToSpeculate(i)
     /\ \A a \in DOMAIN i.args : DefinedOutside(f, i.args[a], LoopOf(an, h))}

(* Slip: operands computed in the loop do not hold an instruction back. *)
SpeculableSites(f, an, h) ==
  {s \in Sites(f) : /\ s[1] \in an.reach /\ s[1] \in LoopOf(an, h)
                    /\ IsSafeToSpeculate(InstrAt(f, s))}

InvariantSites(f, an, h) ==
  LET loop == LoopOf(an, h) IN
  {s \in Sites(f) : LET i == InstrAt(f, s) IN
     /\ s[1] \in an.reach /\ s[1] \in loop
     /\ IsSafeToSpeculate(i)
     /\ \A a \in DOMAIN i.args : DefinedOutside(f, i.args[a], loop)}

(* Slip: the instruction is not unlinked from the loop. *)
CopyAt(f, an, h, s) ==
  LET target == Idom(an, h)
  IN EmitBefore(f, <<target, Len(f.code[target])>>, InstrAt(f, s))

(* Moved to just before the terminator of the header's idom. *)
HoistAt(f, an, h, s) ==
  LET target == Idom(an, h)
  IN EmitBefore(RemoveSite(f, s), <<target, Len(f.code[target])>>, InstrAt(f, s))
=============================================================================
