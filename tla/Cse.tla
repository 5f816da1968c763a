-------------------------------- MODULE Cse --------------------------------
(* src/src/opt/cse.c: common subexpression elimination down the dominator  *)
(* tree.                                                                   *)
EXTENDS Ir

SameExpression(i, j) ==
  i.op = j.op /\ i.args = j.args /\ i.imm = j.imm /\ i.ty = j.ty

(* The scoped table: what the blocks on the way down the tree, and this    *)
(* block so far, have made available.                                      *)
AvailableSites(f, an, s) ==
  {t \in Sites(f) :
     /\ IsPure(InstrAt(f, t))
     /\ IF t[1] = s[1] THEN t[2] < s[2] ELSE Dominates(an, t[1], s[1])}

Matches(f, an, s) ==
  IF IsPure(InstrAt(f, s))
    THEN {t \in AvailableSites(f, an, s) : SameExpression(InstrAt(f, t), InstrAt(f, s))}
    ELSE {}

(* find_available searches the table from its newest entry. *)
Newest(an, S) ==
  CHOOSE t \in S : \A u \in S \ {t} :
    IF t[1] = u[1] THEN u[2] < t[2] ELSE Dominates(an, u[1], t[1])

ShareAt(f, an, s) ==
  RemoveSite(ReplaceUses(f, InstrAt(f, s).dst, InstrAt(f, Newest(an, Matches(f, an, s))).dst), s)
=============================================================================
