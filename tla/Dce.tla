-------------------------------- MODULE Dce --------------------------------
(* src/src/opt/dce.c: dead code elimination and copy propagation. *)
EXTENDS Ir

(* One sweep of opt_dce over fresh use counts: nothing reads these results *)
(* and computing them has no effect.                                       *)
DeadSites(f, an) ==
  {s \in Sites(f) : LET i == InstrAt(f, s) IN
     /\ s[1] \in an.reach
     /\ i.dst # NoValue
     /\ ~ HasSideEffects(i)
     /\ i.dst \notin UsedValues(f)}

Sweep(f, an) ==
  LET dead == DeadSites(f, an)
  IN [f EXCEPT !.code = [b \in DOMAIN @ |->
                           KeptAt(@[b], {k \in DOMAIN @[b] : <<b, k>> \notin dead})]]

(* trivial_phi_value: the one value a phi can be, itself aside. *)
TrivialPhiValue(i) ==
  LET others == Range(i.args) \ {i.dst}
  IN IF Cardinality(others) = 1 THEN others ELSE {}

(* The value an instruction only passes on. *)
CopyOf(i) ==
  CASE i.op = "copy" -> {i.args[1]}
    [] i.op = "phi"  -> TrivialPhiValue(i)
    [] OTHER         -> {}

CopySites(f, an) ==
  {s \in Sites(f) : s[1] \in an.reach /\ CopyOf(InstrAt(f, s)) # {}}

PropagateAt(f, s) ==
  LET i == InstrAt(f, s)
      v == CHOOSE w \in CopyOf(i) : TRUE
  IN RemoveSite(ReplaceUses(f, i.dst, v), s)
=============================================================================
