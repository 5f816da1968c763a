------------------------------ MODULE Simplify ------------------------------
(* src/src/opt/simplify.c: branches on constants, and chains of blocks. *)
EXTENDS Ir

(* Slip: a jump counts as a branch with equal arms. *)
OnlyTarget(f, i) ==
  IF i.op = "jmp" THEN {i.to[1]}
  ELSE IF i.op # "br" THEN {}
  ELSE IF IsConst(f, i.args[1]) THEN {IF Def(f, i.args[1]).imm # 0 THEN i.to[1] ELSE i.to[2]}
  ELSE {i.to[1]} \cap {i.to[2]}

(* straighten_branches: where a branch must go. *)
OnlyArm(f, i) ==
  IF i.op # "br" THEN {}
  ELSE IF IsConst(f, i.args[1]) THEN {IF Def(f, i.args[1]).imm # 0 THEN i.to[1] ELSE i.to[2]}
  ELSE {i.to[1]} \cap {i.to[2]}

StraightSites(f, an) ==
  {b \in an.reach : f.code[b] # <<>> /\ OnlyArm(f, Last(f.code[b])) # {}}

Straighten(f, an) ==
  [f EXCEPT !.code = [b \in DOMAIN @ |->
     IF b \in StraightSites(f, an)
       THEN Append(Front(@[b]), Jump(CHOOSE t \in OnlyArm(f, Last(@[b])) : TRUE))
       ELSE @[b]]]

(* merge_blocks: the blocks b may absorb. *)
MergeTargets(f, an, b) ==
  IF Cardinality(Successors(f, b)) # 1 THEN {}
  ELSE {c \in Successors(f, b) :
          /\ c # b /\ c # EntryBlock
          /\ Cardinality(an.preds[c]) = 1
          /\ Head(f.code[c]).op # "phi"}

MergeSites(f, an) == {b \in an.reach : MergeTargets(f, an, b) # {}}

(* Phis that named c as the block control arrives from name b instead. *)
RenameEdge(f, S, c, b) ==
  LET Renamed(i) == IF i.op # "phi" THEN i
                    ELSE [i EXCEPT !.from = [a \in DOMAIN @ |-> IF @[a] = c THEN b ELSE @[a]]]
  IN [f EXCEPT !.code = [t \in DOMAIN @ |->
        IF t \in S THEN [k \in DOMAIN @[t] |-> Renamed(@[t][k])] ELSE @[t]]]

Absorb(f, b, c) ==
  LET joined == [f EXCEPT !.code[b] = Front(@) \o f.code[c], !.code[c] = <<>>]
  IN RenameEdge(joined, Successors(joined, b), c, b)
=============================================================================
