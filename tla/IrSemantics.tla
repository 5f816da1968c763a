---------------------------- MODULE IrSemantics ----------------------------
(***************************************************************************)
(* What a program in the IR does when it runs: the meaning src/include/ir/ *)
(* ir.h gives each opcode.  The compiler never runs the IR; this is the    *)
(* reference its transformations are compared with.                        *)
(*                                                                         *)
(* A program is a sequence of functions.  A machine state is               *)
(*   stack   the activations, innermost last; an activation knows its      *)
(*           function, the next instruction, its values and its arguments  *)
(*   mem     what has been stored in the frame slots                       *)
(*   out     the arguments of the calls that left the program              *)
(*   status  "run", "ret", "trap" (a division by zero), or "undef" where C *)
(*           leaves the rest open                                          *)
(***************************************************************************)
EXTENDS Ir, Arithmetic

LOCAL INSTANCE TLC

CONSTANT Doublings   \* bound: a run is followed for 2^Doublings steps

(* Addresses, disjoint from the integers the programs compute: frame slots *)
(* have room for 16 bytes and lie below what IR_GLOBAL names.              *)
SlotAddress(depth, v) == 10000 + 10000 * depth + 16 * v
GlobalAddress(n)      == 100000 + n
External              == GlobalAddress(0)

Activation(fn, f, args) ==
  [fn |-> fn, b |-> EntryBlock, k |-> 1, args |-> args,
   env |-> [v \in NoValue .. f.values |-> 0]]

Start(P, fn, args) ==
  [stack |-> <<Activation(fn, P[fn], args)>>, mem |-> <<>>, out |-> <<>>,
   status |-> "run", val |-> 0]

(* Control moves along the edge from b to t, all phis of t choosing at once. *)
Along(f, act, t) ==
  LET phis == {k \in DOMAIN f.code[t] : f.code[t][k].op = "phi"}
      Chosen(i) == i.args[CHOOSE a \in DOMAIN i.args : i.from[a] = act.b]
      Phi(v) == {k \in phis : f.code[t][k].dst = v}
  IN [act EXCEPT !.b = t, !.k = Cardinality(phis) + 1,
                 !.env = [v \in DOMAIN @ |->
                            IF Phi(v) = {} THEN @[v]
                            ELSE @[Chosen(f.code[t][CHOOSE k \in Phi(v) : TRUE])]]]

Step(P, c) ==
  LET top    == Last(c.stack)
      f      == P[top.fn]
      i      == f.code[top.b][top.k]
      depth  == Len(c.stack)
      A(n)   == top.env[i.args[n]]
      To(act)  == [c EXCEPT !.stack[depth] = act]
      Next1  == [top EXCEPT !.k = @ + 1]
      Yield(n) == To([Next1 EXCEPT !.env[i.dst] = n])
      Stop(s)  == [c EXCEPT !.status = s]
      Computed == Machine(i.op, A(1), A(2), Def(f, i.args[1]).ty, i.ty)
  IN CASE i.op = "const"  -> Yield(ValueIn(i.imm, i.ty))
       [] i.op = "global" -> Yield(GlobalAddress(i.imm))
       [] i.op = "param"  -> Yield(IF i.ty = "ptr" THEN top.args[i.imm + 1]
                                   ELSE ValueIn(top.args[i.imm + 1], i.ty))
       [] i.op = "alloca" -> Yield(SlotAddress(depth, i.dst))
       [] i.op = "load"   -> IF A(1) \in DOMAIN c.mem THEN Yield(c.mem[A(1)]) ELSE Stop("undef")
       [] i.op = "store"  -> [To(Next1) EXCEPT !.mem = (A(1) :> A(2)) @@ @]
       [] i.op = "memcpy" ->
            LET from == {x \in DOMAIN c.mem : x \in A(2) .. A(2) + i.imm - 1}
                copied == {x - A(2) + A(1) : x \in from}
            IN [To(Next1) EXCEPT !.mem = [x \in copied |-> c.mem[x - A(1) + A(2)]] @@ @]
       [] i.op = "copy"   -> Yield(A(1))
       [] i.op = "cast"   -> Yield(ValueIn(A(1), i.ty))
       [] i.op = "neg"    -> Yield(ValueIn(-A(1), i.ty))
       [] i.op = "complement" -> Yield(ValueIn(-A(1) - 1, i.ty))
       [] i.op = "lognot" -> Yield(Truth(A(1) = 0))
       [] i.op \in BinaryOps ->
            IF Computed # {} THEN Yield(CHOOSE n \in Computed : TRUE)
            ELSE Stop(IF i.op \in {"div", "mod"} /\ A(2) = 0 THEN "trap" ELSE "undef")
       [] i.op = "jmp"    -> To(Along(f, top, i.to[1]))
       [] i.op = "br"     -> To(Along(f, top, IF A(1) # 0 THEN i.to[1] ELSE i.to[2]))
       [] i.op = "call" /\ A(1) = External ->
            [Yield(0) EXCEPT !.out = Append(@, A(2))]
       [] i.op = "call"   ->
            LET callee == A(1) - External
            IN [c EXCEPT !.stack = Append(@, Activation(callee, P[callee],
                                                [a \in 1 .. Len(i.args) - 1 |-> A(a + 1)])),
                         !.mem = [x \in {y \in DOMAIN @ : y < SlotAddress(depth + 1, 0) \/ y > External} |-> @[x]]]
       [] i.op = "ret" /\ depth = 1 ->
            [c EXCEPT !.status = "ret", !.val = IF i.args = <<>> THEN 0 ELSE A(1)]
       [] i.op = "ret"    ->
            LET act  == c.stack[depth - 1]
                call == P[act.fn].code[act.b][act.k]
            IN IF i.args = <<>> /\ call.dst \in UsedValues(P[act.fn])
                 THEN Stop("undef")
                 ELSE [c EXCEPT !.stack = Append(SubSeq(@, 1, depth - 2),
                                 [act EXCEPT !.k = @ + 1,
                                             !.env[call.dst] = IF i.args = <<>> THEN 0 ELSE A(1)])]

(* As many as 2^k steps. *)
RECURSIVE RunFor(_, _, _)
RunFor(P, c, k) ==
  IF c.status # "run" THEN c
  ELSE IF k = 0 THEN Step(P, c)
  ELSE RunFor(P, RunFor(P, c, k - 1), k - 1)

(* The outcome of calling function fn of P: status, result and output.     *)
Outcome(P, fn, args, k) ==
  LET end == RunFor(P, Start(P, fn, args), k)
  IN [status |-> end.status, val |-> end.val, out |-> end.out]

(* Q does what P does wherever C says what P does.  Q may take more steps: *)
(* code hoisted out of a loop runs even when the loop does not.            *)
Preserves(P, Q, fn, args) ==
  LET before == Outcome(P, fn, args, Doublings)
  IN before.status = "ret" => Outcome(Q, fn, args, Doublings + 1) = before
=============================================================================
