--------------------------- MODULE SourceSemantics ---------------------------
(***************************************************************************)
(* What a program does according to C: the reference that lowering is      *)
(* compared with.  Statements and expressions are evaluated on the tree,   *)
(* with no blocks, slots or labels resolved ahead of time.                 *)
(*                                                                         *)
(* A state s records the memory, the arguments of the calls that left the  *)
(* program, the value of the last expression, the steps left, and how      *)
(* control goes on:                                                        *)
(*   "next", "break", "continue", "return"                                 *)
(*   "goto"    looking for the statement labelled s.label                  *)
(*   "case"    looking for the case labelled s.label                       *)
(*   "trap", "undef", "fuel"   stopped                                     *)
(***************************************************************************)
EXTENDS Syntax, Arithmetic, SequencesExt

LOCAL INSTANCE TLC

Stopped(s)   == s.flow \in {"trap", "undef", "fuel"}
Seeking(s)   == s.flow \in {"goto", "case"}
Go(s, flow)  == [s EXCEPT !.flow = flow]
Give(s, n)   == [s EXCEPT !.val = n]
Seek(s, flow, label) == [s EXCEPT !.flow = flow, !.label = label]

(* Every repetition costs one unit of fuel. *)
Burn(s) == IF s.fuel = 0 THEN Go(s, "fuel") ELSE [s EXCEPT !.fuel = @ - 1]

(* Where an object of the activation at this depth lives. *)
GlobalObjects == 1000000
FrameAt(depth) == 1000 * depth
AddressOfSymbol(depth, sym) ==
  IF IsLocal(sym) THEN FrameAt(depth) + 16 * sym.number ELSE GlobalObjects + 16 * sym.number

Read(s, a)     == IF a \in DOMAIN s.mem THEN Give(s, s.mem[a]) ELSE Go(s, "undef")
Write(s, a, n) == [s EXCEPT !.mem = (a :> n) @@ @]
Copy(s, to, from, size) ==
  LET held == {x \in DOMAIN s.mem : x \in from .. from + size - 1}
  IN [s EXCEPT !.mem = [x \in {y - from + to : y \in held} |-> s.mem[x - to + from]] @@ @]

Compute(s, op, l, r, ty, rty) ==
  LET n == Machine(op, l, r, ty.ir, rty.ir)
  IN IF n # {} THEN Give(s, CHOOSE x \in n : TRUE)
     ELSE Go(s, IF op \in {"div", "mod"} /\ r = 0 THEN "trap" ELSE "undef")

(* The operators, pointers counting in elements. *)
Operate(s, e, l, r) ==
  LET lt == e.left.ty
      rt == e.right.ty
  IN IF e.op = "sub" /\ IsPointerLike(lt) /\ IsPointerLike(rt) THEN Give(s, (l - r) \div ElementSize(lt))
     ELSE IF IsPointerLike(lt) /\ e.op = "add" THEN Give(s, l + r * ElementSize(lt))
     ELSE IF IsPointerLike(lt) /\ e.op = "sub" THEN Give(s, l - r * ElementSize(lt))
     ELSE IF IsPointerLike(rt) /\ e.op = "add" THEN Give(s, r + l * ElementSize(rt))
     ELSE Compute(s, e.op, l, r, lt, e.ty)

(* The member or element an item of a brace initialiser fills. *)
PlacesOf(items) ==
  LET place[j \in DOMAIN items] ==
        IF items[j].at # 0 THEN items[j].at ELSE IF j = 1 THEN 1 ELSE place[j - 1] + 1
  IN place

OffsetOf(ty, k) == IF ty.kind = "struct" THEN ty.members[k].offset ELSE (k - 1) * ElementSize(ty)
PiecesOf(ty)    == IF ty.kind = "struct" THEN DOMAIN ty.members ELSE 1 .. ty.size \div ElementSize(ty)

(* Case labels are never negative. *)
NoCase == -1

(* The values the case labels of a switch body name. *)
RECURSIVE CaseValues(_)
CaseValues(n) ==
  CASE n.type = "case"  -> {n.value} \cup CaseValues(n.body)
    [] n.type = "block" -> UNION {CaseValues(n.body[k]) : k \in DOMAIN n.body}
    [] n.type = "if"    -> CaseValues(n.then) \cup CaseValues(n.else)
    [] n.type \in {"while", "do", "for", "label", "default"} -> CaseValues(n.body)
    [] OTHER -> {}

(* Everything that recurs on the tree, in one operator: what is done to    *)
(* node n of an activation at depth d.                                     *)
RECURSIVE Run(_, _, _, _, _)
Eval(P, d, e, s)   == Run(P, d, "value", e, s)
Place(P, d, e, s)  == Run(P, d, "place", e, s)
Exec(P, d, n, s)   == Run(P, d, "statement", n, s)
Repeat(P, d, n, s) == Run(P, d, "repeat", n, s)
RunBody(P, d, n, s) == Run(P, d, "body", n, s)

(* Memory as a callee finds it: what is live and its parameters, a struct  *)
(* among them member by member.                                            *)
Called(mem, depth, params, args) ==
  LET live   == {a \in DOMAIN mem : a < FrameAt(depth) \/ a >= GlobalObjects}
      places == [k \in DOMAIN params |-> AddressOfSymbol(depth, params[k])]
      simple == {k \in DOMAIN params : ~ IsStruct(params[k].ty)}
      Within(a, k) == k \notin simple /\ a - places[k] \in 0 .. params[k].ty.size - 1
                                     /\ a - places[k] + args[k] \in DOMAIN mem
      members == {places[k] + o : k \in DOMAIN params \ simple, o \in 0 .. 15}
  IN [a \in {places[k] : k \in simple} |-> args[CHOOSE k \in simple : places[k] = a]]
       @@ [a \in {m \in members : \E k \in DOMAIN params : Within(m, k)} |->
             LET k == CHOOSE j \in DOMAIN params : Within(a, j) IN mem[a - places[k] + args[k]]]
       @@ [a \in live |-> mem[a]]

Returned(r) ==
  IF Stopped(r) THEN r
  ELSE IF r.flow = "return" THEN Go(r, "next") ELSE Give(r, 0)

(* Calls function n (0 is a function outside the program) with arguments.  *)
CallFunction(P, depth, n, args, s) ==
  IF n = 0 THEN [s EXCEPT !.out = Append(@, args[1]), !.val = 0]
  ELSE Returned(RunBody(P, depth + 1, P[n].body,
                  [Burn(s) EXCEPT !.mem = Called(@, depth + 1, P[n].params, args), !.val = 0]))

(* A goto that found no label on the way starts looking from the top.      *)
BodyRun(P, d, body, s) ==
  LET r == Exec(P, d, body, s)
  IN IF r.flow = "goto" THEN RunBody(P, d, body, Burn(r)) ELSE r

(* A brace initialiser: what it leaves out is zero. *)
Fill(P, d, ty, base, items, s) ==
  LET place  == PlacesOf(items)
      zeroed == FoldLeft(LAMBDA r, k : Write(r, base + OffsetOf(ty, k), 0), s, SetToSeq(PiecesOf(ty)))
      Put(r, j) == LET v == Eval(P, d, items[j].value, r)
                        IN IF Stopped(v) THEN v ELSE Write(v, base + OffsetOf(ty, place[j]), v.val)
  IN FoldLeft(Put, zeroed, [j \in DOMAIN place |-> j])

(* The address of an object. *)
PlaceOf(P, d, e, s) ==
  IF s.flow # "next" THEN s
  ELSE CASE e.type = "name"        -> Give(s, AddressOfSymbol(d, e.sym))
         [] e.type = "dereference" -> Eval(P, d, e.left, s)
         [] e.type = "field"       ->
              LET a == Place(P, d, e.left, s)
              IN Give(a, a.val + e.left.ty.members[e.member].offset)
         [] e.type = "subscript"   ->
              LET a == Eval(P, d, e.left, s)
                  i == Eval(P, d, e.right, a)
              IN Give(i, a.val + i.val * ElementSize(e.left.ty))
         [] e.type = "compound" ->
              LET a == AddressOfSymbol(d, e.sym) IN Give(Fill(P, d, e.ty, a, e.items, s), a)
         [] e.type = "call" -> Eval(P, d, e, s)    \* a struct, where the callee left it

(* Arguments one after the other; the values are collected in s.val. *)
EvalAll(P, d, es, s) ==
  LET R[k \in 0 .. Len(es)] ==
        IF k = 0 THEN Give(s, <<>>)
        ELSE LET r == Eval(P, d, es[k], R[k - 1])
             IN IF R[k - 1].flow = "next" THEN Give(r, Append(R[k - 1].val, r.val)) ELSE R[k - 1]
  IN R[Len(es)]

ValueOf(P, d, e, s) ==
  IF s.flow # "next" THEN s
  ELSE CASE e.type = "nothing" -> s
    [] e.type = "literal" -> Give(s, ValueIn(e.value, e.ty.ir))
    [] e.type = "sizeof"  -> Give(s, e.left.ty.size)
    [] e.type \in {"name", "dereference", "field", "subscript", "compound"} ->
         LET a == Place(P, d, e, s)
             named == e.type = "name" /\ e.sym.kind = "function"
         IN IF Stopped(a) \/ IsAggregate(e.ty) \/ named THEN a ELSE Read(a, a.val)
    [] e.type = "address" -> Place(P, d, e.left, s)
    [] e.type = "assign" /\ IsStruct(e.left.ty) ->
         LET from == Place(P, d, e.right, s)
             to == Place(P, d, e.left, from)
         IN Copy(to, to.val, from.val, e.left.ty.size)
    [] e.type = "assign" ->
         LET r == Eval(P, d, e.right, s)
             a == Place(P, d, e.left, r)
         IN IF Stopped(a) THEN a ELSE Give(Write(a, a.val, r.val), r.val)
    [] e.type = "cast" ->
         LET r == Eval(P, d, e.left, s) IN IF Stopped(r) THEN r ELSE Give(r, ValueIn(r.val, e.ty.ir))
    [] e.type = "unary" ->
         LET r == Eval(P, d, e.left, s)
             n == CASE e.op = "neg" -> -r.val [] e.op = "complement" -> -r.val - 1
                    [] e.op = "lognot" -> Truth(r.val = 0)
         IN IF Stopped(r) THEN r ELSE Give(r, ValueIn(n, e.ty.ir))
    [] e.type = "binary" ->
         LET l == Eval(P, d, e.left, s)
             r == Eval(P, d, e.right, l)
         IN IF Stopped(r) THEN r ELSE Operate(r, e, l.val, r.val)
    [] e.type = "step" ->
         LET a   == Place(P, d, e.left, s)
             old == Read(a, a.val)
             by  == IF IsPointerLike(e.left.ty) THEN ElementSize(e.left.ty) ELSE 1
             new == Compute(old, e.op, old.val, by, e.left.ty, e.left.ty)
         IN IF Stopped(a) \/ Stopped(old) \/ Stopped(new) THEN Go(s, "undef")
            ELSE Give(Write(new, a.val, new.val), IF e.prefix THEN new.val ELSE old.val)
    [] e.type \in {"and", "or"} ->
         LET l == Eval(P, d, e.left, s)
             r == Eval(P, d, e.right, l)
             decided == (l.val = 0) = (e.type = "and")
         IN IF Stopped(l) THEN l
            ELSE IF decided THEN Give(l, Truth(e.type = "or"))
            ELSE IF Stopped(r) THEN r ELSE Give(r, Truth(r.val # 0))
    [] e.type = "conditional" ->
         LET c == Eval(P, d, e.left, s)
         IN Eval(P, d, IF c.val # 0 THEN e.then ELSE e.else, c)
    [] e.type = "comma" -> Eval(P, d, e.right, Eval(P, d, e.left, s))
    [] e.type = "call" ->
         LET args   == EvalAll(P, d, e.args, s)
             callee == IF IsLocal(e.sym) THEN Read(s, AddressOfSymbol(d, e.sym)).val
                       ELSE GlobalObjects + 16 * e.sym.number
         IN IF args.flow # "next" THEN args
            ELSE CallFunction(P, d, (callee - GlobalObjects) \div 16, args.val, args)

(* What remains to be done after the body of a loop. *)
AfterBody(P, d, n, r) ==
  CASE r.flow = "break" -> Go(r, "next")
    [] r.flow \in {"next", "continue"} ->
         Repeat(P, d, n, Eval(P, d, IF n.type = "for" THEN n.post ELSE Nothing, Burn(Go(r, "next"))))
    [] OTHER -> r

RepeatLoop(P, d, n, s) ==
  LET c == Eval(P, d, n.left, s)
      holds == IsNull(n.left) \/ c.val # 0
  IN IF c.flow # "next" THEN c
     ELSE IF holds THEN AfterBody(P, d, n, Exec(P, d, n.body, c)) ELSE c

ExecStatement(P, d, n, s) ==
  IF ~ (s.flow = "next" \/ Seeking(s)) THEN s
  ELSE CASE n.type = "nothing" -> s
    [] n.type = "block" -> FoldLeft(LAMBDA r, m : Exec(P, d, m, r), s, n.body)
    [] n.type = "if" /\ Seeking(s) ->
         LET r == Exec(P, d, n.then, s) IN IF Seeking(r) THEN Exec(P, d, n.else, r) ELSE r
    [] n.type = "if" ->
         LET c == Eval(P, d, n.left, s)
         IN Exec(P, d, IF c.val # 0 THEN n.then ELSE n.else, c)
    [] n.type \in {"while", "for", "do"} /\ Seeking(s) ->
         LET r == Exec(P, d, n.body, s) IN IF Seeking(r) THEN r ELSE AfterBody(P, d, n, r)
    [] n.type = "while" -> Repeat(P, d, n, s)
    [] n.type = "do"    -> AfterBody(P, d, n, Exec(P, d, n.body, s))
    [] n.type = "for"   ->
         Repeat(P, d, n, IF n.init.type = "declaration" THEN Exec(P, d, n.init, s)
                         ELSE Eval(P, d, n.init, s))
    [] n.type = "switch" /\ s.flow = "case" -> s
    [] n.type = "switch" ->
         LET c == IF s.flow = "goto" THEN s ELSE
                    LET v == Eval(P, d, n.left, s)
                    IN IF Stopped(v) THEN v
                       ELSE Seek(v, "case", IF v.val \in CaseValues(n.body) THEN v.val ELSE NoCase)
             r == Exec(P, d, n.body, c)
         IN IF r.flow \in {"case", "break"} THEN Go(r, "next") ELSE r
    [] n.type \in {"case", "default"} ->
         LET mine == s.flow = "case" /\ IF n.type = "case" THEN s.label = n.value
                                                            ELSE s.label = NoCase
         IN Exec(P, d, n.body, IF mine THEN Go(s, "next") ELSE s)
    [] n.type = "label" ->
         Exec(P, d, n.body, IF s.flow = "goto" /\ s.label = n.name THEN Go(s, "next") ELSE s)
    [] Seeking(s) -> s
    [] n.type = "goto" -> Seek(s, "goto", n.name)
    [] n.type \in {"break", "continue"} -> Go(s, n.type)
    [] n.type = "expression" -> Eval(P, d, n.left, s)
    [] n.type = "return" ->
         LET r == Eval(P, d, n.left, s)
         IN IF Stopped(r) THEN r ELSE Go(IF IsNull(n.left) THEN Give(r, 0) ELSE r, "return")
    [] n.type = "declaration" /\ IsNull(n.init) -> s
    [] n.type = "declaration" /\ n.init.type = "braces" ->
         Fill(P, d, n.ty, AddressOfSymbol(d, n.sym), n.init.items, s)
    [] n.type = "declaration" -> Eval(P, d, Assign(Name(n.sym), n.init), s)

Run(P, d, what, n, s) ==
  CASE what = "value"     -> ValueOf(P, d, n, s)
    [] what = "place"     -> PlaceOf(P, d, n, s)
    [] what = "statement" -> ExecStatement(P, d, n, s)
    [] what = "repeat"    -> RepeatLoop(P, d, n, s)
    [] what = "body"      -> BodyRun(P, d, n, s)

(* The outcome of calling function fn: status, result and output. *)
OutcomeOf(r) ==
  [status |-> IF r.flow = "next" THEN "ret" ELSE r.flow,
   val |-> IF r.flow = "next" THEN r.val ELSE 0, out |-> r.out]

Meaning(P, fn, args, fuel) ==
  OutcomeOf(CallFunction(P, 0, fn, args,
    [mem |-> <<>>, out |-> <<>>, val |-> 0, flow |-> "next", label |-> "", fuel |-> fuel]))
=============================================================================
