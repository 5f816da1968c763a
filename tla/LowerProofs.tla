---------------------------- MODULE LowerProofs -----------------------------
(***************************************************************************)
(* Lowering keeps the insertion point moving on, and every function it     *)
(* finishes is one the verifier accepts and the optimiser may start from.  *)
(*                                                                         *)
(* The invariant (Under) lays the state at a shape: the blocks and the     *)
(* values that wait are as the shape says, the tables of ctx name blocks   *)
(* that have the slots on entry, and the work that is left leads from this *)
(* shape to the one in which nothing is left.  Each action has a lemma     *)
(* that it leads on (Onward); the theorems are at the end.                 *)
(***************************************************************************)
EXTENDS LowerWork

-----------------------------------------------------------------------------
(* The state of lowering at a shape                                        *)

(* Every label that has been mentioned has a block, and one not come to    *)
(* yet has it to itself.                                                   *)
LabelsFit(fn, P, at, left, lb) ==
  /\ \A l \in DOMAIN lb : lb[l] \in P /\ l \in LabelsIn[fn.body]
  /\ \A l \in DOMAIN lb : <<"label", l>> \in left => <<"label", l>> \in DOMAIN at /\ at[<<"label", l>>] = lb[l]
  /\ \A l : <<"label", l>> \in DOMAIN at => l \in DOMAIN lb
  /\ \A l \in LabelsIn[fn.body] : <<"label", l>> \notin left => l \in DOMAIN lb

(* Every case that has been tested has a block, found through the index on *)
(* the node.                                                               *)
CasesNoted(fn, P, at, left, cb, st) ==
  /\ IsSeq(cb) /\ Range(cb) \subseteq P
  /\ \A id \in DOMAIN st : st[id] \in Nat /\ st[id] + 1 \in DOMAIN cb
  /\ \A c \in CasesIn[fn.body] :
       <<"stamp", c>> \notin left =>
         /\ c.id \in DOMAIN st
         /\ <<"case", c>> \in left => <<"case", c>> \in DOMAIN at /\ at[<<"case", c>>] = cb[st[c.id] + 1]
  /\ \A c : <<"case", c>> \in DOMAIN at => <<"stamp", c>> \notin left
  /\ \A c : <<"stamp", c>> \notin DOMAIN at

(* The tables of ctx: targets of break and continue, labels, slots and     *)
(* cases.                                                                  *)
Tables(fn, P, A, at, left, lp, lb, sl, cb, st) ==
  /\ IsSeq(lp) /\ \A k \in DOMAIN lp : lp[k].onBreak \in P /\ lp[k].onContinue \in P
  /\ \A x \in DOMAIN sl : sl[x] \in A
  /\ left \subseteq MarksIn(fn.body) /\ DOMAIN at \subseteq left
  /\ LabelsFit(fn, P, at, left, lb) /\ CasesNoted(fn, P, at, left, cb, st)

(* The cases of a switch as far as they are collected. *)
Gathered(fn, n, rem, cs, ds) ==
  /\ n \in NodesOf[fn] /\ n.type = "switch" /\ n # Nothing
  /\ IsSeq(cs) /\ IsSeq(ds)
  /\ \A j, k \in DOMAIN cs : cs[j] = cs[k] => j = k
  /\ \A k \in DOMAIN cs : cs[k].type = "case" /\ cs[k] \notin rem
  /\ ds = <<>> \/ (ds = <<ds[1]>> /\ ds[1].type = "default" /\ ds[1] \notin rem)
  /\ OwnCases[n.body] = Range(cs) \cup Range(ds) \cup rem

(* Tested: those before the next have their blocks. *)
Tested(fn, s, have, cs, ds, next, control, n) ==
  /\ Gathered(fn, n, {}, cs, ds)
  /\ next \in 1 .. Len(cs) + 1 /\ control \in have
  /\ \A k \in DOMAIN cs : <<"stamp", cs[k]>> \in s.left <=> k >= next
  /\ Stamps(Range(ds)) \subseteq s.left

(* How far the switch is whose cases are collected or tested. *)
Switching(fn, s, have, cs, ds, work) ==
  \/ s.cases = Idle
  \/ \E n, rem : /\ s.cases = Collecting(n, rem) /\ Gathered(fn, n, rem, cs, ds)
                 /\ Stamps(OwnCases[n.body]) \subseteq s.left
  \/ \E next, control, done, n :
       /\ s.cases = Testing(next, control, done, n) /\ work # <<>> /\ Head(work) = s.cases
       /\ Tested(fn, s, have, cs, ds, next, control, n)

(* The state is at shape s, and the work that is left leads from s to      *)
(* where nothing is left.                                                  *)
Under(fn, in, at, s) ==
  /\ Laid(func, block, vals, in, at, s)
  /\ Tables(fn, Plains(func, in), Slots(func), at, s.left, loops, labels, slots, caseBlocks, stamped)
  /\ Switching(fn, s, Had(func, in, block), cases, defaults, todo)
  /\ Chain(fn, Plains(func, in), todo, s, St({}, {}))

(* The same of the next state. *)
UnderNext(fn, in, at, s) ==
  /\ Laid(func', block', vals', in, at, s)
  /\ Tables(fn, Plains(func', in), Slots(func'), at, s.left, loops', labels', slots', caseBlocks', stamped')
  /\ Switching(fn, s, Had(func', in, block'), cases', defaults', todo')
  /\ Chain(fn, Plains(func', in), todo', s, St({}, {}))

(* A piece of work is a step of its own kind. *)
LEMMA StepIs ==
  ASSUME NEW fn, NEW B, NEW w, NEW s, NEW t, Step(fn, B, w, s, t)
  PROVE  /\ w.do = "statement" => StatementStep(fn, w, s, t)
         /\ w.do = "value" => ValueStep(fn, w, s, t)
         /\ w.do = "address" => AddressStep(fn, w, s, t)
         /\ w.do = "parameter" => ParameterStep(w, s, t)
         /\ w.do = "jump" => JumpStep(B, w, s, t)
         /\ w.do = "branch" => BranchStep(B, w, s, t)
         /\ w.do = "open" => OpenStep(w, s, t)
         /\ w.do = "open new" => OpenNewStep(w, s, t)
         /\ w.do = "push loop" => PushLoopStep(B, w, s, t)
         /\ w.do = "pop loop" => PopLoopStep(w, s, t)
         /\ w.do = "collect" => CollectStep(fn, w, s, t)
         /\ w.do \in {"forget", "return"} => PopStep(w, s, t)
         /\ w.do = "append" => AppendStep(w, s, t)
         /\ w.do = "tests" => TestsStep(fn, w, s, t)
         /\ w.do = "test" => TestStep(fn, B, w, s, t)
<1>1. /\ StatementStep(fn, w, s, t) => w.do = "statement"
      /\ ValueStep(fn, w, s, t) => w.do = "value"
      /\ AddressStep(fn, w, s, t) => w.do = "address"
      /\ ParameterStep(w, s, t) => w.do = "parameter"
      /\ JumpStep(B, w, s, t) => w.do = "jump"
      /\ BranchStep(B, w, s, t) => w.do = "branch"
      /\ OpenStep(w, s, t) => w.do = "open"
      /\ OpenNewStep(w, s, t) => w.do = "open new"
      /\ PushLoopStep(B, w, s, t) => w.do = "push loop"
      /\ PopLoopStep(w, s, t) => w.do = "pop loop"
      /\ CollectStep(fn, w, s, t) => w.do = "collect"
      /\ PopStep(w, s, t) => w.do \in {"forget", "return"}
      /\ AppendStep(w, s, t) => w.do = "append"
      /\ TestsStep(fn, w, s, t) => w.do = "tests"
  BY DEF StatementStep, ValueStep, AddressStep, ParameterStep, JumpStep, BranchStep, OpenStep, OpenNewStep,
         PushLoopStep, PopLoopStep, CollectStep, PopStep, AppendStep, TestsStep
<1>2. TestStep(fn, B, w, s, t) => w.do = "test"
  BY DEF TestStep, Testing
<1> QED
  BY <1>1, <1>2 DEF Step

More(f, in, g, out) == Plains(f, in) \subseteq Plains(g, out) /\ Slots(f) \subseteq Slots(g)

(* With more blocks and slots the tables are as right as before. *)
LEMMA TablesMore ==
  ASSUME NEW fn, NEW P, NEW A, NEW at, NEW left, NEW lp, NEW lb, NEW sl, NEW cb, NEW st,
         Tables(fn, P, A, at, left, lp, lb, sl, cb, st), NEW Q, NEW C, P \subseteq Q, A \subseteq C
  PROVE  Tables(fn, Q, C, at, left, lp, lb, sl, cb, st)
<1>1. LabelsFit(fn, Q, at, left, lb)
  BY DEF Tables, LabelsFit
<1>2. CasesNoted(fn, Q, at, left, cb, st)
  BY DEF Tables, CasesNoted
<1> QED
  BY <1>1, <1>2 DEF Tables

(* One piece of work becomes several, by way of another shape. *)
Proceed(fn, in, s, work, out, at, t) ==
  /\ todo # <<>> /\ Then(work) /\ More(func, in, func', out)
  /\ Laid(func', block', vals', out, at, t)
  /\ Tables(fn, Plains(func', out), Slots(func'), at, t.left, loops', labels', slots', caseBlocks', stamped')
  /\ Switching(fn, t, Had(func', out, block'), cases', defaults', todo')
  /\ \A u : Step(fn, Plains(func, in), Head(todo), s, u) => Chain(fn, Plains(func', out), work, t, u)

(* If the work a piece becomes leads where the piece did, from the shape   *)
(* the state is at now, the work that is left still leads to the end.      *)
LEMMA Proceeds ==
  ASSUME NEW fn, NEW in, NEW at, NEW s, Under(fn, in, at, s), NEW work, NEW out, NEW a, NEW t,
         Proceed(fn, in, s, work, out, a, t)
  PROVE  UnderNext(fn, out, a, t)
<1> DEFINE P == Plains(func, in)
           Q == Plains(func', out)
<1>1. Chain(fn, P, todo, s, St({}, {})) /\ todo # <<>>
  BY DEF Under, Proceed
<1>. HIDE DEF P
<1>2. PICK u : Step(fn, P, Head(todo), s, u) /\ Chain(fn, P, Tail(todo), u, St({}, {}))
  BY <1>1, ChainHead
<1>3. Chain(fn, Q, work, t, u) /\ P \subseteq Q
  BY <1>2 DEF Proceed, More, P
<1>. HIDE DEF Q
<1>4. Chain(fn, Q, Tail(todo), u, St({}, {}))
  BY <1>2, <1>3, ChainMore
<1>5. Chain(fn, Q, work \o Tail(todo), t, St({}, {}))
  BY <1>3, <1>4, ChainJoin
<1>6. todo' = work \o Tail(todo)
  BY DEF Proceed, Then
<1> QED
  BY <1>5, <1>6 DEF UnderNext, Proceed, Q

(* What else there is to say of a switch is left alone. *)
LEMMA SwitchingKept ==
  ASSUME NEW fn, NEW s, NEW have, NEW cs, NEW ds, NEW work, Switching(fn, s, have, cs, ds, work),
         work # <<>>, Head(work).do # "test",
         NEW t, t.cases = s.cases, \A c : <<"stamp", c>> \in s.left => <<"stamp", c>> \in t.left,
         NEW has, NEW rest
  PROVE  Switching(fn, t, has, cs, ds, rest)
<1>1. CASE s.cases = Idle
  BY <1>1 DEF Switching
<1>2. ASSUME NEW n, NEW rem, s.cases = Collecting(n, rem), Gathered(fn, n, rem, cs, ds),
             Stamps(OwnCases[n.body]) \subseteq s.left
      PROVE  Switching(fn, t, has, cs, ds, rest)
  <2>1. Stamps(OwnCases[n.body]) \subseteq t.left
    BY <1>2, InStamps
  <2> QED
    BY <1>2, <2>1 DEF Switching
<1>3. ASSUME NEW next, NEW control, NEW done, NEW n, s.cases = Testing(next, control, done, n), Head(work) = s.cases
      PROVE  FALSE
  BY <1>3 DEF Testing
<1> QED
  BY <1>1, <1>2, <1>3 DEF Switching

-----------------------------------------------------------------------------
(* Work that becomes other work                                            *)

(* The next state is at some shape: what each action is shown to lead to. *)
Onward(fn) == \E in, at, s : UnderNext(fn, in, at, s)

(* A node that becomes other work and changes nothing else leads on. *)
LEMMA BecomesHolds ==
  ASSUME NEW fn, NEW in, NEW at, NEW s, Under(fn, in, at, s), todo # <<>>, Head(todo).do # "test",
         NEW work, Becomes(work),
         \A u : Step(fn, Plains(func, in), Head(todo), s, u) => Chain(fn, Plains(func, in), work, s, u)
  PROVE  Onward(fn)
<1>1. func' = func /\ block' = block /\ vals' = vals /\ Then(work)
      /\ loops' = loops /\ labels' = labels /\ slots' = slots /\ caseBlocks' = caseBlocks /\ stamped' = stamped
      /\ cases' = cases /\ defaults' = defaults
  BY DEF Becomes, tableVars
<1>2. Switching(fn, s, Had(func', in, block'), cases', defaults', todo')
  <2>1. Switching(fn, s, Had(func, in, block), cases, defaults, todo)
    BY DEF Under
  <2> QED
    BY <1>1, <2>1, SwitchingKept
<1>3. Proceed(fn, in, s, work, in, at, s)
  BY <1>1, <1>2 DEF Proceed, Under, More
<1>4. UnderNext(fn, in, at, s)
  BY <1>3, Proceeds
<1> QED
  BY <1>4 DEF Onward

Leads(fn, s, u, kinds) ==
  Fit(fn, s) /\ Ex(s, <<>>) = s /\ Node \in NodesOf[fn] /\ \E r \in kinds : u = Ex(s, <<r>>)

(* The expression that is next, and the value it leaves. *)
LEMMA ExpressionFacts ==
  ASSUME NEW fn \in AllFunctions, NEW in, NEW at, NEW s, Under(fn, in, at, s), NEW B, NEW u,
         Step(fn, B, Head(todo), s, u)
  PROVE  /\ Head(todo).do = "value" => Leads(fn, s, u, KindsOf(Node))
         /\ Head(todo).do = "address" => Leads(fn, s, u, {"none", "value"})
<1>1. IsShape(s)
  BY DEF Under, Laid
<1>2. /\ Head(todo).do = "value" => ValueStep(fn, Head(todo), s, u)
      /\ Head(todo).do = "address" => AddressStep(fn, Head(todo), s, u)
  BY StepIs
<1>3. Head(todo).do \in {"value", "address"} => s.open = TRUE /\ Low(s.due, Len(s.stack)) /\ Node \in NodesOf[fn]
  BY <1>2 DEF ValueStep, AddressStep, Node
<1>4. s.open = TRUE => Ex(s, <<>>) = s
  BY <1>1, ExFacts, KindLists
<1>5. s.stack \in Seq(Kinds)
  BY <1>1 DEF IsShape
<1>6. \A k \in Kinds : Append(s.stack, k) = s.stack \o <<k>>
  BY <1>5, Piled
<1>7. \A k \in Kinds : Sh(Append(s.stack, k), TRUE, s.cases, s.left, s.due) = Ex(s, <<k>>)
  BY <1>6 DEF Ex
<1>8. Head(todo).do = "value" => \E r \in KindsOf(Node) : u = Ex(s, <<r>>)
  <2>1. SUFFICES ASSUME Head(todo).do = "value" PROVE \E r \in KindsOf(Node) : u = Ex(s, <<r>>)
    OBVIOUS
  <2>2. PICK k \in KindsOf(Node) : u = Sh(Append(s.stack, k), TRUE, s.cases, s.left, s.due)
    BY <1>2, <2>1 DEF ValueStep, Node
  <2>3. k \in Kinds
    BY KindsFacts
  <2> QED
    BY <1>7, <2>2, <2>3
<1>9. Head(todo).do = "address" => \E r \in {"none", "value"} : u = Ex(s, <<r>>)
  <2>1. SUFFICES ASSUME Head(todo).do = "address" PROVE \E r \in {"none", "value"} : u = Ex(s, <<r>>)
    OBVIOUS
  <2>2. PICK k \in {"none", "value"} : u = Sh(Append(s.stack, k), TRUE, s.cases, s.left, s.due)
    BY <1>2, <2>1 DEF AddressStep
  <2>3. k \in Kinds
    BY KindLists
  <2> QED
    BY <1>7, <2>2, <2>3
<1> QED
  BY <1>1, <1>3, <1>4, <1>8, <1>9 DEF Fit, Leads

(* An expression leads on if its work does. *)
LEMMA ValueBecomes ==
  ASSUME NEW fn \in AllFunctions, NEW in, NEW at, NEW s, Under(fn, in, at, s), Does("value"), NEW work, Becomes(work),
         Fit(fn, s) /\ Node \in NodesOf[fn] =>
           \A r \in KindsOf(Node) : Chain(fn, Plains(func, in), work, Ex(s, <<>>), Ex(s, <<r>>))
  PROVE  Onward(fn)
<1>1. todo # <<>> /\ Head(todo).do = "value"
  BY DEF Does
<1>2. ASSUME NEW u, Step(fn, Plains(func, in), Head(todo), s, u) PROVE Chain(fn, Plains(func, in), work, s, u)
  <2>1. Leads(fn, s, u, KindsOf(Node))
    BY <1>1, <1>2, ExpressionFacts
  <2> QED
    BY <2>1 DEF Leads
<1> QED
  BY <1>1, <1>2, BecomesHolds

(* So does an address. *)
LEMMA AddressBecomes ==
  ASSUME NEW fn \in AllFunctions, NEW in, NEW at, NEW s, Under(fn, in, at, s), Does("address"), NEW work, Becomes(work),
         Fit(fn, s) /\ Node \in NodesOf[fn] =>
           \A r \in {"none", "value"} : Chain(fn, Plains(func, in), work, Ex(s, <<>>), Ex(s, <<r>>))
  PROVE  Onward(fn)
<1>1. todo # <<>> /\ Head(todo).do = "address"
  BY DEF Does
<1>2. ASSUME NEW u, Step(fn, Plains(func, in), Head(todo), s, u) PROVE Chain(fn, Plains(func, in), work, s, u)
  <2>1. Leads(fn, s, u, {"none", "value"})
    BY <1>1, <1>2, ExpressionFacts
  <2> QED
    BY <2>1 DEF Leads
<1> QED
  BY <1>1, <1>2, BecomesHolds

(* The addresses that take no slot. *)
LEMMA AddressesOn ==
  ASSUME NEW fn \in AllFunctions, NEW in, NEW at, NEW s, Under(fn, in, at, s),
         GlobalAddressOf \/ DereferenceAddress \/ SubscriptAddress \/ FieldAddress
  PROVE  Onward(fn)
<1>1. CASE GlobalAddressOf
  <2>1. Does("address") /\ Becomes(<<GlobalOf(Node.sym)>>)
    BY <1>1 DEF GlobalAddressOf, Visits
  <2> QED
    BY <2>1, GlobalWork, AddressBecomes
<1>2. CASE DereferenceAddress
  <2>1. Does("address") /\ Node.type = "dereference" /\ Becomes(<<Value(Node.left)>>)
    BY <1>2 DEF DereferenceAddress, Visits, Node
  <2> QED
    BY <2>1, DereferenceWork, AddressBecomes
<1>3. CASE SubscriptAddress
  <2> DEFINE work == <<Value(Node.left), Value(Node.right), ConstOf(ElementSize(Node.left.ty), LongType),
            Appending("mul", 3, <<2, 3>>, LongType, <<1, Result>>),
            Combine("add", PointerTo(Node.ty))>>
  <2>1. Does("address") /\ Node.type = "subscript" /\ Becomes(work)
    BY <1>3 DEF SubscriptAddress, Visits, Node
  <2>2. Fit(fn, s) /\ Node \in NodesOf[fn] =>
           \A r \in {"none", "value"} : Chain(fn, Plains(func, in), work, Ex(s, <<>>), Ex(s, <<r>>))
    BY <2>1, SubscriptWork
  <2>. HIDE DEF work
  <2> QED
    BY <2>1, <2>2, AddressBecomes
<1>4. CASE FieldAddress
  <2> DEFINE work == <<Address(Node.left), ConstOf(Node.left.ty.members[Node.member].offset, LongType),
            Combine("add", PointerTo(Node.ty))>>
  <2>1. Does("address") /\ Node.type = "field" /\ Becomes(work)
    BY <1>4 DEF FieldAddress, Visits, Node
  <2>2. Fit(fn, s) /\ Node \in NodesOf[fn] =>
           \A r \in {"none", "value"} : Chain(fn, Plains(func, in), work, Ex(s, <<>>), Ex(s, <<r>>))
    BY <2>1, FieldWork
  <2>. HIDE DEF work
  <2> QED
    BY <2>1, <2>2, AddressBecomes
<1> QED
  BY <1>1, <1>2, <1>3, <1>4

(* A void call is handed on by no operator but a cast or a comma. *)
LEMMA ExpressionsOn ==
  ASSUME NEW fn \in AllFunctions, NEW in, NEW at, NEW s, Under(fn, in, at, s),
         LiteralValue \/ ObjectValue \/ SizeOfValue \/ AddressOfValue \/ AssignValue \/ AssignStruct \/ CastValue
           \/ UnaryValue \/ StepValue \/ CommaValue \/ BinaryValue
  PROVE  Onward(fn)
<1> DEFINE P == Plains(func, in)
<1>0. KindsOf(Node) \subseteq {"none", "value"}
  BY KindsFacts
<1>1. CASE LiteralValue
  <2>1. Does("value") /\ Becomes(<<ConstOf(Node.value, Node.ty)>>)
    BY <1>1 DEF LiteralValue, Visits
  <2>2. Fit(fn, s) => \A r \in KindsOf(Node) : Chain(fn, P, <<ConstOf(Node.value, Node.ty)>>, Ex(s, <<>>), Ex(s, <<r>>))
    BY <1>0, LiteralWork
  <2> QED
    BY <2>1, <2>2, ValueBecomes
<1>2. CASE ObjectValue
  <2> DEFINE work == <<Address(Node)>> \o IF IsAggregate(Node.ty) THEN <<>> ELSE <<Load(Node.ty)>>
  <2>1. Does("value") /\ Becomes(work)
    BY <1>2 DEF ObjectValue
  <2>2. Fit(fn, s) /\ Node \in NodesOf[fn] => \A r \in KindsOf(Node) : Chain(fn, P, work, Ex(s, <<>>), Ex(s, <<r>>))
    BY <1>0, ObjectWork
  <2>. HIDE DEF work
  <2> QED
    BY <2>1, <2>2, ValueBecomes
<1>3. CASE SizeOfValue
  <2>1. Does("value") /\ Becomes(<<ConstOf(Node.ty.size, ULongType)>>)
    BY <1>3 DEF SizeOfValue, Visits
  <2>2. Fit(fn, s) => \A r \in KindsOf(Node) : Chain(fn, P, <<ConstOf(Node.ty.size, ULongType)>>, Ex(s, <<>>), Ex(s, <<r>>))
    BY <1>0, LiteralWork
  <2> QED
    BY <2>1, <2>2, ValueBecomes
<1>4. CASE AddressOfValue
  <2>1. Does("value") /\ Node.type = "address" /\ Becomes(<<Address(Node.left)>>)
    BY <1>4 DEF AddressOfValue, Visits, Node
  <2>2. Fit(fn, s) /\ Node \in NodesOf[fn] =>
          \A r \in KindsOf(Node) : Chain(fn, P, <<Address(Node.left)>>, Ex(s, <<>>), Ex(s, <<r>>))
    BY <1>0, <2>1, AddressWork, NodeFacts, BeneathFacts
  <2> QED
    BY <2>1, <2>2, ValueBecomes
<1>5. CASE AssignValue
  <2>1. Does("value") /\ Node.type = "assign" /\ Becomes(Assigned(Node))
    BY <1>5 DEF AssignValue, Visits, Node
  <2> QED
    BY <1>0, <2>1, AssignWork, ValueBecomes
<1>6. CASE AssignStruct
  <2> DEFINE w == <<Value(Node.right), Address(Node.left), Appending("store", 2, <<2, 1>>, VoidType, << 2 >>)>>
             v == <<Address(Node.right), Address(Node.left),
                    [Appending("memcpy", 2, <<2, 1>>, VoidType, << 2 >>) EXCEPT !.imm = Node.left.ty.size]>>
  <2>1. Does("value") /\ Node.type = "assign" /\ (Becomes(w) \/ Becomes(v))
    BY <1>6 DEF AssignStruct, Visits, Node
  <2>2. Fit(fn, s) /\ Node \in NodesOf[fn] =>
          \A r \in KindsOf(Node) : Chain(fn, P, w, Ex(s, <<>>), Ex(s, <<r>>)) /\ Chain(fn, P, v, Ex(s, <<>>), Ex(s, <<r>>))
    BY <1>0, <2>1, AssignWork
  <2>. HIDE DEF w, v
  <2> QED
    BY <2>1, <2>2, ValueBecomes
<1>7. CASE CastValue
  <2> DEFINE work == <<Value(Node.left)>> \o
          IF Node.ty = Node.left.ty THEN <<>> ELSE <<Appending("cast", 1, << 1 >>, Node.ty, <<Result>>)>>
  <2>1. Does("value") /\ Node.type = "cast" /\ Becomes(work)
    BY <1>7 DEF CastValue, Visits, Node
  <2>2. Fit(fn, s) /\ Node \in NodesOf[fn] => \A r \in KindsOf(Node) : Chain(fn, P, work, Ex(s, <<>>), Ex(s, <<r>>))
    BY <2>1, CastWork
  <2>. HIDE DEF work
  <2> QED
    BY <2>1, <2>2, ValueBecomes
<1>8. CASE UnaryValue
  <2> DEFINE work == <<Value(Node.left), Appending(Node.op, 1, << 1 >>, Node.ty, <<Result>>)>>
  <2>1. Does("value") /\ Node.type = "unary" /\ Becomes(work)
    BY <1>8 DEF UnaryValue, Visits, Node
  <2>2. Fit(fn, s) /\ Node \in NodesOf[fn] => \A r \in KindsOf(Node) : Chain(fn, P, work, Ex(s, <<>>), Ex(s, <<r>>))
    BY <1>0, <2>1, UnaryWork
  <2>. HIDE DEF work
  <2> QED
    BY <2>1, <2>2, ValueBecomes
<1>9. CASE StepValue
  <2> DEFINE work == <<Address(Node.left),
            Appending("load", 1, << 1 >>, Node.ty, <<1, Result>>),
            ConstOf(StepOf(Node.ty), Node.ty),
            Appending(Node.op, 3, <<2, 3>>, Node.ty, <<1, 2, Result>>),
            Appending("store", 3, <<1, 3>>, VoidType, IF Node.prefix THEN << 3 >> ELSE << 2 >>)>>
  <2>1. Does("value") /\ Node.type = "step" /\ Becomes(work)
    BY <1>9 DEF StepValue, Visits, Node
  <2>2. Fit(fn, s) /\ Node \in NodesOf[fn] => \A r \in KindsOf(Node) : Chain(fn, P, work, Ex(s, <<>>), Ex(s, <<r>>))
    BY <1>0, <2>1, StepWork
  <2>. HIDE DEF work
  <2> QED
    BY <2>1, <2>2, ValueBecomes
<1>10. CASE CommaValue
  <2> DEFINE work == <<Value(Node.left), Forget, Value(Node.right)>>
  <2>1. Does("value") /\ Node.type = "comma" /\ Becomes(work)
    BY <1>10 DEF CommaValue, Visits, Node
  <2>2. Fit(fn, s) /\ Node \in NodesOf[fn] => \A r \in KindsOf(Node) : Chain(fn, P, work, Ex(s, <<>>), Ex(s, <<r>>))
    BY <2>1, CommaWork
  <2>. HIDE DEF work
  <2> QED
    BY <2>1, <2>2, ValueBecomes
<1>11. CASE BinaryValue
  <2> DEFINE work == <<Value(Node.left), Value(Node.right)>> \o Operation(Node)
  <2>1. Does("value") /\ Node.type = "binary" /\ Becomes(work)
    BY <1>11 DEF BinaryValue, Visits, Node
  <2>2. Fit(fn, s) /\ Node \in NodesOf[fn] => \A r \in KindsOf(Node) : Chain(fn, P, work, Ex(s, <<>>), Ex(s, <<r>>))
    BY <1>0, <2>1, OperationWork
  <2>. HIDE DEF work
  <2> QED
    BY <2>1, <2>2, ValueBecomes
<1> QED
  BY <1>1, <1>2, <1>3, <1>4, <1>5, <1>6, <1>7, <1>8, <1>9, <1>10, <1>11

(* A call of a function by name. *)
LEMMA DirectCallOn ==
  ASSUME NEW fn \in AllFunctions, NEW in, NEW at, NEW s, Under(fn, in, at, s), DirectCall
  PROVE  Onward(fn)
<1> DEFINE P == Plains(func, in)
           work == <<GlobalOf(Node.sym)>> \o ArgumentsAndCall(Node)
<1>1. Does("value") /\ Node.type = "call" /\ Becomes(work)
  BY DEF DirectCall, Visits, Node
<1>2. ASSUME Fit(fn, s), Node \in NodesOf[fn], NEW r \in KindsOf(Node)
      PROVE  Chain(fn, P, work, Ex(s, <<>>), Ex(s, <<r>>))
  <2>1. Chain(fn, P, <<GlobalOf(Node.sym)>>, Ex(s, <<>>), Ex(s, <<"value">>))
    BY <1>2, GlobalWork
  <2>2. Chain(fn, P, ArgumentsAndCall(Node), Ex(s, <<"value">>), Ex(s, <<r>>))
    BY <1>1, <1>2, CallWork
  <2> QED
    BY <2>1, <2>2, ChainJoin
<1>. HIDE DEF work
<1> QED
  BY <1>1, <1>2, ValueBecomes

-----------------------------------------------------------------------------
(* Statements that become other work                                       *)

(* The shapes a statement leads between. *)
Stated(fn, s, u) ==
  /\ s = St(s.left, s.due) /\ Placed(fn, Node, s.left, s.due)
  /\ u = St(s.left \ MarksIn(Node), s.due)

(* The statement that is next, and the marks it uses. *)
LEMMA StatementFacts ==
  ASSUME NEW fn \in AllFunctions, NEW in, NEW at, NEW s, Under(fn, in, at, s), NEW B, NEW u,
         Step(fn, B, Head(todo), s, u), Head(todo).do = "statement"
  PROVE  Stated(fn, s, u)
<1>1. IsShape(s)
  BY DEF Under, Laid
<1>2. StatementStep(fn, Head(todo), s, u)
  BY StepIs
<1>3. s = St(s.left, s.due)
  BY <1>1, <1>2 DEF StatementStep, IsShape, St
<1>4. Placed(fn, Node, s.left, s.due)
  BY <1>1, <1>2 DEF StatementStep, Placed, Plain, Ready, IsShape, Node
<1>5. u = St(s.left \ MarksIn(Node), s.due)
  BY <1>2 DEF StatementStep, St, Node
<1> QED
  BY <1>3, <1>4, <1>5 DEF Stated

(* A statement leads on if its work does. *)
LEMMA StatementBecomes ==
  ASSUME NEW fn \in AllFunctions, NEW in, NEW at, NEW s, Under(fn, in, at, s), Does("statement"), NEW work, Becomes(work),
         Placed(fn, Node, s.left, s.due) =>
           Chain(fn, Plains(func, in), work, St(s.left, s.due), St(s.left \ MarksIn(Node), s.due))
  PROVE  Onward(fn)
<1>1. todo # <<>> /\ Head(todo).do = "statement"
  BY DEF Does
<1>2. ASSUME NEW u, Step(fn, Plains(func, in), Head(todo), s, u) PROVE Chain(fn, Plains(func, in), work, s, u)
  <2>1. Stated(fn, s, u)
    BY <1>1, <1>2, StatementFacts
  <2> QED
    BY <2>1 DEF Stated
<1> QED
  BY <1>1, <1>2, BecomesHolds

(* block_terminated says what the shape says. *)
LEMMA OpenNotTerminated ==
  ASSUME NEW fn, NEW in, NEW at, NEW s, Under(fn, in, at, s)
  PROVE  /\ s.open = TRUE => ~ Terminated
         /\ s.open = FALSE => Terminated
         /\ block \in DOMAIN func.code /\ Sound(func, in)
<1>1. /\ block \in DOMAIN func.code /\ Sound(func, in)
      /\ s.open = TRUE => Open(func.code[block])
      /\ s.open = FALSE => IsFinished(func.code[block])
  BY DEF Under, Laid, Standing, Blocks
<1> DEFINE c == func.code[block]
<1>2. Len(c) \in Nat /\ DOMAIN c = 1 .. Len(c) /\ (c # <<>> => Len(c) >= 1) /\ Last(c) = c[Len(c)]
  <2>1. IsSeq(c)
    BY <1>1 DEF Open, IsFinished, Sound, Coded, Fine, IsBlock
  <2> QED
    BY <2>1, SeqFacts DEF Last
<1>. HIDE DEF c
<1>3. s.open = TRUE => ~ Terminated
  <2>1. s.open = TRUE /\ c # <<>> => ~ IsTerminator(c[Len(c)].op)
    BY <1>1, <1>2 DEF Open, c
  <2> QED
    BY <1>2, <2>1 DEF Terminated, c
<1>4. s.open = FALSE => Terminated
  <2>1. s.open = FALSE => c # <<>> /\ IsTerminator(c[Len(c)].op)
    BY <1>1, <1>2 DEF IsFinished, c
  <2> QED
    BY <1>2, <2>1 DEF Terminated, c
<1> QED
  BY <1>1, <1>3, <1>4

(* The targets of break and continue are blocks with the slots on entry. *)
LEMMA LastLoop ==
  ASSUME NEW fn, NEW in, NEW at, NEW s, Under(fn, in, at, s), loops # <<>>
  PROVE  Last(loops).onBreak \in Plains(func, in) /\ Last(loops).onContinue \in Plains(func, in)
<1>1. IsSeq(loops) /\ \A k \in DOMAIN loops : loops[k].onBreak \in Plains(func, in) /\ loops[k].onContinue \in Plains(func, in)
  BY DEF Under, Tables
<1>2. Len(loops) \in DOMAIN loops /\ Last(loops) = loops[Len(loops)]
  BY <1>1, SeqFacts DEF Last
<1> QED
  BY <1>1, <1>2

(* The statements that make no block and take no slot. *)
LEMMA StatementsOn ==
  ASSUME NEW fn \in AllFunctions, NEW in, NEW at, NEW s, Under(fn, in, at, s),
         Sequence \/ EmptyStatement \/ ExpressionStatement \/ BreakStatement \/ ContinueStatement
  PROVE  Onward(fn)
<1> DEFINE P == Plains(func, in)
           Does2(work) == Chain(fn, P, work, St(s.left, s.due), St(s.left \ MarksIn(Node), s.due))
<1>1. CASE Sequence
  <2> DEFINE work == [k \in DOMAIN Node.body |-> Statement(Node.body[k])]
  <2>1. Does("statement") /\ Node.type = "block" /\ Becomes(work)
    BY <1>1 DEF Sequence, Visits, Node
  <2>2. Placed(fn, Node, s.left, s.due) => Does2(work)
    BY <2>1, SequenceWork
  <2>. HIDE DEF work
  <2> QED
    BY <2>1, <2>2, StatementBecomes
<1>2. CASE EmptyStatement
  <2>1. Does("statement") /\ Node.type = "nothing" /\ Becomes(<<>>)
    BY <1>2 DEF EmptyStatement, Visits, Node
  <2>2. Placed(fn, Node, s.left, s.due) => Does2(<<>>)
    <3>1. Placed(fn, Node, s.left, s.due) => s.left \ MarksIn(Node) = s.left
      BY <2>1, LeafPlaced
    <3>2. Chain(fn, P, <<>>, St(s.left, s.due), St(s.left, s.due))
      BY ChainEmpty
    <3> QED
      BY <3>1, <3>2
  <2> QED
    BY <2>1, <2>2, StatementBecomes
<1>3. CASE ExpressionStatement
  <2> DEFINE work == <<Value(Node.left), Forget>>
  <2>1. Does("statement") /\ Node.type = "expression" /\ Becomes(work)
    BY <1>3 DEF ExpressionStatement, Visits, Node
  <2>2. Placed(fn, Node, s.left, s.due) => Does2(work)
    BY <2>1, ExpressionWork
  <2>. HIDE DEF work
  <2> QED
    BY <2>1, <2>2, StatementBecomes
<1>4. CASE BreakStatement
  <2> DEFINE work == <<JumpTo(Last(loops).onBreak), OpenNew>>
  <2>1. Does("statement") /\ Node.type = "break" /\ Becomes(work) /\ loops # <<>>
    BY <1>4 DEF BreakStatement, Visits, Node
  <2>2. Placed(fn, Node, s.left, s.due) => Does2(work)
    BY <2>1, LeaveWork, LastLoop
  <2>. HIDE DEF work
  <2> QED
    BY <2>1, <2>2, StatementBecomes
<1>5. CASE ContinueStatement
  <2> DEFINE work == <<JumpTo(Last(loops).onContinue), OpenNew>>
  <2>1. Does("statement") /\ Node.type = "continue" /\ Becomes(work) /\ loops # <<>>
    BY <1>5 DEF ContinueStatement, Visits, Node
  <2>2. Placed(fn, Node, s.left, s.due) => Does2(work)
    BY <2>1, LeaveWork, LastLoop
  <2>. HIDE DEF work
  <2> QED
    BY <2>1, <2>2, StatementBecomes
<1> QED
  BY <1>1, <1>2, <1>3, <1>4, <1>5

(* The statement that is next, in the shapes of its own. *)
LEMMA StatementAhead ==
  ASSUME NEW fn \in AllFunctions, NEW in, NEW at, NEW s, Under(fn, in, at, s), Does("statement")
  PROVE  s = St(s.left, s.due) /\ Placed(fn, Node, s.left, s.due) /\ Plain(s.due)
<1>1. todo # <<>> /\ Head(todo).do = "statement"
  BY DEF Does
<1>2. Chain(fn, Plains(func, in), todo, s, St({}, {}))
  BY DEF Under
<1>3. PICK u : Step(fn, Plains(func, in), Head(todo), s, u)
  BY <1>1, <1>2, ChainHead
<1>4. Stated(fn, s, u)
  BY <1>1, <1>3, StatementFacts
<1> QED
  BY <1>4 DEF Stated, Placed

(* A return, with a value or without one. *)
LEMMA ReturnStatementOn ==
  ASSUME NEW fn \in AllFunctions, NEW in, NEW at, NEW s, Under(fn, in, at, s), ReturnStatement
  PROVE  Onward(fn)
<1> DEFINE work == <<Value(Node.left), EmitReturn, OpenNew>>
<1>1. Does("statement") /\ Node.type = "return"
  BY DEF ReturnStatement, Visits, Node
<1>2. s.open = TRUE
  <2>1. s = St(s.left, s.due)
    BY <1>1, StatementAhead
  <2> QED
    BY <2>1 DEF St, Sh
<1>3. Becomes(work)
  BY <1>2, OpenNotTerminated DEF ReturnStatement
<1>4. Placed(fn, Node, s.left, s.due) =>
        Chain(fn, Plains(func, in), work, St(s.left, s.due), St(s.left \ MarksIn(Node), s.due))
  BY <1>1, ReturnWork
<1>. HIDE DEF work
<1> QED
  BY <1>1, <1>3, <1>4, StatementBecomes

-----------------------------------------------------------------------------
(* Blocks that are made and blocks that are reached                        *)

(* A label or case is reached: its block is to be opened. *)
Reached(f, b, vs, in, at, s, x, t) ==
  /\ Laid(f, b, vs, in, Unmarked(at, x), t)
  /\ at[x] \in Plains(f, in) /\ at[x] \in Nat /\ at[x] \notin DueBlocks(s.due)

(* A block has the slots at its end, and has only values. *)
LEMMA SlotsHad ==
  ASSUME NEW f, NEW in, Sound(f, in), NEW b \in DOMAIN f.code
  PROVE  /\ Slots(f) \subseteq Had(f, in, b) /\ Had(f, in, b) \subseteq 1 .. f.values
         /\ Slots(f) \subseteq 1 .. f.values /\ f.values \in Nat
<1>1. Had(f, in, b) \subseteq 1 .. f.values /\ f.values \in Nat
  BY SoundFacts
<1>2. Allocas(f.code[EntryBlock]) \subseteq Had(f, in, b)
  BY SoundFacts
<1> QED
  BY <1>1, <1>2 DEF Slots

(* The block of a label or case becomes due when it is come to. *)
LEMMA LaidReach ==
  ASSUME NEW f, NEW b, NEW vs, NEW in, NEW at, NEW s, Laid(f, b, vs, in, at, s), NEW x \in DOMAIN at,
         NEW t, NEW left, t = Sh(s.stack, s.open, s.cases, left, DueToo(s.due, at[x]))
  PROVE  Reached(f, b, vs, in, at, s, x, t)
<1> DEFINE n == at[x]
<1>1. IsShape(s) /\ Standing(f, b, in, at, s.open, s.due) /\ Values(f, b, vs, in, s.stack, s.due)
  BY DEF Laid
<1>2. Slots(f) \subseteq Had(f, in, b)
  BY <1>1, SlotsHad DEF Standing, Blocks
<1>3. Standing(f, b, in, Unmarked(at, x), s.open, s.due \cup {<<n, 0>>})
  BY <1>1, <1>2, StandingReach
<1>4. n \in Plains(f, in) /\ n \in Nat /\ n \notin DueBlocks(s.due)
  BY <1>1, <1>2, StandingReach
<1>. HIDE DEF n
<1>5. t.stack = s.stack /\ t.open = s.open /\ t.due = s.due \cup {<<n, 0>>}
      /\ t = Sh(t.stack, t.open, t.cases, t.left, t.due)
  BY DEF Sh, DueToo, n
<1>6. IsShape(t)
  BY <1>1, <1>3, <1>5 DEF IsShape, Standing
<1>7. Values(f, b, vs, in, t.stack, t.due)
  <2>1. \A d \in t.due : d \in s.due \/ d = <<n, 0>>
    BY <1>5
  <2>2. <<n, 0>>[2] = 0
    OBVIOUS
  <2>3. \A k \in DOMAIN vs : k \in Nat /\ ~ (k < 0)
    BY <1>1, SeqFacts DEF Values
  <2> QED
    BY <1>1, <1>5, <2>1, <2>2, <2>3 DEF Values
<1>8. Laid(f, b, vs, in, Unmarked(at, x), t)
  BY <1>3, <1>5, <1>6, <1>7 DEF Laid
<1> QED
  BY <1>4, <1>8 DEF Reached, n

(* A block more, the function otherwise what it was. *)
Roomier(f, in, g, out, n) ==
  /\ More(f, in, g, out) /\ n \in Nat /\ n # EntryBlock /\ n \notin Plains(f, in) /\ n \notin DOMAIN f.code
  /\ LastBlock(g) = n /\ Slots(g) = Slots(f) /\ g.values = f.values
  /\ n = LastBlock(f) + 1

(* A block is laid out behind the others. *)
LEMMA NewBlockLast ==
  ASSUME NEW f, NEW in, Sound(f, in)
  PROVE  /\ LastBlock(f) \in Nat /\ LastBlock(NewBlock(f)) = LastBlock(f) + 1
         /\ NewBlock(f).values = f.values /\ NewBlock(f).code[LastBlock(f) + 1] = <<>>
         /\ DOMAIN f.code = 1 .. LastBlock(f) /\ LastBlock(f) >= 1
<1>1. DOMAIN f = {"code", "values"} /\ IsSeq(f.code) /\ f.code # <<>>
  BY DEF Sound
<1>2. Len(f.code) \in Nat /\ DOMAIN f.code = 1 .. Len(f.code) /\ Len(f.code) >= 1
  BY <1>1, SeqFacts
<1>3. NewBlock(f).code = Append(f.code, <<>>) /\ NewBlock(f).values = f.values
  BY <1>1 DEF NewBlock
<1>4. Len(Append(f.code, <<>>)) = Len(f.code) + 1 /\ Append(f.code, <<>>)[Len(f.code) + 1] = <<>>
  BY <1>1, Appended
<1> QED
  BY <1>2, <1>3, <1>4 DEF LastBlock

(* A function with a block more is otherwise what it was. *)
LEMMA WidenedRoomier ==
  ASSUME NEW f, NEW in, NEW S, NEW out, Sound(f, in),
         Widened(f, in, S, NewBlock(f), out, LastBlock(f) + 1)
  PROVE  Roomier(f, in, NewBlock(f), out, LastBlock(f) + 1)
<1> DEFINE g == NewBlock(f)
           n == LastBlock(f) + 1
<1>1. LastBlock(g) = n /\ g.values = f.values
  BY NewBlockLast
<1>. HIDE DEF g, n
<1>2. Widened(f, in, S, g, out, n)
  BY DEF g, n
<1>3. Plains(f, in) \subseteq Plains(g, out) /\ n \notin Plains(f, in)
  BY <1>2, WidenedPlains
<1>4. Slots(g) = Slots(f) /\ n \in Nat /\ n # EntryBlock /\ n \notin DOMAIN f.code
  BY <1>2 DEF Widened
<1>5. Roomier(f, in, g, out, n)
  BY <1>1, <1>3, <1>4 DEF Roomier, More, n
<1> QED
  BY <1>5 DEF g, n

(* A block that is to be opened later, with only the slots on entry. *)
DueLaid(f, b, vs, in, at, s, g, out, n, t) ==
  /\ Laid(g, b, vs, out, at, t) /\ Roomier(f, in, g, out, n)
  /\ n \in Plains(g, out) /\ n \notin DueBlocks(s.due)

(* The blocks of a statement become due with it. *)
LEMMA LaidDue ==
  ASSUME NEW f, NEW b, NEW vs, NEW in, NEW at, NEW s, Laid(f, b, vs, in, at, s),
         NEW t, NEW left, t = Sh(s.stack, s.open, s.cases, left, DueToo(s.due, LastBlock(f) + 1))
  PROVE  DueLaid(f, b, vs, in, at, s, NewBlock(f), With(in, Slots(f)), LastBlock(f) + 1, t)
<1> DEFINE g == NewBlock(f)
           n == LastBlock(f) + 1
           out == With(in, Slots(f))
           S == Slots(f)
<1>1. IsShape(s) /\ Standing(f, b, in, at, s.open, s.due) /\ Values(f, b, vs, in, s.stack, s.due)
  BY DEF Laid
<1>2. Sound(f, in) /\ b \in DOMAIN f.code
  BY <1>1 DEF Standing, Blocks
<1>3. S \subseteq Had(f, in, b) /\ S \subseteq 1 .. f.values
  BY <1>2, SlotsHad
<1>4. Widened(f, in, S, g, out, n)
  BY <1>2, <1>3, BlockWidens
<1>5. Roomier(f, in, g, out, n)
  BY <1>2, <1>4, WidenedRoomier
<1>. HIDE DEF g, n, out
<1>6. n \in Plains(g, out)
  BY <1>4, WidenedPlains
<1>7. n \notin DueBlocks(s.due)
  BY <1>1, <1>5 DEF Standing, Blocks, Pending, Roomier
<1>8. Standing(g, b, out, at, s.open, s.due \cup {<<n, 0>>})
  <2>1. ASSUME NEW e \in s.due
        PROVE  (e[2] <= 0 => in[e[1]] \subseteq S) /\ S \subseteq in[e[1]]
    <3>1. e[2] \in Nat /\ (e[2] = 0 => in[e[1]] = S)
      BY <1>1 DEF Standing, DueFit, IsDue
    <3>2. e[1] \in DOMAIN f.code /\ e[1] # EntryBlock
      BY <1>1, DueBlocksFacts DEF Standing, Blocks, Pending
    <3>3. S \subseteq in[e[1]]
      BY <1>2, <3>2 DEF Sound, Slots
    <3> QED
      BY <3>1, <3>3
  <2>. HIDE DEF S
  <2> QED
    BY <1>1, <1>3, <1>4, <2>1, StandingDue DEF S
<1>9. t.stack = s.stack /\ t.open = s.open /\ t.due = s.due \cup {<<n, 0>>}
      /\ t = Sh(t.stack, t.open, t.cases, t.left, t.due)
  BY DEF Sh, DueToo, n
<1>10. IsShape(t)
  BY <1>1, <1>8, <1>9 DEF IsShape, Standing
<1>11. Values(g, b, vs, out, t.stack, t.due)
  <2>1. Len(vs) \in Nat /\ DOMAIN vs = 1 .. Len(vs) /\ IsSeq(vs) /\ DOMAIN vs = DOMAIN s.stack
    BY <1>1, SeqFacts DEF Values
  <2>2. ASSUME NEW d \in t.due
        PROVE  d[2] \in Nat /\ d[2] <= Len(vs) + d[2] + 1 /\ (d[2] = 0 \/ (d \in s.due /\ out[d[1]] = in[d[1]]))
    <3>1. CASE d \in s.due
      <4>1. d[2] \in Nat
        BY <1>1, <3>1 DEF Standing, IsDue
      <4>2. d[1] \in DOMAIN f.code
        BY <1>1, <3>1, DueBlocksFacts DEF Standing, Blocks, Pending
      <4>3. out[d[1]] = in[d[1]]
        BY <1>4, <4>2 DEF Widened
      <4> QED
        BY <2>1, <3>1, <4>1, <4>3
    <3>2. CASE d = <<n, 0>>
      BY <2>1, <3>2
    <3> QED
      BY <1>9, <3>1, <3>2
  <2>3. Slots(g) = Slots(f) /\ Had(g, out, b) = Had(f, in, b)
    BY <1>2, <1>4 DEF Widened
  <2>4. \A k \in DOMAIN vs : k \in Nat /\ ~ (k < 0)
    BY <2>1
  <2> QED
    BY <1>1, <1>9, <2>2, <2>3, <2>4 DEF Values
<1>12. Laid(g, b, vs, out, at, t)
  BY <1>8, <1>9, <1>10, <1>11 DEF Laid
<1>13. DueLaid(f, b, vs, in, at, s, g, out, n, t)
  BY <1>5, <1>6, <1>7, <1>12 DEF DueLaid
<1> QED
  BY <1>13 DEF g, n, out

(* A block for a label or case that is not reached yet. *)
MarkLaid(f, b, vs, in, at, s, x, g, out, n, t) ==
  /\ Laid(g, b, vs, out, Marked(at, x, n), t) /\ Roomier(f, in, g, out, n) /\ n \in Plains(g, out)

(* A label or case that is mentioned first gets its block. *)
LEMMA LaidMark ==
  ASSUME NEW f, NEW b, NEW vs, NEW in, NEW at, NEW s, Laid(f, b, vs, in, at, s), NEW x, x \notin DOMAIN at,
         NEW t, NEW left, t = Sh(s.stack, s.open, s.cases, left, s.due)
  PROVE  MarkLaid(f, b, vs, in, at, s, x, NewBlock(f), With(in, Slots(f)), LastBlock(f) + 1, t)
<1> DEFINE g == NewBlock(f)
           n == LastBlock(f) + 1
           out == With(in, Slots(f))
           S == Slots(f)
<1>1. IsShape(s) /\ Standing(f, b, in, at, s.open, s.due) /\ Values(f, b, vs, in, s.stack, s.due)
  BY DEF Laid
<1>2. Sound(f, in) /\ b \in DOMAIN f.code
  BY <1>1 DEF Standing, Blocks
<1>3. S \subseteq Had(f, in, b) /\ S \subseteq 1 .. f.values
  BY <1>2, SlotsHad
<1>4. Widened(f, in, S, g, out, n)
  BY <1>2, <1>3, BlockWidens
<1>5. Roomier(f, in, g, out, n)
  BY <1>2, <1>4, WidenedRoomier
<1>. HIDE DEF g, n, out
<1>6. n \in Plains(g, out)
  BY <1>4, WidenedPlains
<1>7. Standing(g, b, out, Marked(at, x, n), s.open, s.due)
  BY <1>1, <1>4, StandingMark
<1>8. t.stack = s.stack /\ t.open = s.open /\ t.due = s.due
      /\ t = Sh(t.stack, t.open, t.cases, t.left, t.due)
  BY DEF Sh
<1>9. IsShape(t)
  BY <1>1, <1>8 DEF IsShape
<1>10. Values(g, b, vs, out, t.stack, t.due)
  <2>1. Slots(g) = Slots(f) /\ Had(g, out, b) = Had(f, in, b)
    BY <1>2, <1>4 DEF Widened
  <2>2. \A d \in s.due : out[d[1]] = in[d[1]]
    BY <1>1, <1>4, DueBlocksFacts DEF Standing, Blocks, Pending, Widened
  <2> QED
    BY <1>1, <1>8, <2>1, <2>2 DEF Values
<1>11. MarkLaid(f, b, vs, in, at, s, x, g, out, n, t)
  BY <1>5, <1>6, <1>7, <1>8, <1>9, <1>10 DEF MarkLaid, Laid
<1> QED
  BY <1>11 DEF g, n, out

-----------------------------------------------------------------------------
(* Statements that make blocks                                             *)

DueOf(L, N) == {<<L + k, 0>> : k \in 1 .. N}

(* N blocks that are due. *)
LEMMA DueOfFacts ==
  ASSUME NEW L \in Nat, NEW N \in Nat
  PROVE  DueOf(L, 0) = {} /\ DueOf(L, N + 1) = DueOf(L, N) \cup {<<L + N + 1, 0>>}
BY DEF DueOf

(* N blocks more, to be opened later. *)
Rooms(f, b, vs, in, at, s, g, N, out) ==
  /\ Laid(g, b, vs, out, at, Sh(s.stack, s.open, s.cases, s.left, s.due \cup DueOf(LastBlock(f), N)))
  /\ More(f, in, g, out) /\ LastBlock(f) \in Nat /\ LastBlock(g) = LastBlock(f) + N
  /\ \A k \in 1 .. N : /\ LastBlock(f) + k \in Plains(g, out)
                       /\ LastBlock(f) + k \notin DueBlocks(s.due)

(* A function laid at a shape is sound. *)
LEMMA LaidSound ==
  ASSUME NEW f, NEW b, NEW vs, NEW in, NEW at, NEW s, Laid(f, b, vs, in, at, s)
  PROVE  Sound(f, in) /\ b \in DOMAIN f.code /\ IsShape(s)
BY DEF Laid, Standing, Blocks

(* No blocks are made, *)
LEMMA NoRooms ==
  ASSUME NEW f, NEW b, NEW vs, NEW in, NEW at, NEW s, Laid(f, b, vs, in, at, s)
  PROVE  Rooms(f, b, vs, in, at, s, f, 0, in)
<1>1. LastBlock(f) \in Nat
  BY LaidSound, NewBlockLast
<1>2. s.due \cup DueOf(LastBlock(f), 0) = s.due
  BY <1>1, DueOfFacts
<1>3. s = Sh(s.stack, s.open, s.cases, s.left, s.due)
  BY DEF Laid, IsShape
<1>4. Laid(f, b, vs, in, at, Sh(s.stack, s.open, s.cases, s.left, s.due \cup DueOf(LastBlock(f), 0)))
  BY <1>2, <1>3
<1> QED
  BY <1>1, <1>4 DEF Rooms, More

(* or one more than before. *)
LEMMA RoomMore ==
  ASSUME NEW f, NEW b, NEW vs, NEW in, NEW at, NEW s, NEW g, NEW N \in Nat, NEW out, Rooms(f, b, vs, in, at, s, g, N, out)
  PROVE  Rooms(f, b, vs, in, at, s, NewBlock(g), N + 1, With(out, Slots(g)))
<1> DEFINE L == LastBlock(f)
           D == s.due \cup DueOf(L, N)
           t == Sh(s.stack, s.open, s.cases, s.left, D)
           h == NewBlock(g)
           more == With(out, Slots(g))
           n == LastBlock(g) + 1
           E == s.due \cup DueOf(L, N + 1)
           u == Sh(s.stack, s.open, s.cases, s.left, E)
<1>1. /\ Laid(g, b, vs, out, at, t) /\ More(f, in, g, out) /\ L \in Nat /\ LastBlock(g) = L + N
      /\ \A k \in 1 .. N : L + k \in Plains(g, out) /\ L + k \notin DueBlocks(s.due)
  BY DEF Rooms
<1>2. n = L + N + 1
  BY <1>1
<1>3. t.stack = s.stack /\ t.open = s.open /\ t.cases = s.cases /\ t.left = s.left /\ t.due = D
  BY DEF Sh
<1>4. E = DueToo(D, n)
  BY <1>1, <1>2, DueOfFacts DEF DueToo
<1>5. u = Sh(t.stack, t.open, t.cases, s.left, DueToo(t.due, n))
  BY <1>3, <1>4
<1>. HIDE DEF t, u, D, E
<1>6. DueLaid(g, b, vs, out, at, t, h, more, n, u)
  BY <1>1, <1>5, LaidDue
<1>. HIDE DEF h, more, n
<1>7. /\ Laid(h, b, vs, more, at, u) /\ More(g, out, h, more) /\ n \in Plains(h, more)
      /\ n \notin DueBlocks(t.due) /\ LastBlock(h) = n
  BY <1>6 DEF DueLaid, Roomier
<1>8. n \notin DueBlocks(s.due)
  BY <1>3, <1>7 DEF DueBlocks, D
<1>9. More(f, in, h, more) /\ Plains(g, out) \subseteq Plains(h, more)
  BY <1>1, <1>7 DEF More
<1>. HIDE DEF L
<1>10. ASSUME NEW k \in 1 .. N + 1 PROVE L + k \in Plains(h, more) /\ L + k \notin DueBlocks(s.due)
  <2>1. CASE k \in 1 .. N
    BY <1>1, <1>9, <2>1
  <2>2. CASE k = N + 1
    <3>1. L + k = n
      BY <1>1, <1>2, <2>2
    <3> QED
      BY <1>7, <1>8, <3>1
  <2> QED
    BY <2>1, <2>2
<1>11. LastBlock(h) = L + (N + 1)
  BY <1>1, <1>2, <1>7
<1>12. Rooms(f, b, vs, in, at, s, h, N + 1, more)
  BY <1>1, <1>7, <1>9, <1>10, <1>11 DEF Rooms, u, E, L
<1> QED
  BY <1>12 DEF h, more

(* Two, three and four of them. *)
LEMMA RoomsMade ==
  ASSUME NEW f, NEW b, NEW vs, NEW in, NEW at, NEW s, Laid(f, b, vs, in, at, s)
  PROVE  /\ \E out : Rooms(f, b, vs, in, at, s, NewBlock(NewBlock(f)), 2, out)
         /\ \E out : Rooms(f, b, vs, in, at, s, NewBlock(NewBlock(NewBlock(f))), 3, out)
         /\ \E out : Rooms(f, b, vs, in, at, s, NewBlock(NewBlock(NewBlock(NewBlock(f)))), 4, out)
<1>0. Rooms(f, b, vs, in, at, s, f, 0, in)
  BY NoRooms
<1>1. PICK o1 : Rooms(f, b, vs, in, at, s, NewBlock(f), 1, o1)
  <2>1. 0 + 1 = 1
    OBVIOUS
  <2> QED
    BY <1>0, <2>1, RoomMore
<1>2. PICK o2 : Rooms(f, b, vs, in, at, s, NewBlock(NewBlock(f)), 2, o2)
  <2>1. 1 + 1 = 2
    OBVIOUS
  <2> QED
    BY <1>1, <2>1, RoomMore
<1>3. PICK o3 : Rooms(f, b, vs, in, at, s, NewBlock(NewBlock(NewBlock(f))), 3, o3)
  <2>1. 2 + 1 = 3
    OBVIOUS
  <2> QED
    BY <1>2, <2>1, RoomMore
<1>4. PICK o4 : Rooms(f, b, vs, in, at, s, NewBlock(NewBlock(NewBlock(NewBlock(f)))), 4, o4)
  <2>1. 3 + 1 = 4
    OBVIOUS
  <2> QED
    BY <1>3, <2>1, RoomMore
<1> QED
  BY <1>2, <1>3, <1>4

(* The order in which they are listed does not matter. *)
LEMMA DueOfShort ==
  ASSUME NEW D, NEW L \in Nat
  PROVE  /\ D \cup DueOf(L, 2) = DueToo(DueToo(D, L + 2), L + 1)
         /\ D \cup DueOf(L, 3) = DueToo(DueToo(DueToo(D, L + 3), L + 2), L + 1)
         /\ D \cup DueOf(L, 3) = DueToo(DueToo(DueToo(D, L + 3), L + 1), L + 2)
         /\ D \cup DueOf(L, 4) = DueToo(DueToo(DueToo(DueToo(D, L + 4), L + 3), L + 2), L + 1)
         /\ D \cup DueOf(L, 3) = DueToo(DueToo(DueToo(D, L + 3), L + 2), L + 1)
<1>1. DueOf(L, 0) = {}
  BY DueOfFacts
<1>2. DueOf(L, 1) = {<<L + 1, 0>>}
  <2>1. 0 + 1 = 1 /\ L + 0 + 1 = L + 1
    OBVIOUS
  <2> QED
    BY <1>1, <2>1, DueOfFacts
<1>3. DueOf(L, 2) = DueOf(L, 1) \cup {<<L + 2, 0>>}
  <2>1. 1 + 1 = 2 /\ L + 1 + 1 = L + 2
    OBVIOUS
  <2> QED
    BY <2>1, DueOfFacts
<1>4. DueOf(L, 3) = DueOf(L, 2) \cup {<<L + 3, 0>>}
  <2>1. 2 + 1 = 3 /\ L + 2 + 1 = L + 3
    OBVIOUS
  <2> QED
    BY <2>1, DueOfFacts
<1>5. DueOf(L, 4) = DueOf(L, 3) \cup {<<L + 4, 0>>}
  <2>1. 3 + 1 = 4 /\ L + 3 + 1 = L + 4
    OBVIOUS
  <2> QED
    BY <2>1, DueOfFacts
<1> QED
  BY <1>2, <1>3, <1>4, <1>5 DEF DueToo

(* A statement has made blocks and put off what it does. *)
Makes(fn, in, at, s, work, N, out) ==
  /\ Does("statement") /\ Then(work) /\ UNCHANGED <<treeVars, tableVars, block, vals>>
  /\ Rooms(func, block, vals, in, at, s, func', N, out)
  /\ Placed(fn, Node, s.left, s.due) =>
       Chain(fn, Plains(func', out), work, St(s.left, s.due \cup DueOf(LastBlock(func), N)),
             St(s.left \ MarksIn(Node), s.due))

(* A statement that makes blocks leads on if the work it becomes leads     *)
(* through them.                                                           *)
LEMMA MakesHolds ==
  ASSUME NEW fn \in AllFunctions, NEW in, NEW at, NEW s, Under(fn, in, at, s), NEW work, NEW N, NEW out,
         Makes(fn, in, at, s, work, N, out)
  PROVE  Onward(fn)
<1> DEFINE t == St(s.left, s.due \cup DueOf(LastBlock(func), N))
<1>1. block' = block /\ vals' = vals /\ Then(work) /\ todo # <<>> /\ Head(todo).do = "statement"
      /\ loops' = loops /\ labels' = labels /\ slots' = slots /\ caseBlocks' = caseBlocks /\ stamped' = stamped
      /\ cases' = cases /\ defaults' = defaults
  BY DEF Makes, Does, tableVars
<1>2. s = St(s.left, s.due) /\ Placed(fn, Node, s.left, s.due)
  BY StatementAhead DEF Makes
<1>3. t = Sh(s.stack, s.open, s.cases, s.left, s.due \cup DueOf(LastBlock(func), N))
  <2>1. s.stack = <<>> /\ s.open = TRUE /\ s.cases = Idle
    BY <1>2 DEF St, Sh
  <2> QED
    BY <2>1 DEF St
<1>4. t.cases = s.cases /\ t.left = s.left
  BY <1>2 DEF St, Sh
<1>. HIDE DEF t
<1>5. Laid(func', block', vals', out, at, t) /\ More(func, in, func', out)
  BY <1>1, <1>3 DEF Makes, Rooms
<1>6. Tables(fn, Plains(func', out), Slots(func'), at, t.left, loops', labels', slots', caseBlocks', stamped')
  BY <1>1, <1>4, <1>5, TablesMore DEF Under, More
<1>7. Switching(fn, t, Had(func', out, block'), cases', defaults', todo')
  <2>1. Switching(fn, s, Had(func, in, block), cases, defaults, todo)
    BY DEF Under
  <2> QED
    BY <1>1, <1>4, <2>1, SwitchingKept
<1>8. \A u : Step(fn, Plains(func, in), Head(todo), s, u) => Chain(fn, Plains(func', out), work, t, u)
  <2> SUFFICES ASSUME NEW u, Step(fn, Plains(func, in), Head(todo), s, u)
               PROVE  Chain(fn, Plains(func', out), work, t, u)
    OBVIOUS
  <2>1. Stated(fn, s, u)
    BY <1>1, StatementFacts
  <2> QED
    BY <1>2, <2>1 DEF Stated, Makes, t
<1>9. Proceed(fn, in, s, work, out, at, t)
  BY <1>1, <1>5, <1>6, <1>7, <1>8 DEF Proceed
<1>10. UnderNext(fn, out, at, t)
  BY <1>9, Proceeds
<1> QED
  BY <1>10 DEF Onward

(* Blocks made together differ. *)
LEMMA RoomNumbers ==
  ASSUME NEW L \in Nat
  PROVE  /\ L + 1 \in Nat /\ L + 2 \in Nat /\ L + 3 \in Nat /\ L + 4 \in Nat
         /\ L + 1 # L + 2 /\ L + 1 # L + 3 /\ L + 1 # L + 4 /\ L + 2 # L + 3 /\ L + 2 # L + 4 /\ L + 3 # L + 4
OBVIOUS

(* They have the slots on entry, and none was due before. *)
LEMMA RoomsFacts ==
  ASSUME NEW f, NEW b, NEW vs, NEW in, NEW at, NEW s, NEW g, NEW N \in {2, 3, 4}, NEW out, Rooms(f, b, vs, in, at, s, g, N, out)
  PROVE  LET L == LastBlock(f)
         IN /\ L \in Nat /\ LastBlock(g) = L + N
            /\ \A k \in 1 .. N : L + k \in Plains(g, out) /\ L + k \notin DueBlocks(s.due)
BY DEF Rooms

(* if, while, do and for. *)
LEMMA IfOn ==
  ASSUME NEW fn \in AllFunctions, NEW in, NEW at, NEW s, Under(fn, in, at, s), IfStatement
  PROVE  Onward(fn)
<1> DEFINE L == LastBlock(func)
           D == s.due
<1>1. Does("statement") /\ Node.type = "if" /\ UNCHANGED <<treeVars, tableVars, block, vals>>
  BY DEF IfStatement, Visits, Node
<1>2. Laid(func, block, vals, in, at, s)
  BY DEF Under
<1>3. CASE IsNull(Node.else)
  <2> DEFINE w(z) == <<Value(Node.left), BranchTo(L + 1, z), OpenAt(L + 1), Statement(Node.then), JumpTo(z), OpenAt(z)>>
             work == w(L + 2)
  <2>1. func' = NewBlock(NewBlock(func)) /\ Then(w(LastBlock(func')))
    BY <1>3 DEF IfStatement
  <2>2. PICK out : Rooms(func, block, vals, in, at, s, func', 2, out)
    BY <1>2, <2>1, RoomsMade
  <2>3. L \in Nat /\ LastBlock(func') = L + 2
        /\ \A k \in 1 .. 2 : L + k \in Plains(func', out) /\ L + k \notin DueBlocks(D)
    BY <2>2, RoomsFacts
  <2>4. Then(work)
    BY <2>1, <2>3
  <2>5. 1 \in 1 .. 2 /\ 2 \in 1 .. 2
    OBVIOUS
  <2>. HIDE DEF L
  <2>6. L + 1 \in Plains(func', out) /\ L + 2 \in Plains(func', out) /\ L + 1 \notin DueBlocks(D) /\ L + 2 \notin DueBlocks(D)
    BY <2>3, <2>5
  <2>7. Placed(fn, Node, s.left, D) =>
          Chain(fn, Plains(func', out), work, St(s.left, DueToo(DueToo(D, L + 2), L + 1)), St(s.left \ MarksIn(Node), D))
    BY <1>1, <1>3, <2>3, <2>6, RoomNumbers, IfWork
  <2>8. D \cup DueOf(L, 2) = DueToo(DueToo(D, L + 2), L + 1)
    BY <2>3, DueOfShort
  <2>. HIDE DEF work
  <2>9. Makes(fn, in, at, s, work, 2, out)
    BY <1>1, <2>2, <2>4, <2>7, <2>8 DEF Makes, L
  <2> QED
    BY <2>9, MakesHolds
<1>4. CASE ~ IsNull(Node.else)
  <2> DEFINE w(z) == <<Value(Node.left), BranchTo(L + 1, L + 2), OpenAt(L + 1), Statement(Node.then), JumpTo(z),
                         OpenAt(L + 2), Statement(Node.else), JumpTo(z), OpenAt(z)>>
             work == w(L + 3)
  <2>1. func' = NewBlock(NewBlock(NewBlock(func))) /\ Then(w(LastBlock(func')))
    BY <1>4 DEF IfStatement
  <2>2. PICK out : Rooms(func, block, vals, in, at, s, func', 3, out)
    BY <1>2, <2>1, RoomsMade
  <2>3. L \in Nat /\ LastBlock(func') = L + 3
        /\ \A k \in 1 .. 3 : L + k \in Plains(func', out) /\ L + k \notin DueBlocks(D)
    BY <2>2, RoomsFacts
  <2>4. Then(work)
    BY <2>1, <2>3
  <2>5. 1 \in 1 .. 3 /\ 2 \in 1 .. 3 /\ 3 \in 1 .. 3
    OBVIOUS
  <2>. HIDE DEF L
  <2>6. /\ L + 1 \in Plains(func', out) /\ L + 2 \in Plains(func', out) /\ L + 3 \in Plains(func', out)
        /\ L + 1 \notin DueBlocks(D) /\ L + 2 \notin DueBlocks(D) /\ L + 3 \notin DueBlocks(D)
    BY <2>3, <2>5
  <2>7. Placed(fn, Node, s.left, D) =>
          Chain(fn, Plains(func', out), work, St(s.left, DueToo(DueToo(DueToo(D, L + 3), L + 2), L + 1)),
                St(s.left \ MarksIn(Node), D))
    BY <1>1, <2>3, <2>6, RoomNumbers, IfElseWork
  <2>8. D \cup DueOf(L, 3) = DueToo(DueToo(DueToo(D, L + 3), L + 2), L + 1)
    BY <2>3, DueOfShort
  <2>. HIDE DEF work
  <2>9. Makes(fn, in, at, s, work, 3, out)
    BY <1>1, <2>2, <2>4, <2>7, <2>8 DEF Makes, L
  <2> QED
    BY <2>9, MakesHolds
<1> QED
  BY <1>3, <1>4

LEMMA WhileOn ==
  ASSUME NEW fn \in AllFunctions, NEW in, NEW at, NEW s, Under(fn, in, at, s), WhileStatement
  PROVE  Onward(fn)
<1> DEFINE L == LastBlock(func)
           D == s.due
           work == <<JumpTo(L + 1), OpenAt(L + 1), Value(Node.left), BranchTo(L + 2, L + 3), OpenAt(L + 2)>> \o
                   Looped(Node.body, L + 3, L + 1) \o <<JumpTo(L + 1), OpenAt(L + 3)>>
<1>1. /\ Does("statement") /\ Node.type = "while" /\ UNCHANGED <<treeVars, tableVars, block, vals>>
      /\ func' = NewBlock(NewBlock(NewBlock(func))) /\ Then(work)
  BY DEF WhileStatement, Visits, Node
<1>2. Laid(func, block, vals, in, at, s)
  BY DEF Under
<1>3. PICK out : Rooms(func, block, vals, in, at, s, func', 3, out)
  BY <1>1, <1>2, RoomsMade
<1>4. L \in Nat /\ \A k \in 1 .. 3 : L + k \in Plains(func', out) /\ L + k \notin DueBlocks(D)
  BY <1>3, RoomsFacts
<1>5. 1 \in 1 .. 3 /\ 2 \in 1 .. 3 /\ 3 \in 1 .. 3
  OBVIOUS
<1>. HIDE DEF L
<1>6. /\ L + 1 \in Plains(func', out) /\ L + 2 \in Plains(func', out) /\ L + 3 \in Plains(func', out)
      /\ L + 1 \notin DueBlocks(D) /\ L + 2 \notin DueBlocks(D) /\ L + 3 \notin DueBlocks(D)
  BY <1>4, <1>5
<1>7. Placed(fn, Node, s.left, D) =>
        Chain(fn, Plains(func', out), work, St(s.left, DueToo(DueToo(DueToo(D, L + 3), L + 2), L + 1)),
              St(s.left \ MarksIn(Node), D))
  BY <1>1, <1>4, <1>6, RoomNumbers, WhileWork
<1>8. D \cup DueOf(L, 3) = DueToo(DueToo(DueToo(D, L + 3), L + 2), L + 1)
  BY <1>4, DueOfShort
<1>. HIDE DEF work
<1>9. Makes(fn, in, at, s, work, 3, out)
  BY <1>1, <1>3, <1>7, <1>8 DEF Makes, L
<1> QED
  BY <1>9, MakesHolds

LEMMA DoOn ==
  ASSUME NEW fn \in AllFunctions, NEW in, NEW at, NEW s, Under(fn, in, at, s), DoStatement
  PROVE  Onward(fn)
<1> DEFINE L == LastBlock(func)
           D == s.due
           work == <<JumpTo(L + 1), OpenAt(L + 1)>> \o Looped(Node.body, L + 3, L + 2) \o
                   <<JumpTo(L + 2), OpenAt(L + 2), Value(Node.left), BranchTo(L + 1, L + 3), OpenAt(L + 3)>>
<1>1. /\ Does("statement") /\ Node.type = "do" /\ UNCHANGED <<treeVars, tableVars, block, vals>>
      /\ func' = NewBlock(NewBlock(NewBlock(func))) /\ Then(work)
  BY DEF DoStatement, Visits, Node
<1>2. Laid(func, block, vals, in, at, s)
  BY DEF Under
<1>3. PICK out : Rooms(func, block, vals, in, at, s, func', 3, out)
  BY <1>1, <1>2, RoomsMade
<1>4. L \in Nat /\ \A k \in 1 .. 3 : L + k \in Plains(func', out) /\ L + k \notin DueBlocks(D)
  BY <1>3, RoomsFacts
<1>5. 1 \in 1 .. 3 /\ 2 \in 1 .. 3 /\ 3 \in 1 .. 3
  OBVIOUS
<1>. HIDE DEF L
<1>6. /\ L + 1 \in Plains(func', out) /\ L + 2 \in Plains(func', out) /\ L + 3 \in Plains(func', out)
      /\ L + 1 \notin DueBlocks(D) /\ L + 2 \notin DueBlocks(D) /\ L + 3 \notin DueBlocks(D)
  BY <1>4, <1>5
<1>7. Placed(fn, Node, s.left, D) =>
        Chain(fn, Plains(func', out), work, St(s.left, DueToo(DueToo(DueToo(D, L + 3), L + 2), L + 1)),
              St(s.left \ MarksIn(Node), D))
  BY <1>1, <1>4, <1>6, RoomNumbers, DoWork
<1>8. D \cup DueOf(L, 3) = DueToo(DueToo(DueToo(D, L + 3), L + 2), L + 1)
  BY <1>4, DueOfShort
<1>. HIDE DEF work
<1>9. Makes(fn, in, at, s, work, 3, out)
  BY <1>1, <1>3, <1>7, <1>8 DEF Makes, L
<1> QED
  BY <1>9, MakesHolds

LEMMA ForOn ==
  ASSUME NEW fn \in AllFunctions, NEW in, NEW at, NEW s, Under(fn, in, at, s), ForStatement
  PROVE  Onward(fn)
<1> DEFINE L == LastBlock(func)
           D == s.due
           enter == IF IsNull(Node.left) THEN <<JumpTo(L + 2)>> ELSE <<Value(Node.left), BranchTo(L + 2, L + 4)>>
           work == Clause(Node.init) \o <<JumpTo(L + 1), OpenAt(L + 1)>> \o enter \o <<OpenAt(L + 2)>> \o
                   Looped(Node.body, L + 4, L + 3) \o <<JumpTo(L + 3), OpenAt(L + 3)>> \o
                   Clause(Node.post) \o <<JumpTo(L + 1), OpenAt(L + 4)>>
<1>1. /\ Does("statement") /\ Node.type = "for" /\ UNCHANGED <<treeVars, tableVars, block, vals>>
      /\ func' = NewBlock(NewBlock(NewBlock(NewBlock(func)))) /\ Then(work)
  BY DEF ForStatement, Visits, Node
<1>2. Laid(func, block, vals, in, at, s)
  BY DEF Under
<1>3. PICK out : Rooms(func, block, vals, in, at, s, func', 4, out)
  BY <1>1, <1>2, RoomsMade
<1>4. L \in Nat /\ \A k \in 1 .. 4 : L + k \in Plains(func', out) /\ L + k \notin DueBlocks(D)
  BY <1>3, RoomsFacts
<1>5. 1 \in 1 .. 4 /\ 2 \in 1 .. 4 /\ 3 \in 1 .. 4 /\ 4 \in 1 .. 4
  OBVIOUS
<1>. HIDE DEF L
<1>6. /\ L + 1 \in Plains(func', out) /\ L + 2 \in Plains(func', out)
      /\ L + 3 \in Plains(func', out) /\ L + 4 \in Plains(func', out)
      /\ L + 1 \notin DueBlocks(D) /\ L + 2 \notin DueBlocks(D)
      /\ L + 3 \notin DueBlocks(D) /\ L + 4 \notin DueBlocks(D)
  BY <1>4, <1>5
<1>7. Placed(fn, Node, s.left, D) =>
        Chain(fn, Plains(func', out), work, St(s.left, DueToo(DueToo(DueToo(DueToo(D, L + 4), L + 3), L + 2), L + 1)),
              St(s.left \ MarksIn(Node), D))
  BY <1>1, <1>4, <1>6, RoomNumbers, ForWork
<1>8. D \cup DueOf(L, 4) = DueToo(DueToo(DueToo(DueToo(D, L + 4), L + 3), L + 2), L + 1)
  BY <1>4, DueOfShort
<1>. HIDE DEF work
<1>9. Makes(fn, in, at, s, work, 4, out)
  BY <1>1, <1>3, <1>7, <1>8 DEF Makes, L
<1> QED
  BY <1>9, MakesHolds

-----------------------------------------------------------------------------
(* Labels and cases                                                        *)

(* Marks of different things are different. *)
LEMMA TokensDiffer ==
  /\ \A a, b : <<"label", a>> = <<"label", b>> => a = b
  /\ \A a, b : <<"case", a>> = <<"case", b>> => a = b
  /\ \A a, b : <<"stamp", a>> = <<"stamp", b>> => a = b
  /\ \A a, b : <<"label", a>> # <<"case", b>> /\ <<"label", a>> # <<"stamp", b>> /\ <<"case", a>> # <<"stamp", b>>
OBVIOUS

SameLabels(lb, now) == DOMAIN now = DOMAIN lb /\ \A l \in DOMAIN lb : now[l] = lb[l]

(* Only what a label is mapped to matters. *)
LEMMA TablesSame ==
  ASSUME NEW fn, NEW P, NEW A, NEW at, NEW left, NEW lp, NEW lb, NEW sl, NEW cb, NEW st,
         Tables(fn, P, A, at, left, lp, lb, sl, cb, st), NEW now, SameLabels(lb, now)
  PROVE  Tables(fn, P, A, at, left, lp, now, sl, cb, st)
<1>1. LabelsFit(fn, P, at, left, now)
  <2>1. LabelsFit(fn, P, at, left, lb)
    BY DEF Tables
  <2> QED
    BY <2>1 DEF SameLabels, LabelsFit
<1> QED
  BY <1>1 DEF Tables

(* A label or a case is reached whose block is there. *)
LEMMA TablesReach ==
  ASSUME NEW fn, NEW P, NEW A, NEW at, NEW left, NEW lp, NEW lb, NEW sl, NEW cb, NEW st,
         Tables(fn, P, A, at, left, lp, lb, sl, cb, st), NEW x \in left,
         (\E l \in DOMAIN lb : x = <<"label", l>>) \/ \E c : x = <<"case", c>>
  PROVE  Tables(fn, P, A, Unmarked(at, x), left \ {x}, lp, lb, sl, cb, st)
<1> DEFINE a == Unmarked(at, x)
           less == left \ {x}
<1>1. DOMAIN a = DOMAIN at \ {x} /\ \A y \in DOMAIN a : a[y] = at[y]
  BY DEF Unmarked
<1>2. \A c : x # <<"stamp", c>>
  BY TokensDiffer
<1>. HIDE DEF a
<1>3. LabelsFit(fn, P, a, less, lb)
  <2>1. LabelsFit(fn, P, at, left, lb)
    BY DEF Tables
  <2>2. \A l \in LabelsIn[fn.body] : <<"label", l>> \notin less => l \in DOMAIN lb
    BY <2>1, TokensDiffer DEF LabelsFit
  <2>3. \A l \in DOMAIN lb : <<"label", l>> \in less => <<"label", l>> \in DOMAIN a /\ a[<<"label", l>>] = lb[l]
    BY <1>1, <2>1 DEF LabelsFit
  <2>4. \A l : <<"label", l>> \in DOMAIN a => l \in DOMAIN lb
    BY <1>1, <2>1 DEF LabelsFit
  <2> QED
    BY <2>1, <2>2, <2>3, <2>4 DEF LabelsFit
<1>4. CasesNoted(fn, P, a, less, cb, st)
  <2>1. CasesNoted(fn, P, at, left, cb, st)
    BY DEF Tables
  <2>2. \A c : <<"stamp", c>> \in less <=> <<"stamp", c>> \in left
    BY <1>2
  <2>3. \A c \in CasesIn[fn.body] :
          <<"stamp", c>> \notin less =>
            /\ c.id \in DOMAIN st
            /\ <<"case", c>> \in less => <<"case", c>> \in DOMAIN a /\ a[<<"case", c>>] = cb[st[c.id] + 1]
    BY <1>1, <2>1, <2>2 DEF CasesNoted
  <2>4. \A c : <<"case", c>> \in DOMAIN a => <<"stamp", c>> \notin less
    BY <1>1, <2>1, <2>2 DEF CasesNoted
  <2>5. \A c : <<"stamp", c>> \notin DOMAIN a
    BY <2>1 DEF CasesNoted, a, Unmarked
  <2> QED
    BY <2>1, <2>3, <2>4, <2>5 DEF CasesNoted
<1>5. less \subseteq MarksIn(fn.body) /\ DOMAIN a \subseteq less
  BY <1>1 DEF Tables
<1>. HIDE DEF less
<1>6. Tables(fn, P, A, a, less, lp, lb, sl, cb, st)
  BY <1>3, <1>4, <1>5 DEF Tables
<1> QED
  BY <1>6 DEF a, less

(* A label that is new. *)
LabelsPlus(lb, l, n, now) ==
  DOMAIN now = DOMAIN lb \cup {l} /\ now[l] = n /\ \A m \in DOMAIN lb : m # l => now[m] = lb[m]

(* A label is mentioned first, and has a block. *)
Fresh(fn, P, A, at, left, lp, lb, sl, cb, st, l, n, now) ==
  /\ Tables(fn, P, A, at, left, lp, lb, sl, cb, st) /\ l \in LabelsIn[fn.body] /\ l \notin DOMAIN lb
  /\ n \in P /\ LabelsPlus(lb, l, n, now)

(* A label that is mentioned first, by a goto or by itself. *)
LEMMA TablesFresh ==
  ASSUME NEW fn, NEW P, NEW A, NEW at, NEW left, NEW lp, NEW lb, NEW sl, NEW cb, NEW st, NEW l, NEW n, NEW now,
         Fresh(fn, P, A, at, left, lp, lb, sl, cb, st, l, n, now)
  PROVE  /\ Tables(fn, P, A, Marked(at, <<"label", l>>, n), left, lp, now, sl, cb, st)
         /\ Tables(fn, P, A, at, left \ {<<"label", l>>}, lp, now, sl, cb, st)
<1> DEFINE x == <<"label", l>>
           a == Marked(at, x, n)
           less == left \ {x}
<1>1. /\ Tables(fn, P, A, at, left, lp, lb, sl, cb, st) /\ l \in LabelsIn[fn.body] /\ l \notin DOMAIN lb
      /\ n \in P /\ DOMAIN now = DOMAIN lb \cup {l} /\ now[l] = n /\ \A m \in DOMAIN lb : m # l => now[m] = lb[m]
  BY DEF Fresh, LabelsPlus
<1>2. LabelsFit(fn, P, at, left, lb) /\ CasesNoted(fn, P, at, left, cb, st)
  BY <1>1 DEF Tables
<1>3. x \in left /\ x \notin DOMAIN at
  BY <1>1, <1>2 DEF LabelsFit
<1>4. DOMAIN a = DOMAIN at \cup {x} /\ a[x] = n /\ \A y \in DOMAIN at : y # x => a[y] = at[y]
  BY DEF Marked
<1>5. \A m : <<"label", m>> = x => m = l
  BY TokensDiffer
<1>6. \A c : <<"case", c>> # x /\ <<"stamp", c>> # x
  BY TokensDiffer
<1>7. x = <<"label", l>>
  OBVIOUS
<1>. HIDE DEF a, x
<1>8. LabelsFit(fn, P, a, left, now)
  <2>1. \A m \in DOMAIN now : now[m] \in P /\ m \in LabelsIn[fn.body]
    BY <1>1, <1>2 DEF LabelsFit
  <2>2. \A m \in DOMAIN now : <<"label", m>> \in left => <<"label", m>> \in DOMAIN a /\ a[<<"label", m>>] = now[m]
    BY <1>1, <1>2, <1>4, <1>5, <1>7 DEF LabelsFit
  <2>3. \A m : <<"label", m>> \in DOMAIN a => m \in DOMAIN now
    BY <1>1, <1>2, <1>4, <1>5 DEF LabelsFit
  <2>4. \A m \in LabelsIn[fn.body] : <<"label", m>> \notin left => m \in DOMAIN now
    BY <1>1, <1>2 DEF LabelsFit
  <2> QED
    BY <2>1, <2>2, <2>3, <2>4 DEF LabelsFit
<1>9. CasesNoted(fn, P, a, left, cb, st)
  <2>1. \A c : <<"case", c>> \in DOMAIN a <=> <<"case", c>> \in DOMAIN at
    BY <1>4, <1>6
  <2>2. \A c : <<"case", c>> \in DOMAIN at => a[<<"case", c>>] = at[<<"case", c>>]
    BY <1>4, <1>6
  <2>3. \A c : <<"stamp", c>> \in DOMAIN a <=> <<"stamp", c>> \in DOMAIN at
    BY <1>4, <1>6
  <2> QED
    BY <1>2, <2>1, <2>2, <2>3 DEF CasesNoted
<1>10. LabelsFit(fn, P, at, less, now)
  <2>1. \A m \in DOMAIN now : now[m] \in P /\ m \in LabelsIn[fn.body]
    BY <1>1, <1>2 DEF LabelsFit
  <2>2. \A m \in DOMAIN now : <<"label", m>> \in less => <<"label", m>> \in DOMAIN at /\ at[<<"label", m>>] = now[m]
    BY <1>1, <1>2, <1>7 DEF LabelsFit
  <2>3. \A m : <<"label", m>> \in DOMAIN at => m \in DOMAIN now
    BY <1>1, <1>2 DEF LabelsFit
  <2>4. \A m \in LabelsIn[fn.body] : <<"label", m>> \notin less => m \in DOMAIN now
    BY <1>1, <1>2, <1>5 DEF LabelsFit
  <2> QED
    BY <2>1, <2>2, <2>3, <2>4 DEF LabelsFit
<1>11. CasesNoted(fn, P, at, less, cb, st)
  <2>1. \A c : (<<"stamp", c>> \in less <=> <<"stamp", c>> \in left) /\ (<<"case", c>> \in less <=> <<"case", c>> \in left)
    BY <1>6
  <2>. HIDE DEF less
  <2> QED
    BY <1>2, <2>1 DEF CasesNoted
<1>12. DOMAIN a \subseteq left /\ DOMAIN at \subseteq less /\ less \subseteq MarksIn(fn.body)
  BY <1>1, <1>3, <1>4 DEF Tables
<1>. HIDE DEF less
<1>13. Tables(fn, P, A, a, left, lp, now, sl, cb, st)
  BY <1>1, <1>8, <1>9, <1>12 DEF Tables
<1>14. Tables(fn, P, A, at, less, lp, now, sl, cb, st)
  BY <1>1, <1>10, <1>11, <1>12 DEF Tables
<1> QED
  BY <1>13, <1>14 DEF a, less, x

(* What block_for_label finds. *)
LEMMA LabelFound ==
  ASSUME NEW fn, NEW in, NEW at, NEW s, Under(fn, in, at, s), NEW name, NoteLabel(name)
  PROVE  /\ name \in DOMAIN labels => /\ func' = func /\ SameLabels(labels, labels')
                                      /\ BlockForLabel(name) = labels[name] /\ labels[name] \in Plains(func, in)
         /\ name \notin DOMAIN labels => /\ func' = NewBlock(func) /\ LabelsPlus(labels, name, LastBlock(func) + 1, labels')
                                         /\ BlockForLabel(name) = LastBlock(func) + 1
<1> DEFINE b == BlockForLabel(name)
<1>1. LastBlock(func) \in Nat /\ DOMAIN func.code = 1 .. LastBlock(func)
  BY NewBlockLast, LaidSound DEF Under
<1>2. labels' = [l \in DOMAIN labels \cup {name} |-> IF l = name THEN b ELSE labels[l]]
      /\ func' = IF b > LastBlock(func) THEN NewBlock(func) ELSE func
  BY DEF NoteLabel
<1>3. CASE name \in DOMAIN labels
  <2>1. b = labels[name] /\ b \in Plains(func, in)
    BY <1>3 DEF BlockForLabel, Under, Tables, LabelsFit
  <2>2. b \in 1 .. LastBlock(func)
    BY <1>1, <2>1 DEF Plains
  <2>3. ~ (b > LastBlock(func))
    BY <1>1, <2>2
  <2>. HIDE DEF b
  <2>4. SameLabels(labels, labels')
    BY <1>2, <1>3, <2>1 DEF SameLabels
  <2> QED
    BY <1>2, <1>3, <2>1, <2>3, <2>4 DEF b
<1>4. CASE name \notin DOMAIN labels
  <2>1. b = LastBlock(func) + 1
    BY <1>4 DEF BlockForLabel
  <2>2. b > LastBlock(func)
    BY <1>1, <2>1
  <2>. HIDE DEF b
  <2>3. LabelsPlus(labels, name, b, labels')
    BY <1>2, <1>4 DEF LabelsPlus
  <2> QED
    BY <1>2, <1>4, <2>1, <2>2, <2>3 DEF b
<1> QED
  BY <1>3, <1>4

(* A statement goes on from another shape. *)
Continues(fn, in, s, work, out, a, t) ==
  /\ Does("statement") /\ Then(work) /\ More(func, in, func', out) /\ t.cases = Idle
  /\ Laid(func', block', vals', out, a, t)
  /\ Tables(fn, Plains(func', out), Slots(func'), a, t.left, loops', labels', slots', caseBlocks', stamped')
  /\ Chain(fn, Plains(func', out), work, t, St(s.left \ MarksIn(Node), s.due))

(* A statement leads on from another shape than it was come to in. *)
LEMMA ContinuesHolds ==
  ASSUME NEW fn \in AllFunctions, NEW in, NEW at, NEW s, Under(fn, in, at, s), NEW work, NEW out, NEW a, NEW t,
         Continues(fn, in, s, work, out, a, t)
  PROVE  Onward(fn)
<1>1. todo # <<>> /\ Head(todo).do = "statement"
  BY DEF Continues, Does
<1>2. Switching(fn, t, Had(func', out, block'), cases', defaults', todo')
  BY DEF Continues, Switching
<1>3. \A u : Step(fn, Plains(func, in), Head(todo), s, u) => Chain(fn, Plains(func', out), work, t, u)
  <2> SUFFICES ASSUME NEW u, Step(fn, Plains(func, in), Head(todo), s, u)
               PROVE  Chain(fn, Plains(func', out), work, t, u)
    OBVIOUS
  <2>1. Stated(fn, s, u)
    BY <1>1, StatementFacts
  <2> QED
    BY <2>1 DEF Stated, Continues
<1>4. Proceed(fn, in, s, work, out, a, t)
  BY <1>1, <1>2, <1>3 DEF Proceed, Continues
<1>5. UnderNext(fn, out, a, t)
  BY <1>4, Proceeds
<1> QED
  BY <1>5 DEF Onward

(* The parts of a shape before a statement. *)
LEMMA StIs ==
  ASSUME NEW s, s = St(s.left, s.due)
  PROVE  s.stack = <<>> /\ s.open = TRUE /\ s.cases = Idle
BY DEF St, Sh

LEMMA StHas == ASSUME NEW left, NEW D PROVE St(left, D).cases = Idle /\ St(left, D).left = left /\ St(left, D).due = D
BY DEF St, Sh

(* A goto, a label and a case: each ends in the block of a label or case,  *)
(* or begins it.                                                           *)
LEMMA GotoOn ==
  ASSUME NEW fn \in AllFunctions, NEW in, NEW at, NEW s, Under(fn, in, at, s), GotoStatement
  PROVE  Onward(fn)
<1> DEFINE name == Node.name
           b == BlockForLabel(name)
           work == <<JumpTo(b), OpenNew>>
           n == LastBlock(func) + 1
           out == With(in, Slots(func))
           x == <<"label", name>>
<1>1. /\ Does("statement") /\ Node.type = "goto" /\ NoteLabel(name) /\ Then(work)
      /\ block' = block /\ vals' = vals /\ loops' = loops /\ slots' = slots
      /\ caseBlocks' = caseBlocks /\ stamped' = stamped
  BY DEF GotoStatement, Visits, Node
<1>2. s = St(s.left, s.due) /\ Placed(fn, Node, s.left, s.due)
  BY <1>1, StatementAhead
<1>3. name \in LabelsIn[fn.body]
  BY <1>1, <1>2, NodeFacts DEF Placed
<1>4. /\ Laid(func, block, vals, in, at, s)
      /\ Tables(fn, Plains(func, in), Slots(func), at, s.left, loops, labels, slots, caseBlocks, stamped)
  BY DEF Under
<1>5. s.cases = Idle /\ s = Sh(s.stack, s.open, s.cases, s.left, s.due)
  BY <1>2, <1>4, StIs DEF Laid, IsShape
<1>6. CASE name \in DOMAIN labels
  <2>1. func' = func /\ SameLabels(labels, labels') /\ b \in Plains(func, in)
    BY <1>1, <1>6, LabelFound
  <2>2. Tables(fn, Plains(func, in), Slots(func), at, s.left, loops, labels', slots, caseBlocks, stamped)
    BY <1>4, <2>1, TablesSame
  <2>. HIDE DEF b
  <2>3. Chain(fn, Plains(func, in), work, St(s.left, s.due), St(s.left \ MarksIn(Node), s.due))
    BY <1>1, <1>2, <2>1, LeaveWork
  <2>. HIDE DEF work
  <2>4. Continues(fn, in, s, work, in, at, s)
    BY <1>1, <1>2, <1>4, <1>5, <2>1, <2>2, <2>3 DEF Continues, More
  <2> QED
    BY <2>4, ContinuesHolds
<1>7. CASE name \notin DOMAIN labels
  <2>1. func' = NewBlock(func) /\ LabelsPlus(labels, name, n, labels') /\ b = n
    BY <1>1, <1>7, LabelFound
  <2>2. x \notin DOMAIN at
    BY <1>4, <1>7 DEF Tables, LabelsFit
  <2>3. MarkLaid(func, block, vals, in, at, s, x, NewBlock(func), out, n, s)
    BY <1>4, <1>5, <2>2, LaidMark
  <2>. HIDE DEF b, n, out
  <2>4. Laid(func', block, vals, out, Marked(at, x, n), s) /\ More(func, in, func', out) /\ n \in Plains(func', out)
    BY <2>1, <2>3 DEF MarkLaid, Roomier
  <2>5. Tables(fn, Plains(func', out), Slots(func'), at, s.left, loops, labels, slots, caseBlocks, stamped)
    BY <1>4, <2>4, TablesMore DEF More
  <2>6. Fresh(fn, Plains(func', out), Slots(func'), at, s.left, loops, labels, slots, caseBlocks, stamped, name, n, labels')
    BY <1>3, <1>7, <2>1, <2>4, <2>5 DEF Fresh
  <2>7. Tables(fn, Plains(func', out), Slots(func'), Marked(at, x, n), s.left, loops, labels', slots, caseBlocks, stamped)
    BY <2>6, TablesFresh
  <2>8. Chain(fn, Plains(func', out), work, St(s.left, s.due), St(s.left \ MarksIn(Node), s.due))
    BY <1>1, <1>2, <2>1, <2>4, LeaveWork
  <2>. HIDE DEF work, x
  <2>9. Continues(fn, in, s, work, out, Marked(at, x, n), s)
    BY <1>1, <1>2, <1>5, <2>4, <2>7, <2>8 DEF Continues
  <2> QED
    BY <2>9, ContinuesHolds
<1> QED
  BY <1>6, <1>7

LEMMA LabelOn ==
  ASSUME NEW fn \in AllFunctions, NEW in, NEW at, NEW s, Under(fn, in, at, s), LabelStatement
  PROVE  Onward(fn)
<1> DEFINE name == Node.name
           b == BlockForLabel(name)
           work == <<JumpTo(b), OpenAt(b), Statement(Node.body)>>
           n == LastBlock(func) + 1
           out == With(in, Slots(func))
           x == <<"label", name>>
           t == St(s.left \ {x}, DueToo(s.due, b))
<1>1. /\ Does("statement") /\ Node.type = "label" /\ NoteLabel(name) /\ Then(work)
      /\ block' = block /\ vals' = vals /\ loops' = loops /\ slots' = slots
      /\ caseBlocks' = caseBlocks /\ stamped' = stamped
  BY DEF LabelStatement, Visits, Node
<1>2. s = St(s.left, s.due) /\ Placed(fn, Node, s.left, s.due)
  BY <1>1, StatementAhead
<1>3. x \in s.left
  <2>1. MarksIn(Node) \subseteq s.left /\ x \in MarksIn(Node)
    BY <1>1, <1>2, MarksOfLabel DEF Placed, Ready
  <2> QED
    BY <2>1
<1>4. /\ Laid(func, block, vals, in, at, s)
      /\ Tables(fn, Plains(func, in), Slots(func), at, s.left, loops, labels, slots, caseBlocks, stamped)
  BY DEF Under
<1>5. s.stack = <<>> /\ s.open = TRUE /\ s.cases = Idle
  BY <1>2, StIs
<1>6. t = Sh(s.stack, s.open, s.cases, s.left \ {x}, DueToo(s.due, b)) /\ t.cases = Idle /\ t.left = s.left \ {x}
  <2>. HIDE DEF x, b
  <2>1. t = Sh(<<>>, TRUE, Idle, s.left \ {x}, DueToo(s.due, b))
    BY DEF St
  <2>. HIDE DEF t
  <2>2. t.cases = Idle /\ t.left = s.left \ {x}
    BY <2>1 DEF Sh
  <2> QED
    BY <1>5, <2>1, <2>2
<1>7. name \in LabelsIn[fn.body]
  <2>1. x \in MarksIn(fn.body)
    BY <1>3, <1>4 DEF Tables
  <2> QED
    BY <2>1, InMarks, TokensDiffer
<1>8. CASE name \in DOMAIN labels
  <2>1. func' = func /\ SameLabels(labels, labels') /\ b = labels[name]
    BY <1>1, <1>8, LabelFound
  <2>2. x \in DOMAIN at /\ at[x] = b
    BY <1>3, <1>4, <1>8, <2>1 DEF Tables, LabelsFit
  <2>. HIDE DEF b
  <2>3. Tables(fn, Plains(func, in), Slots(func), at, s.left, loops, labels', slots, caseBlocks, stamped)
    BY <1>4, <2>1, TablesSame
  <2>4. \E l \in DOMAIN labels' : x = <<"label", l>>
    BY <1>8, <2>1 DEF SameLabels
  <2>5. Tables(fn, Plains(func, in), Slots(func), Unmarked(at, x), s.left \ {x}, loops, labels', slots, caseBlocks, stamped)
    BY <1>3, <2>3, <2>4, TablesReach
  <2>6. Reached(func, block, vals, in, at, s, x, t)
    BY <1>4, <1>6, <2>2, LaidReach
  <2>7. Laid(func, block, vals, in, Unmarked(at, x), t) /\ b \in Plains(func, in) /\ b \in Nat /\ b \notin DueBlocks(s.due)
    BY <2>2, <2>6 DEF Reached
  <2>8. Chain(fn, Plains(func, in), work, t, St(s.left \ MarksIn(Node), s.due))
    BY <1>1, <1>2, <2>7, LabelWork
  <2>. HIDE DEF work, x, t
  <2>9. Continues(fn, in, s, work, in, Unmarked(at, x), t)
    BY <1>1, <1>6, <2>1, <2>5, <2>7, <2>8 DEF Continues, More
  <2> QED
    BY <2>9, ContinuesHolds
<1>9. CASE name \notin DOMAIN labels
  <2>1. func' = NewBlock(func) /\ LabelsPlus(labels, name, n, labels') /\ b = n
    BY <1>1, <1>9, LabelFound
  <2>2. DueLaid(func, block, vals, in, at, s, NewBlock(func), out, n, t)
    BY <1>4, <1>6, <2>1, LaidDue
  <2>. HIDE DEF b, n, out, t
  <2>3. /\ Laid(func', block, vals, out, at, t) /\ More(func, in, func', out) /\ n \in Plains(func', out) /\ n \in Nat
        /\ n \notin DueBlocks(s.due)
    BY <2>1, <2>2 DEF DueLaid, Roomier
  <2>4. Tables(fn, Plains(func', out), Slots(func'), at, s.left, loops, labels, slots, caseBlocks, stamped)
    BY <1>4, <2>3, TablesMore DEF More
  <2>5. Fresh(fn, Plains(func', out), Slots(func'), at, s.left, loops, labels, slots, caseBlocks, stamped, name, n, labels')
    BY <1>7, <1>9, <2>1, <2>3, <2>4 DEF Fresh
  <2>6. Tables(fn, Plains(func', out), Slots(func'), at, s.left \ {x}, loops, labels', slots, caseBlocks, stamped)
    BY <2>5, TablesFresh
  <2>7. Chain(fn, Plains(func', out), work, t, St(s.left \ MarksIn(Node), s.due))
    BY <1>1, <1>2, <2>1, <2>3, LabelWork DEF t
  <2>. HIDE DEF work, x
  <2>8. Continues(fn, in, s, work, out, at, t)
    BY <1>1, <1>6, <2>3, <2>6, <2>7 DEF Continues
  <2> QED
    BY <2>8, ContinuesHolds
<1> QED
  BY <1>8, <1>9

LEMMA CaseOn ==
  ASSUME NEW fn \in AllFunctions, NEW in, NEW at, NEW s, Under(fn, in, at, s), CaseStatement
  PROVE  Onward(fn)
<1> DEFINE b == CaseBlock(Node)
           work == <<JumpTo(b), OpenAt(b), Statement(Node.body)>>
           x == <<"case", Node>>
           t == St(s.left \ {x}, DueToo(s.due, b))
<1>1. /\ Does("statement") /\ Node.type \in {"case", "default"} /\ Becomes(work)
  BY DEF CaseStatement
<1>2. s = St(s.left, s.due) /\ Placed(fn, Node, s.left, s.due)
  BY <1>1, StatementAhead
<1>3. x \in s.left /\ <<"stamp", Node>> \notin s.left
  <2>1. MarksIn(Node) \subseteq s.left /\ x \in MarksIn(Node) /\ Node \in OwnCases[Node]
    BY <1>1, <1>2, MarksOfCase DEF Placed, Ready
  <2>2. <<"stamp", Node>> \in Stamps(OwnCases[Node])
    BY <2>1, InStamps
  <2> QED
    BY <1>2, <2>1, <2>2 DEF Placed, Ready
<1>4. /\ Laid(func, block, vals, in, at, s)
      /\ Tables(fn, Plains(func, in), Slots(func), at, s.left, loops, labels, slots, caseBlocks, stamped)
  BY DEF Under
<1>5. s.stack = <<>> /\ s.open = TRUE /\ s.cases = Idle
  BY <1>2, StIs
<1>6. t = Sh(s.stack, s.open, s.cases, s.left \ {x}, DueToo(s.due, b)) /\ t.cases = Idle /\ t.left = s.left \ {x}
  <2>. HIDE DEF x, b
  <2>1. t = Sh(<<>>, TRUE, Idle, s.left \ {x}, DueToo(s.due, b))
    BY DEF St
  <2>. HIDE DEF t
  <2>2. t.cases = Idle /\ t.left = s.left \ {x}
    BY <2>1 DEF Sh
  <2> QED
    BY <1>5, <2>1, <2>2
<1>7. Node \in CasesIn[fn.body]
  <2>1. x \in MarksIn(fn.body)
    BY <1>3, <1>4 DEF Tables
  <2> QED
    BY <2>1, InMarks, TokensDiffer
<1>8. x \in DOMAIN at /\ at[x] = b
  BY <1>3, <1>4, <1>7 DEF Tables, CasesNoted, CaseBlock
<1>. HIDE DEF b
<1>9. \E c : x = <<"case", c>>
  OBVIOUS
<1>10. Tables(fn, Plains(func, in), Slots(func), Unmarked(at, x), s.left \ {x}, loops, labels, slots, caseBlocks, stamped)
  BY <1>3, <1>4, <1>9, TablesReach
<1>11. Reached(func, block, vals, in, at, s, x, t)
  BY <1>4, <1>6, <1>8, LaidReach
<1>12. Laid(func, block, vals, in, Unmarked(at, x), t) /\ b \in Plains(func, in) /\ b \in Nat /\ b \notin DueBlocks(s.due)
  BY <1>8, <1>11 DEF Reached
<1>13. Chain(fn, Plains(func, in), work, t, St(s.left \ MarksIn(Node), s.due))
  BY <1>1, <1>2, <1>12, LabelWork
<1>. HIDE DEF work, x, t
<1>14. Continues(fn, in, s, work, in, Unmarked(at, x), t)
  BY <1>1, <1>6, <1>10, <1>12, <1>13 DEF Continues, More, Becomes, tableVars
<1> QED
  BY <1>14, ContinuesHolds

-----------------------------------------------------------------------------
(* Slots                                                                   *)

(* The piece of work that is next, and where it leads. *)
Ahead(fn, in, s, u) ==
  /\ todo # <<>> /\ Step(fn, Plains(func, in), Head(todo), s, u)
  /\ Chain(fn, Plains(func, in), Tail(todo), u, St({}, {}))

(* The piece of work that is next is a step to some shape. *)
LEMMA UnderAhead ==
  ASSUME NEW fn, NEW in, NEW at, NEW s, Under(fn, in, at, s), todo # <<>>
  PROVE  \E u : Ahead(fn, in, s, u)
<1>1. Chain(fn, Plains(func, in), todo, s, St({}, {}))
  BY DEF Under
<1>2. PICK u : Step(fn, Plains(func, in), Head(todo), s, u) /\ Chain(fn, Plains(func, in), Tail(todo), u, St({}, {}))
  BY <1>1, ChainHead
<1> QED
  BY <1>2 DEF Ahead

(* The action that does the next piece of work leaves work that leads on. *)
Arrives(fn, in, s, u, work, out, at, t) ==
  /\ Ahead(fn, in, s, u) /\ Then(work) /\ More(func, in, func', out)
  /\ Laid(func', block', vals', out, at, t)
  /\ Tables(fn, Plains(func', out), Slots(func'), at, t.left, loops', labels', slots', caseBlocks', stamped')
  /\ Switching(fn, t, Had(func', out, block'), cases', defaults', todo')
  /\ Chain(fn, Plains(func', out), work, t, u)

(* An action leads on if what it leaves to do leads to that shape. *)
LEMMA ArrivesHolds ==
  ASSUME NEW fn, NEW in, NEW s, NEW u, NEW work, NEW out, NEW a, NEW t, Arrives(fn, in, s, u, work, out, a, t)
  PROVE  Onward(fn)
<1> DEFINE P == Plains(func, in)
           Q == Plains(func', out)
<1>1. Chain(fn, P, Tail(todo), u, St({}, {})) /\ P \subseteq Q /\ Chain(fn, Q, work, t, u)
  BY DEF Arrives, Ahead, More
<1>. HIDE DEF P, Q
<1>2. Chain(fn, Q, Tail(todo), u, St({}, {}))
  BY <1>1, ChainMore
<1>3. Chain(fn, Q, work \o Tail(todo), t, St({}, {}))
  BY <1>1, <1>2, ChainJoin
<1>4. todo' = work \o Tail(todo)
  BY DEF Arrives, Then
<1>5. UnderNext(fn, out, a, t)
  BY <1>3, <1>4 DEF UnderNext, Arrives, Q
<1> QED
  BY <1>5 DEF Onward

(* A value more. *)
Pushes(f, b, vs, in, at, s, kind, v, t) ==
  /\ Laid(f, b, vs, in, at, s) /\ Low(s.due, Len(s.stack) + 1) /\ kind \in Kinds
  /\ Available(Slots(f), Had(f, in, b), kind, v)
  /\ t = Sh(Append(s.stack, kind), s.open, s.cases, s.left, s.due)

(* A value on top. *)
LEMMA LaidPush ==
  ASSUME NEW f, NEW b, NEW vs, NEW in, NEW at, NEW s, NEW kind, NEW v, NEW t, Pushes(f, b, vs, in, at, s, kind, v, t)
  PROVE  Laid(f, b, Append(vs, v), in, at, t)
<1>1. /\ IsShape(s) /\ Standing(f, b, in, at, s.open, s.due) /\ Values(f, b, vs, in, s.stack, s.due)
      /\ Low(s.due, Len(s.stack) + 1) /\ kind \in Kinds /\ Available(Slots(f), Had(f, in, b), kind, v)
  BY DEF Pushes, Laid
<1>2. s.stack \in Seq(Kinds) /\ IsDue(s.due)
  BY <1>1 DEF IsShape
<1>3. Values(f, b, Append(vs, v), in, Append(s.stack, kind), s.due)
  BY <1>1, <1>2, ValuesPushed
<1>4. Append(s.stack, kind) \in Seq(Kinds)
  BY <1>1, <1>2, Piled
<1>5. t.stack = Append(s.stack, kind) /\ t.open = s.open /\ t.due = s.due /\ t = Sh(t.stack, t.open, t.cases, t.left, t.due)
  BY DEF Pushes, Sh
<1>6. IsShape(t)
  BY <1>1, <1>4, <1>5 DEF IsShape
<1> QED
  BY <1>1, <1>3, <1>5, <1>6 DEF Laid

(* A slot more. *)
SlotLaid(f, b, vs, in, at, s, g, out, v) ==
  /\ Laid(g, b, vs, out, at, s) /\ More(f, in, g, out) /\ v \in Slots(g) /\ LastBlock(g) = LastBlock(f)
  /\ Slots(g) \subseteq Had(g, out, b) /\ Had(f, in, b) \subseteq Had(g, out, b) /\ g.values = v

(* A slot reserved leaves the function as laid as it was. *)
LEMMA LaidSlot ==
  ASSUME NEW f, NEW b, NEW vs, NEW in, NEW at, NEW s, Laid(f, b, vs, in, at, s)
  PROVE  SlotLaid(f, b, vs, in, at, s, WithSlot(f), Also(in, FreshValue(f)), FreshValue(f))
<1> DEFINE g == WithSlot(f)
           v == FreshValue(f)
           out == Also(in, v)
<1>1. IsShape(s) /\ Standing(f, b, in, at, s.open, s.due) /\ Values(f, b, vs, in, s.stack, s.due)
  BY DEF Laid
<1>2. Sound(f, in) /\ b \in DOMAIN f.code
  BY <1>1 DEF Standing, Blocks
<1>3. Reserved(f, in, g, out, v)
  BY <1>2, SlotReserved
<1>. HIDE DEF g, v, out
<1>4. Standing(g, b, out, at, s.open, s.due) /\ Plains(f, in) \subseteq Plains(g, out) /\ v \in Slots(g) /\ Slots(f) \subseteq Slots(g)
  BY <1>1, <1>3, StandingSlot
<1>5. /\ Slots(g) = Slots(f) \cup {v} /\ Had(g, out, b) = Had(f, in, b) \cup {v} /\ DOMAIN g.code = DOMAIN f.code
      /\ Sound(g, out) /\ g.values = v
  BY <1>2, <1>3 DEF Reserved
<1>6. Values(g, b, vs, out, s.stack, s.due)
  <2>1. \A d \in s.due : in[d[1]] \subseteq out[d[1]]
    BY <1>1, <1>3, DueBlocksFacts DEF Standing, Blocks, Pending, Reserved
  <2>2. \A k \in DOMAIN vs : Available(Slots(f), Had(f, in, b), s.stack[k], vs[k])
    BY <1>1 DEF Values
  <2>3. \A k \in DOMAIN vs : Available(Slots(g), Had(g, out, b), s.stack[k], vs[k])
    BY <1>5, <2>2, AvailableMore
  <2>4. ASSUME NEW d \in s.due, NEW k \in DOMAIN vs, k < d[2] PROVE Available(Slots(g), out[d[1]], s.stack[k], vs[k])
    <3>1. Available(Slots(f), in[d[1]], s.stack[k], vs[k])
      BY <1>1, <2>4 DEF Values
    <3>2. Slots(f) \subseteq Slots(g) /\ in[d[1]] \subseteq out[d[1]]
      BY <1>4, <2>1
    <3> QED
      BY <3>1, <3>2, AvailableMore
  <2> QED
    BY <1>1, <2>3, <2>4 DEF Values
<1>7. Laid(g, b, vs, out, at, s)
  BY <1>1, <1>4, <1>6 DEF Laid
<1>8. LastBlock(g) = LastBlock(f)
  <2>1. DOMAIN f.code = 1 .. LastBlock(f) /\ LastBlock(f) \in Nat /\ DOMAIN g.code = 1 .. LastBlock(g) /\ LastBlock(g) \in Nat
    BY <1>2, <1>5, NewBlockLast
  <2> QED
    BY <1>5, <2>1
<1>9. Slots(g) \subseteq Had(g, out, b)
  BY <1>2, <1>5, SlotsHad
<1>10. SlotLaid(f, b, vs, in, at, s, g, out, v)
  BY <1>4, <1>5, <1>7, <1>8, <1>9 DEF SlotLaid, More
<1> QED
  BY <1>10 DEF g, v, out

(* slot_for leaves the slot, of any kind that is asked for. *)
Slotting(fn, in, at, s, kind, out, t) ==
  /\ Laid(func', block, vals', out, at, t) /\ More(func, in, func', out)
  /\ Tables(fn, Plains(func', out), Slots(func'), at, t.left, loops, labels, slots', caseBlocks, stamped)
  /\ t = Sh(Append(s.stack, kind), s.open, s.cases, s.left, s.due)

(* slot_for, whether the name has its slot or not. *)
LEMMA SlotTaken ==
  ASSUME NEW fn, NEW in, NEW at, NEW s, Under(fn, in, at, s), NEW sym, TakeSlot(sym),
         Low(s.due, Len(s.stack) + 1), NEW kind \in Kinds
  PROVE  \E out : Slotting(fn, in, at, s, kind, out, Sh(Append(s.stack, kind), s.open, s.cases, s.left, s.due))
<1> DEFINE t == Sh(Append(s.stack, kind), s.open, s.cases, s.left, s.due)
<1>1. /\ Laid(func, block, vals, in, at, s)
      /\ Tables(fn, Plains(func, in), Slots(func), at, s.left, loops, labels, slots, caseBlocks, stamped)
  BY DEF Under
<1>2. t.left = s.left /\ t = Sh(Append(s.stack, kind), s.open, s.cases, s.left, s.due)
  BY DEF Sh
<1>. HIDE DEF t
<1>3. CASE HasSlot(sym)
  <2>1. sym \in DOMAIN slots /\ func' = func /\ vals' = Append(vals, slots[sym])
        /\ slots' = [x \in DOMAIN slots \cup {sym} |-> IF HasSlot(x) THEN slots[x] ELSE SlotFor(x, func)]
    BY <1>3 DEF TakeSlot, HasSlot, SlotFor, WithSlotFor
  <2>2. DOMAIN slots' = DOMAIN slots /\ \A x \in DOMAIN slots : slots'[x] = slots[x]
    BY <2>1 DEF HasSlot
  <2>3. slots[sym] \in Slots(func)
    BY <1>1, <2>1 DEF Tables
  <2>4. Slots(func) \subseteq Had(func, in, block)
    BY <1>1, LaidSound, SlotsHad
  <2>5. Available(Slots(func), Had(func, in, block), kind, slots[sym])
    BY <2>3, <2>4 DEF Available
  <2>6. Pushes(func, block, vals, in, at, s, kind, slots[sym], t)
    BY <1>1, <1>2, <2>5 DEF Pushes
  <2>7. Laid(func, block, vals', in, at, t)
    BY <2>1, <2>6, LaidPush
  <2>8. Tables(fn, Plains(func, in), Slots(func), at, t.left, loops, labels, slots', caseBlocks, stamped)
    BY <1>1, <1>2, <2>2 DEF Tables
  <2>9. Slotting(fn, in, at, s, kind, in, t)
    BY <1>2, <2>1, <2>7, <2>8 DEF Slotting, More
  <2> QED
    BY <1>2, <2>9
<1>4. CASE ~ HasSlot(sym)
  <2> DEFINE v == FreshValue(func)
             out == Also(in, v)
  <2>1. func' = WithSlot(func) /\ vals' = Append(vals, v)
        /\ slots' = [x \in DOMAIN slots \cup {sym} |-> IF HasSlot(x) THEN slots[x] ELSE SlotFor(x, func)]
    BY <1>4 DEF TakeSlot, SlotFor, WithSlotFor
  <2>2. SlotFor(sym, func) = v
    BY <1>4 DEF SlotFor
  <2>3. DOMAIN slots' = DOMAIN slots \cup {sym} /\ slots'[sym] = v /\ \A x \in DOMAIN slots : slots'[x] = slots[x]
    BY <1>4, <2>1, <2>2 DEF HasSlot
  <2>4. SlotLaid(func, block, vals, in, at, s, func', out, v)
    BY <1>1, <2>1, LaidSlot
  <2>. HIDE DEF v, out
  <2>5. /\ Laid(func', block, vals, out, at, s) /\ More(func, in, func', out) /\ v \in Slots(func')
        /\ Slots(func') \subseteq Had(func', out, block)
    BY <2>4 DEF SlotLaid
  <2>6. Available(Slots(func'), Had(func', out, block), kind, v)
    BY <2>5 DEF Available
  <2>7. Pushes(func', block, vals, out, at, s, kind, v, t)
    BY <1>2, <2>5, <2>6 DEF Pushes
  <2>8. Laid(func', block, vals', out, at, t)
    BY <2>1, <2>7, LaidPush
  <2>9. Tables(fn, Plains(func', out), Slots(func'), at, s.left, loops, labels, slots, caseBlocks, stamped)
    BY <1>1, <2>5, TablesMore DEF More
  <2>10. Tables(fn, Plains(func', out), Slots(func'), at, t.left, loops, labels, slots', caseBlocks, stamped)
    BY <1>2, <2>3, <2>5, <2>9 DEF Tables
  <2>11. Slotting(fn, in, at, s, kind, out, t)
    BY <1>2, <2>5, <2>8, <2>10 DEF Slotting
  <2> QED
    BY <1>2, <2>11
<1> QED
  BY <1>3, <1>4

(* Work that takes a slot and changes nothing else leads on. *)
LEMMA SlottingHolds ==
  ASSUME NEW fn, NEW in, NEW at, NEW s, Under(fn, in, at, s), NEW u, Ahead(fn, in, s, u), Head(todo).do # "test",
         NEW work, Then(work), block' = block, UNCHANGED <<loops, labels, caseBlocks, stamped, cases, defaults>>,
         NEW kind, NEW out, NEW t, Slotting(fn, in, at, s, kind, out, t),
         Chain(fn, Plains(func', out), work, t, u)
  PROVE  Onward(fn)
<1>1. t.cases = s.cases /\ t.left = s.left
  BY DEF Slotting, Sh
<1>2. todo # <<>> /\ Switching(fn, s, Had(func, in, block), cases, defaults, todo)
  BY DEF Under, Ahead
<1>3. Switching(fn, t, Had(func', out, block'), cases', defaults', todo')
  BY <1>1, <1>2, SwitchingKept
<1>4. Arrives(fn, in, s, u, work, out, at, t)
  BY <1>3 DEF Arrives, Slotting
<1> QED
  BY <1>4, ArrivesHolds

-----------------------------------------------------------------------------
(* Work that takes a slot                                                  *)

(* The expression that is next, and what it is to leave. *)
LEMMA AheadExpression ==
  ASSUME NEW fn \in AllFunctions, NEW in, NEW at, NEW s, Under(fn, in, at, s), Does("value") \/ Does("address"),
         NEW u, Ahead(fn, in, s, u)
  PROVE  /\ Does("value") => Leads(fn, s, u, KindsOf(Node))
         /\ Does("address") => Leads(fn, s, u, {"none", "value"})
         /\ IsShape(s) /\ s.open = TRUE /\ Low(s.due, Len(s.stack)) /\ Low(s.due, Len(s.stack) + 1)
         /\ s.stack \in Seq(Kinds) /\ todo # <<>> /\ Head(todo).do # "test"
         /\ Laid(func, block, vals, in, at, s)
<1>1. Step(fn, Plains(func, in), Head(todo), s, u)
  BY DEF Ahead
<1>2. /\ Does("value") => Leads(fn, s, u, KindsOf(Node))
      /\ Does("address") => Leads(fn, s, u, {"none", "value"})
  BY <1>1, ExpressionFacts DEF Does
<1>3. IsShape(s) /\ Laid(func, block, vals, in, at, s) /\ s.stack \in Seq(Kinds)
  BY DEF Under, Laid, IsShape
<1>4. s.open = TRUE
  BY <1>2 DEF Leads, Ex, Sh
<1>5. Low(s.due, Len(s.stack))
  BY <1>2 DEF Leads, Fit
<1>6. Low(s.due, Len(s.stack) + 1)
  BY <1>3, <1>5, Lower1
<1> QED
  BY <1>2, <1>3, <1>4, <1>5, <1>6 DEF Does

(* A value more on the shape. *)
LEMMA ExIs ==
  ASSUME NEW s, IsShape(s), NEW k \in Kinds, s.open = TRUE
  PROVE  Ex(s, <<k>>) = Sh(Append(s.stack, k), s.open, s.cases, s.left, s.due)
<1>1. s.stack \in Seq(Kinds)
  BY DEF IsShape
<1>2. Append(s.stack, k) = s.stack \o <<k>>
  BY <1>1, Piled
<1> QED
  BY <1>2 DEF Ex

(* A local, a call through a pointer and a declaration. *)
LEMMA LocalAddressOn ==
  ASSUME NEW fn \in AllFunctions, NEW in, NEW at, NEW s, Under(fn, in, at, s), LocalAddress
  PROVE  Onward(fn)
<1>1. /\ Does("address") /\ TakeSlot(Node.sym) /\ Then(<<>>) /\ block' = block
      /\ UNCHANGED <<loops, labels, caseBlocks, stamped, cases, defaults>>
  BY DEF LocalAddress
<1>2. PICK u : Ahead(fn, in, s, u)
  BY <1>1, UnderAhead DEF Does
<1>3. /\ Leads(fn, s, u, {"none", "value"}) /\ IsShape(s) /\ s.open = TRUE /\ Low(s.due, Len(s.stack) + 1)
      /\ Head(todo).do # "test"
  BY <1>1, <1>2, AheadExpression
<1>4. PICK k \in {"none", "value"} : u = Ex(s, <<k>>)
  BY <1>3 DEF Leads
<1>5. k \in Kinds
  BY KindLists
<1>6. u = Sh(Append(s.stack, k), s.open, s.cases, s.left, s.due)
  BY <1>3, <1>4, <1>5, ExIs
<1>7. PICK out : Slotting(fn, in, at, s, k, out, u)
  BY <1>1, <1>3, <1>5, <1>6, SlotTaken
<1>8. Chain(fn, Plains(func', out), <<>>, u, u)
  BY ChainEmpty
<1> QED
  BY <1>1, <1>2, <1>3, <1>7, <1>8, SlottingHolds

LEMMA IndirectCallOn ==
  ASSUME NEW fn \in AllFunctions, NEW in, NEW at, NEW s, Under(fn, in, at, s), IndirectCall
  PROVE  Onward(fn)
<1> DEFINE work == <<Load(Node.sym.ty)>> \o ArgumentsAndCall(Node)
           t == Ex(s, <<"value">>)
<1>1. /\ Does("value") /\ Node.type = "call" /\ TakeSlot(Node.sym) /\ Then(work) /\ block' = block
      /\ UNCHANGED <<loops, labels, caseBlocks, stamped, cases, defaults>>
  BY DEF IndirectCall, Visits, Node
<1>2. PICK u : Ahead(fn, in, s, u)
  BY <1>1, UnderAhead DEF Does
<1>3. /\ Leads(fn, s, u, KindsOf(Node)) /\ IsShape(s) /\ s.open = TRUE /\ Low(s.due, Len(s.stack) + 1)
      /\ Head(todo).do # "test"
  BY <1>1, <1>2, AheadExpression
<1>4. PICK r \in KindsOf(Node) : u = Ex(s, <<r>>)
  BY <1>3 DEF Leads
<1>5. t = Sh(Append(s.stack, "value"), s.open, s.cases, s.left, s.due)
  BY <1>3, KindLists, ExIs
<1>. HIDE DEF t
<1>6. PICK out : Slotting(fn, in, at, s, "value", out, t)
  BY <1>1, <1>3, <1>5, KindLists, SlotTaken
<1>7. Chain(fn, Plains(func', out), work, t, u)
  <2>1. Fit(fn, s) /\ Node \in NodesOf[fn]
    BY <1>3 DEF Leads
  <2>2. Step(fn, Plains(func', out), Load(Node.sym.ty), t, t)
    <3>1. Step(fn, Plains(func', out), Appending("load", 1, << 1 >>, Node.sym.ty, <<Result>>), Ex(s, <<"value">>), Ex(s, <<"value">>))
      BY <2>1, OneOn DEF Ones
    <3> QED
      BY <3>1, LoadIs DEF t
  <2>3. Chain(fn, Plains(func', out), <<Load(Node.sym.ty)>>, t, t)
    BY <2>2, ChainOne
  <2>4. Chain(fn, Plains(func', out), ArgumentsAndCall(Node), t, u)
    BY <1>1, <1>4, <2>1, CallWork DEF t
  <2> QED
    BY <2>3, <2>4, ChainJoin
<1>. HIDE DEF work
<1> QED
  BY <1>1, <1>2, <1>3, <1>6, <1>7, SlottingHolds

LEMMA DeclarationOn ==
  ASSUME NEW fn \in AllFunctions, NEW in, NEW at, NEW s, Under(fn, in, at, s), Declaration
  PROVE  Onward(fn)
<1> DEFINE work == Initialised(Node.ty, Node.init)
           t == OnSlot(s.left, s.due)
<1>1. /\ Does("statement") /\ Node.type = "declaration" /\ TakeSlot(Node.sym) /\ Then(work) /\ block' = block
      /\ UNCHANGED <<loops, labels, caseBlocks, stamped, cases, defaults>>
  BY DEF Declaration, Visits, Node
<1>2. PICK u : Ahead(fn, in, s, u)
  BY <1>1, UnderAhead DEF Does
<1>3. todo # <<>> /\ Head(todo).do = "statement"
  BY <1>1 DEF Does
<1>4. Step(fn, Plains(func, in), Head(todo), s, u)
  BY <1>2 DEF Ahead
<1>5. s = St(s.left, s.due) /\ Placed(fn, Node, s.left, s.due) /\ u = St(s.left \ MarksIn(Node), s.due)
  BY <1>3, <1>4, StatementFacts DEF Stated
<1>6. Fit(fn, s)
  BY <1>5, StFit DEF Placed
<1>7. IsShape(s) /\ Low(s.due, Len(s.stack) + 1)
  BY <1>6, Lower1 DEF Fit
<1>8. s.open = TRUE
  BY <1>5, StIs
<1>9. t = Sh(Append(s.stack, "slot"), s.open, s.cases, s.left, s.due)
  <2>1. t = Ex(s, <<"slot">>)
    BY <1>5 DEF OnSlot
  <2> QED
    BY <1>7, <1>8, <2>1, KindLists, ExIs
<1>10. \A B : Chain(fn, B, work, t, u)
  BY <1>1, <1>5, DeclarationWork
<1>. HIDE DEF t, work
<1>11. PICK out : Slotting(fn, in, at, s, "slot", out, t)
  BY <1>1, <1>7, <1>9, KindLists, SlotTaken
<1>12. Chain(fn, Plains(func', out), work, t, u)
  BY <1>10
<1>13. Head(todo).do # "test"
  BY <1>3
<1> QED
  BY <1>1, <1>2, <1>11, <1>12, <1>13, SlottingHolds

(* Nothing leaves no value, and is known for it. *)
LEMMA NoExpressionOn ==
  ASSUME NEW fn \in AllFunctions, NEW in, NEW at, NEW s, Under(fn, in, at, s), NoExpression
  PROVE  Onward(fn)
<1>1. /\ Does("value") /\ Node.type = "nothing" /\ vals' = Append(vals, NoValue) /\ Then(<<>>)
      /\ func' = func /\ block' = block /\ loops' = loops /\ labels' = labels /\ slots' = slots
      /\ caseBlocks' = caseBlocks /\ stamped' = stamped /\ cases' = cases /\ defaults' = defaults
  BY DEF NoExpression, Visits, Node, tableVars
<1>2. PICK u : Ahead(fn, in, s, u)
  BY <1>1, UnderAhead DEF Does
<1>3. /\ Leads(fn, s, u, KindsOf(Node)) /\ IsShape(s) /\ s.open = TRUE /\ Low(s.due, Len(s.stack) + 1)
      /\ Head(todo).do # "test" /\ Laid(func, block, vals, in, at, s)
  BY <1>1, <1>2, AheadExpression
<1>4. u = Ex(s, <<"none">>)
  <2>1. WellTyped(Node)
    BY <1>3, NodeFacts DEF Leads
  <2>2. IsNull(Node)
    BY <1>1, <2>1 DEF WellTyped
  <2>3. KindsOf(Node) = {"none"}
    BY <2>2 DEF KindsOf, IsVoid
  <2> QED
    BY <1>3, <2>3 DEF Leads
<1>5. u = Sh(Append(s.stack, "none"), s.open, s.cases, s.left, s.due)
  BY <1>3, <1>4, KindLists, ExIs
<1>6. Available(Slots(func), Had(func, in, block), "none", NoValue)
  BY DEF Available
<1>7. Pushes(func, block, vals, in, at, s, "none", NoValue, u)
  BY <1>3, <1>5, <1>6, KindLists DEF Pushes
<1>8. Laid(func', block', vals', in, at, u)
  BY <1>1, <1>7, LaidPush
<1>9. u.left = s.left
  BY <1>5 DEF Sh
<1>10. Tables(fn, Plains(func', in), Slots(func'), at, u.left, loops', labels', slots', caseBlocks', stamped')
  BY <1>1, <1>9 DEF Under
<1>11. Slotting(fn, in, at, s, "none", in, u)
  BY <1>1, <1>5, <1>8, <1>10 DEF Slotting, More
<1>12. Chain(fn, Plains(func', in), <<>>, u, u)
  BY ChainEmpty
<1> QED
  BY <1>1, <1>2, <1>3, <1>11, <1>12, SlottingHolds

-----------------------------------------------------------------------------
(* Blocks that are made while values wait                                  *)

(* What is due was due before, or has on entry what there is now. *)
Levelled(f, b, in, s) ==
  \A e \in s.due : e[2] \in Nat /\ (e[2] <= Len(s.stack) \/ (e[2] = Len(s.stack) + 1 /\ in[e[1]] = Had(f, in, b)))

LaterLaid(f, b, vs, in, at, s, g, out, n, t) ==
  /\ Laid(g, b, vs, out, at, t) /\ Levelled(g, b, out, t) /\ Roomier(f, in, g, out, n) /\ n \notin DueBlocks(s.due)

(* A block made while values wait has on entry what the block control is   *)
(* in has now.                                                             *)
LEMMA LaidLater ==
  ASSUME NEW f, NEW b, NEW vs, NEW in, NEW at, NEW s, Laid(f, b, vs, in, at, s), Levelled(f, b, in, s),
         NEW t, t = Sh(s.stack, s.open, s.cases, s.left, s.due \cup {<<LastBlock(f) + 1, Len(s.stack) + 1>>})
  PROVE  LaterLaid(f, b, vs, in, at, s, NewBlock(f), With(in, Had(f, in, b)), LastBlock(f) + 1, t)
<1> DEFINE g == NewBlock(f)
           n == LastBlock(f) + 1
           S == Had(f, in, b)
           out == With(in, S)
           l == Len(s.stack) + 1
<1>1. IsShape(s) /\ Standing(f, b, in, at, s.open, s.due) /\ Values(f, b, vs, in, s.stack, s.due)
  BY DEF Laid
<1>2. Sound(f, in) /\ b \in DOMAIN f.code
  BY <1>1 DEF Standing, Blocks
<1>3. Slots(f) \subseteq S /\ S \subseteq 1 .. f.values
  BY <1>2, SlotsHad
<1>4. Widened(f, in, S, g, out, n)
  BY <1>2, <1>3, BlockWidens
<1>5. Roomier(f, in, g, out, n)
  BY <1>2, <1>4, WidenedRoomier
<1>6. Len(s.stack) \in Nat /\ l \in Nat /\ l # 0 /\ DOMAIN s.stack = 1 .. Len(s.stack)
  BY <1>1 DEF IsShape
<1>7. \A e \in s.due : e[2] \in Nat /\ (e[2] <= Len(s.stack) \/ (e[2] = l /\ in[e[1]] = S))
  BY DEF Levelled
<1>8. t.stack = s.stack /\ t.open = s.open /\ t.due = s.due \cup {<<n, l>>}
      /\ t = Sh(t.stack, t.open, t.cases, t.left, t.due)
  BY DEF Sh
<1>9. l = Len(s.stack) + 1
  OBVIOUS
<1>. HIDE DEF g, n, out, S, l
<1>10. n \notin DueBlocks(s.due)
  BY <1>1, <1>5 DEF Standing, Blocks, Pending, Roomier
<1>11. Standing(g, b, out, at, s.open, s.due \cup {<<n, l>>})
  <2>1. ASSUME NEW e \in s.due
        PROVE  (e[2] <= l => in[e[1]] \subseteq S) /\ (l <= e[2] => S \subseteq in[e[1]])
    <3>1. in[e[1]] \subseteq S
      BY <1>1 DEF Standing, DueFit, S
    <3>2. l <= e[2] => in[e[1]] = S
      BY <1>6, <1>7, <1>9
    <3> QED
      BY <3>1, <3>2
  <2>2. S \subseteq Had(f, in, b)
    BY DEF S
  <2> QED
    BY <1>1, <1>4, <1>6, <2>1, <2>2, StandingDue
<1>12. IsShape(t)
  BY <1>1, <1>8, <1>11 DEF IsShape, Standing
<1>13. /\ Slots(g) = Slots(f) /\ Had(g, out, b) = S /\ out[n] = S
       /\ \A d \in s.due : out[d[1]] = in[d[1]]
  <2>1. \A d \in s.due : d[1] \in DOMAIN f.code
    BY <1>1, DueBlocksFacts DEF Standing, Blocks, Pending
  <2> QED
    BY <1>2, <1>4, <2>1 DEF Widened, S
<1>14. Values(g, b, vs, out, t.stack, t.due)
  <2>1. \A k \in DOMAIN vs : Available(Slots(g), S, s.stack[k], vs[k])
    BY <1>1, <1>13 DEF Values, S
  <2>2. ASSUME NEW d \in t.due, NEW k \in DOMAIN vs, k < d[2] PROVE Available(Slots(g), out[d[1]], s.stack[k], vs[k])
    <3>1. CASE d \in s.due
      BY <1>1, <1>13, <2>2, <3>1 DEF Values
    <3>2. CASE d = <<n, l>>
      BY <1>13, <2>1, <3>2
    <3> QED
      BY <1>8, <3>1, <3>2
  <2> QED
    BY <1>1, <1>8, <1>13, <2>1, <2>2 DEF Values
<1>15. Levelled(g, b, out, t)
  <2>1. ASSUME NEW e \in t.due
        PROVE  e[2] \in Nat /\ (e[2] <= Len(t.stack) \/ (e[2] = Len(t.stack) + 1 /\ out[e[1]] = Had(g, out, b)))
    <3>1. CASE e \in s.due
      BY <1>7, <1>8, <1>9, <1>13, <3>1
    <3>2. CASE e = <<n, l>>
      BY <1>6, <1>8, <1>9, <1>13, <3>2
    <3> QED
      BY <1>8, <3>1, <3>2
  <2> QED
    BY <2>1 DEF Levelled
<1>16. LaterLaid(f, b, vs, in, at, s, g, out, n, t)
  BY <1>5, <1>8, <1>10, <1>11, <1>12, <1>14, <1>15 DEF LaterLaid, Laid
<1> QED
  BY <1>16 DEF g, n, out, S

(* N of them. *)
DueAt(L, N, l) == {<<L + k, l>> : k \in 1 .. N}

(* N of them, at one level. *)
LEMMA DueAtFacts ==
  ASSUME NEW L \in Nat, NEW N \in Nat, NEW l
  PROVE  DueAt(L, 0, l) = {} /\ DueAt(L, N + 1, l) = DueAt(L, N, l) \cup {<<L + N + 1, l>>}
<1>1. DueAt(L, 0, l) = {}
  BY DEF DueAt
<1>2. 1 .. N + 1 = 1 .. N \cup {N + 1}
  OBVIOUS
<1>3. L + (N + 1) = L + N + 1
  OBVIOUS
<1> QED
  BY <1>1, <1>2, <1>3 DEF DueAt

(* N blocks more, to be opened while values wait. *)
Rests(f, b, vs, in, at, s, g, N, out) ==
  LET t == Sh(s.stack, s.open, s.cases, s.left, s.due \cup DueAt(LastBlock(f), N, Len(s.stack) + 1))
  IN /\ Laid(g, b, vs, out, at, t) /\ Levelled(g, b, out, t)
     /\ More(f, in, g, out) /\ LastBlock(f) \in Nat /\ LastBlock(g) = LastBlock(f) + N /\ g.values = f.values
     /\ \A k \in 1 .. N : LastBlock(f) + k \notin DueBlocks(s.due)

(* None of them are made, *)
LEMMA NoRests ==
  ASSUME NEW f, NEW b, NEW vs, NEW in, NEW at, NEW s, Laid(f, b, vs, in, at, s), Levelled(f, b, in, s)
  PROVE  Rests(f, b, vs, in, at, s, f, 0, in)
<1>1. LastBlock(f) \in Nat
  BY LaidSound, NewBlockLast
<1>2. s.due \cup DueAt(LastBlock(f), 0, Len(s.stack) + 1) = s.due
  BY <1>1, DueAtFacts
<1>3. s = Sh(s.stack, s.open, s.cases, s.left, s.due)
  BY DEF Laid, IsShape
<1>4. s = Sh(s.stack, s.open, s.cases, s.left, s.due \cup DueAt(LastBlock(f), 0, Len(s.stack) + 1))
  BY <1>2, <1>3
<1> QED
  BY <1>1, <1>4 DEF Rests, More

(* or one more than before. *)
LEMMA RestMore ==
  ASSUME NEW f, NEW b, NEW vs, NEW in, NEW at, NEW s, NEW g, NEW N \in Nat, NEW out, Rests(f, b, vs, in, at, s, g, N, out)
  PROVE  Rests(f, b, vs, in, at, s, NewBlock(g), N + 1, With(out, Had(g, out, b)))
<1> DEFINE L == LastBlock(f)
           l == Len(s.stack) + 1
           D == s.due \cup DueAt(L, N, l)
           t == Sh(s.stack, s.open, s.cases, s.left, D)
           h == NewBlock(g)
           more == With(out, Had(g, out, b))
           n == LastBlock(g) + 1
           E == s.due \cup DueAt(L, N + 1, l)
           u == Sh(s.stack, s.open, s.cases, s.left, E)
<1>1. /\ Laid(g, b, vs, out, at, t) /\ Levelled(g, b, out, t) /\ More(f, in, g, out) /\ L \in Nat /\ LastBlock(g) = L + N
      /\ g.values = f.values /\ \A k \in 1 .. N : L + k \notin DueBlocks(s.due)
  BY DEF Rests
<1>2. n = L + N + 1
  BY <1>1
<1>3. t.stack = s.stack /\ t.open = s.open /\ t.cases = s.cases /\ t.left = s.left /\ t.due = D
  BY DEF Sh
<1>4. E = D \cup {<<n, l>>}
  BY <1>1, <1>2, DueAtFacts
<1>5. u = Sh(t.stack, t.open, t.cases, t.left, t.due \cup {<<n, Len(t.stack) + 1>>})
  BY <1>3, <1>4
<1>. HIDE DEF t, u, D, E
<1>6. LaterLaid(g, b, vs, out, at, t, h, more, n, u)
  BY <1>1, <1>5, LaidLater
<1>. HIDE DEF h, more, n
<1>7. /\ Laid(h, b, vs, more, at, u) /\ Levelled(h, b, more, u) /\ More(g, out, h, more)
      /\ n \notin DueBlocks(t.due) /\ LastBlock(h) = n /\ h.values = g.values
  BY <1>6 DEF LaterLaid, Roomier
<1>8. n \notin DueBlocks(s.due)
  BY <1>3, <1>7 DEF DueBlocks, D
<1>9. More(f, in, h, more)
  BY <1>1, <1>7 DEF More
<1>. HIDE DEF L
<1>10. ASSUME NEW k \in 1 .. N + 1 PROVE L + k \notin DueBlocks(s.due)
  <2>1. CASE k \in 1 .. N
    BY <1>1, <2>1
  <2>2. CASE k = N + 1
    <3>1. L + k = n
      BY <1>1, <1>2, <2>2
    <3> QED
      BY <1>8, <3>1
  <2> QED
    BY <2>1, <2>2
<1>11. LastBlock(h) = L + (N + 1)
  BY <1>1, <1>2, <1>7
<1>12. Rests(f, b, vs, in, at, s, h, N + 1, more)
  BY <1>1, <1>7, <1>9, <1>10, <1>11 DEF Rests, u, E, L
<1> QED
  BY <1>12 DEF h, more

(* Two and three of them. *)
LEMMA RestsMade ==
  ASSUME NEW f, NEW b, NEW vs, NEW in, NEW at, NEW s, Laid(f, b, vs, in, at, s), Levelled(f, b, in, s)
  PROVE  /\ \E out : Rests(f, b, vs, in, at, s, NewBlock(NewBlock(f)), 2, out)
         /\ \E out : Rests(f, b, vs, in, at, s, NewBlock(NewBlock(NewBlock(f))), 3, out)
<1>0. Rests(f, b, vs, in, at, s, f, 0, in)
  BY NoRests
<1>1. PICK o1 : Rests(f, b, vs, in, at, s, NewBlock(f), 1, o1)
  <2>1. 0 + 1 = 1
    OBVIOUS
  <2> QED
    BY <1>0, <2>1, RestMore
<1>2. PICK o2 : Rests(f, b, vs, in, at, s, NewBlock(NewBlock(f)), 2, o2)
  <2>1. 1 + 1 = 2
    OBVIOUS
  <2> QED
    BY <1>1, <2>1, RestMore
<1>3. PICK o3 : Rests(f, b, vs, in, at, s, NewBlock(NewBlock(NewBlock(f))), 3, o3)
  <2>1. 2 + 1 = 3
    OBVIOUS
  <2> QED
    BY <1>2, <2>1, RestMore
<1> QED
  BY <1>2, <1>3

(* As they are listed. *)
LEMMA DueAtShort ==
  ASSUME NEW L \in Nat, NEW l
  PROVE  /\ DueAt(L, 2, l) = {<<L + 1, l>>, <<L + 2, l>>}
         /\ DueAt(L, 3, l) = {<<L + 1, l>>, <<L + 2, l>>, <<L + 3, l>>}
<1>1. DueAt(L, 0, l) = {}
  BY DueAtFacts
<1>2. DueAt(L, 1, l) = {<<L + 1, l>>}
  <2>1. 0 + 1 = 1 /\ L + 0 + 1 = L + 1
    OBVIOUS
  <2> QED
    BY <1>1, <2>1, DueAtFacts
<1>3. DueAt(L, 2, l) = DueAt(L, 1, l) \cup {<<L + 2, l>>}
  <2>1. 1 + 1 = 2 /\ L + 1 + 1 = L + 2
    OBVIOUS
  <2> QED
    BY <2>1, DueAtFacts
<1>4. DueAt(L, 3, l) = DueAt(L, 2, l) \cup {<<L + 3, l>>}
  <2>1. 2 + 1 = 3 /\ L + 2 + 1 = L + 3
    OBVIOUS
  <2> QED
    BY <2>1, DueAtFacts
<1> QED
  BY <1>2, <1>3, <1>4

(* An answer that waits in a slot, and blocks due while it does. *)
Answers(fn, in, at, s, u, work, g, N, out) ==
  /\ Ahead(fn, in, s, u) /\ Leads(fn, s, u, KindsOf(Node)) /\ Head(todo).do # "test"
  /\ Rests(func, block, vals, in, at, s, g, N, out)
  /\ func' = WithSlot(g) /\ vals' = Append(vals, FreshValue(func))
  /\ UNCHANGED <<tableVars, block>> /\ Then(work)
  /\ \A B : Chain(fn, B, work, Slotted(s, DueAt(LastBlock(func), N, Len(s.stack) + 1)), u)

(* An expression whose answer waits in a slot leads on. *)
LEMMA AnswersHold ==
  ASSUME NEW fn \in AllFunctions, NEW in, NEW at, NEW s, Under(fn, in, at, s), NEW u, NEW work, NEW g, NEW N, NEW out,
         Answers(fn, in, at, s, u, work, g, N, out)
  PROVE  Onward(fn)
<1> DEFINE D == s.due \cup DueAt(LastBlock(func), N, Len(s.stack) + 1)
           p == Sh(s.stack, s.open, s.cases, s.left, D)
           t == Slotted(s, DueAt(LastBlock(func), N, Len(s.stack) + 1))
           v == FreshValue(g)
           more == Also(out, v)
<1>1. /\ Laid(g, block, vals, out, at, p) /\ Levelled(g, block, out, p) /\ More(func, in, g, out)
      /\ g.values = func.values
  BY DEF Answers, Rests
<1>2. /\ func' = WithSlot(g) /\ vals' = Append(vals, v) /\ UNCHANGED <<tableVars, block>> /\ Then(work)
      /\ \A B : Chain(fn, B, work, t, u)
  BY <1>1 DEF Answers, FreshValue
<1>3. Ahead(fn, in, s, u) /\ Fit(fn, s) /\ Ex(s, <<>>) = s /\ Head(todo).do # "test"
  BY DEF Answers, Leads
<1>4. IsShape(s) /\ Len(s.stack) \in Nat
  BY <1>3 DEF Fit, IsShape
<1>5. s.open = TRUE
  BY <1>3 DEF Ex, Sh
<1>6. p.stack = s.stack /\ p.open = TRUE /\ p.cases = s.cases /\ p.left = s.left /\ p.due = D
  BY <1>5 DEF Sh
<1>7. t = Sh(Append(p.stack, "slot"), p.open, p.cases, p.left, p.due)
  BY <1>6 DEF Slotted
<1>8. t.cases = s.cases /\ t.left = s.left
  BY DEF Slotted, Sh
<1>. HIDE DEF p, t, D
<1>9. SlotLaid(g, block, vals, out, at, p, func', more, v)
  BY <1>1, <1>2, LaidSlot
<1>. HIDE DEF v, more
<1>10. /\ Laid(func', block, vals, more, at, p) /\ More(g, out, func', more) /\ v \in Slots(func')
  BY <1>9 DEF SlotLaid
<1>11. Low(p.due, Len(p.stack) + 1)
  <2>1. \A e \in p.due : e[2] \in Nat /\ (e[2] <= Len(p.stack) \/ e[2] = Len(p.stack) + 1)
    BY <1>1 DEF Levelled
  <2>2. Len(p.stack) \in Nat
    BY <1>4, <1>6
  <2> QED
    BY <2>1, <2>2 DEF Low
<1>12. Pushes(func', block, vals, more, at, p, "slot", v, t)
  BY <1>7, <1>10, <1>11, KindLists DEF Pushes, Available
<1>13. Laid(func', block', vals', more, at, t)
  BY <1>2, <1>12, LaidPush
<1>14. More(func, in, func', more)
  BY <1>1, <1>10 DEF More
<1>15. Tables(fn, Plains(func', more), Slots(func'), at, t.left, loops', labels', slots', caseBlocks', stamped')
  <2>1. Tables(fn, Plains(func, in), Slots(func), at, s.left, loops, labels, slots, caseBlocks, stamped)
    BY DEF Under
  <2>2. Tables(fn, Plains(func', more), Slots(func'), at, s.left, loops, labels, slots, caseBlocks, stamped)
    BY <1>14, <2>1, TablesMore DEF More
  <2> QED
    BY <1>2, <1>8, <2>2 DEF tableVars
<1>16. Switching(fn, t, Had(func', more, block'), cases', defaults', todo')
  <2>1. todo # <<>> /\ Switching(fn, s, Had(func, in, block), cases, defaults, todo)
    BY <1>3 DEF Under, Ahead
  <2>2. Switching(fn, t, Had(func', more, block'), cases, defaults, todo')
    BY <1>3, <1>8, <2>1, SwitchingKept
  <2> QED
    BY <1>2, <2>2 DEF tableVars
<1>17. Arrives(fn, in, s, u, work, more, at, t)
  BY <1>2, <1>3, <1>13, <1>14, <1>15, <1>16 DEF Arrives
<1> QED
  BY <1>17, ArrivesHolds

(* No block is due at this level before. *)
LEMMA LowLevelled ==
  ASSUME NEW s, IsShape(s), Low(s.due, Len(s.stack)), NEW f, NEW b, NEW in
  PROVE  Levelled(f, b, in, s)
<1>1. \A e \in s.due : e[2] \in Nat
  BY DEF IsShape, IsDue
<1> QED
  BY <1>1 DEF Low, Levelled

(* && and ||, and ?:. *)
LEMMA ShortCircuitOn ==
  ASSUME NEW fn \in AllFunctions, NEW in, NEW at, NEW s, Under(fn, in, at, s), ShortCircuit
  PROVE  Onward(fn)
<1> DEFINE L == LastBlock(func)
           l == Len(s.stack) + 1
           g == NewBlock(NewBlock(func))
           work == <<Value(Node.left)>> \o IsTrue \o
                   <<Store(<<1, 2>>), IF Node.type = "and" THEN BranchTo(L + 1, L + 2) ELSE BranchTo(L + 2, L + 1),
                     OpenAt(L + 1), Value(Node.right)>> \o IsTrue \o
                   <<Store(<< 1 >>), JumpTo(L + 2), OpenAt(L + 2), Load(IntType)>>
<1>1. /\ Does("value") /\ Node.type \in {"and", "or"} /\ func' = WithSlot(g) /\ vals' = Append(vals, FreshValue(func))
      /\ UNCHANGED <<tableVars, block>> /\ Then(work)
  BY DEF ShortCircuit, Node
<1>2. PICK u : Ahead(fn, in, s, u)
  BY <1>1, UnderAhead DEF Does
<1>3. /\ Leads(fn, s, u, KindsOf(Node)) /\ IsShape(s) /\ Low(s.due, Len(s.stack)) /\ Head(todo).do # "test"
      /\ Laid(func, block, vals, in, at, s)
  BY <1>1, <1>2, AheadExpression
<1>4. PICK out : Rests(func, block, vals, in, at, s, g, 2, out)
  BY <1>3, LowLevelled, RestsMade
<1>5. L \in Nat /\ \A k \in 1 .. 2 : L + k \notin DueBlocks(s.due)
  BY <1>4 DEF Rests
<1>6. PICK r \in KindsOf(Node) : u = Ex(s, <<r>>)
  BY <1>3 DEF Leads
<1>7. r \in {"none", "value"} /\ Fit(fn, s) /\ Node \in NodesOf[fn]
  BY <1>3, <1>6 DEF KindsOf, Leads
<1>8. DueAt(L, 2, l) = {<<L + 1, l>>, <<L + 2, l>>}
  BY <1>5, DueAtShort
<1>. HIDE DEF L, g
<1>9. L + 1 \in Nat /\ L + 2 \in Nat /\ L + 1 # L + 2
  BY <1>5, RoomNumbers
<1>10. L + 1 \notin DueBlocks(s.due) /\ L + 2 \notin DueBlocks(s.due)
  <2>1. 1 \in 1 .. 2 /\ 2 \in 1 .. 2
    OBVIOUS
  <2> QED
    BY <1>5, <2>1
<1>11. \A B : Chain(fn, B, work, Slotted(s, {<<L + 1, l>>, <<L + 2, l>>}), Ex(s, <<r>>))
  BY <1>1, <1>7, <1>9, <1>10, ShortCircuitWork
<1>. HIDE DEF work, l
<1>12. \A B : Chain(fn, B, work, Slotted(s, DueAt(L, 2, l)), u)
  BY <1>6, <1>8, <1>11
<1>13. Answers(fn, in, at, s, u, work, g, 2, out)
  BY <1>1, <1>2, <1>3, <1>4, <1>12 DEF Answers, L, l
<1> QED
  BY <1>13, AnswersHold

LEMMA ConditionalOn ==
  ASSUME NEW fn \in AllFunctions, NEW in, NEW at, NEW s, Under(fn, in, at, s), ConditionalValue
  PROVE  Onward(fn)
<1> DEFINE L == LastBlock(func)
           l == Len(s.stack) + 1
           g == NewBlock(NewBlock(NewBlock(func)))
           work == <<Value(Node.left), BranchTo(L + 1, L + 2),
                     OpenAt(L + 1), Value(Node.then), Store(<< 1 >>), JumpTo(L + 3),
                     OpenAt(L + 2), Value(Node.else), Store(<< 1 >>), JumpTo(L + 3),
                     OpenAt(L + 3), Load(Node.ty)>>
<1>1. /\ Does("value") /\ Node.type = "conditional" /\ func' = WithSlot(g) /\ vals' = Append(vals, FreshValue(func))
      /\ UNCHANGED <<tableVars, block>> /\ Then(work)
  BY DEF ConditionalValue, Visits, Node
<1>2. PICK u : Ahead(fn, in, s, u)
  BY <1>1, UnderAhead DEF Does
<1>3. /\ Leads(fn, s, u, KindsOf(Node)) /\ IsShape(s) /\ Low(s.due, Len(s.stack)) /\ Head(todo).do # "test"
      /\ Laid(func, block, vals, in, at, s)
  BY <1>1, <1>2, AheadExpression
<1>4. PICK out : Rests(func, block, vals, in, at, s, g, 3, out)
  BY <1>3, LowLevelled, RestsMade
<1>5. L \in Nat /\ \A k \in 1 .. 3 : L + k \notin DueBlocks(s.due)
  BY <1>4 DEF Rests
<1>6. PICK r \in KindsOf(Node) : u = Ex(s, <<r>>)
  BY <1>3 DEF Leads
<1>7. r \in {"none", "value"} /\ Fit(fn, s) /\ Node \in NodesOf[fn]
  BY <1>3, <1>6 DEF KindsOf, Leads
<1>8. DueAt(L, 3, l) = {<<L + 1, l>>, <<L + 2, l>>, <<L + 3, l>>}
  BY <1>5, DueAtShort
<1>. HIDE DEF L, g
<1>9. L + 1 \in Nat /\ L + 2 \in Nat /\ L + 3 \in Nat /\ L + 1 # L + 2 /\ L + 1 # L + 3 /\ L + 2 # L + 3
  BY <1>5, RoomNumbers
<1>10. L + 1 \notin DueBlocks(s.due) /\ L + 2 \notin DueBlocks(s.due) /\ L + 3 \notin DueBlocks(s.due)
  <2>1. 1 \in 1 .. 3 /\ 2 \in 1 .. 3 /\ 3 \in 1 .. 3
    OBVIOUS
  <2> QED
    BY <1>5, <2>1
<1>11. \A B : Chain(fn, B, work, Slotted(s, {<<L + 1, l>>, <<L + 2, l>>, <<L + 3, l>>}), Ex(s, <<r>>))
  BY <1>1, <1>7, <1>9, <1>10, ConditionalWork
<1>. HIDE DEF work, l
<1>12. \A B : Chain(fn, B, work, Slotted(s, DueAt(L, 3, l)), u)
  BY <1>6, <1>8, <1>11
<1>13. Answers(fn, in, at, s, u, work, g, 3, out)
  BY <1>1, <1>2, <1>3, <1>4, <1>12 DEF Answers, L, l
<1> QED
  BY <1>13, AnswersHold

-----------------------------------------------------------------------------
(* Values used and blocks ended                                            *)

(* One piece of work is done. *)
Plumbs(fn, in, s, u, out, at) ==
  /\ Ahead(fn, in, s, u) /\ Head(todo).do # "test" /\ Then(<<>>) /\ More(func, in, func', out)
  /\ Laid(func', block', vals', out, at, u) /\ u.cases = s.cases /\ u.left = s.left
  /\ IsSeq(loops') /\ \A k \in DOMAIN loops' : /\ loops'[k].onBreak \in Plains(func', out)
                                               /\ loops'[k].onContinue \in Plains(func', out)
  /\ labels' = labels /\ slots' = slots /\ caseBlocks' = caseBlocks /\ stamped' = stamped
  /\ cases' = cases /\ defaults' = defaults

(* An action that does one piece of work leads on. *)
LEMMA PlumbsHold ==
  ASSUME NEW fn, NEW in, NEW at, NEW s, Under(fn, in, at, s), NEW u, NEW out, Plumbs(fn, in, s, u, out, at)
  PROVE  Onward(fn)
<1>1. /\ Ahead(fn, in, s, u) /\ Head(todo).do # "test" /\ Then(<<>>) /\ More(func, in, func', out)
      /\ Laid(func', block', vals', out, at, u) /\ u.cases = s.cases /\ u.left = s.left
      /\ labels' = labels /\ slots' = slots /\ caseBlocks' = caseBlocks /\ stamped' = stamped
      /\ cases' = cases /\ defaults' = defaults
  BY DEF Plumbs
<1>2. Tables(fn, Plains(func', out), Slots(func'), at, u.left, loops', labels', slots', caseBlocks', stamped')
  <2>1. Tables(fn, Plains(func, in), Slots(func), at, s.left, loops, labels, slots, caseBlocks, stamped)
    BY DEF Under
  <2>2. Tables(fn, Plains(func', out), Slots(func'), at, s.left, loops, labels, slots, caseBlocks, stamped)
    BY <1>1, <2>1, TablesMore DEF More
  <2> QED
    BY <1>1, <2>2 DEF Tables, Plumbs
<1>3. Switching(fn, u, Had(func', out, block'), cases', defaults', todo')
  <2>1. todo # <<>> /\ Switching(fn, s, Had(func, in, block), cases, defaults, todo)
    BY <1>1 DEF Under, Ahead
  <2>2. Switching(fn, u, Had(func', out, block'), cases, defaults, todo')
    BY <1>1, <2>1, SwitchingKept
  <2> QED
    BY <1>1, <2>2
<1>4. Chain(fn, Plains(func', out), <<>>, u, u)
  BY ChainEmpty
<1>5. Arrives(fn, in, s, u, <<>>, out, at, u)
  BY <1>1, <1>2, <1>3, <1>4 DEF Arrives
<1> QED
  BY <1>5, ArrivesHolds

(* Where break and continue go, whatever blocks there are more. *)
LoopsFit(P, lp) == IsSeq(lp) /\ \A k \in DOMAIN lp : lp[k].onBreak \in P /\ lp[k].onContinue \in P

(* With more blocks the targets of break and continue are as right as      *)
(* before.                                                                 *)
LEMMA LoopsMore ==
  ASSUME NEW fn, NEW in, NEW at, NEW s, Under(fn, in, at, s)
  PROVE  /\ LoopsFit(Plains(func, in), loops)
         /\ \A Q : Plains(func, in) \subseteq Q => LoopsFit(Q, loops)
BY DEF Under, Tables, LoopsFit

(* The same when the tables are left alone. *)
LEMMA PlumbsKept ==
  ASSUME NEW fn, NEW in, NEW at, NEW s, Under(fn, in, at, s), NEW u, NEW out,
         Ahead(fn, in, s, u), Head(todo).do # "test", Then(<<>>), More(func, in, func', out),
         Laid(func', block', vals', out, at, u), u.cases = s.cases, u.left = s.left, UNCHANGED tableVars
  PROVE  Onward(fn)
<1>1. LoopsFit(Plains(func', out), loops)
  BY LoopsMore DEF More
<1>2. loops' = loops /\ labels' = labels /\ slots' = slots /\ caseBlocks' = caseBlocks /\ stamped' = stamped
      /\ cases' = cases /\ defaults' = defaults
  BY DEF tableVars
<1>3. Plumbs(fn, in, s, u, out, at)
  BY <1>1, <1>2 DEF Plumbs, LoopsFit
<1> QED
  BY <1>3, PlumbsHold

(* An instruction is appended. *)
LEMMA AppendNextOn ==
  ASSUME NEW fn \in AllFunctions, NEW in, NEW at, NEW s, Under(fn, in, at, s), AppendNext
  PROVE  Onward(fn)
<1> DEFINE w == Head(todo)
           taken == SubSeq(vals, Len(vals) - w.takes + 1, Len(vals))
<1>1. Does("append") /\ Then(<<>>) /\ UNCHANGED <<tableVars, block>>
  BY DEF AppendNext
<1>2. Appends(func, block, vals, w, taken, func', vals')
  BY DEF AppendNext, Appends, Asked, Destination, Older
<1>3. PICK u : Ahead(fn, in, s, u)
  BY <1>1, UnderAhead DEF Does
<1>4. w.do = "append"
  BY <1>1 DEF Does
<1>5. AppendStep(w, s, u)
  <2>1. Step(fn, Plains(func, in), w, s, u)
    BY <1>3 DEF Ahead
  <2> QED
    BY <1>4, <2>1, StepIs
<1>6. Laid(func, block, vals, in, at, s)
  BY DEF Under
<1>7. u.cases = s.cases /\ u.left = s.left
  BY <1>5 DEF AppendStep, Sh
<1>. HIDE DEF w, taken
<1>8. Laid(func', block, vals', in, at, u) /\ Plains(func', in) = Plains(func, in) /\ Slots(func') = Slots(func)
  BY <1>2, <1>5, <1>6, LaidAppend
<1>9. More(func, in, func', in)
  BY <1>8 DEF More
<1>10. Laid(func', block', vals', in, at, u)
  BY <1>1, <1>8
<1>11. Head(todo).do # "test"
  BY <1>4 DEF w
<1> QED
  BY <1>1, <1>3, <1>7, <1>9, <1>10, <1>11, PlumbsKept

(* The newest value is used. *)
Pops(f, b, vs, in, at, s, x, kind, t) ==
  /\ Laid(f, b, vs, in, at, s) /\ x \in Seq(Kinds) /\ kind \in Kinds /\ s.stack = Append(x, kind)
  /\ Low(s.due, Len(x) + 1) /\ t = Sh(x, s.open, s.cases, s.left, s.due)

(* The newest value is there to be used, as the shape says. *)
LEMMA LaidPop ==
  ASSUME NEW f, NEW b, NEW vs, NEW in, NEW at, NEW s, NEW x, NEW kind, NEW t, Pops(f, b, vs, in, at, s, x, kind, t)
  PROVE  /\ Laid(f, b, SubSeq(vs, 1, Len(vs) - 1), in, at, t)
         /\ Available(Slots(f), Had(f, in, b), kind, Last(vs))
<1>1. /\ IsShape(s) /\ Standing(f, b, in, at, s.open, s.due) /\ Values(f, b, vs, in, Append(x, kind), s.due)
      /\ x \in Seq(Kinds) /\ kind \in Kinds /\ Low(s.due, Len(x) + 1)
  BY DEF Pops, Laid
<1>2. IsDue(s.due) /\ s.open \in BOOLEAN
  BY <1>1 DEF IsShape
<1>3. Values(f, b, SubSeq(vs, 1, Len(vs) - 1), in, x, s.due) /\ Available(Slots(f), Had(f, in, b), kind, Last(vs))
  BY <1>1, <1>2, ValuesPopped
<1>4. t.stack = x /\ t.open = s.open /\ t.due = s.due /\ t = Sh(t.stack, t.open, t.cases, t.left, t.due)
  BY DEF Pops, Sh
<1>5. IsShape(t)
  BY <1>1, <1>2, <1>4 DEF IsShape
<1> QED
  BY <1>1, <1>3, <1>4, <1>5 DEF Laid

(* A value is forgotten. *)
LEMMA ForgetNextOn ==
  ASSUME NEW fn \in AllFunctions, NEW in, NEW at, NEW s, Under(fn, in, at, s), ForgetValue
  PROVE  Onward(fn)
<1>1. /\ Does("forget") /\ Then(<<>>) /\ UNCHANGED tableVars /\ func' = func /\ block' = block
      /\ vals' = SubSeq(vals, 1, Len(vals) - 1)
  BY DEF ForgetValue, Older
<1>2. PICK u : Ahead(fn, in, s, u)
  BY <1>1, UnderAhead DEF Does
<1>3. Head(todo).do = "forget" /\ Step(fn, Plains(func, in), Head(todo), s, u)
  BY <1>1, <1>2 DEF Does, Ahead
<1>4. PopStep(Head(todo), s, u)
  BY <1>3, StepIs
<1>5. PICK x \in Seq(Kinds), kind \in Kinds :
        s.stack = Append(x, kind) /\ Low(s.due, Len(x) + 1) /\ u = Sh(x, s.open, s.cases, s.left, s.due)
  BY <1>3, <1>4 DEF PopStep
<1>6. Pops(func, block, vals, in, at, s, x, kind, u)
  BY <1>5 DEF Pops, Under
<1>7. Laid(func', block', vals', in, at, u)
  BY <1>1, <1>6, LaidPop
<1>8. u.cases = s.cases /\ u.left = s.left
  BY <1>5 DEF Sh
<1>9. More(func, in, func', in)
  BY <1>1 DEF More
<1>10. Head(todo).do # "test"
  BY <1>3
<1> QED
  BY <1>1, <1>2, <1>7, <1>8, <1>9, <1>10, PlumbsKept

(* A block is ended. *)
Ends(f, b, vs, in, at, s, i, g, t) ==
  /\ Laid(f, b, vs, in, at, s) /\ s.open = TRUE
  /\ IsInstr(i) /\ IsTerminator(i.op) /\ IsNumbered(i, f.values)
  /\ Range(i.args) \subseteq Had(f, in, b) /\ Range(i.to) \subseteq Plains(f, in) \cup DueBlocks(s.due)
  /\ g = Emit(f, b, i) /\ t = Sh(s.stack, FALSE, s.cases, s.left, s.due)

(* A block is ended by an instruction whose operands it has and whose      *)
(* targets are due or have the slots on entry.                             *)
LEMMA LaidEnd ==
  ASSUME NEW f, NEW b, NEW vs, NEW in, NEW at, NEW s, NEW i, NEW g, NEW t, Ends(f, b, vs, in, at, s, i, g, t)
  PROVE  Laid(g, b, vs, in, at, t) /\ More(f, in, g, in)
<1>1. /\ IsShape(s) /\ Standing(f, b, in, at, TRUE, s.due) /\ Values(f, b, vs, in, s.stack, s.due)
      /\ IsInstr(i) /\ IsTerminator(i.op) /\ IsNumbered(i, f.values)
      /\ Range(i.args) \subseteq Had(f, in, b) /\ Range(i.to) \subseteq Plains(f, in) \cup DueBlocks(s.due)
      /\ g = Emit(f, b, i) /\ t = Sh(s.stack, FALSE, s.cases, s.left, s.due)
  BY DEF Ends, Laid
<1>2. Sound(f, in)
  BY <1>1 DEF Standing, Blocks
<1>3. f.values \in Nat /\ f.values <= f.values /\ DOMAIN f = {"code", "values"}
  BY <1>2 DEF Sound
<1>4. DOMAIN g = {"code", "values"} /\ g.values = f.values /\ g.code = [f.code EXCEPT ![b] = Append(f.code[b], i)]
  BY <1>1, <1>3 DEF Emit
<1>5. i.dst = NoValue /\ NoValue \notin 1 .. f.values /\ i.op \notin {"phi", "alloca"}
  BY <1>1, <1>3 DEF IsInstr, NoValue, IsTerminator
<1>6. Puts(f, b, in, at, s.due, f.values, i, g)
  BY <1>1, <1>3, <1>4, <1>5 DEF Puts
<1>7. Grew(f, b, in, at, s.due, i, g)
  BY <1>6, StandingGrown
<1>8. /\ Standing(g, b, in, at, FALSE, s.due) /\ Plains(g, in) = Plains(f, in) /\ Slots(g) = Slots(f)
      /\ Had(g, in, b) = Had(f, in, b)
  BY <1>1, <1>5, <1>7 DEF Grew
<1>9. t.stack = s.stack /\ t.open = FALSE /\ t.due = s.due /\ t = Sh(t.stack, t.open, t.cases, t.left, t.due)
  BY <1>1 DEF Sh
<1>10. IsShape(t)
  BY <1>1, <1>9 DEF IsShape
<1>11. Values(g, b, vs, in, s.stack, s.due)
  BY <1>1, <1>8 DEF Values
<1> QED
  BY <1>8, <1>9, <1>10, <1>11 DEF Laid, More

(* A jump. *)
LEMMA JumpOn ==
  ASSUME NEW fn \in AllFunctions, NEW in, NEW at, NEW s, Under(fn, in, at, s), JumpNext
  PROVE  Onward(fn)
<1> DEFINE w == Head(todo)
<1>1. /\ Does("jump") /\ Then(<<>>) /\ UNCHANGED tableVars /\ block' = block /\ vals' = vals
      /\ func' = IF Terminated THEN func ELSE Emit(func, block, Jump(w.to))
  BY DEF JumpNext
<1>2. PICK u : Ahead(fn, in, s, u)
  BY <1>1, UnderAhead DEF Does
<1>3. w.do = "jump" /\ Step(fn, Plains(func, in), w, s, u)
  BY <1>1, <1>2 DEF Does, Ahead
<1>4. JumpStep(Plains(func, in), w, s, u)
  BY <1>3, StepIs
<1>5. /\ s.open = TRUE /\ w.to \in Plains(func, in) \cup DueBlocks(s.due)
      /\ u = Sh(s.stack, FALSE, s.cases, s.left, s.due)
  BY <1>4 DEF JumpStep
<1>6. func' = Emit(func, block, Jump(w.to))
  BY <1>1, <1>5, OpenNotTerminated
<1>7. /\ IsInstr(Jump(w.to)) /\ IsTerminator(Jump(w.to).op) /\ IsNumbered(Jump(w.to), func.values)
      /\ Range(Jump(w.to).args) \subseteq Had(func, in, block)
      /\ Range(Jump(w.to).to) \subseteq Plains(func, in) \cup DueBlocks(s.due)
  <2>1. /\ Jump(w.to).args = <<>> /\ Jump(w.to).op = "jmp" /\ Jump(w.to).dst = NoValue
    BY DEF Jump, Instr
  <2>2. func.values \in Nat
    BY OpenNotTerminated DEF Sound
  <2>3. Range(Jump(w.to).args) = {} /\ IsSeq(Jump(w.to).args) /\ Len(Jump(w.to).args) = 0
    BY <2>1, NothingThere, EmptyList
  <2>4. IsInstr(Jump(w.to)) /\ Range(Jump(w.to).to) = {w.to}
    BY JumpIsInstr
  <2> QED
    BY <1>5, <2>1, <2>2, <2>3, <2>4 DEF IsTerminator, IsNumbered, RequiredArgs, NoValue
<1>8. Laid(func, block, vals, in, at, s)
  BY DEF Under
<1>9. Ends(func, block, vals, in, at, s, Jump(w.to), func', u)
  BY <1>5, <1>6, <1>7, <1>8 DEF Ends
<1>10. Laid(func', block, vals, in, at, u) /\ More(func, in, func', in)
  BY <1>9, LaidEnd
<1>11. Laid(func', block', vals', in, at, u)
  BY <1>1, <1>10
<1>12. u.cases = s.cases /\ u.left = s.left
  BY <1>5 DEF Sh
<1>13. Head(todo).do # "test"
  BY <1>3
<1> QED
  BY <1>1, <1>2, <1>10, <1>11, <1>12, <1>13, PlumbsKept

(* A block is ended by an instruction that uses the newest value or none. *)
Closes(fn, in, at, s, u, x, kind, i) ==
  /\ Ahead(fn, in, s, u) /\ Then(<<>>) /\ UNCHANGED tableVars /\ block' = block
  /\ vals' = SubSeq(vals, 1, Len(vals) - 1) /\ Head(todo).do # "test"
  /\ x \in Seq(Kinds) /\ kind \in Kinds /\ s.stack = Append(x, kind) /\ Low(s.due, Len(x) + 1) /\ s.open = TRUE
  /\ u = Sh(x, FALSE, s.cases, s.left, s.due)
  /\ IsInstr(i) /\ IsTerminator(i.op) /\ IsNumbered(i, func.values)
  /\ Range(i.args) \subseteq Had(func, in, block) /\ Range(i.to) \subseteq Plains(func, in) \cup DueBlocks(s.due)
  /\ func' = Emit(func, block, i)

(* An action that ends a block leads on. *)
LEMMA ClosesHold ==
  ASSUME NEW fn, NEW in, NEW at, NEW s, Under(fn, in, at, s), NEW u, NEW x, NEW kind, NEW i, Closes(fn, in, at, s, u, x, kind, i)
  PROVE  Onward(fn)
<1> DEFINE t == Sh(x, s.open, s.cases, s.left, s.due)
           ws == SubSeq(vals, 1, Len(vals) - 1)
<1>1. Pops(func, block, vals, in, at, s, x, kind, t)
  BY DEF Pops, Closes, Under
<1>2. t.stack = x /\ t.open = TRUE /\ t.cases = s.cases /\ t.left = s.left /\ t.due = s.due
  BY DEF Sh, Closes
<1>. HIDE DEF t
<1>3. Laid(func, block, ws, in, at, t)
  BY <1>1, LaidPop
<1>. HIDE DEF ws
<1>4. Ends(func, block, ws, in, at, t, i, func', u)
  BY <1>2, <1>3 DEF Ends, Closes
<1>5. Laid(func', block, ws, in, at, u) /\ More(func, in, func', in)
  BY <1>4, LaidEnd
<1>6. Laid(func', block', vals', in, at, u)
  BY <1>5 DEF Closes, ws
<1>7. u.cases = s.cases /\ u.left = s.left
  BY DEF Sh, Closes
<1>8. Ahead(fn, in, s, u) /\ Then(<<>>) /\ UNCHANGED tableVars /\ Head(todo).do # "test"
  BY DEF Closes
<1> QED
  BY <1>5, <1>6, <1>7, <1>8, PlumbsKept

(* The newest value, under what the shape calls it. *)
LEMMA NewestThere ==
  ASSUME NEW fn, NEW in, NEW at, NEW s, Under(fn, in, at, s), NEW x \in Seq(Kinds), NEW kind \in Kinds,
         s.stack = Append(x, kind), Low(s.due, Len(x) + 1)
  PROVE  /\ Newest \in Had(func, in, block) \/ (Newest = NoValue /\ kind = "none")
         /\ Had(func, in, block) \subseteq 1 .. func.values /\ func.values \in Nat
<1> DEFINE t == Sh(x, s.open, s.cases, s.left, s.due)
<1>1. Pops(func, block, vals, in, at, s, x, kind, t)
  BY DEF Pops, Under
<1>2. Available(Slots(func), Had(func, in, block), kind, Last(vals))
  BY <1>1, LaidPop
<1>3. Slots(func) \subseteq Had(func, in, block) /\ Had(func, in, block) \subseteq 1 .. func.values /\ func.values \in Nat
  BY OpenNotTerminated, SlotsHad
<1> QED
  BY <1>2, <1>3 DEF Available, Kinds, Newest

(* A choice. *)
LEMMA BranchOn ==
  ASSUME NEW fn \in AllFunctions, NEW in, NEW at, NEW s, Under(fn, in, at, s), BranchNext
  PROVE  Onward(fn)
<1> DEFINE w == Head(todo)
           i == [Instr("br", NoValue, <<Newest>>) EXCEPT !.to = w.to]
<1>1. /\ Does("branch") /\ Then(<<>>) /\ UNCHANGED tableVars /\ block' = block
      /\ vals' = SubSeq(vals, 1, Len(vals) - 1)
      /\ func' = IF Terminated THEN func ELSE Emit(func, block, i)
  BY DEF BranchNext, Older
<1>2. PICK u : Ahead(fn, in, s, u)
  BY <1>1, UnderAhead DEF Does
<1>3. w.do = "branch" /\ Step(fn, Plains(func, in), w, s, u)
  BY <1>1, <1>2 DEF Does, Ahead
<1>4. BranchStep(Plains(func, in), w, s, u)
  BY <1>3, StepIs
<1>5. s.open = TRUE
  BY <1>4 DEF BranchStep
<1>6. PICK a, b \in Plains(func, in) \cup DueBlocks(s.due) : w.to = <<a, b>>
  BY <1>4 DEF BranchStep
<1>7. PICK x \in Seq(Kinds), kind \in {"value", "slot"} :
        s.stack = Append(x, kind) /\ Low(s.due, Len(x) + 1) /\ u = Sh(x, FALSE, s.cases, s.left, s.due)
  BY <1>4 DEF BranchStep
<1>8. kind \in Kinds /\ kind # "none"
  BY <1>7 DEF Kinds
<1>9. /\ Newest \in Had(func, in, block)
      /\ Had(func, in, block) \subseteq 1 .. func.values /\ func.values \in Nat
  BY <1>7, <1>8, NewestThere
<1>10. func' = Emit(func, block, i)
  BY <1>1, <1>5, OpenNotTerminated
<1>11. /\ IsInstr(i) /\ i.op = "br" /\ i.args = <<Newest>> /\ i.to = <<a, b>> /\ i.dst = NoValue
  <2>1. /\ DOMAIN i = InstrFields /\ i.op = "br" /\ i.args = <<Newest>> /\ i.to = <<a, b>> /\ i.dst = NoValue
    BY <1>6 DEF Instr, InstrFields
  <2>2. DOMAIN <<a, b>> = 1 .. 2
    OBVIOUS
  <2>. HIDE DEF i
  <2> QED
    BY <2>1, <2>2 DEF IsInstr, IsTerminator
<1>. HIDE DEF i
<1>12. Range(i.to) = {a, b} /\ Range(i.args) = {Newest} /\ IsSeq(i.args) /\ Len(i.args) = 1
  <2>1. <<Newest>> \in Seq({Newest}) /\ Len(<<Newest>>) = 1
    OBVIOUS
  <2>2. IsSeq(<<Newest>>)
    BY <2>1, TypedSeq
  <2>3. Range(<<a, b>>) = {a, b} /\ Range(<<Newest>>) = {Newest}
    BY DEF Range
  <2> QED
    BY <1>11, <2>1, <2>2, <2>3
<1>13. IsTerminator(i.op) /\ IsNumbered(i, func.values)
  BY <1>9, <1>11, <1>12 DEF IsTerminator, IsNumbered, RequiredArgs, NoValue
<1>14. Head(todo).do # "test"
  BY <1>3
<1>15. Closes(fn, in, at, s, u, x, kind, i)
  BY <1>1, <1>2, <1>5, <1>6, <1>7, <1>8, <1>9, <1>10, <1>11, <1>12, <1>13, <1>14 DEF Closes
<1> QED
  BY <1>15, ClosesHold

(* The value a function returns, or none. *)
LEMMA ReturnIsInstr ==
  ASSUME NEW args
  PROVE  LET i == Instr("ret", NoValue, args)
         IN IsInstr(i) /\ IsTerminator(i.op) /\ i.op = "ret" /\ i.args = args /\ i.to = <<>> /\ i.dst = NoValue
BY DEF Instr, IsInstr, IsTerminator, InstrFields

(* A return is numbered if what it returns is a value. *)
LEMMA ReturnNumbered ==
  ASSUME NEW args, IsSeq(args), NEW n \in Nat, Range(args) \subseteq 1 .. n
  PROVE  IsNumbered(Instr("ret", NoValue, args), n)
<1> DEFINE i == Instr("ret", NoValue, args)
<1>1. IsTerminator(i.op) /\ i.op = "ret" /\ i.args = args /\ i.dst = NoValue
  BY ReturnIsInstr
<1>. HIDE DEF i
<1>2. IsNumbered(i, n)
  BY <1>1 DEF IsNumbered, RequiredArgs, NoValue
<1> QED
  BY <1>2 DEF i

(* A return. *)
LEMMA ReturnOn ==
  ASSUME NEW fn \in AllFunctions, NEW in, NEW at, NEW s, Under(fn, in, at, s), ReturnNext
  PROVE  Onward(fn)
<1> DEFINE args == IF Newest = NoValue THEN <<>> ELSE <<Newest>>
           i == Instr("ret", NoValue, args)
<1>1. /\ Does("return") /\ Then(<<>>) /\ UNCHANGED tableVars /\ block' = block
      /\ vals' = SubSeq(vals, 1, Len(vals) - 1) /\ func' = Emit(func, block, i)
  BY DEF ReturnNext, Older
<1>2. PICK u : Ahead(fn, in, s, u)
  BY <1>1, UnderAhead DEF Does
<1>3. Head(todo).do = "return" /\ Step(fn, Plains(func, in), Head(todo), s, u)
  BY <1>1, <1>2 DEF Does, Ahead
<1>4. PopStep(Head(todo), s, u)
  BY <1>3, StepIs
<1>5. PICK x \in Seq(Kinds), kind \in Kinds :
        s.stack = Append(x, kind) /\ Low(s.due, Len(x) + 1) /\ u = Sh(x, FALSE, s.cases, s.left, s.due)
  BY <1>3, <1>4 DEF PopStep
<1>6. s.open = TRUE
  BY <1>3, <1>4 DEF PopStep
<1>7. /\ Newest \in Had(func, in, block) \/ Newest = NoValue
      /\ Had(func, in, block) \subseteq 1 .. func.values /\ func.values \in Nat
  BY <1>5, NewestThere
<1>8. IsSeq(args) /\ Range(args) \subseteq Had(func, in, block)
  <2>1. CASE Newest = NoValue
    BY <2>1, EmptyList, NothingThere
  <2>2. CASE Newest # NoValue
    <3>1. <<Newest>> \in Seq({Newest}) /\ Range(<<Newest>>) = {Newest}
      BY DEF Range
    <3>2. IsSeq(<<Newest>>)
      BY <3>1, TypedSeq
    <3> QED
      BY <1>7, <2>2, <3>1, <3>2
  <2> QED
    BY <2>1, <2>2
<1>. HIDE DEF args
<1>9. IsNumbered(i, func.values)
  <2>1. Range(args) \subseteq 1 .. func.values
    BY <1>7, <1>8
  <2> QED
    BY <1>7, <1>8, <2>1, ReturnNumbered
<1>10. IsInstr(i) /\ IsTerminator(i.op) /\ i.args = args /\ Range(i.to) = {}
  BY ReturnIsInstr, NothingThere
<1>. HIDE DEF i
<1>11. Head(todo).do # "test"
  BY <1>3
<1>12. Closes(fn, in, at, s, u, x, kind, i)
  BY <1>1, <1>2, <1>5, <1>6, <1>8, <1>9, <1>10, <1>11 DEF Closes
<1> QED
  BY <1>12, ClosesHold

-----------------------------------------------------------------------------
(* Loops, and the insertion point                                          *)

(* Without loops none is left. *)
LEMMA FrontOfNone == IsSeq(Front(<<>>)) /\ DOMAIN Front(<<>>) = {}
<1>1. Front(<<>>) = <<>>
  BY DEF Front
<1> QED
  BY <1>1, EmptyList, SeqFacts

(* break and continue get targets, and lose them. *)
LEMMA PushLoopOn ==
  ASSUME NEW fn \in AllFunctions, NEW in, NEW at, NEW s, Under(fn, in, at, s), PushLoopNext
  PROVE  Onward(fn)
<1>1. /\ Does("push loop") /\ Then(<<>>) /\ func' = func /\ block' = block /\ vals' = vals
      /\ loops' = Append(loops, Head(todo).target)
      /\ labels' = labels /\ slots' = slots /\ caseBlocks' = caseBlocks /\ stamped' = stamped
      /\ cases' = cases /\ defaults' = defaults
  BY DEF PushLoopNext
<1>2. PICK u : Ahead(fn, in, s, u)
  BY <1>1, UnderAhead DEF Does
<1>3. Head(todo).do = "push loop" /\ Step(fn, Plains(func, in), Head(todo), s, u)
  BY <1>1, <1>2 DEF Does, Ahead
<1>4. PushLoopStep(Plains(func, in), Head(todo), s, u)
  BY <1>3, StepIs
<1>5. Head(todo).target.onBreak \in Plains(func, in) /\ Head(todo).target.onContinue \in Plains(func, in) /\ u = s
  BY <1>4 DEF PushLoopStep
<1>6. IsSeq(loops) /\ \A k \in DOMAIN loops : loops[k].onBreak \in Plains(func, in) /\ loops[k].onContinue \in Plains(func, in)
  BY LoopsMore DEF LoopsFit
<1>7. LoopsFit(Plains(func', in), loops')
  <2>1. /\ IsSeq(Append(loops, Head(todo).target)) /\ DOMAIN Append(loops, Head(todo).target) = 1 .. Len(loops) + 1
        /\ \A k \in 1 .. Len(loops) : Append(loops, Head(todo).target)[k] = loops[k]
        /\ Append(loops, Head(todo).target)[Len(loops) + 1] = Head(todo).target
    BY <1>6, Appended
  <2>2. Len(loops) \in Nat /\ DOMAIN loops = 1 .. Len(loops)
    BY <1>6, SeqFacts
  <2>3. ASSUME NEW k \in DOMAIN loops' PROVE loops'[k].onBreak \in Plains(func, in) /\ loops'[k].onContinue \in Plains(func, in)
    <3>1. DOMAIN loops' = 1 .. Len(loops) + 1 /\ loops'[Len(loops) + 1] = Head(todo).target
          /\ \A j \in 1 .. Len(loops) : loops'[j] = loops[j]
      BY <1>1, <2>1
    <3>2. k \in 1 .. Len(loops) \/ k = Len(loops) + 1
      BY <2>2, <3>1
    <3> QED
      BY <1>5, <1>6, <2>2, <3>1, <3>2
  <2> QED
    BY <1>1, <2>1, <2>3 DEF LoopsFit
<1>8. Laid(func', block', vals', in, at, u) /\ More(func, in, func', in) /\ u.cases = s.cases /\ u.left = s.left
  BY <1>1, <1>5 DEF Under, More
<1>9. Head(todo).do # "test"
  BY <1>3
<1>10. Plumbs(fn, in, s, u, in, at)
  BY <1>1, <1>2, <1>7, <1>8, <1>9 DEF Plumbs, LoopsFit
<1> QED
  BY <1>10, PlumbsHold

LEMMA PopLoopOn ==
  ASSUME NEW fn \in AllFunctions, NEW in, NEW at, NEW s, Under(fn, in, at, s), PopLoopNext
  PROVE  Onward(fn)
<1>1. /\ Does("pop loop") /\ Then(<<>>) /\ func' = func /\ block' = block /\ vals' = vals
      /\ loops' = Front(loops)
      /\ labels' = labels /\ slots' = slots /\ caseBlocks' = caseBlocks /\ stamped' = stamped
      /\ cases' = cases /\ defaults' = defaults
  BY DEF PopLoopNext
<1>2. PICK u : Ahead(fn, in, s, u)
  BY <1>1, UnderAhead DEF Does
<1>3. Head(todo).do = "pop loop" /\ Step(fn, Plains(func, in), Head(todo), s, u)
  BY <1>1, <1>2 DEF Does, Ahead
<1>4. PopLoopStep(Head(todo), s, u)
  BY <1>3, StepIs
<1>5. u = s
  BY <1>4 DEF PopLoopStep
<1>6. IsSeq(loops) /\ \A k \in DOMAIN loops : loops[k].onBreak \in Plains(func, in) /\ loops[k].onContinue \in Plains(func, in)
  BY LoopsMore DEF LoopsFit
<1>7. LoopsFit(Plains(func', in), loops')
  <2>1. CASE loops = <<>>
    BY <1>1, <2>1, FrontOfNone DEF LoopsFit
  <2>2. CASE loops # <<>>
    <3>1. /\ IsSeq(Front(loops)) /\ DOMAIN Front(loops) = 1 .. Len(loops) - 1
          /\ \A k \in 1 .. Len(loops) - 1 : Front(loops)[k] = loops[k]
      BY <1>6, <2>2, FrontOf
    <3>2. Len(loops) \in Nat /\ DOMAIN loops = 1 .. Len(loops)
      BY <1>6, SeqFacts
    <3>3. \A k \in 1 .. Len(loops) - 1 : k \in DOMAIN loops
      BY <3>2
    <3> QED
      BY <1>1, <1>6, <3>1, <3>3 DEF LoopsFit
  <2> QED
    BY <2>1, <2>2
<1>8. Laid(func', block', vals', in, at, u) /\ More(func, in, func', in) /\ u.cases = s.cases /\ u.left = s.left
  BY <1>1, <1>5 DEF Under, More
<1>9. Head(todo).do # "test"
  BY <1>3
<1>10. Plumbs(fn, in, s, u, in, at)
  BY <1>1, <1>2, <1>7, <1>8, <1>9 DEF Plumbs, LoopsFit
<1> QED
  BY <1>10, PlumbsHold

(* The insertion point moves on: from a block that is finished to one that *)
(* is empty.                                                               *)
Moves == func'.code[block'] = <<>> /\ IsFinished(func'.code[block])

(* A block that is due is opened, from one that is finished. *)
LEMMA OpenOn ==
  ASSUME NEW fn \in AllFunctions, NEW in, NEW at, NEW s, Under(fn, in, at, s), OpenBlock
  PROVE  Onward(fn) /\ Moves
<1>1. /\ Does("open") /\ Then(<<>>) /\ UNCHANGED tableVars /\ func' = func /\ vals' = vals
      /\ block' = Head(todo).block
  BY DEF OpenBlock
<1>2. PICK u : Ahead(fn, in, s, u)
  BY <1>1, UnderAhead DEF Does
<1>3. Head(todo).do = "open" /\ Step(fn, Plains(func, in), Head(todo), s, u)
  BY <1>1, <1>2 DEF Does, Ahead
<1>4. OpenStep(Head(todo), s, u)
  BY <1>3, StepIs
<1>5. PICK d \in s.due :
        /\ Head(todo).block = d[1] /\ Low(s.due, d[2])
        /\ \A k \in DOMAIN s.stack : k >= d[2] => s.stack[k] = "slot"
        /\ u = Sh(s.stack, TRUE, s.cases, s.left, s.due \ {d})
  BY <1>4 DEF OpenStep
<1>6. IsShape(s) /\ Standing(func, block, in, at, FALSE, s.due) /\ Values(func, block, vals, in, s.stack, s.due)
  BY <1>4 DEF OpenStep, Under, Laid
<1>7. /\ Standing(func, d[1], in, at, TRUE, s.due \ {d}) /\ Had(func, in, d[1]) = in[d[1]] /\ IsFinished(func.code[block])
      /\ func.code[d[1]] = <<>>
  <2>1. Standing(func, block, in, at, FALSE, s.due) /\ Low(s.due, d[2]) /\ d \in s.due
    BY <1>5, <1>6
  <2>2. Opens(func, block, in, at, s.due, d)
    BY <2>1, StandingOpens
  <2> QED
    BY <2>2 DEF Opens
<1>8. u.stack = s.stack /\ u.open = TRUE /\ u.due = s.due \ {d} /\ u.cases = s.cases /\ u.left = s.left
      /\ u = Sh(u.stack, u.open, u.cases, u.left, u.due)
  BY <1>5 DEF Sh
<1>9. IsShape(u)
  BY <1>6, <1>7, <1>8 DEF IsShape, Standing
<1>10. Values(func, d[1], vals, in, s.stack, s.due \ {d})
  <2>1. ASSUME NEW k \in DOMAIN vals PROVE Available(Slots(func), Had(func, in, d[1]), s.stack[k], vals[k])
    <3>1. CASE k < d[2]
      BY <1>6, <1>7, <3>1 DEF Values
    <3>2. CASE k >= d[2]
      <4>1. k \in DOMAIN s.stack /\ Available(Slots(func), Had(func, in, block), s.stack[k], vals[k])
        BY <1>6 DEF Values
      <4>2. s.stack[k] = "slot"
        BY <1>5, <3>2, <4>1
      <4> QED
        BY <4>1, <4>2 DEF Available
    <3>3. k \in Nat /\ d[2] \in Nat
      <4>1. DOMAIN vals = 1 .. Len(vals) /\ Len(vals) \in Nat
        BY <1>6, SeqFacts DEF Values
      <4>2. d[2] \in Nat
        BY <1>6 DEF IsShape, IsDue
      <4> QED
        BY <4>1, <4>2
    <3> QED
      BY <3>1, <3>2, <3>3
  <2> QED
    BY <1>6, <2>1 DEF Values
<1>11. Laid(func', block', vals', in, at, u)
  BY <1>1, <1>5, <1>7, <1>8, <1>9, <1>10 DEF Laid
<1>12. More(func, in, func', in)
  BY <1>1 DEF More
<1>13. Head(todo).do # "test"
  BY <1>3
<1>14. Onward(fn)
  BY <1>1, <1>2, <1>8, <1>11, <1>12, <1>13, PlumbsKept
<1>15. Moves
  BY <1>1, <1>5, <1>7 DEF Moves
<1> QED
  BY <1>14, <1>15

(* A block is made for what control cannot come to. *)
LEMMA OpenNewOn ==
  ASSUME NEW fn \in AllFunctions, NEW in, NEW at, NEW s, Under(fn, in, at, s), OpenNewBlock
  PROVE  Onward(fn) /\ Moves
<1> DEFINE n == LastBlock(func) + 1
           out == With(in, Slots(func))
<1>1. /\ Does("open new") /\ Then(<<>>) /\ UNCHANGED tableVars /\ func' = NewBlock(func) /\ vals' = vals
      /\ block' = LastBlock(func')
  BY DEF OpenNewBlock
<1>2. PICK u : Ahead(fn, in, s, u)
  BY <1>1, UnderAhead DEF Does
<1>3. Head(todo).do = "open new" /\ Step(fn, Plains(func, in), Head(todo), s, u)
  BY <1>1, <1>2 DEF Does, Ahead
<1>4. OpenNewStep(Head(todo), s, u)
  BY <1>3, StepIs
<1>5. /\ s.open = FALSE /\ s.stack = <<>> /\ Low(s.due, 0)
      /\ u = Sh(<<>>, TRUE, s.cases, s.left, s.due)
  BY <1>4 DEF OpenNewStep
<1>6. IsShape(s) /\ Standing(func, block, in, at, FALSE, s.due) /\ Values(func, block, vals, in, <<>>, s.due)
  BY <1>5 DEF Under, Laid
<1>7. Sound(func, in) /\ block \in DOMAIN func.code
  BY OpenNotTerminated
<1>8. Slots(func) \subseteq 1 .. func.values
  BY <1>7, SlotsHad
<1>9. Widened(func, in, Slots(func), func', out, n)
  BY <1>1, <1>7, <1>8, BlockWidens
<1>10. Roomier(func, in, func', out, n)
  BY <1>1, <1>7, <1>9, WidenedRoomier
<1>11. block' = n
  BY <1>1, <1>10 DEF Roomier
<1>. HIDE DEF n, out
<1>12. Standing(func', n, out, at, TRUE, s.due) /\ func'.code[n] = <<>> /\ IsFinished(func'.code[block]) /\ n # block
  BY <1>5, <1>6, <1>9, StandingNew
<1>13. u.stack = <<>> /\ u.open = TRUE /\ u.due = s.due /\ u.cases = s.cases /\ u.left = s.left
       /\ u = Sh(u.stack, u.open, u.cases, u.left, u.due)
  BY <1>5 DEF Sh
<1>14. IsShape(u)
  BY <1>6, <1>13, KindLists DEF IsShape
<1>15. DOMAIN vals = {} /\ IsSeq(vals)
  BY <1>6, EmptyList, SeqFacts DEF Values
<1>16. Values(func', n, vals, out, u.stack, u.due)
  BY <1>6, <1>13, <1>15 DEF Values
<1>17. Laid(func', block', vals', out, at, u)
  BY <1>1, <1>11, <1>12, <1>13, <1>14, <1>16 DEF Laid
<1>18. More(func, in, func', out)
  BY <1>10 DEF Roomier
<1>19. Head(todo).do # "test"
  BY <1>3
<1>20. Onward(fn)
  BY <1>1, <1>2, <1>13, <1>17, <1>18, <1>19, PlumbsKept
<1>21. Moves
  BY <1>11, <1>12 DEF Moves
<1> QED
  BY <1>20, <1>21

-----------------------------------------------------------------------------
(* Instructions that are written directly                                  *)

PutIn(f, b, vs, in, at, s, m, i, g) ==
  /\ Laid(f, b, vs, in, at, s) /\ s.open = TRUE /\ m \in Nat /\ f.values <= m
  /\ IsInstr(i) /\ ~ IsTerminator(i.op) /\ i.op \notin {"phi", "alloca"} /\ IsNumbered(i, m)
  /\ i.dst \notin 1 .. f.values /\ Range(i.args) \subseteq Had(f, in, b)
  /\ g.code = [f.code EXCEPT ![b] = Append(f.code[b], i)] /\ g.values = m /\ DOMAIN g = DOMAIN f

PutLaid(f, b, vs, in, at, s, i, g) ==
  /\ Laid(g, b, vs, in, at, s) /\ Plains(g, in) = Plains(f, in) /\ Slots(g) = Slots(f)
  /\ Had(g, in, b) = Had(f, in, b) \cup ({i.dst} \ {NoValue}) /\ LastBlock(g) = LastBlock(f)

(* An instruction that is neither jump nor slot leaves the function as     *)
(* laid as it was.                                                         *)
LEMMA LaidPut ==
  ASSUME NEW f, NEW b, NEW vs, NEW in, NEW at, NEW s, NEW m, NEW i, NEW g, PutIn(f, b, vs, in, at, s, m, i, g)
  PROVE  PutLaid(f, b, vs, in, at, s, i, g)
<1>1. /\ IsShape(s) /\ Standing(f, b, in, at, TRUE, s.due) /\ Values(f, b, vs, in, s.stack, s.due)
      /\ s.open = TRUE /\ m \in Nat /\ f.values <= m
      /\ IsInstr(i) /\ ~ IsTerminator(i.op) /\ i.op \notin {"phi", "alloca"} /\ IsNumbered(i, m)
      /\ i.dst \notin 1 .. f.values /\ Range(i.args) \subseteq Had(f, in, b)
      /\ g.code = [f.code EXCEPT ![b] = Append(f.code[b], i)] /\ g.values = m /\ DOMAIN g = DOMAIN f
  BY DEF PutIn, Laid
<1>2. Sound(f, in)
  BY <1>1 DEF Standing, Blocks
<1>3. DOMAIN g = {"code", "values"}
  BY <1>1, <1>2 DEF Sound
<1>4. Range(i.to) = {}
  BY <1>1, NothingThere DEF IsInstr
<1>5. Puts(f, b, in, at, s.due, m, i, g)
  BY <1>1, <1>3, <1>4 DEF Puts
<1>6. Grew(f, b, in, at, s.due, i, g)
  BY <1>5, StandingGrown
<1>7. /\ Standing(g, b, in, at, TRUE, s.due) /\ Plains(g, in) = Plains(f, in) /\ Slots(g) = Slots(f)
      /\ Had(g, in, b) = Had(f, in, b) \cup ({i.dst} \ {NoValue})
  BY <1>1, <1>6 DEF Grew
<1>8. Values(g, b, vs, in, s.stack, s.due)
  <2>1. Slots(f) \subseteq Slots(g) /\ Had(f, in, b) \subseteq Had(g, in, b)
    BY <1>7
  <2>2. \A k \in DOMAIN vs : Available(Slots(g), Had(g, in, b), s.stack[k], vs[k])
    BY <1>1, <2>1, AvailableMore DEF Values
  <2> QED
    BY <1>1, <1>7, <2>2 DEF Values
<1>9. LastBlock(g) = LastBlock(f)
  <2>1. Sound(g, in)
    BY <1>7 DEF Standing, Blocks
  <2>2. DOMAIN f.code = 1 .. LastBlock(f) /\ LastBlock(f) \in Nat /\ DOMAIN g.code = 1 .. LastBlock(g) /\ LastBlock(g) \in Nat
    BY <1>2, <2>1, NewBlockLast
  <2>3. DOMAIN g.code = DOMAIN f.code
    BY <1>1
  <2> QED
    BY <2>2, <2>3
<1> QED
  BY <1>1, <1>7, <1>8, <1>9 DEF PutLaid, Laid

(* A parameter, and its store. *)
LEMMA StoreIsInstr ==
  ASSUME NEW args
  PROVE  LET i == Instr("store", NoValue, args)
         IN IsInstr(i) /\ i.op = "store" /\ i.dst = NoValue /\ i.args = args
BY DEF Instr, IsInstr, IsTerminator, InstrFields

(* The operands of a store. *)
LEMMA PairList ==
  ASSUME NEW a, NEW b
  PROVE  IsSeq(<<a, b>>) /\ Len(<<a, b>>) = 2 /\ Range(<<a, b>>) = {a, b}
<1>1. <<a, b>> \in Seq({a, b}) /\ Len(<<a, b>>) = 2 /\ Range(<<a, b>>) = {a, b}
  BY DEF Range
<1> QED
  BY <1>1, TypedSeq

(* The function with a parameter more. *)
ParameterIn(f, b, vs, in, at, s, i, g, h, slot) ==
  /\ Laid(f, b, vs, in, at, s) /\ s.open = TRUE
  /\ IsInstr(i) /\ i.op = "param" /\ i.args = <<>> /\ i.dst = FreshValue(f)
  /\ g = [Emit(f, b, i) EXCEPT !.values = @ + 1] /\ slot = FreshValue(g)
  /\ h = Emit(WithSlot(g), b, Instr("store", NoValue, <<slot, i.dst>>))

(* A parameter and the slot it is stored to. *)
LEMMA LaidParameter ==
  ASSUME NEW f, NEW b, NEW vs, NEW in, NEW at, NEW s, NEW i, NEW g, NEW h, NEW slot,
         ParameterIn(f, b, vs, in, at, s, i, g, h, slot)
  PROVE  \E out : Laid(h, b, vs, out, at, s) /\ More(f, in, h, out) /\ slot \in Slots(h)
<1> DEFINE k == WithSlot(g)
           out == Also(in, slot)
           j == Instr("store", NoValue, <<slot, i.dst>>)
<1>1. /\ Laid(f, b, vs, in, at, s) /\ s.open = TRUE
      /\ IsInstr(i) /\ i.op = "param" /\ i.args = <<>> /\ i.dst = f.values + 1
      /\ g = [Emit(f, b, i) EXCEPT !.values = @ + 1] /\ slot = FreshValue(g) /\ h = Emit(k, b, j)
  BY DEF ParameterIn, FreshValue
<1>2. Sound(f, in)
  BY <1>1, LaidSound
<1>3. f.values \in Nat /\ DOMAIN f = {"code", "values"}
  BY <1>2 DEF Sound
<1>4. g.code = [f.code EXCEPT ![b] = Append(f.code[b], i)] /\ g.values = f.values + 1 /\ DOMAIN g = DOMAIN f
  BY <1>1, <1>3 DEF Emit
<1>5. PutLaid(f, b, vs, in, at, s, i, g)
  <2>1. Range(i.args) = {} /\ IsSeq(i.args) /\ Len(i.args) = 0
    BY <1>1, NothingThere, EmptyList
  <2>2. IsNumbered(i, f.values + 1)
    BY <1>1, <1>3, <2>1 DEF IsNumbered, RequiredArgs, NoValue
  <2>3. f.values + 1 \in Nat /\ f.values <= f.values + 1 /\ i.dst \notin 1 .. f.values
    BY <1>1, <1>3
  <2>4. ~ IsTerminator(i.op) /\ i.op \notin {"phi", "alloca"}
    BY <1>1 DEF IsTerminator
  <2>5. PutIn(f, b, vs, in, at, s, f.values + 1, i, g)
    BY <1>1, <1>4, <2>1, <2>2, <2>3, <2>4 DEF PutIn
  <2> QED
    BY <2>5, LaidPut
<1>6. /\ Laid(g, b, vs, in, at, s) /\ Plains(g, in) = Plains(f, in) /\ Slots(g) = Slots(f) /\ i.dst \in Had(g, in, b)
  <2>1. i.dst # NoValue
    BY <1>1, <1>3 DEF NoValue
  <2> QED
    BY <1>5, <2>1 DEF PutLaid
<1>7. SlotLaid(g, b, vs, in, at, s, k, out, slot)
  BY <1>1, <1>6, LaidSlot
<1>. HIDE DEF k, out
<1>8. /\ Laid(k, b, vs, out, at, s) /\ More(g, in, k, out) /\ slot \in Slots(k)
      /\ {slot, i.dst} \subseteq Had(k, out, b) /\ Slots(k) \subseteq Had(k, out, b)
  BY <1>6, <1>7 DEF SlotLaid
<1>9. Sound(k, out) /\ b \in DOMAIN k.code
  BY <1>8, LaidSound
<1>10. k.values \in Nat /\ DOMAIN k = {"code", "values"} /\ Had(k, out, b) \subseteq 1 .. k.values
  BY <1>9, SlotsHad DEF Sound
<1>11. IsInstr(j) /\ j.op = "store" /\ j.dst = NoValue /\ j.args = <<slot, i.dst>>
  BY StoreIsInstr
<1>12. IsSeq(j.args) /\ Len(j.args) = 2 /\ Range(j.args) = {slot, i.dst}
  BY <1>11, PairList
<1>. HIDE DEF j
<1>13. h.code = [k.code EXCEPT ![b] = Append(k.code[b], j)] /\ h.values = k.values /\ DOMAIN h = DOMAIN k
  BY <1>1, <1>10 DEF Emit
<1>14. PutLaid(k, b, vs, out, at, s, j, h)
  <2>1. IsNumbered(j, k.values)
    BY <1>8, <1>10, <1>11, <1>12 DEF IsNumbered, RequiredArgs, NoValue
  <2>2. j.dst \notin 1 .. k.values /\ k.values <= k.values
    BY <1>10, <1>11 DEF NoValue
  <2>3. ~ IsTerminator(j.op) /\ j.op \notin {"phi", "alloca"}
    BY <1>11 DEF IsTerminator
  <2>4. PutIn(k, b, vs, out, at, s, k.values, j, h)
    BY <1>1, <1>8, <1>10, <1>11, <1>12, <1>13, <2>1, <2>2, <2>3 DEF PutIn
  <2> QED
    BY <2>4, LaidPut
<1>15. Laid(h, b, vs, out, at, s) /\ More(k, out, h, out) /\ slot \in Slots(h)
  BY <1>8, <1>14 DEF PutLaid, More
<1>16. More(f, in, h, out)
  BY <1>6, <1>8, <1>15 DEF More
<1> QED
  BY <1>15, <1>16

(* A parameter is lowered. *)
LEMMA ParameterOn ==
  ASSUME NEW fn \in AllFunctions, NEW in, NEW at, NEW s, Under(fn, in, at, s), ParameterNext
  PROVE  Onward(fn)
<1> DEFINE sym == source[Len(program) + 1].params[Head(todo).index]
           i == [Instr("param", FreshValue(func), <<>>) EXCEPT !.imm = Head(todo).index - 1, !.ty = sym.ty.ir]
           g == [Emit(func, block, i) EXCEPT !.values = @ + 1]
           slot == FreshValue(g)
<1>1. /\ Does("parameter") /\ Then(<<>>) /\ block' = block /\ vals' = vals
      /\ func' = Emit(WithSlot(g), block, Instr("store", NoValue, <<slot, i.dst>>))
      /\ slots' = [x \in DOMAIN slots \cup {sym} |-> IF x = sym THEN slot ELSE slots[x]]
      /\ loops' = loops /\ labels' = labels /\ caseBlocks' = caseBlocks /\ stamped' = stamped
      /\ cases' = cases /\ defaults' = defaults
  BY DEF ParameterNext
<1>2. PICK u : Ahead(fn, in, s, u)
  BY <1>1, UnderAhead DEF Does
<1>3. Head(todo).do = "parameter" /\ Step(fn, Plains(func, in), Head(todo), s, u)
  BY <1>1, <1>2 DEF Does, Ahead
<1>4. ParameterStep(Head(todo), s, u)
  BY <1>3, StepIs
<1>5. s.open = TRUE /\ u = s
  BY <1>4 DEF ParameterStep
<1>6. IsInstr(i) /\ i.op = "param" /\ i.args = <<>> /\ i.dst = FreshValue(func)
  <2> DEFINE v == FreshValue(func)
             k == Head(todo).index - 1
             ty == sym.ty.ir
             j == [Instr("param", v, <<>>) EXCEPT !.imm = k, !.ty = ty]
  <2>1. i = j
    OBVIOUS
  <2>2. v = FreshValue(func)
    OBVIOUS
  <2>. HIDE DEF v, k, ty
  <2>3. IsInstr(j) /\ j.op = "param" /\ j.dst = v /\ j.args = <<>>
    BY DEF Instr, IsInstr, IsTerminator, InstrFields
  <2>. HIDE DEF j, i
  <2> QED
    BY <2>1, <2>2, <2>3
<1>7. g = [Emit(func, block, i) EXCEPT !.values = @ + 1] /\ slot = FreshValue(g)
  OBVIOUS
<1>8. DOMAIN slots' = DOMAIN slots \cup {sym} /\ slots'[sym] = slot /\ \A x \in DOMAIN slots : x # sym => slots'[x] = slots[x]
  BY <1>1
<1>. HIDE DEF sym, i, g, slot
<1>9. Laid(func, block, vals, in, at, s)
  BY DEF Under
<1>10. ParameterIn(func, block, vals, in, at, s, i, g, func', slot)
  BY <1>1, <1>5, <1>6, <1>7, <1>9 DEF ParameterIn
<1>11. PICK out : Laid(func', block, vals, out, at, s) /\ More(func, in, func', out) /\ slot \in Slots(func')
  BY <1>10, LaidParameter
<1>12. Tables(fn, Plains(func', out), Slots(func'), at, u.left, loops', labels', slots', caseBlocks', stamped')
  <2>1. Tables(fn, Plains(func, in), Slots(func), at, s.left, loops, labels, slots, caseBlocks, stamped)
    BY DEF Under
  <2>2. Tables(fn, Plains(func', out), Slots(func'), at, s.left, loops, labels, slots, caseBlocks, stamped)
    BY <1>11, <2>1, TablesMore DEF More
  <2>3. \A x \in DOMAIN slots' : slots'[x] \in Slots(func')
    BY <1>8, <1>11, <2>2 DEF Tables
  <2> QED
    BY <1>1, <1>5, <2>2, <2>3 DEF Tables
<1>13. Switching(fn, u, Had(func', out, block'), cases', defaults', todo')
  <2>1. todo # <<>> /\ Switching(fn, s, Had(func, in, block), cases, defaults, todo)
    BY <1>2 DEF Under, Ahead
  <2>2. Switching(fn, u, Had(func', out, block'), cases, defaults, todo')
    BY <1>3, <1>5, <2>1, SwitchingKept
  <2> QED
    BY <1>1, <2>2
<1>14. Laid(func', block', vals', out, at, u)
  BY <1>1, <1>5, <1>11
<1>15. Chain(fn, Plains(func', out), <<>>, u, u)
  BY ChainEmpty
<1>16. Arrives(fn, in, s, u, <<>>, out, at, u)
  BY <1>1, <1>2, <1>11, <1>12, <1>13, <1>14, <1>15 DEF Arrives
<1> QED
  BY <1>16, ArrivesHolds

-----------------------------------------------------------------------------
(* The cases of a switch                                                   *)

(* Nothing that is said of cases and marks is said of the function. *)
LEMMA LaidCases ==
  ASSUME NEW f, NEW b, NEW vs, NEW in, NEW at, NEW s, Laid(f, b, vs, in, at, s),
         NEW cs, NEW left, NEW t, t = Sh(s.stack, s.open, cs, left, s.due)
  PROVE  Laid(f, b, vs, in, at, t) /\ t.stack = s.stack /\ t.open = s.open /\ t.cases = cs /\ t.left = left /\ t.due = s.due
<1>1. t.stack = s.stack /\ t.open = s.open /\ t.cases = cs /\ t.left = left /\ t.due = s.due
  BY DEF Sh
<1> QED
  BY <1>1 DEF Laid, IsShape

(* Before the tests of a switch, *)
LEMMA CollectingIs ==
  ASSUME NEW n, NEW rem
  PROVE  Collecting(n, rem).of = n /\ Collecting(n, rem).rem = rem /\ Idle.of = Nothing
BY DEF Collecting, Idle

(* and in them. *)
LEMMA TestingIs ==
  ASSUME NEW next, NEW control, NEW done, NEW n
  PROVE  LET w == Testing(next, control, done, n)
         IN w.do = "test" /\ w.next = next /\ w.control = control /\ w.done = done /\ w.node = n
BY DEF Testing

(* Nothing is collected before a switch is come to. *)
LEMMA NothingGathered ==
  ASSUME NEW fn, NEW n \in NodesOf[fn], n.type = "switch"
  PROVE  Gathered(fn, n, OwnCases[n.body], <<>>, <<>>)
<1>1. n # Nothing
  BY DEF Nothing
<1>2. IsSeq(<<>>) /\ DOMAIN <<>> = {} /\ Range(<<>>) = {}
  <2>1. IsSeq(<<>>) /\ DOMAIN <<>> = {}
    BY EmptyList, SeqFacts
  <2> QED
    BY <2>1 DEF Range
<1> QED
  BY <1>1, <1>2 DEF Gathered

(* A switch begins. *)
LEMMA SwitchOn ==
  ASSUME NEW fn \in AllFunctions, NEW in, NEW at, NEW s, Under(fn, in, at, s), SwitchStatement
  PROVE  Onward(fn)
<1> DEFINE own == OwnCases[Node.body]
           work == <<Collect(Node.body), Value(Node.left), Tests(Node)>>
           t == Sh(<<>>, TRUE, Collecting(Node, own), s.left, s.due)
<1>1. /\ Does("statement") /\ Node.type = "switch" /\ Then(work)
      /\ cases' = <<>> /\ defaults' = <<>>
      /\ UNCHANGED <<treeVars, func, block, loops, labels, slots, caseBlocks, stamped, vals>>
  BY DEF SwitchStatement, Visits, Does, Node, Tests
<1>2. PICK u : Ahead(fn, in, s, u)
  BY <1>1, UnderAhead DEF Does
<1>3. Head(todo).do = "statement" /\ Step(fn, Plains(func, in), Head(todo), s, u)
  BY <1>1, <1>2 DEF Does, Ahead
<1>4. Stated(fn, s, u)
  BY <1>3, StatementFacts
<1>5. s = St(s.left, s.due) /\ Placed(fn, Node, s.left, s.due) /\ u = St(s.left \ MarksIn(Node), s.due)
  BY <1>4 DEF Stated
<1>6. s.stack = <<>> /\ s.open = TRUE
  BY <1>5, StIs
<1>7. Laid(func, block, vals, in, at, s)
  BY DEF Under
<1>8. t = Sh(s.stack, s.open, Collecting(Node, own), s.left, s.due)
  BY <1>6
<1>9. Chain(fn, Plains(func, in), work, t, u)
  BY <1>1, <1>5, SwitchWork
<1>10. Node \in NodesOf[fn] /\ MarksIn(Node) \subseteq s.left
  BY <1>5 DEF Placed, Ready
<1>11. Stamps(own) \subseteq s.left
  BY <1>1, <1>10, MarksOfSwitch
<1>12. Gathered(fn, Node, own, <<>>, <<>>)
  BY <1>1, <1>10, NothingGathered
<1>. HIDE DEF own, work, t
<1>13. Laid(func, block, vals, in, at, t) /\ t.cases = Collecting(Node, own) /\ t.left = s.left
  BY <1>7, <1>8, LaidCases
<1>14. Switching(fn, t, Had(func', in, block'), cases', defaults', todo')
  BY <1>1, <1>11, <1>12, <1>13 DEF Switching, own
<1>15. Tables(fn, Plains(func', in), Slots(func'), at, t.left, loops', labels', slots', caseBlocks', stamped')
  BY <1>1, <1>13 DEF Under
<1>16. Arrives(fn, in, s, u, work, in, at, t)
  BY <1>1, <1>2, <1>9, <1>13, <1>14, <1>15 DEF Arrives, More
<1> QED
  BY <1>16, ArrivesHolds

(* There is room for the case. *)
LEMMA CasesRoom ==
  ASSUME NEW C, IsFiniteSet(C), NEW x \in C, NEW cs, IsSeq(cs), Range(cs) \subseteq C \ {x},
         \A j, k \in DOMAIN cs : cs[j] = cs[k] => j = k
  PROVE  Len(cs) < Cardinality(C)
<1>1. Len(cs) \in Nat /\ DOMAIN cs = 1 .. Len(cs)
  BY SeqFacts
<1>2. IsFiniteSet(C \ {x}) /\ Cardinality(C \ {x}) = Cardinality(C) - 1
  BY FS_RemoveElement
<1>3. cs \in Injection(1 .. Len(cs), C \ {x})
  <2>1. \A k \in 1 .. Len(cs) : cs[k] \in C \ {x}
    BY <1>1 DEF Range
  <2>2. cs = [k \in 1 .. Len(cs) |-> cs[k]]
    BY <1>1 DEF IsSeq
  <2> QED
    BY <1>1, <2>1, <2>2 DEF Injection, IsInjective
<1>4. Cardinality(1 .. Len(cs)) <= Cardinality(C \ {x})
  BY <1>2, <1>3, FS_Injection DEF ExistsInjection
<1>5. Cardinality(1 .. Len(cs)) = Len(cs)
  <2>1. 1 \in Int /\ Len(cs) \in Int
    BY <1>1
  <2>2. Cardinality(1 .. Len(cs)) = IF 1 > Len(cs) THEN 0 ELSE Len(cs) - 1 + 1
    BY <2>1, FS_Interval
  <2> QED
    BY <1>1, <2>2
<1>6. Cardinality(C) \in Nat
  BY FS_CardinalityType
<1> QED
  BY <1>1, <1>2, <1>4, <1>5, <1>6

(* What is collected of a switch with one node more. *)
LEMMA GatheredCase ==
  ASSUME NEW fn, NEW n, NEW rem, NEW cs, NEW ds, Gathered(fn, n, rem, cs, ds),
         CasesFit(OwnCases[n.body]), NEW c \in rem, c.type = "case"
  PROVE  Len(cs) < MaxCases /\ Gathered(fn, n, rem \ {c}, Append(cs, c), ds)
<1> DEFINE own == OwnCases[n.body]
           C == {x \in own : x.type = "case"}
           now == Append(cs, c)
<1>1. /\ IsSeq(cs) /\ IsSeq(ds) /\ n \in NodesOf[fn] /\ n.type = "switch" /\ n # Nothing
      /\ \A j, k \in DOMAIN cs : cs[j] = cs[k] => j = k
      /\ \A k \in DOMAIN cs : cs[k].type = "case" /\ cs[k] \notin rem
      /\ ds = <<>> \/ (ds = <<ds[1]>> /\ ds[1].type = "default" /\ ds[1] \notin rem)
      /\ own = Range(cs) \cup Range(ds) \cup rem
  BY DEF Gathered
<1>2. IsFiniteSet(own) /\ Cardinality(C) <= MaxCases
  BY DEF CasesFit
<1>. HIDE DEF own
<1>3. IsFiniteSet(C) /\ Cardinality(C) \in Nat
  BY <1>2, FS_Subset, FS_CardinalityType
<1>4. c \in C
  BY <1>1
<1>5. Range(cs) \subseteq C \ {c}
  BY <1>1 DEF Range
<1>6. Len(cs) < Cardinality(C) /\ Len(cs) \in Nat /\ DOMAIN cs = 1 .. Len(cs)
  <2>. HIDE DEF C
  <2>1. Len(cs) < Cardinality(C)
    BY <1>1, <1>3, <1>4, <1>5, CasesRoom
  <2> QED
    BY <1>1, <2>1, SeqFacts
<1>7. MaxCases \in Nat
  BY SourcesAnalysed
<1>8. /\ IsSeq(now) /\ DOMAIN now = 1 .. Len(cs) + 1 /\ now[Len(cs) + 1] = c
      /\ \A k \in 1 .. Len(cs) : now[k] = cs[k]
  BY <1>1, Appended
<1>. HIDE DEF now
<1>9. \A k \in DOMAIN now : (k \in DOMAIN cs /\ now[k] = cs[k]) \/ (k = Len(cs) + 1 /\ now[k] = c)
  BY <1>6, <1>8
<1>10. c \notin Range(cs)
  BY <1>5
<1>11. \A j, k \in DOMAIN now : now[j] = now[k] => j = k
  <2>1. \A k \in DOMAIN cs : cs[k] # c
    BY <1>10 DEF Range
  <2> QED
    BY <1>1, <1>9, <2>1
<1>12. \A k \in DOMAIN now : now[k].type = "case" /\ now[k] \notin rem \ {c}
  BY <1>1, <1>9
<1>13. Range(now) = Range(cs) \cup {c}
  <2>1. \A k \in DOMAIN cs : k \in DOMAIN now /\ now[k] = cs[k]
    BY <1>6, <1>8
  <2>2. Len(cs) + 1 \in DOMAIN now
    BY <1>6, <1>8
  <2> QED
    BY <1>8, <1>9, <2>1, <2>2 DEF Range
<1>14. own = Range(now) \cup Range(ds) \cup (rem \ {c})
  BY <1>1, <1>13
<1>15. ds = <<>> \/ (ds = <<ds[1]>> /\ ds[1].type = "default" /\ ds[1] \notin rem \ {c})
  BY <1>1
<1>16. Gathered(fn, n, rem \ {c}, now, ds)
  BY <1>1, <1>8, <1>11, <1>12, <1>14, <1>15 DEF Gathered, own
<1> QED
  BY <1>2, <1>3, <1>6, <1>7, <1>16 DEF now

(* A default is in its place. *)
LEMMA GatheredDefault ==
  ASSUME NEW fn, NEW n, NEW rem, NEW cs, NEW ds, Gathered(fn, n, rem, cs, ds),
         CasesFit(OwnCases[n.body]), NEW c \in rem, c.type = "default"
  PROVE  Gathered(fn, n, rem \ {c}, cs, <<c>>)
<1> DEFINE own == OwnCases[n.body]
           now == <<c>>
<1>1. /\ IsSeq(cs) /\ IsSeq(ds) /\ n \in NodesOf[fn] /\ n.type = "switch" /\ n # Nothing
      /\ \A j, k \in DOMAIN cs : cs[j] = cs[k] => j = k
      /\ \A k \in DOMAIN cs : cs[k].type = "case" /\ cs[k] \notin rem
      /\ ds = <<>> \/ (ds = <<ds[1]>> /\ ds[1].type = "default" /\ ds[1] \notin rem)
      /\ own = Range(cs) \cup Range(ds) \cup rem
  BY DEF Gathered
<1>2. \A a, b \in own : a.type = "default" /\ b.type = "default" => a = b
  BY DEF CasesFit
<1>. HIDE DEF own
<1>3. Range(ds) = {}
  <2>1. ASSUME ds # <<>> PROVE FALSE
    <3>1. ds = <<ds[1]>> /\ ds[1].type = "default" /\ ds[1] \notin rem
      BY <1>1, <2>1
    <3> DEFINE d == ds[1]
    <3>2. ds = <<d>> /\ d.type = "default" /\ d \notin rem
      BY <3>1
    <3>. HIDE DEF d
    <3>3. Range(ds) = {d}
      BY <3>2, RangeOfOne
    <3>4. d \in own /\ c \in own
      BY <1>1, <3>3
    <3>5. d = c
      BY <1>2, <3>2, <3>4
    <3> QED
      BY <3>2, <3>5
  <2>2. IsSeq(<<>>) /\ DOMAIN <<>> = {}
    BY EmptyList, SeqFacts
  <2> QED
    BY <2>1, <2>2 DEF Range
<1>4. IsSeq(now) /\ Range(now) = {c} /\ now[1] = c /\ now = <<now[1]>>
  <2>1. IsSeq(<<c>>)
    BY ShortLists
  <2> QED
    BY <2>1, RangeOfOne
<1>. HIDE DEF now
<1>5. own = Range(cs) \cup Range(now) \cup (rem \ {c})
  BY <1>1, <1>3, <1>4
<1>6. \A k \in DOMAIN cs : cs[k].type = "case" /\ cs[k] \notin rem \ {c}
  BY <1>1
<1>7. now[1].type = "default" /\ now[1] \notin rem \ {c}
  BY <1>4
<1>8. Gathered(fn, n, rem \ {c}, cs, now)
  BY <1>1, <1>4, <1>5, <1>6, <1>7 DEF Gathered, own
<1> QED
  BY <1>8 DEF now

(* Collecting goes on. *)
LEMMA CollectingAhead ==
  ASSUME NEW fn, NEW s, NEW have, NEW cs, NEW ds, NEW work, Switching(fn, s, have, cs, ds, work),
         s.cases.of # Nothing, work # <<>>, Head(work).do # "test"
  PROVE  \E n, rem : /\ s.cases = Collecting(n, rem) /\ Gathered(fn, n, rem, cs, ds)
                     /\ Stamps(OwnCases[n.body]) \subseteq s.left
<1>1. s.cases # Idle
  BY CollectingIs
<1>2. ASSUME NEW next, NEW control, NEW done, NEW n, s.cases = Testing(next, control, done, n), Head(work) = s.cases
      PROVE  FALSE
  BY <1>2, TestingIs
<1> QED
  BY <1>1, <1>2 DEF Switching

(* A node of the body is looked at for cases. *)
LEMMA CollectOn ==
  ASSUME NEW fn \in AllFunctions, NEW in, NEW at, NEW s, Under(fn, in, at, s), CollectNext
  PROVE  Onward(fn)
<1> DEFINE work == PartsOf(Node)
<1>1. /\ Does("collect") /\ Then(work)
      /\ cases' = IF Node.type = "case" /\ Len(cases) < MaxCases THEN Append(cases, Node) ELSE cases
      /\ defaults' = IF Node.type = "default" THEN <<Node>> ELSE defaults
      /\ UNCHANGED <<treeVars, func, block, loops, labels, slots, caseBlocks, stamped, vals>>
  BY DEF CollectNext
<1>. HIDE DEF work
<1>2. PICK u : Ahead(fn, in, s, u)
  BY <1>1, UnderAhead DEF Does
<1>3. Head(todo).do = "collect" /\ todo # <<>> /\ Step(fn, Plains(func, in), Head(todo), s, u)
  BY <1>1, <1>2 DEF Does, Ahead
<1>4. CollectStep(fn, Head(todo), s, u)
  BY <1>3, StepIs
<1>5. /\ Node \in NodesOf[fn] /\ s.cases.of # Nothing /\ OwnCases[Node] \subseteq s.cases.rem
      /\ u = Sh(s.stack, s.open, Collecting(s.cases.of, s.cases.rem \ OwnCases[Node]), s.left, s.due)
  BY <1>4 DEF CollectStep, Node
<1>6. Laid(func, block, vals, in, at, s) /\ Switching(fn, s, Had(func, in, block), cases, defaults, todo)
  BY DEF Under
<1>7. PICK n, rem : /\ s.cases = Collecting(n, rem) /\ Gathered(fn, n, rem, cases, defaults)
                    /\ Stamps(OwnCases[n.body]) \subseteq s.left
  <2>1. Head(todo).do # "test"
    BY <1>3
  <2> QED
    BY <1>3, <1>5, <1>6, <2>1, CollectingAhead
<1>8. s.cases.of = n /\ s.cases.rem = rem
  BY <1>7, CollectingIs
<1> DEFINE now == rem \ (IF IsCase(Node) THEN {Node} ELSE {})
           t == Sh(s.stack, s.open, Collecting(n, now), s.left, s.due)
<1>9. s = Sh(s.stack, s.open, s.cases, s.left, s.due)
  BY <1>6 DEF Laid, IsShape
<1>10. n # Nothing /\ OwnCases[Node] \subseteq rem /\ u = Sh(s.stack, s.open, Collecting(n, rem \ OwnCases[Node]), s.left, s.due)
  BY <1>5, <1>8
<1>11. Chain(fn, Plains(func, in), work, t, u)
  BY <1>5, <1>7, <1>9, <1>10, CollectWork DEF work
<1>12. n.body \in NodesOf[fn] /\ CasesFit(OwnCases[n.body])
  <2>1. n \in NodesOf[fn] /\ n.type = "switch"
    BY <1>7 DEF Gathered
  <2> QED
    BY <2>1, MarksOfSwitch
<1>13. Gathered(fn, n, now, cases', defaults')
  <2>1. CASE Node.type = "case"
    <3>1. IsCase(Node) /\ Node \in rem /\ now = rem \ {Node}
      <4>1. Node \in OwnCases[Node]
        <5>1. Node.type \in {"case", "default"}
          BY <2>1
        <5>2. OwnCases[Node] = {Node} \cup OwnCases[Node.body]
          BY <1>5, <5>1, MarksOfCase
        <5> QED
          BY <5>2
      <4>2. IsCase(Node)
        BY <2>1 DEF IsCase
      <4> QED
        BY <1>10, <4>1, <4>2
    <3>2. Len(cases) < MaxCases /\ Gathered(fn, n, rem \ {Node}, Append(cases, Node), defaults)
      BY <1>7, <1>12, <2>1, <3>1, GatheredCase
    <3>3. cases' = Append(cases, Node) /\ defaults' = defaults
      BY <1>1, <2>1, <3>2
    <3> QED
      BY <3>1, <3>2, <3>3
  <2>2. CASE Node.type = "default"
    <3>1. IsCase(Node) /\ Node \in rem /\ now = rem \ {Node}
      <4>1. Node \in OwnCases[Node]
        <5>1. Node.type \in {"case", "default"}
          BY <2>2
        <5>2. OwnCases[Node] = {Node} \cup OwnCases[Node.body]
          BY <1>5, <5>1, MarksOfCase
        <5> QED
          BY <5>2
      <4>2. IsCase(Node)
        BY <2>2 DEF IsCase
      <4> QED
        BY <1>10, <4>1, <4>2
    <3>2. Gathered(fn, n, rem \ {Node}, cases, <<Node>>)
      BY <1>7, <1>12, <2>2, <3>1, GatheredDefault
    <3>3. cases' = cases /\ defaults' = <<Node>>
      BY <1>1, <2>2
    <3> QED
      BY <3>1, <3>2, <3>3
  <2>3. CASE Node.type # "case" /\ Node.type # "default"
    <3>1. now = rem
      BY <2>3 DEF IsCase
    <3>2. cases' = cases /\ defaults' = defaults
      BY <1>1, <2>3
    <3> QED
      BY <1>7, <3>1, <3>2
  <2> QED
    BY <2>1, <2>2, <2>3
<1>. HIDE DEF now
<1>14. t = Sh(s.stack, s.open, Collecting(n, now), s.left, s.due)
  OBVIOUS
<1>. HIDE DEF t
<1>15. Laid(func, block, vals, in, at, t) /\ t.cases = Collecting(n, now) /\ t.left = s.left
  BY <1>6, <1>14, LaidCases
<1>16. Switching(fn, t, Had(func', in, block'), cases', defaults', todo')
  BY <1>7, <1>13, <1>15 DEF Switching
<1>17. Tables(fn, Plains(func', in), Slots(func'), at, t.left, loops', labels', slots', caseBlocks', stamped')
  BY <1>1, <1>15 DEF Under
<1>18. Arrives(fn, in, s, u, work, in, at, t)
  BY <1>1, <1>2, <1>11, <1>15, <1>16, <1>17 DEF Arrives, More
<1> QED
  BY <1>18, ArrivesHolds

(* All the cases are yet to be tested. *)
LEMMA TestedFirst ==
  ASSUME NEW fn, NEW s, NEW have, NEW cs, NEW ds, NEW control \in have, NEW n, Gathered(fn, n, {}, cs, ds),
         Stamps(OwnCases[n.body]) \subseteq s.left
  PROVE  Tested(fn, s, have, cs, ds, 1, control, n)
<1>1. IsSeq(cs) /\ OwnCases[n.body] = Range(cs) \cup Range(ds)
  BY DEF Gathered
<1>2. Len(cs) \in Nat /\ DOMAIN cs = 1 .. Len(cs)
  BY <1>1, SeqFacts
<1>3. 1 \in 1 .. Len(cs) + 1 /\ \A k \in DOMAIN cs : k >= 1
  BY <1>2
<1>4. ASSUME NEW k \in DOMAIN cs PROVE <<"stamp", cs[k]>> \in s.left
  <2>1. cs[k] \in OwnCases[n.body]
    BY <1>1 DEF Range
  <2> QED
    BY <2>1, InStamps
<1>5. Stamps(Range(ds)) \subseteq s.left
  <2>1. ASSUME NEW x \in Stamps(Range(ds)) PROVE x \in Stamps(OwnCases[n.body])
    BY <1>1, InStamps
  <2> QED
    BY <2>1
<1> QED
  BY <1>3, <1>4, <1>5 DEF Tested

(* The tests of a switch, and its body, are a piece of work. *)
LEMMA TestsWork ==
  ASSUME NEW fn \in AllFunctions, NEW B, NEW n \in NodesOf[fn], n.type = "switch", NEW left, NEW D, Plain(D),
         MarksIn(n.body) \subseteq left, NEW z \in B, <<z, 0>> \in D, NEW next, NEW control
  PROVE  LET w == Testing(next, control, z, n)
         IN Chain(fn, B, <<w>>, Sh(<<>>, TRUE, w, left, D), St(left \ MarksIn(n), D \ {<<z, 0>>}))
<1> DEFINE w == Testing(next, control, z, n)
           s == Sh(<<>>, TRUE, w, left, D)
           t == St(left \ MarksIn(n), D \ {<<z, 0>>})
<1>1. /\ w.do = "test" /\ w.next = next /\ w.control = control /\ w.done = z /\ w.node = n
      /\ w = Testing(w.next, w.control, w.done, w.node)
  BY TestingIs
<1>. HIDE DEF w
<1>2. s.stack = <<>> /\ s.open = TRUE /\ s.cases = w /\ s.left = left /\ s.due = D
  BY DEF Sh
<1>3. t = Sh(<<>>, TRUE, Idle, left \ MarksIn(n), D \ {<<z, 0>>})
  BY DEF St
<1>. HIDE DEF s, t
<1>4. Low(D, 0)
  BY DEF Plain
<1>5. SwitchEnd(fn, w, s, t, s.due \ {<<w.done, 0>>})
  BY <1>1, <1>2, <1>3, <1>4 DEF SwitchEnd
<1>6. TestStep(fn, B, w, s, t)
  BY <1>1, <1>2, <1>5 DEF TestStep
<1>7. Step(fn, B, w, s, t)
  BY <1>6 DEF Step
<1>8. Chain(fn, B, <<w>>, s, t)
  BY <1>7, ChainOne
<1> QED
  BY <1>8 DEF s, t, w

(* The first of a list. *)
LEMMA HeadOfOne ==
  ASSUME NEW w, NEW rest, IsSeq(rest)
  PROVE  <<w>> \o rest # <<>> /\ Head(<<w>> \o rest) = w
<1> DEFINE a == <<w>> \o rest
<1>1. IsSeq(<<w>>) /\ Len(<<w>>) = 1 /\ <<w>>[1] = w
  BY ShortLists, RangeOfOne
<1>2. Len(rest) \in Nat
  BY SeqFacts
<1>3. IsSeq(a) /\ Len(a) = 1 + Len(rest) /\ DOMAIN a = 1 .. 1 + Len(rest) /\ a[1] = w
  <2>1. 1 \in 1 .. 1 + Len(rest) /\ 1 <= 1
    BY <1>2
  <2> QED
    BY <1>1, <2>1, JoinedSeq
<1>. HIDE DEF a
<1>4. a # <<>>
  BY <1>2, <1>3, EmptyList
<1>5. Head(a) = a[1]
  BY <1>3, <1>4, Consed
<1> QED
  BY <1>3, <1>4, <1>5 DEF a

(* The control value is computed and the tests begin. *)
LEMMA TestsBeginOn ==
  ASSUME NEW fn \in AllFunctions, NEW in, NEW at, NEW s, Under(fn, in, at, s), TestsBegin
  PROVE  Onward(fn)
<1> DEFINE done == LastBlock(func) + 1
           n == Node
           control == Newest
           w == Testing(1, control, done, n)
           out == With(in, Slots(func))
<1>1. /\ Does("tests") /\ func' = NewBlock(func) /\ vals' = SubSeq(vals, 1, Len(vals) - 1)
      /\ Then(<<[do |-> "test", next |-> 1, control |-> Newest, done |-> LastBlock(func'), node |-> Node]>>)
      /\ UNCHANGED <<treeVars, tableVars, block>>
  BY DEF TestsBegin, Older
<1>2. PICK u : Ahead(fn, in, s, u)
  BY <1>1, UnderAhead DEF Does
<1>3. Head(todo).do = "tests" /\ todo # <<>> /\ Step(fn, Plains(func, in), Head(todo), s, u)
  BY <1>1, <1>2 DEF Does, Ahead
<1>4. TestsStep(fn, Head(todo), s, u)
  BY <1>3, StepIs
<1>5. PICK kind \in {"value", "slot"} : s.stack = <<kind>>
  BY <1>4 DEF TestsStep
<1>6. /\ n \in NodesOf[fn] /\ n.type = "switch" /\ s.open = TRUE /\ Low(s.due, 0)
      /\ MarksIn(n.body) \subseteq s.left /\ s.cases = Collecting(n, {})
      /\ u = Sh(<<>>, TRUE, Idle, s.left \ MarksIn(n), s.due)
  BY <1>4 DEF TestsStep, SwitchEnd, Node
<1>7. Laid(func, block, vals, in, at, s) /\ Switching(fn, s, Had(func, in, block), cases, defaults, todo)
  BY DEF Under
<1>8. IsShape(s) /\ Sound(func, in) /\ Plain(s.due)
  BY <1>6, <1>7, LaidSound DEF Plain, IsShape
<1>9. LastBlock(func') = done
  BY <1>1, <1>8, NewBlockLast
<1>10. Then(<<w>>)
  BY <1>1, <1>9 DEF Testing
<1> DEFINE t1 == Sh(s.stack, s.open, s.cases, s.left, DueToo(s.due, done))
           t == Sh(<<>>, TRUE, w, s.left, DueToo(s.due, done))
<1>11. t1 = Sh(s.stack, s.open, s.cases, s.left, DueToo(s.due, LastBlock(func) + 1))
  OBVIOUS
<1>. HIDE DEF t1
<1>12. DueLaid(func, block, vals, in, at, s, NewBlock(func), With(in, Slots(func)), LastBlock(func) + 1, t1)
  BY <1>7, <1>11, LaidDue
<1>13. /\ Laid(func', block, vals, out, at, t1) /\ Roomier(func, in, func', out, done)
       /\ done \in Plains(func', out) /\ done \notin DueBlocks(s.due)
  BY <1>1, <1>12 DEF DueLaid
<1>14. done \in Nat /\ More(func, in, func', out)
  BY <1>13 DEF Roomier
<1>. HIDE DEF done, out, w, n, control
<1>15. Plain(DueToo(s.due, done)) /\ DueToo(s.due, done) \ {<<done, 0>>} = s.due /\ <<done, 0>> \in DueToo(s.due, done)
  <2>1. Plain(DueToo(s.due, done))
    BY <1>8, <1>13, <1>14, DueTooFacts
  <2>2. <<done, 0>> \notin s.due
    BY <1>13, DueBlocksFacts, PairFacts
  <2> QED
    BY <2>1, <2>2 DEF DueToo
<1>16. Pops(func', block, vals, out, at, t1, <<>>, kind, Sh(<<>>, t1.open, t1.cases, t1.left, t1.due))
  <2>1. t1.stack = <<kind>> /\ t1.due = DueToo(s.due, done)
    BY <1>5, <1>11 DEF Sh, done
  <2>2. <<>> \in Seq(Kinds) /\ kind \in Kinds /\ t1.stack = Append(<<>>, kind) /\ Len(<<>>) + 1 = 1
    BY <2>1, KindLists, EmptyList DEF Kinds
  <2>3. Low(t1.due, Len(<<>>) + 1)
    <3>1. \A d \in t1.due : d[2] = 0
      BY <1>15, <2>1 DEF Plain, Low, IsDue
    <3> QED
      BY <2>2, <3>1 DEF Low
  <2> QED
    BY <1>13, <2>2, <2>3 DEF Pops
<1>17. /\ Laid(func', block, SubSeq(vals, 1, Len(vals) - 1), out, at, Sh(<<>>, t1.open, t1.cases, t1.left, t1.due))
       /\ Available(Slots(func'), Had(func', out, block), kind, Last(vals))
  BY <1>16, LaidPop
<1>18. control \in Had(func', out, block)
  <2>1. Sound(func', out) /\ block \in DOMAIN func'.code
    BY <1>13, LaidSound
  <2>2. Slots(func') \subseteq Had(func', out, block)
    BY <2>1, SlotsHad
  <2> QED
    BY <1>17, <2>2 DEF Available, control, Newest
<1>19. t = Sh(<<>>, TRUE, w, s.left, DueToo(s.due, done))
  OBVIOUS
<1>. HIDE DEF t
<1>20. Laid(func', block', vals', out, at, t) /\ t.cases = w /\ t.left = s.left
  <2> DEFINE t2 == Sh(<<>>, t1.open, t1.cases, t1.left, t1.due)
  <2>1. t1.open = TRUE /\ t1.left = s.left /\ t1.due = DueToo(s.due, done)
    BY <1>6, <1>11 DEF Sh, done
  <2>2. t2.stack = <<>> /\ t2.open = TRUE /\ t2.due = DueToo(s.due, done)
    BY <2>1 DEF Sh
  <2>3. Laid(func', block, vals', out, at, t2)
    BY <1>1, <1>17
  <2>. HIDE DEF t2
  <2>4. t = Sh(t2.stack, t2.open, w, s.left, t2.due)
    BY <1>19, <2>2
  <2>5. Laid(func', block, vals', out, at, t) /\ t.cases = w /\ t.left = s.left
    BY <2>3, <2>4, LaidCases
  <2> QED
    BY <1>1, <2>5
<1>21. Chain(fn, Plains(func', out), <<w>>, t, u)
  <2>1. Chain(fn, Plains(func', out), <<w>>, Sh(<<>>, TRUE, w, s.left, DueToo(s.due, done)),
              St(s.left \ MarksIn(n), DueToo(s.due, done) \ {<<done, 0>>}))
    BY <1>6, <1>13, <1>15, TestsWork DEF w
  <2>2. St(s.left \ MarksIn(n), DueToo(s.due, done) \ {<<done, 0>>}) = u
    BY <1>6, <1>15 DEF St
  <2> QED
    BY <1>19, <2>1, <2>2
<1>22. Gathered(fn, n, {}, cases, defaults) /\ Stamps(OwnCases[n.body]) \subseteq s.left
  <2>1. s.cases.of # Nothing /\ Head(todo).do # "test"
    <3>1. n # Nothing
      BY <1>6 DEF Nothing
    <3> QED
      BY <1>3, <1>6, <3>1, CollectingIs
  <2>2. PICK m, rem : /\ s.cases = Collecting(m, rem) /\ Gathered(fn, m, rem, cases, defaults)
                      /\ Stamps(OwnCases[m.body]) \subseteq s.left
    BY <1>3, <1>7, <2>1, CollectingAhead
  <2>3. m = n /\ rem = {}
    BY <1>6, <2>2, CollectingIs
  <2> QED
    BY <2>2, <2>3
<1>23. cases' = cases /\ defaults' = defaults /\ loops' = loops /\ labels' = labels /\ slots' = slots
       /\ caseBlocks' = caseBlocks /\ stamped' = stamped /\ block' = block
  BY <1>1 DEF tableVars
<1>24. Switching(fn, t, Had(func', out, block'), cases', defaults', todo')
  <2>1. Tested(fn, t, Had(func', out, block'), cases', defaults', 1, control, n)
    BY <1>18, <1>20, <1>22, <1>23, TestedFirst
  <2>2. todo' # <<>> /\ Head(todo') = w
    BY <1>2, <1>10, HeadOfOne DEF Then, Ahead, Chain
  <2> QED
    BY <1>20, <2>1, <2>2 DEF Switching, w
<1>25. Tables(fn, Plains(func', out), Slots(func'), at, t.left, loops', labels', slots', caseBlocks', stamped')
  <2>1. Tables(fn, Plains(func, in), Slots(func), at, s.left, loops, labels, slots, caseBlocks, stamped)
    BY DEF Under
  <2>2. Tables(fn, Plains(func', out), Slots(func'), at, s.left, loops, labels, slots, caseBlocks, stamped)
    BY <1>14, <2>1, TablesMore DEF More
  <2> QED
    BY <1>20, <1>23, <2>2
<1>26. Arrives(fn, in, s, u, <<w>>, out, at, t)
  BY <1>2, <1>10, <1>14, <1>20, <1>21, <1>24, <1>25 DEF Arrives
<1> QED
  BY <1>26, ArrivesHolds

-----------------------------------------------------------------------------
(* The test of a case                                                      *)

ThreeMore(c, i, j, k) == Append(Append(Append(c, i), j), k) = c \o <<i, j, k>>

(* Three instructions, one after another. *)
LEMMA ThreeAppended == ASSUME NEW c, IsSeq(c), NEW i, NEW j, NEW k PROVE ThreeMore(c, i, j, k)
<1> DEFINE S == Range(c) \cup {i, j, k}
<1>1. c \in Seq(Range(c)) /\ Range(c) \subseteq S
  BY DEF IsSeq
<1>2. c \in Seq(S)
  <2>1. Len(c) \in Nat /\ DOMAIN c = 1 .. Len(c) /\ c = [x \in 1 .. Len(c) |-> c[x]]
    BY <1>1
  <2>2. \A x \in 1 .. Len(c) : c[x] \in S
    BY <1>1, <2>1
  <2>. HIDE DEF S
  <2> QED
    BY <1>1, <2>1, <2>2
<1>3. i \in S /\ j \in S /\ k \in S
  OBVIOUS
<1>. HIDE DEF S
<1>4. Append(c, i) = c \o <<i>> /\ Append(c, i) \in Seq(S)
  BY <1>2, <1>3
<1>5. Append(Append(c, i), j) = c \o <<i, j>> /\ Append(Append(c, i), j) \in Seq(S)
  BY <1>2, <1>3, <1>4, SMTT(30)
<1> QED
  BY <1>2, <1>3, <1>4, <1>5, SMTT(30) DEF ThreeMore

(* What a test is written as. *)
TestInstrs(control, v, x, y, i, j, k) ==
  /\ IsInstr(i) /\ i.op = "const" /\ i.args = <<>> /\ i.dst = v
  /\ IsInstr(j) /\ j.op = "eq" /\ j.args = <<control, v>> /\ j.dst = v + 1
  /\ IsInstr(k) /\ k.op = "br" /\ k.args = <<v + 1>> /\ k.dst = NoValue /\ k.to = <<x, y>>

(* A test is a constant, a comparison and a choice. *)
LEMMA TestWritten ==
  ASSUME NEW control, NEW v, NEW x, NEW y, NEW n
  PROVE  TestInstrs(control, v, x, y, Const(v, n, "int"), Instr("eq", v + 1, <<control, v>>),
                    [Instr("br", NoValue, <<v + 1>>) EXCEPT !.to = <<x, y>>])
<1> DEFINE i == Const(v, n, "int")
           e == v + 1
           j == Instr("eq", e, <<control, v>>)
           k == [Instr("br", NoValue, <<e>>) EXCEPT !.to = <<x, y>>]
<1>1. IsInstr(i) /\ i.op = "const" /\ i.args = <<>> /\ i.dst = v
  <2>1. DOMAIN i = InstrFields /\ i.op = "const" /\ i.args = <<>> /\ i.dst = v /\ i.to = <<>>
    BY DEF Const, Instr, InstrFields
  <2>. HIDE DEF i
  <2> QED
    BY <2>1 DEF IsInstr, IsTerminator
<1>. HIDE DEF e
<1>2. IsInstr(j) /\ j.op = "eq" /\ j.args = <<control, v>> /\ j.dst = e
  <2>1. DOMAIN j = InstrFields /\ j.op = "eq" /\ j.args = <<control, v>> /\ j.dst = e /\ j.to = <<>>
    BY DEF Instr, InstrFields
  <2>. HIDE DEF j
  <2> QED
    BY <2>1 DEF IsInstr, IsTerminator
<1>3. IsInstr(k) /\ k.op = "br" /\ k.args = <<e>> /\ k.dst = NoValue /\ k.to = <<x, y>>
  <2>1. DOMAIN k = InstrFields /\ k.op = "br" /\ k.args = <<e>> /\ k.dst = NoValue /\ k.to = <<x, y>>
    BY DEF Instr, InstrFields
  <2>2. DOMAIN <<x, y>> = 1 .. 2
    OBVIOUS
  <2>. HIDE DEF k
  <2> QED
    BY <2>1, <2>2 DEF IsInstr, IsTerminator
<1>. HIDE DEF i, j, k
<1>4. TestInstrs(control, v, x, y, i, j, k)
  BY <1>1, <1>2, <1>3 DEF TestInstrs, e
<1> QED
  BY <1>4 DEF i, j, k, e

TestPut(f, b, vs, in, at, s, control, v, x, y, i, j, k, g, t) ==
  /\ Laid(f, b, vs, in, at, s) /\ s.open = TRUE /\ control \in Had(f, in, b)
  /\ v = f.values + 1 /\ TestInstrs(control, v, x, y, i, j, k)
  /\ x \in Plains(f, in) /\ y \in DueBlocks(s.due)
  /\ g = [code |-> [f.code EXCEPT ![b] = f.code[b] \o <<i, j, k>>], values |-> v + 1]
  /\ t = Sh(s.stack, FALSE, s.cases, s.left, s.due)

(* It ends the block it is in. *)
LEMMA LaidTest ==
  ASSUME NEW f, NEW b, NEW vs, NEW in, NEW at, NEW s, NEW control, NEW v, NEW x, NEW y, NEW i, NEW j, NEW k, NEW g, NEW t,
         TestPut(f, b, vs, in, at, s, control, v, x, y, i, j, k, g, t)
  PROVE  Laid(g, b, vs, in, at, t) /\ More(f, in, g, in)
<1> DEFINE e == v + 1
           c == f.code[b]
           p == [code |-> [f.code EXCEPT ![b] = Append(c, i)], values |-> v]
           q == [code |-> [p.code EXCEPT ![b] = Append(p.code[b], j)], values |-> e]
<1>1. /\ Laid(f, b, vs, in, at, s) /\ s.open = TRUE /\ control \in Had(f, in, b) /\ v = f.values + 1
      /\ IsInstr(i) /\ i.op = "const" /\ i.args = <<>> /\ i.dst = v
      /\ IsInstr(j) /\ j.op = "eq" /\ j.args = <<control, v>> /\ j.dst = e
      /\ IsInstr(k) /\ k.op = "br" /\ k.args = <<e>> /\ k.dst = NoValue /\ k.to = <<x, y>>
      /\ x \in Plains(f, in) /\ y \in DueBlocks(s.due)
      /\ g = [code |-> [f.code EXCEPT ![b] = c \o <<i, j, k>>], values |-> e]
      /\ t = Sh(s.stack, FALSE, s.cases, s.left, s.due)
  BY DEF TestPut, TestInstrs
<1>2. Sound(f, in) /\ b \in DOMAIN f.code
  BY <1>1, LaidSound
<1>3. /\ f.values \in Nat /\ DOMAIN f = {"code", "values"} /\ Had(f, in, b) \subseteq 1 .. f.values
      /\ IsSeq(f.code) /\ IsSeq(c)
  BY <1>2, SlotsHad DEF Sound, Coded, IsBlock
<1>4. v \in Nat /\ e \in Nat /\ f.values <= v /\ v <= e /\ v \notin 1 .. f.values /\ e \notin 1 .. v
      /\ v # NoValue /\ e # NoValue /\ v \in 1 .. v /\ v \in NoValue .. v /\ e \in NoValue .. e /\ e \in 1 .. e
      /\ 1 .. f.values \subseteq 1 .. v
  BY <1>1, <1>3 DEF NoValue
<1>5. /\ p.code = [f.code EXCEPT ![b] = Append(f.code[b], i)] /\ p.values = v /\ DOMAIN p = DOMAIN f
      /\ q.code = [p.code EXCEPT ![b] = Append(p.code[b], j)] /\ q.values = e /\ DOMAIN q = DOMAIN p
      /\ q = [code |-> q.code, values |-> q.values]
  BY <1>3
<1>6. g = Emit(q, b, k)
  <2> DEFINE C == f.code
             D == [C EXCEPT ![b] = Append(c, i)]
             E == [D EXCEPT ![b] = Append(D[b], j)]
             F == [E EXCEPT ![b] = Append(E[b], k)]
  <2>1. q = [code |-> E, values |-> e] /\ g = [code |-> [C EXCEPT ![b] = c \o <<i, j, k>>], values |-> e]
    BY <1>1
  <2>2. b \in DOMAIN C
    BY <1>2
  <2>. HIDE DEF c, C, q, p, e
  <2>3. Append(Append(Append(c, i), j), k) = c \o <<i, j, k>>
    <3>1. IsSeq(c)
      BY <1>3
    <3> QED
      BY <3>1, ThreeAppended DEF ThreeMore
  <2>4. F = [C EXCEPT ![b] = c \o <<i, j, k>>]
    <3>1. DOMAIN D = DOMAIN C /\ D[b] = Append(c, i) /\ \A z \in DOMAIN C : z # b => D[z] = C[z]
      BY <2>2
    <3>. HIDE DEF D
    <3>2. DOMAIN E = DOMAIN C /\ E[b] = Append(Append(c, i), j) /\ \A z \in DOMAIN C : z # b => E[z] = C[z]
      BY <2>2, <3>1
    <3>. HIDE DEF E
    <3> QED
      BY <2>2, <2>3, <3>2
  <2>. HIDE DEF D
  <2>5. Emit(q, b, k) = [code |-> F, values |-> e]
    <3>1. q = [code |-> E, values |-> e]
      BY <2>1
    <3>. HIDE DEF E
    <3>2. q.code = E /\ DOMAIN q = {"code", "values"}
      BY <3>1
    <3>3. Emit(q, b, k) = [q EXCEPT !.code = F]
      BY <3>2 DEF Emit
    <3>. HIDE DEF F
    <3> QED
      BY <3>1, <3>3
  <2> QED
    BY <2>1, <2>4, <2>5
<1>. HIDE DEF p, q, e, c
<1>8. PutLaid(f, b, vs, in, at, s, i, p)
  <2>1. Range(i.args) = {} /\ IsSeq(i.args) /\ Len(i.args) = 0
    BY <1>1, NothingThere, EmptyList
  <2>2. IsNumbered(i, v)
    BY <1>1, <1>4, <2>1 DEF IsNumbered, RequiredArgs, NoValue
  <2>3. ~ IsTerminator(i.op) /\ i.op \notin {"phi", "alloca"}
    BY <1>1 DEF IsTerminator
  <2>4. PutIn(f, b, vs, in, at, s, v, i, p)
    BY <1>1, <1>4, <1>5, <2>1, <2>2, <2>3 DEF PutIn
  <2> QED
    BY <2>4, LaidPut
<1>9. /\ Laid(p, b, vs, in, at, s) /\ Plains(p, in) = Plains(f, in) /\ Slots(p) = Slots(f)
      /\ Had(p, in, b) = Had(f, in, b) \cup {v}
  BY <1>1, <1>4, <1>8 DEF PutLaid
<1>10. PutLaid(p, b, vs, in, at, s, j, q)
  <2>1. IsSeq(j.args) /\ Len(j.args) = 2 /\ Range(j.args) = {control, v}
    BY <1>1, PairList
  <2>2. control \in 1 .. v /\ v \in 1 .. e /\ control \in 1 .. e
    BY <1>1, <1>3, <1>4 DEF e
  <2>3. IsNumbered(j, e)
    BY <1>1, <1>4, <2>1, <2>2 DEF IsNumbered, RequiredArgs, NoValue
  <2>4. ~ IsTerminator(j.op) /\ j.op \notin {"phi", "alloca"}
    BY <1>1 DEF IsTerminator
  <2>5. Range(j.args) \subseteq Had(p, in, b) /\ p.values <= e /\ j.dst \notin 1 .. p.values
    BY <1>1, <1>4, <1>5, <1>9, <2>1
  <2>6. PutIn(p, b, vs, in, at, s, e, j, q)
    BY <1>1, <1>4, <1>5, <1>9, <2>3, <2>4, <2>5 DEF PutIn
  <2> QED
    BY <2>6, LaidPut
<1>11. /\ Laid(q, b, vs, in, at, s) /\ Plains(q, in) = Plains(f, in) /\ Slots(q) = Slots(f) /\ e \in Had(q, in, b)
  BY <1>1, <1>4, <1>9, <1>10 DEF PutLaid
<1>12. Laid(g, b, vs, in, at, t) /\ More(q, in, g, in)
  <2>1. IsSeq(<<e>>) /\ Len(<<e>>) = 1 /\ Range(<<e>>) = {e} /\ Range(<<x, y>>) = {x, y}
    BY ShortLists, RangeOfOne, PairList
  <2>2. IsNumbered(k, q.values)
    BY <1>1, <1>4, <1>5, <2>1 DEF IsNumbered, RequiredArgs, NoValue, IsTerminator
  <2>3. IsTerminator(k.op) /\ Range(k.args) \subseteq Had(q, in, b) /\ Range(k.to) \subseteq Plains(q, in) \cup DueBlocks(s.due)
    BY <1>1, <1>11, <2>1 DEF IsTerminator
  <2>4. Ends(q, b, vs, in, at, s, k, g, t)
    BY <1>1, <1>6, <1>11, <2>2, <2>3 DEF Ends
  <2> QED
    BY <2>4, LaidEnd
<1> QED
  BY <1>11, <1>12 DEF More

(* A new block may have on entry anything the block control is in has. *)
LEMMA HadNew ==
  ASSUME NEW f, NEW b, NEW vs, NEW in, NEW at, NEW s, Laid(f, b, vs, in, at, s),
         NEW S, Slots(f) \subseteq S, S \subseteq Had(f, in, b)
  PROVE  /\ Had(NewBlock(f), With(in, S), b) = Had(f, in, b) /\ With(in, S)[LastBlock(f) + 1] = S
         /\ Slots(f) \subseteq Had(f, in, b) /\ f.values \in Nat
<1>1. Sound(f, in) /\ b \in DOMAIN f.code
  BY LaidSound
<1>2. Slots(f) \subseteq Had(f, in, b) /\ Had(f, in, b) \subseteq 1 .. f.values /\ f.values \in Nat
  BY <1>1, SlotsHad
<1>3. Widened(f, in, S, NewBlock(f), With(in, S), LastBlock(f) + 1)
  BY <1>1, <1>2, BlockWidens
<1> QED
  BY <1>1, <1>2, <1>3 DEF Widened

(* The block a case is tested in, and those it leads to. *)
Testable(f, b, vs, in, at, s, control, n, x, g) ==
  /\ Laid(f, b, vs, in, at, s) /\ s.open = TRUE /\ s.stack = <<>> /\ Low(s.due, 0)
  /\ control \in Had(f, in, b) /\ x \notin DOMAIN at
  /\ g = [code |-> [NewBlock(NewBlock(f)).code EXCEPT ![b] = NewBlock(NewBlock(f)).code[b] \o
                      <<Const(f.values + 1, n, "int"), Instr("eq", f.values + 1 + 1, <<control, f.values + 1>>),
                        [Instr("br", NoValue, <<f.values + 1 + 1>>)
                           EXCEPT !.to = <<LastBlock(f) + 1, LastBlock(f) + 2>>]>>],
          values |-> f.values + 1 + 1]
TestLaid(f, b, vs, in, at, s, control, x, g, out) ==
  /\ Laid(g, LastBlock(f) + 2, vs, out, Marked(at, x, LastBlock(f) + 1), s) /\ More(f, in, g, out)
  /\ LastBlock(f) + 1 \in Plains(g, out) /\ control \in Had(g, out, LastBlock(f) + 2)
  /\ g.code[LastBlock(f) + 2] = <<>> /\ IsFinished(g.code[b])

(* A case has its block, and the next test one that still has the control  *)
(* value.                                                                  *)
LEMMA LaidTestable ==
  ASSUME NEW f, NEW b, NEW vs, NEW in, NEW at, NEW s, NEW control, NEW n, NEW x, NEW g,
         Testable(f, b, vs, in, at, s, control, n, x, g)
  PROVE  \E out : TestLaid(f, b, vs, in, at, s, control, x, g, out)
<1> DEFINE L == LastBlock(f)
           p == NewBlock(f)
           q == NewBlock(p)
           mid == With(in, Slots(f))
           out == With(mid, Had(p, mid, b))
           on == Marked(at, x, L + 1)
           t == Sh(s.stack, s.open, s.cases, s.left, s.due \cup {<<L + 2, 1>>})
           u == Sh(t.stack, FALSE, t.cases, t.left, t.due)
           v == f.values + 1
           i == Const(v, n, "int")
           j == Instr("eq", v + 1, <<control, v>>)
           k == [Instr("br", NoValue, <<v + 1>>) EXCEPT !.to = <<L + 1, L + 2>>]
<1>1. /\ Laid(f, b, vs, in, at, s) /\ s.open = TRUE /\ s.stack = <<>> /\ Low(s.due, 0)
      /\ control \in Had(f, in, b) /\ x \notin DOMAIN at
      /\ g = [code |-> [q.code EXCEPT ![b] = q.code[b] \o <<i, j, k>>], values |-> v + 1]
  BY DEF Testable
<1>2. TestInstrs(control, v, L + 1, L + 2, i, j, k)
  BY TestWritten
<1>. HIDE DEF i, j, k
<1>3. IsShape(s) /\ s = Sh(s.stack, s.open, s.cases, s.left, s.due) /\ Sound(f, in)
  BY <1>1, LaidSound DEF IsShape
<1>4. L \in Nat /\ LastBlock(p) = L + 1 /\ p.values = f.values /\ L + 1 + 1 = L + 2 /\ L + 1 # L + 2
  BY <1>3, NewBlockLast
<1>5. MarkLaid(f, b, vs, in, at, s, x, p, mid, L + 1, s)
  BY <1>1, <1>3, LaidMark
<1>6. Had(p, mid, b) = Had(f, in, b) /\ mid[L + 1] = Slots(f) /\ f.values \in Nat
  <2>1. Slots(f) \subseteq Had(f, in, b)
    BY <1>1, LaidSound, SlotsHad
  <2> QED
    BY <1>1, <2>1, HadNew
<1>. HIDE DEF p, mid, on, L
<1>7. Laid(p, b, vs, mid, on, s) /\ More(f, in, p, mid) /\ L + 1 \in Plains(p, mid) /\ Slots(p) = Slots(f)
  BY <1>5 DEF MarkLaid, Roomier, on
<1>8. Len(s.stack) = 0 /\ Len(s.stack) + 1 = 1
  BY <1>1, EmptyList
<1>9. Levelled(p, b, mid, s)
  BY <1>1, <1>3, <1>8, LowLevelled
<1>10. t = Sh(s.stack, s.open, s.cases, s.left, s.due \cup {<<LastBlock(p) + 1, Len(s.stack) + 1>>})
  BY <1>4, <1>8
<1>. HIDE DEF t
<1>11. LaterLaid(p, b, vs, mid, on, s, q, out, L + 2, t)
  <2>1. LaterLaid(p, b, vs, mid, on, s, NewBlock(p), With(mid, Had(p, mid, b)), LastBlock(p) + 1, t)
    BY <1>7, <1>9, <1>10, LaidLater
  <2> QED
    BY <1>4, <2>1
<1>12. Had(q, out, b) = Had(f, in, b) /\ out[L + 2] = Had(f, in, b)
  <2>1. Slots(p) \subseteq Had(p, mid, b)
    BY <1>7, LaidSound, SlotsHad
  <2>2. Had(NewBlock(p), With(mid, Had(p, mid, b)), b) = Had(p, mid, b) /\ With(mid, Had(p, mid, b))[LastBlock(p) + 1] = Had(p, mid, b)
    BY <1>7, <2>1, HadNew
  <2> QED
    BY <1>4, <1>6, <2>2
<1>. HIDE DEF q, out
<1>14. /\ Laid(q, b, vs, out, on, t) /\ More(p, mid, q, out) /\ q.values = p.values
       /\ L + 2 \notin DueBlocks(s.due)
  BY <1>11 DEF LaterLaid, Roomier
<1>15. t.stack = s.stack /\ t.open = TRUE /\ t.cases = s.cases /\ t.left = s.left /\ t.due = s.due \cup {<<L + 2, 1>>}
  BY <1>1 DEF t, Sh
<1>16. L + 1 \in Plains(q, out) /\ L + 2 \in DueBlocks(t.due)
  <2>1. <<L + 2, 1>> \in t.due /\ <<L + 2, 1>>[1] = L + 2
    BY <1>15, PairFacts
  <2>2. L + 2 \in DueBlocks(t.due)
    BY <2>1, DueBlocksFacts
  <2> QED
    BY <1>7, <1>14, <2>2 DEF More
<1>17. TestPut(q, b, vs, out, on, t, control, v, L + 1, L + 2, i, j, k, g, u)
  <2>1. v = q.values + 1
    BY <1>4, <1>14
  <2> QED
    BY <1>1, <1>2, <1>12, <1>14, <1>15, <1>16, <2>1 DEF TestPut
<1>18. Laid(g, b, vs, out, on, u) /\ More(q, out, g, out)
  BY <1>17, LaidTest
<1>19. u.stack = <<>> /\ u.open = FALSE /\ u.due = s.due \cup {<<L + 2, 1>>}
  BY <1>1, <1>15 DEF Sh
<1> DEFINE d == <<L + 2, 1>>
<1>20. Opens(g, b, out, on, u.due, d)
  <2>1. Standing(g, b, out, on, FALSE, u.due)
    BY <1>18, <1>19 DEF Laid
  <2>2. d \in u.due /\ d[2] = 1
    BY <1>19, PairFacts
  <2>3. Low(u.due, d[2])
    <3>1. ASSUME NEW e \in u.due PROVE e[2] <= 1
      <4>1. CASE e \in s.due
        <5>1. e[2] \in Nat /\ e[2] <= 0
          BY <1>1, <1>3, <4>1 DEF IsShape, IsDue, Low
        <5> QED
          BY <5>1
      <4>2. CASE e = d
        BY <2>2, <4>2
      <4> QED
        BY <1>19, <4>1, <4>2
    <3> QED
      BY <2>2, <3>1 DEF Low
  <2> QED
    BY <2>1, <2>2, <2>3, StandingOpens
<1>21. u.due \ {d} = s.due /\ d[1] = L + 2
  <2>1. d[1] = L + 2
    BY PairFacts
  <2>2. d \notin s.due
    BY <1>14, <2>1, DueBlocksFacts
  <2> QED
    BY <1>19, <2>1, <2>2
<1>. HIDE DEF d, u
<1>22. /\ Standing(g, L + 2, out, on, TRUE, s.due) /\ Had(g, out, L + 2) = out[L + 2] /\ IsFinished(g.code[b])
       /\ g.code[L + 2] = <<>>
  BY <1>20, <1>21 DEF Opens
<1>23. Values(g, L + 2, vs, out, <<>>, s.due)
  <2>1. IsSeq(vs) /\ DOMAIN vs = DOMAIN <<>>
    BY <1>18, <1>19 DEF Laid, Values
  <2>2. DOMAIN <<>> = {}
    BY EmptyList, SeqFacts
  <2> QED
    BY <2>1, <2>2 DEF Values
<1>24. Laid(g, L + 2, vs, out, on, s)
  BY <1>1, <1>3, <1>22, <1>23 DEF Laid
<1>25. More(f, in, g, out) /\ L + 1 \in Plains(g, out)
  BY <1>7, <1>14, <1>16, <1>18 DEF More
<1>26. control \in Had(g, out, L + 2)
  BY <1>1, <1>12, <1>22
<1>27. TestLaid(f, b, vs, in, at, s, control, x, g, out)
  BY <1>22, <1>24, <1>25, <1>26 DEF TestLaid, on, L
<1> QED
  BY <1>27

(* A case is noted: it has a block, and the index of it is on the node. *)
Noted(fn, P, A, at, left, lp, lb, sl, cb, st, c, n, now, ids) ==
  /\ Tables(fn, P, A, at, left, lp, lb, sl, cb, st)
  /\ c \in CasesIn[fn.body] /\ <<"stamp", c>> \in left /\ <<"case", c>> \in left
  /\ n \in P /\ now = Append(cb, n)
  /\ DOMAIN ids = DOMAIN st \cup {c.id} /\ ids[c.id] = Len(cb)
  /\ \A id \in DOMAIN st : id # c.id => ids[id] = st[id]

(* The index written on the node finds the block of the case. *)
LEMMA TablesNoted ==
  ASSUME NEW fn \in AllFunctions, NEW P, NEW A, NEW at, NEW left, NEW lp, NEW lb, NEW sl, NEW cb, NEW st, NEW c, NEW n,
         NEW now, NEW ids, Noted(fn, P, A, at, left, lp, lb, sl, cb, st, c, n, now, ids)
  PROVE  Tables(fn, P, A, Marked(at, <<"case", c>>, n), left \ {<<"stamp", c>>}, lp, lb, sl, now, ids)
<1> DEFINE x == <<"case", c>>
           y == <<"stamp", c>>
           on == Marked(at, x, n)
           rest == left \ {y}
<1>1. /\ Tables(fn, P, A, at, left, lp, lb, sl, cb, st)
      /\ c \in CasesIn[fn.body] /\ y \in left /\ x \in left
      /\ n \in P /\ now = Append(cb, n)
      /\ DOMAIN ids = DOMAIN st \cup {c.id} /\ ids[c.id] = Len(cb)
      /\ \A id \in DOMAIN st : id # c.id => ids[id] = st[id]
  BY DEF Noted
<1>2. /\ IsSeq(lp) /\ \A k \in DOMAIN lp : lp[k].onBreak \in P /\ lp[k].onContinue \in P
      /\ \A z \in DOMAIN sl : sl[z] \in A
      /\ left \subseteq MarksIn(fn.body) /\ DOMAIN at \subseteq left
      /\ LabelsFit(fn, P, at, left, lb) /\ CasesNoted(fn, P, at, left, cb, st)
  BY <1>1 DEF Tables
<1>3. x # y /\ \A l : <<"label", l>> # x /\ <<"label", l>> # y
  BY TokensDiffer
<1>4. \A d : (<<"case", d>> = x => d = c) /\ (<<"stamp", d>> = y => d = c) /\ <<"case", d>> # y
  BY TokensDiffer
<1>. HIDE DEF x, y
<1>5. DOMAIN on = DOMAIN at \cup {x} /\ on[x] = n /\ \A z \in DOMAIN at : z # x => on[z] = at[z]
  BY DEF Marked
<1>. HIDE DEF on
<1>6. y \notin DOMAIN at /\ x \notin DOMAIN at
  <2>1. x \notin DOMAIN at
    BY <1>1, <1>2 DEF CasesNoted, x, y
  <2>2. y \notin DOMAIN at
    BY <1>2 DEF CasesNoted, y
  <2> QED
    BY <2>1, <2>2
<1>7. DOMAIN on \subseteq rest /\ rest \subseteq MarksIn(fn.body)
  BY <1>1, <1>2, <1>3, <1>5, <1>6
<1>8. LabelsFit(fn, P, on, rest, lb)
  BY <1>2, <1>3, <1>5 DEF LabelsFit
<1>9. IsSeq(cb) /\ Range(cb) \subseteq P /\ Len(cb) \in Nat /\ DOMAIN cb = 1 .. Len(cb)
  BY <1>2, SeqFacts DEF CasesNoted
<1>10. /\ IsSeq(now) /\ DOMAIN now = 1 .. Len(cb) + 1 /\ now[Len(cb) + 1] = n
       /\ \A k \in 1 .. Len(cb) : now[k] = cb[k]
  BY <1>1, <1>9, Appended
<1>11. Range(now) \subseteq P
  <2>1. ASSUME NEW k \in DOMAIN now PROVE now[k] \in P
    <3>1. CASE k \in 1 .. Len(cb)
      BY <1>9, <1>10, <3>1 DEF Range
    <3>2. CASE k = Len(cb) + 1
      BY <1>1, <1>10, <3>2
    <3> QED
      BY <1>9, <1>10, <3>1, <3>2
  <2> QED
    BY <2>1 DEF Range
<1>12. ASSUME NEW id \in DOMAIN ids PROVE ids[id] \in Nat /\ ids[id] + 1 \in DOMAIN now
  <2>1. CASE id = c.id
    BY <1>1, <1>9, <1>10, <2>1
  <2>2. CASE id # c.id
    <3>1. id \in DOMAIN st /\ ids[id] = st[id] /\ st[id] \in Nat /\ st[id] + 1 \in 1 .. Len(cb)
      BY <1>1, <1>2, <1>9, <2>2 DEF CasesNoted
    <3> QED
      BY <1>9, <1>10, <3>1
  <2> QED
    BY <2>1, <2>2
<1>13. ASSUME NEW d \in CasesIn[fn.body], <<"stamp", d>> \notin rest
       PROVE  /\ d.id \in DOMAIN ids
              /\ <<"case", d>> \in rest => <<"case", d>> \in DOMAIN on /\ on[<<"case", d>>] = now[ids[d.id] + 1]
  <2>1. CASE d = c
    <3>1. d.id \in DOMAIN ids /\ ids[d.id] = Len(cb)
      BY <1>1, <2>1
    <3>2. <<"case", d>> = x
      BY <2>1 DEF x
    <3> QED
      BY <1>5, <1>10, <3>1, <3>2
  <2>2. CASE d # c
    <3>1. d.id # c.id
      BY <1>1, <2>2, SourcesAnalysed DEF WellFormedTree
    <3>2. <<"stamp", d>> \notin left /\ <<"case", d>> # x /\ <<"case", d>> # y
      BY <1>4, <1>13, <2>2
    <3>3. d.id \in DOMAIN st /\ (<<"case", d>> \in left => <<"case", d>> \in DOMAIN at /\ at[<<"case", d>>] = cb[st[d.id] + 1])
      BY <1>2, <3>2 DEF CasesNoted
    <3>4. d.id \in DOMAIN ids /\ ids[d.id] = st[d.id] /\ st[d.id] + 1 \in 1 .. Len(cb)
      BY <1>1, <1>2, <1>9, <3>1, <3>3 DEF CasesNoted
    <3> QED
      BY <1>5, <1>10, <3>2, <3>3, <3>4
  <2> QED
    BY <2>1, <2>2
<1>14. ASSUME NEW d, <<"case", d>> \in DOMAIN on PROVE <<"stamp", d>> \notin rest
  <2>1. CASE d = c
    BY <2>1 DEF y
  <2>2. CASE d # c
    <3>1. <<"case", d>> \in DOMAIN at
      BY <1>4, <1>5, <1>14, <2>2
    <3> QED
      BY <1>2, <3>1 DEF CasesNoted
  <2> QED
    BY <2>1, <2>2
<1>. HIDE DEF rest
<1>15. \A d : <<"stamp", d>> \notin DOMAIN on
  <2>1. \A d : <<"stamp", d>> # x
    BY TokensDiffer DEF x
  <2> QED
    BY <1>2, <1>5, <2>1 DEF CasesNoted
<1>16. CasesNoted(fn, P, on, rest, now, ids)
  BY <1>10, <1>11, <1>12, <1>13, <1>14, <1>15 DEF CasesNoted
<1>17. Tables(fn, P, A, on, rest, lp, lb, sl, now, ids)
  BY <1>2, <1>7, <1>8, <1>16 DEF Tables
<1> QED
  BY <1>17 DEF on, rest, x, y

(* A switch in its tests is not collecting. *)
LEMMA TestingIsNot ==
  ASSUME NEW next, NEW control, NEW done, NEW n, NEW m, NEW rem
  PROVE  Testing(next, control, done, n) # Collecting(m, rem)
<1> DEFINE w == Testing(next, control, done, n)
           c == Collecting(m, rem)
<1>1. DOMAIN w = {"do", "next", "control", "done", "node"} /\ DOMAIN c = {"of", "rem"}
  BY DEF Testing, Collecting
<1>. HIDE DEF w, c
<1>2. w # c
  BY <1>1
<1> QED
  BY <1>2 DEF w, c

(* Where a switch is when one of its cases is tested. *)
AtTest(fn, in, s, u, n, next, control, done, have, cs, ds) ==
  /\ Head(todo) = Testing(next, control, done, n) /\ s.cases = Head(todo) /\ s.stack = <<>>
  /\ Tested(fn, s, have, cs, ds, next, control, n) /\ n \in NodesOf[fn] /\ n.type = "switch"
  /\ s.open = TRUE /\ Plain(s.due) /\ MarksIn(n.body) \subseteq s.left
  /\ done \in Plains(func, in) /\ <<done, 0>> \in s.due
  /\ u = St(s.left \ MarksIn(n), s.due \ {<<done, 0>>})

(* Where the switch is. *)
LEMMA TestAhead ==
  ASSUME NEW fn, NEW in, NEW at, NEW s, Under(fn, in, at, s), NEW u, Ahead(fn, in, s, u), Does("test")
  PROVE  \E n, next, control, done : AtTest(fn, in, s, u, n, next, control, done, Had(func, in, block), cases, defaults)
<1> DEFINE w == Head(todo)
           n == w.node
<1>1. w.do = "test" /\ todo # <<>> /\ Step(fn, Plains(func, in), w, s, u)
  BY DEF Does, Ahead
<1>. HIDE DEF w
<1>2. TestStep(fn, Plains(func, in), w, s, u)
  BY <1>1, StepIs
<1>3. /\ w = Testing(w.next, w.control, w.done, n) /\ s.cases = w /\ s.stack = <<>> /\ w.done \in Plains(func, in)
      /\ <<w.done, 0>> \in s.due /\ n \in NodesOf[fn] /\ n.type = "switch" /\ s.open = TRUE /\ Low(s.due, 0)
      /\ MarksIn(n.body) \subseteq s.left
      /\ u = St(s.left \ MarksIn(n), s.due \ {<<w.done, 0>>})
  BY <1>2 DEF TestStep, SwitchEnd, St
<1>4. Plain(s.due)
  BY <1>3 DEF Under, Laid, IsShape, Plain
<1>5. \A m, rem : w # Collecting(m, rem)
  BY <1>3, TestingIsNot
<1>6. w # Idle
  BY <1>5 DEF Idle
<1>7. PICK next, control, done, m :
        /\ s.cases = Testing(next, control, done, m)
        /\ Tested(fn, s, Had(func, in, block), cases, defaults, next, control, m)
  BY <1>3, <1>5, <1>6 DEF Under, Switching
<1>8. w.next = next /\ w.control = control /\ w.done = done /\ w.node = m
  BY <1>3, <1>7, TestingIs
<1>9. AtTest(fn, in, s, u, n, w.next, w.control, w.done, Had(func, in, block), cases, defaults)
  BY <1>3, <1>4, <1>7, <1>8 DEF AtTest, w
<1> QED
  BY <1>9

(* The marks of a case that is tested are left. *)
LEMMA CaseLeft ==
  ASSUME NEW fn \in AllFunctions, NEW n \in NodesOf[fn], n.type = "switch", NEW c \in OwnCases[n.body],
         NEW left, <<"stamp", c>> \in left, left \subseteq MarksIn(fn.body), MarksIn(n.body) \subseteq left
  PROVE  /\ <<"case", c>> \in left /\ c \in CasesIn[fn.body]
         /\ MarksIn(n.body) \subseteq left \ {<<"stamp", c>>}
         /\ (left \ {<<"stamp", c>>}) \ MarksIn(n) = left \ MarksIn(n)
<1>1. /\ MarksIn(n) = MarksIn(n.body) \cup Stamps(OwnCases[n.body])
      /\ Stamps(OwnCases[n.body]) \cap MarksIn(n.body) = {} /\ n.body \in NodesOf[fn]
  BY MarksOfSwitch
<1>2. <<"stamp", c>> \in Stamps(OwnCases[n.body])
  BY InStamps
<1>3. OwnCases[n.body] \subseteq CasesIn[n.body]
  BY <1>1, NodeFacts
<1>4. <<"case", c>> \in MarksIn(n.body)
  BY <1>3, InMarks
<1>5. <<"stamp", c>> \in MarksIn(fn.body)
  OBVIOUS
<1>6. c \in CasesIn[fn.body]
  BY <1>5, InMarks, TokensDiffer
<1> QED
  BY <1>1, <1>2, <1>4, <1>6

(* One case more is tested. *)
LEMMA TestedNext ==
  ASSUME NEW fn, NEW s, NEW have, NEW cs, NEW ds, NEW next, NEW control, NEW n,
         Tested(fn, s, have, cs, ds, next, control, n), next <= Len(cs),
         NEW t, t.left = s.left \ {<<"stamp", cs[next]>>}, NEW has, control \in has
  PROVE  /\ Tested(fn, t, has, cs, ds, next + 1, control, n)
         /\ cs[next] \in OwnCases[n.body] /\ <<"stamp", cs[next]>> \in s.left
<1>1. /\ Gathered(fn, n, {}, cs, ds) /\ next \in 1 .. Len(cs) + 1
      /\ \A k \in DOMAIN cs : <<"stamp", cs[k]>> \in s.left <=> k >= next
      /\ Stamps(Range(ds)) \subseteq s.left
  BY DEF Tested
<1>2. /\ IsSeq(cs) /\ \A j, k \in DOMAIN cs : cs[j] = cs[k] => j = k
      /\ \A k \in DOMAIN cs : cs[k].type = "case"
      /\ ds = <<>> \/ (ds = <<ds[1]>> /\ ds[1].type = "default")
      /\ OwnCases[n.body] = Range(cs) \cup Range(ds)
  BY <1>1 DEF Gathered
<1>3. Len(cs) \in Nat /\ DOMAIN cs = 1 .. Len(cs)
  BY <1>2, SeqFacts
<1>4. next \in DOMAIN cs /\ next \in Nat /\ next >= next
  BY <1>1, <1>3
<1>5. cs[next] \in Range(cs) /\ <<"stamp", cs[next]>> \in s.left
  BY <1>1, <1>4 DEF Range
<1>6. next + 1 \in 1 .. Len(cs) + 1
  BY <1>1, <1>3
<1>7. ASSUME NEW k \in DOMAIN cs PROVE <<"stamp", cs[k]>> \in t.left <=> k >= next + 1
  <2>1. CASE k = next
    <3>1. ~ (k >= next + 1)
      BY <1>4, <2>1
    <3>2. <<"stamp", cs[k]>> \notin t.left
      BY <2>1
    <3> QED
      BY <3>1, <3>2
  <2>2. CASE k # next
    <3>1. <<"stamp", cs[k]>> # <<"stamp", cs[next]>>
      BY <1>2, <1>4, <2>2, TokensDiffer
    <3>2. k >= next <=> k >= next + 1
      BY <1>3, <1>4, <2>2
    <3> QED
      BY <1>1, <3>1, <3>2
  <2> QED
    BY <2>1, <2>2
<1>8. Stamps(Range(ds)) \subseteq t.left
  <2>1. ASSUME NEW x \in Stamps(Range(ds)) PROVE x # <<"stamp", cs[next]>>
    <3>1. PICK d \in Range(ds) : x = <<"stamp", d>>
      BY <2>1, InStamps
    <3>2. d.type = "default"
      <4>1. ds # <<>>
        BY <3>1, EmptyList, SeqFacts DEF Range
      <4> DEFINE e == ds[1]
      <4>2. ds = <<e>> /\ e.type = "default"
        BY <1>2, <4>1
      <4>. HIDE DEF e
      <4>3. d = e
        BY <3>1, <4>2, RangeOfOne
      <4> QED
        BY <4>2, <4>3
    <3>3. cs[next].type = "case"
      BY <1>2, <1>4
    <3>4. d # cs[next]
      BY <3>2, <3>3
    <3> QED
      BY <3>1, <3>4, TokensDiffer
  <2> QED
    BY <1>1, <2>1
<1>9. Tested(fn, t, has, cs, ds, next + 1, control, n)
  BY <1>1, <1>6, <1>7, <1>8 DEF Tested
<1> QED
  BY <1>2, <1>5, <1>9

(* A case is tested, and control is in the block of the next test. *)
LEMMA TestCaseOn ==
  ASSUME NEW fn \in AllFunctions, NEW in, NEW at, NEW s, Under(fn, in, at, s), TestCase
  PROVE  Onward(fn) /\ Moves
<1> DEFINE w == Head(todo)
           L == LastBlock(func)
           c == cases[w.next]
           p == NewBlock(NewBlock(func))
           v == FreshValue(func)
           e == v + 1
           three == <<Const(v, c.value, "int"), Instr("eq", e, <<w.control, v>>),
                      [Instr("br", NoValue, <<e>>) EXCEPT !.to = <<L + 1, L + 2>>]>>
           f == [p EXCEPT !.values = e]
           x == <<"case", c>>
           y == <<"stamp", c>>
<1>1. /\ Does("test") /\ w.next <= Len(cases) /\ block' = L + 2
      /\ func' = [f EXCEPT !.code[block] = f.code[block] \o three]
      /\ caseBlocks' = Append(caseBlocks, L + 1)
      /\ stamped' = [id \in DOMAIN stamped \cup {c.id} |-> IF id = c.id THEN Len(caseBlocks) ELSE stamped[id]]
      /\ Then(<<[w EXCEPT !.next = @ + 1]>>)
      /\ UNCHANGED <<treeVars, loops, labels, slots, cases, defaults, vals>>
  BY DEF TestCase, NoteCaseBlock
<1>2. PICK u : Ahead(fn, in, s, u)
  BY <1>1, UnderAhead DEF Does
<1>3. PICK n, next, control, done : AtTest(fn, in, s, u, n, next, control, done, Had(func, in, block), cases, defaults)
  BY <1>1, <1>2, TestAhead
<1>4. /\ w = Testing(next, control, done, n) /\ s.cases = w /\ s.stack = <<>>
      /\ Tested(fn, s, Had(func, in, block), cases, defaults, next, control, n) /\ n \in NodesOf[fn] /\ n.type = "switch"
      /\ s.open = TRUE /\ Plain(s.due) /\ MarksIn(n.body) \subseteq s.left
      /\ done \in Plains(func, in) /\ <<done, 0>> \in s.due
      /\ u = St(s.left \ MarksIn(n), s.due \ {<<done, 0>>})
  BY <1>3 DEF AtTest
<1>5. w.next = next /\ w.control = control
  BY <1>4, TestingIs
<1> DEFINE w2 == Testing(next + 1, control, done, n)
           rest == s.left \ {y}
           t == Sh(s.stack, s.open, w2, rest, s.due)
<1>6. [w EXCEPT !.next = @ + 1] = w2
  BY <1>4 DEF Testing
<1>7. /\ Laid(func, block, vals, in, at, s)
      /\ Tables(fn, Plains(func, in), Slots(func), at, s.left, loops, labels, slots, caseBlocks, stamped)
  BY DEF Under
<1>8. control \in Had(func, in, block)
  BY <1>4 DEF Tested
<1>9. t.stack = s.stack /\ t.left = rest
  BY DEF Sh
<1>10. c \in OwnCases[n.body] /\ y \in s.left
  <2>1. next <= Len(cases) /\ c = cases[next] /\ t.left = s.left \ {<<"stamp", cases[next]>>}
    BY <1>1, <1>5, <1>9
  <2>. HIDE DEF t, c
  <2>2. cases[next] \in OwnCases[n.body] /\ <<"stamp", cases[next]>> \in s.left
    BY <1>4, <1>8, <2>1, TestedNext
  <2> QED
    BY <2>1, <2>2
<1>11. /\ x \in s.left /\ c \in CasesIn[fn.body]
       /\ MarksIn(n.body) \subseteq rest /\ rest \ MarksIn(n) = s.left \ MarksIn(n)
  <2>1. s.left \subseteq MarksIn(fn.body)
    BY <1>7 DEF Tables
  <2>. HIDE DEF c
  <2> QED
    BY <1>4, <1>10, <2>1, CaseLeft
<1>12. x \notin DOMAIN at
  BY <1>7, <1>10 DEF Tables, CasesNoted
<1>13. func' = [code |-> [p.code EXCEPT ![block] = p.code[block] \o three], values |-> e]
  <2>1. Sound(func, in)
    BY <1>7, LaidSound
  <2>2. DOMAIN p = {"code", "values"}
    BY <2>1 DEF Sound, NewBlock
  <2>. HIDE DEF p, three, e
  <2>3. f.code = p.code /\ f.values = e /\ f = [code |-> p.code, values |-> e]
    BY <2>2
  <2>. HIDE DEF f
  <2> QED
    BY <1>1, <2>3
<1>14. Testable(func, block, vals, in, at, s, control, c.value, x, func')
  <2>1. v = func.values + 1 /\ e = func.values + 1 + 1
    BY DEF FreshValue
  <2>2. Low(s.due, 0)
    BY <1>4 DEF Plain
  <2>3. three = <<Const(func.values + 1, c.value, "int"), Instr("eq", func.values + 1 + 1, <<control, func.values + 1>>),
                  [Instr("br", NoValue, <<func.values + 1 + 1>>)
                     EXCEPT !.to = <<LastBlock(func) + 1, LastBlock(func) + 2>>]>>
    BY <1>5 DEF FreshValue
  <2>. HIDE DEF three, e, v, x, c
  <2> QED
    BY <1>4, <1>7, <1>8, <1>12, <1>13, <2>1, <2>2, <2>3 DEF Testable
<1>. HIDE DEF x, y, c, three, f, p, v, e, w2, w, t
<1>15. PICK out : TestLaid(func, block, vals, in, at, s, control, x, func', out)
  BY <1>14, LaidTestable
<1> DEFINE on == Marked(at, x, L + 1)
<1>16. /\ Laid(func', block', vals', out, on, s) /\ More(func, in, func', out)
       /\ L + 1 \in Plains(func', out) /\ control \in Had(func', out, block')
       /\ func'.code[block'] = <<>> /\ IsFinished(func'.code[block])
  BY <1>1, <1>15 DEF TestLaid
<1>17. Laid(func', block', vals', out, on, t) /\ t.cases = w2 /\ t.left = rest
  BY <1>16, LaidCases DEF t
<1>18. Tables(fn, Plains(func', out), Slots(func'), on, t.left, loops', labels', slots', caseBlocks', stamped')
  <2>1. Tables(fn, Plains(func', out), Slots(func'), at, s.left, loops, labels, slots, caseBlocks, stamped)
    BY <1>7, <1>16, TablesMore DEF More
  <2>2. /\ DOMAIN stamped' = DOMAIN stamped \cup {c.id} /\ stamped'[c.id] = Len(caseBlocks)
        /\ \A id \in DOMAIN stamped : id # c.id => stamped'[id] = stamped[id]
    BY <1>1
  <2>3. Noted(fn, Plains(func', out), Slots(func'), at, s.left, loops, labels, slots, caseBlocks, stamped,
              c, L + 1, caseBlocks', stamped')
    BY <1>1, <1>10, <1>11, <1>16, <2>1, <2>2 DEF Noted, x, y
  <2>4. Tables(fn, Plains(func', out), Slots(func'), Marked(at, <<"case", c>>, L + 1), s.left \ {<<"stamp", c>>},
               loops, labels, slots, caseBlocks', stamped')
    BY <2>3, TablesNoted
  <2> QED
    BY <1>1, <1>17, <2>4 DEF x, y
<1>19. Then(<<w2>>)
  BY <1>1, <1>6
<1>20. Switching(fn, t, Had(func', out, block'), cases', defaults', todo')
  <2>1. Tested(fn, t, Had(func', out, block'), cases, defaults, next + 1, control, n)
    <3>1. next <= Len(cases) /\ t.left = s.left \ {<<"stamp", cases[next]>>}
      BY <1>1, <1>5, <1>17 DEF y, c
    <3> QED
      BY <1>4, <1>16, <3>1, TestedNext
  <2>2. todo' # <<>> /\ Head(todo') = w2
    BY <1>2, <1>19, HeadOfOne DEF Then, Ahead, Chain
  <2> QED
    BY <1>1, <1>17, <2>1, <2>2 DEF Switching, w2
<1>21. Chain(fn, Plains(func', out), <<w2>>, t, u)
  <2>1. done \in Plains(func', out)
    BY <1>4, <1>16 DEF More
  <2>2. Chain(fn, Plains(func', out), <<w2>>, Sh(<<>>, TRUE, w2, rest, s.due), St(rest \ MarksIn(n), s.due \ {<<done, 0>>}))
    BY <1>4, <1>11, <2>1, TestsWork DEF w2
  <2>3. t = Sh(<<>>, TRUE, w2, rest, s.due)
    BY <1>4 DEF t
  <2> QED
    BY <1>4, <1>11, <2>2, <2>3
<1>22. Arrives(fn, in, s, u, <<w2>>, out, on, t)
  BY <1>2, <1>16, <1>17, <1>18, <1>19, <1>20, <1>21 DEF Arrives
<1>23. Onward(fn)
  BY <1>22, ArrivesHolds
<1> QED
  BY <1>16, <1>23 DEF Moves

(* Only the default has no block yet. *)
LEMMA AllTested ==
  ASSUME NEW fn, NEW s, NEW have, NEW cs, NEW ds, NEW next, NEW control, NEW n,
         Tested(fn, s, have, cs, ds, next, control, n), next > Len(cs)
  PROVE  /\ ds = <<>> => Stamps(OwnCases[n.body]) \cap s.left = {}
         /\ ds # <<>> => /\ ds[1] \in OwnCases[n.body] /\ <<"stamp", ds[1]>> \in s.left
                         /\ Stamps(OwnCases[n.body]) \cap (s.left \ {<<"stamp", ds[1]>>}) = {}
<1>1. /\ IsSeq(cs) /\ next \in 1 .. Len(cs) + 1
      /\ \A k \in DOMAIN cs : <<"stamp", cs[k]>> \in s.left <=> k >= next
      /\ Stamps(Range(ds)) \subseteq s.left
      /\ ds = <<>> \/ ds = <<ds[1]>>
      /\ OwnCases[n.body] = Range(cs) \cup Range(ds)
  BY DEF Tested, Gathered
<1>2. Len(cs) \in Nat /\ DOMAIN cs = 1 .. Len(cs)
  BY <1>1, SeqFacts
<1>3. ASSUME NEW c \in Range(cs) PROVE <<"stamp", c>> \notin s.left
  <2>1. PICK k \in DOMAIN cs : c = cs[k]
    BY DEF Range
  <2>2. ~ (k >= next)
    BY <1>1, <1>2
  <2> QED
    BY <1>1, <2>1, <2>2
<1>4. CASE ds = <<>>
  <2>1. Range(ds) = {}
    BY <1>4, EmptyList, SeqFacts DEF Range
  <2>2. ASSUME NEW x \in Stamps(OwnCases[n.body]) PROVE x \notin s.left
    BY <1>1, <1>3, <2>1, InStamps
  <2> QED
    BY <1>4, <2>2
<1>5. CASE ds # <<>>
  <2> DEFINE d == ds[1]
  <2>1. ds = <<d>>
    BY <1>1, <1>5
  <2>. HIDE DEF d
  <2>2. Range(ds) = {d}
    BY <2>1, RangeOfOne
  <2>3. d \in OwnCases[n.body] /\ <<"stamp", d>> \in s.left
    BY <1>1, <2>2, InStamps
  <2>4. ASSUME NEW x \in Stamps(OwnCases[n.body]) PROVE x \notin s.left \ {<<"stamp", d>>}
    BY <1>1, <1>3, <2>2, InStamps
  <2> QED
    BY <1>5, <2>3, <2>4 DEF d
<1> QED
  BY <1>4, <1>5

(* What is due without the block behind the switch. *)
LEMMA DueApart ==
  ASSUME NEW D, Plain(D), NEW z, <<z, 0>> \in D
  PROVE  LET E == D \ {<<z, 0>>}
         IN Plain(E) /\ z \in Nat /\ z \notin DueBlocks(E) /\ D = DueToo(E, z)
<1> DEFINE E == D \ {<<z, 0>>}
<1>1. D \subseteq Nat \X Nat /\ (\A d, e \in D : d[1] = e[1] => d = e) /\ \A d \in D : d[2] <= 0
  BY DEF Plain, IsDue, Low
<1>2. Plain(E)
  BY <1>1 DEF Plain, IsDue, Low
<1>3. z \in Nat
  BY <1>1
<1>4. z \notin DueBlocks(E)
  <2>1. ASSUME NEW d \in E, d[1] = z PROVE FALSE
    <3>1. d = <<z, 0>>
      BY <1>1, <2>1, PairFacts
    <3> QED
      BY <3>1
  <2> QED
    BY <2>1, DueBlocksFacts
<1>5. D = DueToo(E, z)
  BY DEF DueToo
<1> QED
  BY <1>2, <1>3, <1>4, <1>5

(* The tests are written; the body is lowered from b on. *)
BodyAhead(fn, in, s, u, n, done, b, left, out, at, t) ==
  /\ Ahead(fn, in, s, u) /\ t = Sh(s.stack, s.open, Idle, left, s.due)
  /\ s.stack = <<>> /\ s.open = TRUE /\ n \in NodesOf[fn] /\ n.type = "switch" /\ Plain(s.due)
  /\ <<done, 0>> \in s.due /\ done \in Plains(func', out) /\ b \in Plains(func', out)
  /\ ContinueFromSwitch(done) \in Plains(func', out)
  /\ MarksIn(n) \subseteq left \cup Stamps(OwnCases[n.body]) /\ Stamps(OwnCases[n.body]) \cap left = {}
  /\ u = St(left \ MarksIn(n), s.due \ {<<done, 0>>})
  /\ Laid(func', block', vals', out, at, t) /\ More(func, in, func', out)
  /\ Tables(fn, Plains(func', out), Slots(func'), at, left, loops', labels', slots', caseBlocks', stamped')
  /\ Then(<<JumpTo(b)>> \o <<PushLoop(done, ContinueFromSwitch(done)), OpenNew,
                             Statement(n.body), JumpTo(done), PopLoop, OpenAt(done)>>)

(* The body of the switch leads on to the block behind it. *)
LEMMA BodyAheadHolds ==
  ASSUME NEW fn \in AllFunctions, NEW in, NEW s, NEW u, NEW n, NEW done, NEW b, NEW left, NEW out, NEW at, NEW t,
         BodyAhead(fn, in, s, u, n, done, b, left, out, at, t)
  PROVE  Onward(fn)
<1> DEFINE c == ContinueFromSwitch(done)
           work == <<JumpTo(b)>> \o <<PushLoop(done, c), OpenNew, Statement(n.body), JumpTo(done), PopLoop, OpenAt(done)>>
           D == s.due \ {<<done, 0>>}
<1>1. Ahead(fn, in, s, u) /\ t = Sh(s.stack, s.open, Idle, left, s.due) /\ s.stack = <<>> /\ s.open = TRUE
      /\ n \in NodesOf[fn] /\ n.type = "switch" /\ Plain(s.due)
      /\ <<done, 0>> \in s.due /\ done \in Plains(func', out) /\ b \in Plains(func', out) /\ c \in Plains(func', out)
      /\ MarksIn(n) \subseteq left \cup Stamps(OwnCases[n.body]) /\ Stamps(OwnCases[n.body]) \cap left = {}
      /\ u = St(left \ MarksIn(n), D)
      /\ Laid(func', block', vals', out, at, t) /\ More(func, in, func', out)
      /\ Tables(fn, Plains(func', out), Slots(func'), at, left, loops', labels', slots', caseBlocks', stamped')
      /\ Then(work)
  BY DEF BodyAhead
<1>2. Plain(D) /\ done \in Nat /\ done \notin DueBlocks(D) /\ s.due = DueToo(D, done)
  BY <1>1, DueApart
<1>. HIDE DEF c, D
<1>3. Chain(fn, Plains(func', out), work, St(left, DueToo(D, done)), St(left \ MarksIn(n), D))
  BY <1>1, <1>2, SwitchBodyWork
<1>4. t = St(left, DueToo(D, done)) /\ t.cases = Idle /\ t.left = left
  <2>1. t = St(left, DueToo(D, done))
    BY <1>1, <1>2 DEF St
  <2> QED
    BY <2>1, StHas
<1>. HIDE DEF work
<1>5. Switching(fn, t, Had(func', out, block'), cases', defaults', todo')
  BY <1>4 DEF Switching
<1>6. Arrives(fn, in, s, u, work, out, at, t)
  BY <1>1, <1>3, <1>4, <1>5 DEF Arrives
<1> QED
  BY <1>6, ArrivesHolds

(* continue in a switch goes where it goes in the loop around it, and      *)
(* without a loop behind the switch.                                       *)
LEMMA ContinueThere ==
  ASSUME NEW fn, NEW in, NEW at, NEW s, Under(fn, in, at, s), NEW done \in Plains(func, in)
  PROVE  ContinueFromSwitch(done) \in Plains(func, in)
<1>1. CASE loops = <<>>
  BY <1>1 DEF ContinueFromSwitch
<1>2. CASE loops # <<>>
  BY <1>2, LastLoop DEF ContinueFromSwitch
<1> QED
  BY <1>1, <1>2

(* The tests are written, and a default gets its block. *)
LEMMA TestsEndOn ==
  ASSUME NEW fn \in AllFunctions, NEW in, NEW at, NEW s, Under(fn, in, at, s), TestsEnd
  PROVE  Onward(fn)
<1> DEFINE w == Head(todo)
           Push(done, n) == <<PushLoop(done, ContinueFromSwitch(done)), OpenNew,
                              Statement(n.body), JumpTo(done), PopLoop, OpenAt(done)>>
<1>1. /\ Does("test") /\ w.next > Len(cases)
      /\ IF defaults = <<>>
           THEN Then(<<JumpTo(w.done)>> \o Push(w.done, w.node)) /\ UNCHANGED <<func, caseBlocks, stamped>>
           ELSE /\ func' = NewBlock(func) /\ NoteCaseBlock(defaults[1], LastBlock(func'))
                /\ Then(<<JumpTo(LastBlock(func'))>> \o Push(w.done, w.node))
      /\ UNCHANGED <<treeVars, block, loops, labels, slots, cases, defaults, vals>>
  BY DEF TestsEnd
<1>2. PICK u : Ahead(fn, in, s, u)
  BY <1>1, UnderAhead DEF Does
<1>3. PICK n, next, control, done : AtTest(fn, in, s, u, n, next, control, done, Had(func, in, block), cases, defaults)
  BY <1>1, <1>2, TestAhead
<1>4. /\ w = Testing(next, control, done, n) /\ s.cases = w /\ s.stack = <<>>
      /\ Tested(fn, s, Had(func, in, block), cases, defaults, next, control, n) /\ n \in NodesOf[fn] /\ n.type = "switch"
      /\ s.open = TRUE /\ Plain(s.due) /\ MarksIn(n.body) \subseteq s.left
      /\ done \in Plains(func, in) /\ <<done, 0>> \in s.due
      /\ u = St(s.left \ MarksIn(n), s.due \ {<<done, 0>>})
  BY <1>3 DEF AtTest
<1>5. w.next = next /\ w.done = done /\ w.node = n
  BY <1>4, TestingIs
<1>. HIDE DEF w
<1>6. /\ Laid(func, block, vals, in, at, s)
      /\ Tables(fn, Plains(func, in), Slots(func), at, s.left, loops, labels, slots, caseBlocks, stamped)
  BY DEF Under
<1>7. ContinueFromSwitch(done) \in Plains(func, in)
  BY <1>4, ContinueThere
<1>8. MarksIn(n) = MarksIn(n.body) \cup Stamps(OwnCases[n.body]) /\ Stamps(OwnCases[n.body]) \cap MarksIn(n.body) = {}
  BY <1>4, MarksOfSwitch
<1>9. CASE defaults = <<>>
  <2> DEFINE t == Sh(s.stack, s.open, Idle, s.left, s.due)
  <2>1. Laid(func, block, vals, in, at, t)
    BY <1>6, LaidCases
  <2>2. Stamps(OwnCases[n.body]) \cap s.left = {}
    <3>1. next > Len(cases)
      BY <1>1, <1>5
    <3> QED
      BY <1>4, <1>9, <3>1, AllTested
  <2>3. MarksIn(n) \subseteq s.left \cup Stamps(OwnCases[n.body])
    BY <1>4, <1>8
  <2>4. t = Sh(s.stack, s.open, Idle, s.left, s.due)
    OBVIOUS
  <2>5. Then(<<JumpTo(done)>> \o Push(done, n)) /\ UNCHANGED <<func, caseBlocks, stamped, block, vals, loops, labels, slots>>
    BY <1>1, <1>5, <1>9
  <2>. HIDE DEF t
  <2>6. BodyAhead(fn, in, s, u, n, done, done, s.left, in, at, t)
    BY <1>2, <1>4, <1>6, <1>7, <2>1, <2>2, <2>3, <2>4, <2>5 DEF BodyAhead, More
  <2> QED
    BY <2>6, BodyAheadHolds
<1>10. CASE defaults # <<>>
  <2> DEFINE d == defaults[1]
             b == LastBlock(func) + 1
             x == <<"case", d>>
             y == <<"stamp", d>>
             rest == s.left \ {y}
             t == Sh(s.stack, s.open, Idle, rest, s.due)
             t1 == Sh(s.stack, s.open, s.cases, s.left, s.due)
             out == With(in, Slots(func))
             on == Marked(at, x, b)
  <2>1. d \in OwnCases[n.body] /\ y \in s.left /\ Stamps(OwnCases[n.body]) \cap rest = {}
    <3>1. next > Len(cases)
      BY <1>1, <1>5
    <3>2. /\ defaults[1] \in OwnCases[n.body] /\ <<"stamp", defaults[1]>> \in s.left
          /\ Stamps(OwnCases[n.body]) \cap (s.left \ {<<"stamp", defaults[1]>>}) = {}
      BY <1>4, <1>10, <3>1, AllTested
    <3> QED
      BY <3>2
  <2>2. /\ x \in s.left /\ d \in CasesIn[fn.body]
        /\ MarksIn(n.body) \subseteq rest /\ rest \ MarksIn(n) = s.left \ MarksIn(n)
    <3>1. s.left \subseteq MarksIn(fn.body)
      BY <1>6 DEF Tables
    <3>. HIDE DEF d
    <3> QED
      BY <1>4, <2>1, <3>1, CaseLeft
  <2>3. x \notin DOMAIN at
    BY <1>6, <2>1 DEF Tables, CasesNoted
  <2>4. t1 = Sh(s.stack, s.open, s.cases, s.left, s.due)
    OBVIOUS
  <2>. HIDE DEF d, x, y, b, out, on, t1
  <2>5. LastBlock(func') = b /\ func' = NewBlock(func)
    <3>1. Sound(func, in)
      BY <1>6, LaidSound
    <3> QED
      BY <1>1, <1>10, <3>1, NewBlockLast DEF b
  <2>6. MarkLaid(func, block, vals, in, at, s, x, func', out, b, t1)
    BY <1>6, <2>3, <2>4, <2>5, LaidMark DEF out, b
  <2>7. Laid(func', block, vals, out, on, t1) /\ More(func, in, func', out) /\ b \in Plains(func', out)
    BY <2>6 DEF MarkLaid, Roomier, on
  <2>8. block' = block /\ vals' = vals /\ loops' = loops /\ labels' = labels /\ slots' = slots
        /\ caseBlocks' = Append(caseBlocks, b)
        /\ stamped' = [id \in DOMAIN stamped \cup {d.id} |-> IF id = d.id THEN Len(caseBlocks) ELSE stamped[id]]
    BY <1>1, <1>10, <2>5 DEF NoteCaseBlock, d
  <2>9. Tables(fn, Plains(func', out), Slots(func'), on, rest, loops', labels', slots', caseBlocks', stamped')
    <3>1. Tables(fn, Plains(func', out), Slots(func'), at, s.left, loops, labels, slots, caseBlocks, stamped)
      BY <1>6, <2>7, TablesMore DEF More
    <3>2. /\ DOMAIN stamped' = DOMAIN stamped \cup {d.id} /\ stamped'[d.id] = Len(caseBlocks)
          /\ \A id \in DOMAIN stamped : id # d.id => stamped'[id] = stamped[id]
      BY <2>8
    <3>3. Noted(fn, Plains(func', out), Slots(func'), at, s.left, loops, labels, slots, caseBlocks, stamped,
                d, b, caseBlocks', stamped')
      BY <2>1, <2>2, <2>7, <2>8, <3>1, <3>2 DEF Noted, x, y
    <3>4. Tables(fn, Plains(func', out), Slots(func'), Marked(at, <<"case", d>>, b), s.left \ {<<"stamp", d>>},
                 loops, labels, slots, caseBlocks', stamped')
      BY <3>3, TablesNoted
    <3> QED
      BY <2>8, <3>4 DEF on, x, y
  <2>10. MarksIn(n) \subseteq rest \cup Stamps(OwnCases[n.body]) /\ u = St(rest \ MarksIn(n), s.due \ {<<done, 0>>})
    BY <1>4, <1>8, <2>2
  <2>. HIDE DEF rest
  <2>11. Laid(func', block', vals', out, on, t)
    <3>1. t1.stack = s.stack /\ t1.open = s.open /\ t1.due = s.due
      BY <2>4 DEF Sh
    <3>2. t = Sh(t1.stack, t1.open, Idle, rest, t1.due)
      BY <3>1
    <3>. HIDE DEF t
    <3> QED
      BY <2>7, <2>8, <3>2, LaidCases
  <2>12. t = Sh(s.stack, s.open, Idle, rest, s.due)
    OBVIOUS
  <2>13. Then(<<JumpTo(b)>> \o Push(done, n))
    BY <1>1, <1>5, <1>10, <2>5
  <2>14. done \in Plains(func', out) /\ ContinueFromSwitch(done) \in Plains(func', out)
    BY <1>4, <1>7, <2>7 DEF More
  <2>15. Stamps(OwnCases[n.body]) \cap rest = {}
    BY <2>1
  <2>. HIDE DEF t
  <2>16. BodyAhead(fn, in, s, u, n, done, b, rest, out, on, t)
    BY <1>2, <1>4, <2>7, <2>9, <2>10, <2>11, <2>12, <2>13, <2>14, <2>15 DEF BodyAhead
  <2> QED
    BY <2>16, BodyAheadHolds
<1> QED
  BY <1>9, <1>10

-----------------------------------------------------------------------------
(* How a function begins and how it ends                                   *)

(* Nothing is laid out yet but the entry, and everything is left. *)
NothingIn == [b \in {EntryBlock} |-> {}]

Begins(fn, in, s) ==
  /\ Laid(EmptyFunction, EntryBlock, <<>>, in, <<>>, s)
  /\ Tables(fn, Plains(EmptyFunction, in), Slots(EmptyFunction), <<>>, s.left, <<>>, <<>>, <<>>, <<>>, <<>>)
  /\ s.cases = Idle
  /\ \A B : Chain(fn, B, WorkFor(fn), s, St({}, {}))

(* A function begins as an empty entry: *)
LEMMA EmptyIs ==
  /\ DOMAIN EmptyFunction = {"code", "values"} /\ EmptyFunction.values = 0
  /\ IsSeq(EmptyFunction.code) /\ EmptyFunction.code # <<>> /\ DOMAIN EmptyFunction.code = {EntryBlock}
  /\ EmptyFunction.code[EntryBlock] = <<>>
<1>1. /\ EmptyFunction.code = << <<>> >> /\ EmptyFunction.values = 0
      /\ DOMAIN EmptyFunction = {"code", "values"}
  BY DEF EmptyFunction
<1>2. IsSeq(<< <<>> >>) /\ DOMAIN << <<>> >> = {1} /\ << <<>> >>[1] = <<>>
  BY ShortLists, RangeOfOne
<1>3. DOMAIN <<>> = {}
  BY EmptyList, SeqFacts
<1>4. << <<>> >> # <<>>
  BY <1>2, <1>3
<1> QED
  BY <1>1, <1>2, <1>4 DEF EntryBlock

(* it is sound, *)
LEMMA EmptySound == Sound(EmptyFunction, NothingIn)
<1>1. DOMAIN NothingIn = {EntryBlock} /\ NothingIn[EntryBlock] = {}
  BY DEF NothingIn
<1>2. Coded(<<>>, {}, 0)
  <2>1. DOMAIN <<>> = {}
    BY EmptyList, SeqFacts
  <2>2. IsBlock(<<>>)
    BY EmptyIsOpen, OpenFacts
  <2>3. Fine(<<>>, 0)
    BY FineNothing
  <2> QED
    BY <2>1, <2>2, <2>3 DEF Coded, NoPhi, Computed
<1>3. Goes(<<>>) = {}
  BY DEF Goes
<1> DEFINE f == EmptyFunction
<1>4. /\ DOMAIN f = {"code", "values"} /\ f.values = 0 /\ IsSeq(f.code) /\ f.code # <<>>
      /\ DOMAIN f.code = {EntryBlock} /\ f.code[EntryBlock] = <<>>
  BY EmptyIs
<1>. HIDE DEF f
<1>5. \A b \in DOMAIN f.code : Coded(f.code[b], NothingIn[b], f.values) /\ Goes(f.code[b]) = {} /\ b = EntryBlock
  BY <1>1, <1>2, <1>3, <1>4
<1>6. Sound(f, NothingIn)
  BY <1>1, <1>4, <1>5 DEF Sound
<1> QED
  BY <1>6 DEF f

(* no table names anything, *)
LEMMA EmptyTables ==
  ASSUME NEW fn \in AllFunctions, NEW P, NEW A
  PROVE  Tables(fn, P, A, <<>>, MarksIn(fn.body), <<>>, <<>>, <<>>, <<>>, <<>>)
<1>1. DOMAIN <<>> = {} /\ Range(<<>>) = {} /\ IsSeq(<<>>)
  <2>1. DOMAIN <<>> = {} /\ IsSeq(<<>>)
    BY EmptyList, SeqFacts
  <2> QED
    BY <2>1, NothingThere
<1>2. OwnCases[fn.body] = {}
  BY SourcesAnalysed DEF WellFormedTree
<1>3. /\ \A l \in LabelsIn[fn.body] : <<"label", l>> \in MarksIn(fn.body)
      /\ \A c \in CasesIn[fn.body] : <<"stamp", c>> \in MarksIn(fn.body)
  BY <1>2 DEF MarksIn, Stamps
<1>4. LabelsFit(fn, P, <<>>, MarksIn(fn.body), <<>>)
  BY <1>1, <1>3 DEF LabelsFit
<1>5. CasesNoted(fn, P, <<>>, MarksIn(fn.body), <<>>, <<>>)
  BY <1>1, <1>3 DEF CasesNoted
<1> QED
  BY <1>1, <1>4, <1>5 DEF Tables

(* and nothing waits. *)
LEMMA EmptyLaid ==
  ASSUME NEW s, IsShape(s), s.open = TRUE, s.stack = <<>>, s.due = {}
  PROVE  Laid(EmptyFunction, EntryBlock, <<>>, NothingIn, <<>>, s)
<1>1. DOMAIN <<>> = {} /\ Range(<<>>) = {} /\ IsSeq(<<>>)
  <2>1. DOMAIN <<>> = {} /\ IsSeq(<<>>)
    BY EmptyList, SeqFacts
  <2> QED
    BY <2>1, NothingThere
<1>2. DueBlocks({}) = {} /\ Pending(<<>>, {}) = {}
  BY <1>1 DEF Pending, DueBlocks
<1>3. Blocks(EmptyFunction, EntryBlock, NothingIn, <<>>, TRUE, {})
  BY <1>2, EmptySound, EmptyIs, EmptyIsOpen DEF Blocks
<1>4. Standing(EmptyFunction, EntryBlock, NothingIn, <<>>, TRUE, {})
  BY <1>1, <1>2, <1>3 DEF Standing, AtFit, DueFit, IsDue
<1>5. Values(EmptyFunction, EntryBlock, <<>>, NothingIn, <<>>, {})
  BY <1>1 DEF Values
<1> QED
  BY <1>4, <1>5 DEF Laid

(* A function begins with all its labels and cases to be come to. *)
LEMMA Beginning ==
  ASSUME NEW fn \in AllFunctions
  PROVE  Begins(fn, NothingIn, St(MarksIn(fn.body), {}))
<1> DEFINE s == St(MarksIn(fn.body), {})
<1>1. s.stack = <<>> /\ s.open = TRUE /\ s.cases = Idle /\ s.left = MarksIn(fn.body) /\ s.due = {}
  BY DEF St, Sh
<1>2. IsShape(s)
  <2>1. Plain({})
    BY DEF Plain, IsDue, Low
  <2> QED
    BY <2>1, StFit DEF Fit
<1>3. \A B : Chain(fn, B, WorkFor(fn), s, St({}, {}))
  BY FunctionWork
<1>. HIDE DEF s
<1>4. Laid(EmptyFunction, EntryBlock, <<>>, NothingIn, <<>>, s)
  BY <1>1, <1>2, EmptyLaid
<1>5. Begins(fn, NothingIn, s)
  BY <1>1, <1>3, <1>4, EmptyTables DEF Begins
<1> QED
  BY <1>5 DEF s

(* A function that is lowered: each block is sound, and finished. *)
Lowered(f) == \E in : Sound(f, in) /\ \A b \in DOMAIN f.code : IsFinished(f.code[b])

(* Where nothing is left, every block is finished. *)
LEMMA LaidAllFinished ==
  ASSUME NEW f, NEW b, NEW vs, NEW in, NEW at, NEW s, Laid(f, b, vs, in, at, s),
         s.open = FALSE, s.due = {}, Range(at) = {}
  PROVE  Lowered(f)
<1>1. Blocks(f, b, in, at, FALSE, {})
  BY DEF Laid, Standing
<1>2. Pending(at, {}) = {}
  BY DEF Pending, DueBlocks
<1> QED
  BY <1>1, <1>2 DEF Blocks, Lowered

(* And where no work is left, so is everything, but for the block control  *)
(* is in.                                                                  *)
LEMMA FunctionEnds ==
  ASSUME NEW fn, NEW in, NEW at, NEW s, Under(fn, in, at, s), todo = <<>>
  PROVE  /\ Lowered(IF Terminated THEN func ELSE Emit(func, block, Instr("ret", NoValue, <<>>)))
         /\ vals = <<>>
<1>1. s = St({}, {})
  <2>1. Chain(fn, Plains(func, in), <<>>, s, St({}, {}))
    BY DEF Under
  <2> QED
    BY <2>1, ChainEmpty
<1>2. s.stack = <<>> /\ s.open = TRUE /\ s.left = {} /\ s.due = {}
  BY <1>1 DEF St, Sh
<1>3. Laid(func, block, vals, in, at, s)
  BY DEF Under
<1>4. Range(at) = {}
  BY <1>2 DEF Under, Tables, Range
<1>5. vals = <<>>
  <2>1. IsSeq(vals) /\ DOMAIN vals = DOMAIN <<>>
    BY <1>2, <1>3 DEF Laid, Values
  <2>2. DOMAIN <<>> = {}
    BY EmptyList, SeqFacts
  <2> QED
    BY <2>1, <2>2, EmptyList, SeqFacts
<1> DEFINE i == Instr("ret", NoValue, <<>>)
           g == Emit(func, block, i)
           t == Sh(s.stack, FALSE, s.cases, s.left, s.due)
<1>6. ~ Terminated
  BY <1>2, OpenNotTerminated
<1>7. IsInstr(i) /\ IsTerminator(i.op) /\ i.args = <<>> /\ i.to = <<>>
  BY ReturnIsInstr
<1>8. Range(<<>>) = {} /\ IsSeq(<<>>)
  BY NothingThere, EmptyList
<1>9. IsNumbered(i, func.values)
  <2>1. func.values \in Nat
    BY OpenNotTerminated DEF Sound
  <2> QED
    BY <1>8, <2>1, ReturnNumbered
<1>10. t.open = FALSE /\ t.due = {}
  BY <1>2 DEF Sh
<1>. HIDE DEF i, t
<1>11. Ends(func, block, vals, in, at, s, i, g, t)
  BY <1>2, <1>3, <1>7, <1>8, <1>9 DEF Ends, t
<1>. HIDE DEF g
<1>12. Laid(g, block, vals, in, at, t)
  BY <1>11, LaidEnd
<1>13. Lowered(g)
  BY <1>4, <1>10, <1>12, LaidAllFinished
<1> QED
  BY <1>5, <1>6, <1>13 DEF g, i

-----------------------------------------------------------------------------
(* The invariant of lowering                                               *)

Lowering(fn) == \E in, at, s : Under(fn, in, at, s)

(* What there is when there is no function to lower. *)
AtRest ==
  /\ todo = <<>> /\ func = EmptyFunction /\ block = EntryBlock /\ vals = <<>>
  /\ loops = <<>> /\ labels = <<>> /\ slots = <<>> /\ caseBlocks = <<>> /\ stamped = <<>>

(* Every finished function is sound, and the one being lowered is at some  *)
(* shape.                                                                  *)
LowerInv ==
  /\ source \in Sources /\ IsSeq(program) /\ Len(program) <= Len(source)
  /\ \A k \in DOMAIN program : Lowered(program[k])
  /\ IF Done THEN AtRest ELSE Lowering(source[Len(program) + 1])

(* Every action but the one that ends a function. *)
Working ==
  \/ LowerAddress \/ LowerExpression \/ LowerStatement
  \/ AppendNext \/ JumpNext \/ BranchNext \/ OpenBlock \/ OpenNewBlock \/ ForgetValue
  \/ PushLoopNext \/ PopLoopNext \/ ReturnNext
  \/ CollectNext \/ TestsBegin \/ TestCase \/ TestsEnd
  \/ ParameterNext

(* Every step is the work of a function, its end, or the end of the        *)
(* program.                                                                *)
LEMMA NextIs == Next => Working \/ FinishFunction \/ Finished
BY DEF Next, Plumbing, Working

Aims == todo # <<>> /\ UNCHANGED treeVars

Stays == Aims /\ block' = block

(* No action but those that open a block moves the insertion point. *)
LEMMA AddressStays == LowerAddress => Stays
BY DEF LowerAddress, LocalAddress, GlobalAddressOf, DereferenceAddress, SubscriptAddress, FieldAddress,
       Stays, Aims, Becomes, Visits, Does

LEMMA ExpressionStays == LowerExpression => Stays
<1>1. NoExpression \/ LiteralValue \/ ObjectValue \/ SizeOfValue \/ AddressOfValue \/ AssignValue \/ AssignStruct => Stays
  BY DEF NoExpression, LiteralValue, ObjectValue, SizeOfValue, AddressOfValue, AssignValue, AssignStruct,
         Stays, Aims, Becomes, Visits, Does
<1>2. DirectCall \/ IndirectCall \/ CastValue \/ UnaryValue \/ StepValue \/ CommaValue => Stays
  BY DEF DirectCall, IndirectCall, CastValue, UnaryValue, StepValue, CommaValue, Stays, Aims, Becomes, Visits, Does
<1>3. BinaryValue \/ ShortCircuit \/ ConditionalValue => Stays
  BY DEF BinaryValue, ShortCircuit, ConditionalValue, Stays, Aims, Becomes, Visits, Does
<1> QED
  BY <1>1, <1>2, <1>3 DEF LowerExpression

LEMMA StatementStays == LowerStatement => Stays
<1>1. Sequence \/ EmptyStatement \/ ExpressionStatement \/ Declaration \/ IfStatement => Stays
  BY DEF Sequence, EmptyStatement, ExpressionStatement, Declaration, IfStatement, Stays, Aims, Becomes, Visits, Does
<1>2. WhileStatement \/ DoStatement \/ ForStatement \/ BreakStatement \/ ContinueStatement => Stays
  BY DEF WhileStatement, DoStatement, ForStatement, BreakStatement, ContinueStatement, Stays, Aims, Becomes, Visits, Does
<1>3. GotoStatement \/ LabelStatement \/ ReturnStatement \/ SwitchStatement \/ CaseStatement => Stays
  BY DEF GotoStatement, LabelStatement, ReturnStatement, SwitchStatement, CaseStatement, Stays, Aims, Becomes, Visits, Does
<1> QED
  BY <1>1, <1>2, <1>3 DEF LowerStatement

LEMMA PlumbingStays ==
  /\ AppendNext \/ JumpNext \/ BranchNext \/ ForgetValue \/ PushLoopNext \/ PopLoopNext \/ ReturnNext => Stays
  /\ CollectNext \/ TestsBegin \/ TestsEnd \/ ParameterNext => Stays
  /\ OpenBlock \/ OpenNewBlock \/ TestCase => Aims
<1>1. AppendNext \/ JumpNext \/ BranchNext \/ ForgetValue \/ PushLoopNext \/ PopLoopNext \/ ReturnNext => Stays
  BY DEF AppendNext, JumpNext, BranchNext, ForgetValue, PushLoopNext, PopLoopNext, ReturnNext, Stays, Aims, Does
<1>2. CollectNext \/ TestsBegin \/ TestsEnd \/ ParameterNext => Stays
  BY DEF CollectNext, TestsBegin, TestsEnd, ParameterNext, Stays, Aims, Does
<1>3. OpenBlock \/ OpenNewBlock \/ TestCase => Aims
  BY DEF OpenBlock, OpenNewBlock, TestCase, Aims, Does
<1> QED
  BY <1>1, <1>2, <1>3

(* Every action of a function being lowered leaves it so, and the          *)
(* insertion point moves on if it moves.                                   *)
LEMMA WorkingOn ==
  ASSUME NEW fn \in AllFunctions, NEW in, NEW at, NEW s, Under(fn, in, at, s), Working
  PROVE  Onward(fn) /\ (block' # block => Moves)
<1>1. CASE LowerAddress
  BY <1>1, LocalAddressOn, AddressesOn, AddressStays DEF LowerAddress, Stays
<1>2. CASE LowerExpression
  <2>1. Onward(fn)
    BY <1>2, NoExpressionOn, ExpressionsOn, DirectCallOn, IndirectCallOn, ShortCircuitOn, ConditionalOn
       DEF LowerExpression
  <2> QED
    BY <1>2, <2>1, ExpressionStays DEF Stays
<1>3. CASE LowerStatement
  <2>1. Onward(fn)
    BY <1>3, StatementsOn, DeclarationOn, IfOn, WhileOn, DoOn, ForOn, GotoOn, LabelOn, CaseOn,
       ReturnStatementOn, SwitchOn DEF LowerStatement
  <2> QED
    BY <1>3, <2>1, StatementStays DEF Stays
<1>4. CASE AppendNext \/ JumpNext \/ BranchNext \/ ForgetValue \/ PushLoopNext \/ PopLoopNext \/ ReturnNext
  <2>1. Onward(fn)
    BY <1>4, AppendNextOn, JumpOn, BranchOn, ForgetNextOn, PushLoopOn, PopLoopOn, ReturnOn
  <2> QED
    BY <1>4, <2>1, PlumbingStays DEF Stays
<1>5. CASE CollectNext \/ TestsBegin \/ TestsEnd \/ ParameterNext
  <2>1. Onward(fn)
    BY <1>5, CollectOn, TestsBeginOn, TestsEndOn, ParameterOn
  <2> QED
    BY <1>5, <2>1, PlumbingStays DEF Stays
<1>6. CASE OpenBlock \/ OpenNewBlock \/ TestCase
  BY <1>6, OpenOn, OpenNewOn, TestCaseOn
<1> QED
  BY <1>1, <1>2, <1>3, <1>4, <1>5, <1>6 DEF Working

(* No function is begun or handed over while there is work. *)
LEMMA WorkingAims == Working => Aims
BY AddressStays, ExpressionStays, StatementStays, PlumbingStays DEF Working, Stays

(* The functions of the program. *)
LEMMA SourceFacts ==
  ASSUME source \in Sources, IsSeq(program), Len(program) < Len(source)
  PROVE  source[Len(program) + 1] \in AllFunctions
<1>1. IsSeq(source)
  BY SourcesAnalysed
<1>2. Len(program) \in Nat /\ Len(source) \in Nat /\ DOMAIN source = 1 .. Len(source)
  BY <1>1, SeqFacts
<1>3. source[Len(program) + 1] \in Range(source)
  BY <1>2 DEF Range
<1> QED
  BY <1>3 DEF AllFunctions

(* What a function is led to is what the invariant says of the next state. *)
LEMMA OnwardIs == ASSUME NEW fn \in AllFunctions PROVE Onward(fn) <=> Lowering(fn)'
BY DEF Onward, Lowering, Under, UnderNext

(* A function is begun, now or next. *)
LEMMA LoweringBegins ==
  ASSUME NEW fn \in AllFunctions, func = EmptyFunction, block = EntryBlock, vals = <<>>, loops = <<>>, labels = <<>>,
         slots = <<>>, caseBlocks = <<>>, stamped = <<>>, todo = WorkFor(fn)
  PROVE  Lowering(fn)
<1> DEFINE s == St(MarksIn(fn.body), {})
<1>1. Begins(fn, NothingIn, s)
  BY Beginning
<1>. HIDE DEF s
<1>2. Under(fn, NothingIn, <<>>, s)
  BY <1>1 DEF Begins, Under, Switching
<1> QED
  BY <1>2 DEF Lowering

(* The invariant holds when the first function is begun, *)
LEMMA LowerInvInit == Init => LowerInv
<1> SUFFICES ASSUME Init PROVE LowerInv
  OBVIOUS
<1>1. source \in Sources /\ program = <<>>
  BY DEF Init
<1>2. IsSeq(source) /\ source # <<>>
  BY <1>1, SourcesAnalysed
<1>3. Len(source) \in Nat /\ Len(source) >= 1
  BY <1>2, SeqFacts
<1>4. IsSeq(program) /\ Len(program) = 0 /\ DOMAIN program = {}
  BY <1>1, ShortLists
<1>5. ~ Done /\ Len(program) + 1 = 1
  BY <1>3, <1>4 DEF Done
<1>6. source[1] \in AllFunctions
  BY <1>1, <1>3, <1>4, <1>5, SourceFacts
<1>7. Lowering(source[1])
  BY <1>6, LoweringBegins DEF Init
<1> QED
  BY <1>1, <1>3, <1>4, <1>5, <1>7 DEF LowerInv

(* and every step keeps it. *)
LEMMA LowerInvNext == LowerInv /\ [Next]_vars => LowerInv'
<1> SUFFICES ASSUME LowerInv, [Next]_vars PROVE LowerInv'
  OBVIOUS
<1>1. /\ source \in Sources /\ IsSeq(program) /\ Len(program) <= Len(source)
      /\ \A k \in DOMAIN program : Lowered(program[k])
      /\ Done => AtRest
      /\ ~ Done => Lowering(source[Len(program) + 1])
  BY DEF LowerInv
<1>2. Len(program) \in Nat /\ Len(source) \in Nat /\ DOMAIN program = 1 .. Len(program)
  BY <1>1, SourcesAnalysed, SeqFacts
<1>3. ~ Done => source[Len(program) + 1] \in AllFunctions
  BY <1>1, <1>2, SourceFacts DEF Done
<1>4. CASE UNCHANGED vars
  <2>1. /\ source' = source /\ program' = program /\ Done' = Done
    BY <1>4 DEF vars, Done
  <2>2. AtRest => AtRest'
    BY <1>4 DEF vars, AtRest
  <2>3. ASSUME NEW fn \in AllFunctions, Lowering(fn) PROVE Lowering(fn)'
    BY <1>4, <2>3 DEF vars, Lowering, Under
  <2> QED
    BY <1>1, <1>3, <2>1, <2>2, <2>3 DEF LowerInv
<1>5. CASE Working
  <2>1. todo # <<>> /\ source' = source /\ program' = program
    BY <1>5, WorkingAims DEF Aims, treeVars
  <2>2. ~ Done
    BY <1>1, <2>1 DEF AtRest
  <2> DEFINE fn == source[Len(program) + 1]
  <2>3. PICK in, at, s : Under(fn, in, at, s)
    BY <1>1, <2>2 DEF Lowering
  <2>4. fn \in AllFunctions
    BY <1>3, <2>2
  <2>. HIDE DEF fn
  <2>5. Onward(fn)
    BY <1>5, <2>3, <2>4, WorkingOn
  <2>6. fn' = fn /\ ~ Done'
    BY <2>1, <2>2 DEF fn, Done
  <2>7. \A gn \in AllFunctions : Onward(gn) => Lowering(gn)'
    BY OnwardIs
  <2>8. Lowering(source[Len(program) + 1])'
    <3>1. \E in1, at1, s1 : UnderNext(fn, in1, at1, s1)
      BY <2>5 DEF Onward
    <3> QED
      BY <2>6, <3>1 DEF Lowering, Under, UnderNext, fn
  <2> QED
    BY <1>1, <2>1, <2>6, <2>8 DEF LowerInv
<1>6. CASE FinishFunction
  <2> DEFINE f == IF Terminated THEN func ELSE Emit(func, block, Instr("ret", NoValue, <<>>))
  <2>1. /\ todo = <<>> /\ Len(program) < Len(source) /\ program' = Append(program, f) /\ source' = source
        /\ todo' = IF Len(program') < Len(source) THEN WorkFor(source[Len(program') + 1]) ELSE <<>>
        /\ func' = EmptyFunction /\ block' = EntryBlock /\ vals' = vals
        /\ loops' = <<>> /\ labels' = <<>> /\ slots' = <<>> /\ caseBlocks' = <<>> /\ stamped' = <<>>
    BY <1>6 DEF FinishFunction
  <2>2. ~ Done
    BY <1>2, <2>1 DEF Done
  <2>3. PICK in, at, s : Under(source[Len(program) + 1], in, at, s)
    BY <1>1, <2>2 DEF Lowering
  <2>4. Lowered(f) /\ vals = <<>>
    BY <2>1, <2>3, FunctionEnds
  <2>. HIDE DEF f
  <2>5. /\ IsSeq(program') /\ Len(program') = Len(program) + 1 /\ DOMAIN program' = 1 .. Len(program) + 1
        /\ \A k \in 1 .. Len(program) : program'[k] = program[k]
        /\ program'[Len(program) + 1] = f
    BY <1>1, <2>1, Appended
  <2>6. \A k \in DOMAIN program' : Lowered(program'[k])
    <3> SUFFICES ASSUME NEW k \in DOMAIN program' PROVE Lowered(program'[k])
      OBVIOUS
    <3>1. CASE k \in 1 .. Len(program)
      BY <1>1, <1>2, <2>5, <3>1
    <3>2. CASE k = Len(program) + 1
      BY <2>4, <2>5, <3>2
    <3> QED
      BY <1>2, <2>5, <3>1, <3>2
  <2>7. Len(program') <= Len(source')
    BY <1>2, <2>1, <2>5
  <2>8. Done' => AtRest'
    <3> SUFFICES ASSUME Done' PROVE AtRest'
      OBVIOUS
    <3>1. ~ (Len(program') < Len(source))
      BY <1>2, <2>1, <2>5 DEF Done
    <3> QED
      BY <2>1, <2>4, <3>1 DEF AtRest
  <2>9. ~ Done' => Lowering(source[Len(program) + 1])'
    <3> SUFFICES ASSUME ~ Done' PROVE Lowering(source[Len(program) + 1])'
      OBVIOUS
    <3>1. Len(program') < Len(source)
      BY <1>2, <2>1, <2>5 DEF Done
    <3> DEFINE fn == source[Len(program') + 1]
    <3>2. IsSeq(source) /\ Len(program') \in Nat /\ DOMAIN source = 1 .. Len(source)
      BY <1>1, <1>2, <2>5, SourcesAnalysed, SeqFacts
    <3>3. fn \in AllFunctions
      <4>1. fn \in Range(source)
        <5>1. Len(program') + 1 \in DOMAIN source
          BY <1>2, <3>1, <3>2
        <5>. HIDE DEF fn
        <5>2. \A k \in DOMAIN source : source[k] \in Range(source)
          BY DEF Range
        <5> QED
          BY <5>1, <5>2 DEF fn
      <4> QED
        BY <1>1, <4>1 DEF AllFunctions
    <3>4. todo' = WorkFor(fn)
      BY <2>1, <3>1
    <3>5. source[Len(program) + 1]' = fn
      BY <2>1
    <3>. HIDE DEF fn
    <3> DEFINE t == St(MarksIn(fn.body), {})
    <3>6. Begins(fn, NothingIn, t)
      BY <3>3, Beginning
    <3>. HIDE DEF t
    <3>7. UnderNext(fn, NothingIn, <<>>, t)
      BY <2>1, <2>4, <3>4, <3>6 DEF Begins, UnderNext, Switching
    <3> QED
      BY <3>5, <3>7 DEF Lowering, Under, UnderNext
  <2> QED
    BY <1>1, <2>1, <2>5, <2>6, <2>7, <2>8, <2>9 DEF LowerInv
<1> QED
  BY <1>4, <1>5, <1>6, NextIs DEF Finished

-----------------------------------------------------------------------------
(* What the invariant says                                                 *)

(* The targets and values of an instruction are those of its function. *)
LEMMA SitesOf ==
  ASSUME NEW f, NEW in, Sound(f, in), NEW s \in Sites(f)
  PROVE  Range(InstrAt(f, s).to) \subseteq BlocksOf(f) /\ InstrAt(f, s).dst \in (1 .. f.values) \cup {NoValue}
<1>1. /\ IsFunction(f) /\ f.values \in Nat
      /\ \A b \in DOMAIN f.code : IsBlock(f.code[b]) /\ Fine(f.code[b], f.values)
  BY SoundFacts
<1>2. /\ s[1] \in DOMAIN f.code /\ s[1] \in BlocksOf(f) /\ s[2] \in DOMAIN f.code[s[1]]
      /\ InstrAt(f, s) = f.code[s[1]][s[2]] /\ IsInstr(InstrAt(f, s))
  BY <1>1, SiteFacts
<1> DEFINE c == f.code[s[1]]
           k == s[2]
           i == InstrAt(f, s)
<1>3. IsBlock(c) /\ Fine(c, f.values) /\ k \in DOMAIN c /\ i = c[k] /\ IsInstr(i) /\ Goes(c) \subseteq BlocksOf(f)
  BY <1>1, <1>2, FunctionFacts
<1>. HIDE DEF c, k, i
<1>4. i.dst \in (1 .. f.values) \cup {NoValue}
  BY <1>1, <1>3 DEF Fine, IsNumbered, NoValue
<1>5. Range(i.to) \subseteq BlocksOf(f)
  <2>1. CASE IsTerminator(i.op)
    <3>1. /\ DOMAIN c = 1 .. Len(c) /\ Len(c) \in Nat /\ (c # <<>> => Last(c) = c[Len(c)])
          /\ (Len(c) = 0 => c = <<>>) /\ \A j \in DOMAIN c : j # Len(c) => ~ IsTerminator(c[j].op)
      BY <1>3, BlockFacts
    <3>2. k = Len(c) /\ c # <<>>
      <4>1. c # <<>>
        <5>1. DOMAIN <<>> = {}
          BY EmptyList, SeqFacts
        <5> QED
          BY <1>3, <5>1
      <4> QED
        BY <1>3, <2>1, <3>1, <4>1
    <3> QED
      BY <1>3, <3>1, <3>2 DEF Goes
  <2>2. CASE ~ IsTerminator(i.op)
    <3>1. i.to = <<>>
      BY <1>3, <2>2 DEF IsInstr
    <3> QED
      BY <3>1, NothingThere
  <2> QED
    BY <2>1, <2>2
<1> QED
  BY <1>4, <1>5 DEF i

(* So are the values that wait. *)
LEMMA ValuesThere ==
  ASSUME NEW f, NEW b, NEW vs, NEW in, NEW at, NEW s, Laid(f, b, vs, in, at, s)
  PROVE  Range(vs) \subseteq (1 .. f.values) \cup {NoValue}
<1>1. Sound(f, in) /\ b \in DOMAIN f.code /\ Values(f, b, vs, in, s.stack, s.due) /\ IsShape(s)
  BY DEF Laid, Standing, Blocks
<1>2. Slots(f) \subseteq 1 .. f.values /\ Had(f, in, b) \subseteq 1 .. f.values
  BY <1>1, SlotsHad
<1> SUFFICES ASSUME NEW k \in DOMAIN vs PROVE vs[k] \in (1 .. f.values) \cup {NoValue}
  BY DEF Range
<1>3. k \in DOMAIN s.stack /\ Available(Slots(f), Had(f, in, b), s.stack[k], vs[k])
  BY <1>1 DEF Values
<1>4. s.stack[k] \in Kinds
  BY <1>1, <1>3 DEF IsShape
<1> QED
  BY <1>2, <1>3, <1>4 DEF Available, Kinds

(* Every state of the invariant has its type. *)
LEMMA LowerTypedState == LowerInv => TypeOK
<1> SUFFICES ASSUME LowerInv PROVE TypeOK
  OBVIOUS
<1>1. CASE Done
  <2>1. AtRest
    BY <1>1 DEF LowerInv
  <2>2. /\ func = EmptyFunction /\ block = EntryBlock /\ vals = <<>>
        /\ loops = <<>> /\ labels = <<>> /\ slots = <<>> /\ caseBlocks = <<>> /\ stamped = <<>>
    BY <2>1 DEF AtRest
  <2>3. DOMAIN <<>> = {} /\ Range(<<>>) = {}
    <3>1. DOMAIN <<>> = {}
      BY EmptyList, SeqFacts
    <3> QED
      BY <3>1, NothingThere
  <2>4. block \in BlocksOf(func)
    BY <2>2, EmptyIs DEF BlocksOf
  <2>5. \A s \in Sites(func) : /\ Range(InstrAt(func, s).to) \subseteq BlocksOf(func)
                               /\ InstrAt(func, s).dst \in (1 .. func.values) \cup {NoValue}
    BY <2>2, EmptySound, SitesOf
  <2> QED
    BY <2>2, <2>3, <2>4, <2>5 DEF TypeOK
<1>2. CASE ~ Done
  <2>1. PICK in, at, s : Under(source[Len(program) + 1], in, at, s)
    BY <1>2 DEF LowerInv, Lowering
  <2> DEFINE left == s.left
  <2>2. /\ Laid(func, block, vals, in, at, s)
        /\ Tables(source[Len(program) + 1], Plains(func, in), Slots(func), at, left,
                  loops, labels, slots, caseBlocks, stamped)
    BY <2>1 DEF Under
  <2>3. Sound(func, in) /\ block \in DOMAIN func.code
    BY <2>2, LaidSound
  <2>4. Plains(func, in) \subseteq BlocksOf(func) /\ block \in BlocksOf(func)
    BY <2>3 DEF Plains, BlocksOf
  <2>. HIDE DEF left
  <2>5. \A k \in DOMAIN loops : loops[k].onBreak \in BlocksOf(func) /\ loops[k].onContinue \in BlocksOf(func)
    BY <2>2, <2>4 DEF Tables
  <2>6. Range(labels) \cup Range(caseBlocks) \subseteq BlocksOf(func)
    <3>1. \A l \in DOMAIN labels : labels[l] \in Plains(func, in)
      BY <2>2 DEF Tables, LabelsFit
    <3>2. Range(caseBlocks) \subseteq Plains(func, in)
      BY <2>2 DEF Tables, CasesNoted
    <3> QED
      BY <2>4, <3>1, <3>2 DEF Range
  <2>7. \A id \in DOMAIN stamped : stamped[id] + 1 \in DOMAIN caseBlocks
    BY <2>2 DEF Tables, CasesNoted
  <2>8. Range(vals) \subseteq (1 .. func.values) \cup {NoValue}
    BY <2>2, ValuesThere
  <2>9. Range(slots) \subseteq {i.dst : i \in {j \in Range(func.code[EntryBlock]) : j.op = "alloca"}}
    <3>1. \A x \in DOMAIN slots : slots[x] \in Slots(func)
      BY <2>2 DEF Tables
    <3> QED
      BY <3>1 DEF Range, Slots, Allocas
  <2>10. \A x \in Sites(func) : /\ Range(InstrAt(func, x).to) \subseteq BlocksOf(func)
                                /\ InstrAt(func, x).dst \in (1 .. func.values) \cup {NoValue}
    BY <2>3, SitesOf
  <2> QED
    BY <2>4, <2>5, <2>6, <2>7, <2>8, <2>9, <2>10 DEF TypeOK
<1> QED
  BY <1>1, <1>2

(* The insertion point moves as InsertionMovesOn says. *)
LEMMA InsertionMoves ==
  LowerInv /\ [Next]_vars =>
    (block' # block /\ program' = program => func'.code[block'] = <<>> /\ IsFinished(func'.code[block]))
<1> SUFFICES ASSUME LowerInv, [Next]_vars, block' # block, program' = program
             PROVE  Moves
  BY DEF Moves
<1>1. IsSeq(program) /\ IsSeq(source) /\ Len(program) \in Nat /\ Len(program) <= Len(source) /\ source \in Sources
      /\ Len(source) \in Nat
  BY SourcesAnalysed, SeqFacts DEF LowerInv
<1>2. CASE Working
  <2>1. todo # <<>>
    BY <1>2, WorkingAims DEF Aims
  <2>2. ~ Done
    BY <2>1 DEF LowerInv, AtRest
  <2>3. PICK in, at, s : Under(source[Len(program) + 1], in, at, s)
    BY <2>2 DEF LowerInv, Lowering
  <2>4. source[Len(program) + 1] \in AllFunctions
    BY <1>1, <2>2, SourceFacts DEF Done
  <2> QED
    BY <1>2, <2>3, <2>4, WorkingOn
<1>3. CASE FinishFunction
  <2>1. Len(program') = Len(program) + 1
    BY <1>1, <1>3, Appended DEF FinishFunction
  <2> QED
    BY <1>1, <2>1
<1>4. CASE UNCHANGED vars
  BY <1>4 DEF vars
<1> QED
  BY <1>2, <1>3, <1>4, NextIs DEF Finished

(* What is handed on: the verifier accepts it, and the optimiser may start from it. *)
HandedOver(f) ==
  LET g == DropUnreachable(f)
  IN IsFunction(f) /\ SlotsNamed(f) /\ Numbered(g) /\ Verifies(g, Analyses(g))

(* Every function of the program is one of those. *)
LEMMA LoweredHandedOver == LowerInv => \A n \in DOMAIN program : HandedOver(program[n])
<1> SUFFICES ASSUME LowerInv, NEW n \in DOMAIN program PROVE HandedOver(program[n])
  OBVIOUS
<1> DEFINE f == program[n]
<1>1. PICK in : Sound(f, in) /\ \A b \in DOMAIN f.code : IsFinished(f.code[b])
  BY DEF LowerInv, Lowered
<1>. HIDE DEF f
<1>2. IsFunction(f) /\ EntryBlock \in DOMAIN f.code /\ \A b \in DOMAIN f.code : Fine(f.code[b], f.values)
  BY <1>1, SoundFacts
<1>3. SlotsNamed(f)
  <2> SUFFICES ASSUME NEW k \in DOMAIN f.code[EntryBlock], f.code[EntryBlock][k].op = "alloca"
               PROVE  f.code[EntryBlock][k].dst # NoValue
    BY DEF SlotsNamed
  <2> QED
    BY <1>2 DEF Fine, IsNumbered, IsTerminator
<1>4. Numbered(DropUnreachable(f)) /\ Verifies(DropUnreachable(f), Analyses(DropUnreachable(f)))
  BY <1>1, SoundVerifies
<1> QED
  BY <1>2, <1>3, <1>4 DEF HandedOver, f

(* And so the program is what the optimiser is said to start from. *)
LEMMA LoweredFeeds == LowerInv => (Done => AsLowered(program))
<1> SUFFICES ASSUME LowerInv, Done PROVE AsLowered(program)
  OBVIOUS
<1>1. source \in Sources /\ IsSeq(program) /\ Len(program) = Len(source)
  BY DEF LowerInv, Done
<1>2. IsSeq(source) /\ source # <<>>
  BY <1>1, SourcesAnalysed
<1>3. program # <<>>
  BY <1>1, <1>2, SeqFacts
<1> QED
  BY <1>1, <1>3, LoweredHandedOver DEF AsLowered, HandedOver

(***************************************************************************)
(* At every step of lowering, the function under construction stands as    *)
(* the work that is left expects it, and those finished are sound: the     *)
(* invariant the other theorems are read off.                              *)
(***************************************************************************)
THEOREM LowerInvariance == Spec => []LowerInv
BY LowerInvInit, LowerInvNext, PTL DEF Spec

(***************************************************************************)
(* ctx.loops, ctx.labels, ctx.slots and ctx.case_blocks, the values that   *)
(* wait and every instruction emitted name blocks and values of the        *)
(* function being lowered, whatever its tree is.                           *)
(***************************************************************************)
THEOREM LowerTyped == Spec => []TypeOK
BY LowerInvariance, LowerTypedState, PTL

(***************************************************************************)
(* ctx.block moves only from a block with one terminator, its last         *)
(* instruction, to a block nothing has been put into: however statements   *)
(* nest and jump, no block is entered twice or left open.                  *)
(***************************************************************************)
THEOREM InsertionAlwaysMovesOn == Spec => InsertionMovesOn
<1>1. LowerInv /\ [Next]_vars =>
        [block' # block /\ program' = program => func'.code[block'] = <<>> /\ IsFinished(func'.code[block])]_vars
  BY InsertionMoves
<1> QED
  BY <1>1, LowerInvInit, LowerInvNext, PTL DEF Spec, InsertionMovesOn

(***************************************************************************)
(* Every program ir_lower_program returns passes ir_verify once its        *)
(* unreachable blocks are dropped: every operand is computed on every path *)
(* to its use.                                                             *)
(***************************************************************************)
THEOREM LoweredAlwaysVerifies == Spec => []LoweredVerifies
<1>1. LowerInv => LoweredVerifies
  BY LoweredHandedOver DEF LoweredVerifies, HandedOver
<1> QED
  BY <1>1, LowerInvariance, PTL

(***************************************************************************)
(* And what the optimiser starts from is what its proofs assume of it      *)
(* (ProgramsLowered): functions whose blocks and successors exist, whose   *)
(* slots are named and whose values are numbered wherever control reaches. *)
(***************************************************************************)
THEOREM LoweringFeedsOptimizer == Spec => [](Done => AsLowered(program))
BY LowerInvariance, LoweredFeeds, PTL
=============================================================================
