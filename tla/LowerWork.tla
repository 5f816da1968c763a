----------------------------- MODULE LowerWork ------------------------------
(***************************************************************************)
(* What lowering still has to do, as a chain of steps.                     *)
(*                                                                         *)
(* First the function under construction: what each block may use on entry *)
(* (Sound), and that the verifier accepts a function that is sound and     *)
(* finished.  Then the work list: a shape says how many values wait and of *)
(* which kind, whether the block control is in is open, which labels and   *)
(* case labels are still to be come to and which blocks are due; each      *)
(* piece of work is a step from one shape to another, and the work a node  *)
(* becomes leads from the shape before the node to the one behind it.      *)
(* Last, a function is laid at a shape (Laid) when its blocks and the      *)
(* values that wait are as the shape says.                                 *)
(***************************************************************************)
EXTENDS Lower, IrProofs

(* The values a block may use: those in have, and those computed above.    *)
Computed(c, have) ==
  \A k \in DOMAIN c : \A v \in Range(c[k].args) : v \in have \/ \E j \in DOMAIN c : j < k /\ c[j].dst = v

(* Lowering makes no phi. *)
NoPhi(c) == \A k \in DOMAIN c : c[k].op # "phi"

(* A block that is well formed, of which each operand is at hand. *)
Coded(c, have, n) ==
  IsBlock(c) /\ Fine(c, n) /\ NoPhi(c) /\ Computed(c, have) /\ have \subseteq 1 .. n

(* The slots reserved in a list. *)
Allocas(c) == {i.dst : i \in {j \in Range(c) : j.op = "alloca"}}

Slots(f) == Allocas(f.code[EntryBlock])

(* What block b can use at its end, in being what each has on entry. *)
Had(f, in, b) == in[b] \cup Defs(f.code[b])

(* What the function lowered so far keeps to, in being what each block may *)
(* use on entry: every way into a block has that at its end, and no way    *)
(* leads to the entry.                                                     *)
Sound(f, in) ==
  /\ DOMAIN f = {"code", "values"} /\ f.values \in Nat /\ IsSeq(f.code) /\ f.code # <<>>
  /\ DOMAIN in = DOMAIN f.code
  /\ \A b \in DOMAIN f.code : Coded(f.code[b], in[b], f.values)
  /\ \A b, c \in DOMAIN f.code : b # c => Defs(f.code[b]) \cap Defs(f.code[c]) = {}
  /\ in[EntryBlock] = {}
  /\ \A b \in DOMAIN f.code : b # EntryBlock => Allocas(f.code[EntryBlock]) \subseteq in[b]
  /\ \A b \in DOMAIN f.code : \A y \in Goes(f.code[b]) :
       y \in DOMAIN f.code /\ y # EntryBlock /\ in[y] \subseteq Had(f, in, b)

(* What it says of the list. *)
LEMMA SoundFacts ==
  ASSUME NEW f, NEW in, Sound(f, in)
  PROVE  /\ IsFunction(f) /\ Numbered(f) /\ f.values \in Nat
         /\ Len(f.code) \in Nat /\ Len(f.code) >= 1 /\ DOMAIN f.code = 1 .. Len(f.code)
         /\ BlocksOf(f) = DOMAIN f.code /\ EntryBlock \in DOMAIN f.code
         /\ \A b \in DOMAIN f.code : /\ IsBlock(f.code[b]) /\ Fine(f.code[b], f.values)
                                     /\ Had(f, in, b) \subseteq 1 .. f.values
                                     /\ Allocas(f.code[EntryBlock]) \subseteq Had(f, in, b)
<1>1. IsFunction(f)
  BY FunctionOf DEF Sound, Coded
<1>2. /\ Len(f.code) \in Nat /\ Len(f.code) >= 1 /\ DOMAIN f.code = 1 .. Len(f.code)
      /\ BlocksOf(f) = DOMAIN f.code /\ EntryBlock \in DOMAIN f.code
  BY <1>1, FunctionFacts, EntryIsBlock
<1>3. f.values \in Nat /\ \A b \in DOMAIN f.code : /\ IsBlock(f.code[b]) /\ Fine(f.code[b], f.values)
                                                  /\ Defs(f.code[b]) \subseteq 1 .. f.values
                                                  /\ in[b] \subseteq 1 .. f.values
  BY DefsAreValues DEF Sound, Coded
<1>4. Numbered(f)
  <2> DEFINE own == [b \in DOMAIN f.code |-> Defs(f.code[b])]
  <2>1. \A b, c \in DOMAIN f.code : b # c => own[b] \cap own[c] = {}
    BY DEF Sound
  <2>2. \A b \in DOMAIN f.code : Fine(f.code[b], f.values) /\ Defs(f.code[b]) \subseteq own[b]
    BY <1>3
  <2>. HIDE DEF own
  <2> QED
    BY <1>3, <2>1, <2>2, NumberedOf
<1>5. ASSUME NEW b \in DOMAIN f.code PROVE Allocas(f.code[EntryBlock]) \subseteq Had(f, in, b)
  <2>1. CASE b # EntryBlock
    BY <2>1 DEF Sound, Had
  <2>2. CASE b = EntryBlock
    <3> SUFFICES ASSUME NEW i \in Range(f.code[EntryBlock]), i.op = "alloca"
                 PROVE  i.dst \in Defs(f.code[EntryBlock])
      BY <2>2 DEF Had, Allocas
    <3>1. PICK k \in DOMAIN f.code[EntryBlock] : i = f.code[EntryBlock][k]
      BY DEF Range
    <3>2. IsNumbered(i, f.values)
      BY <1>2, <1>3, <3>1 DEF Fine
    <3>3. i.dst # NoValue
      BY <3>2 DEF IsNumbered, IsTerminator
    <3> QED
      BY <3>1, <3>3 DEF Defs
  <2> QED
    BY <2>1, <2>2
<1> QED
  BY <1>1, <1>2, <1>3, <1>4, <1>5 DEF Had

(* An instruction put at the end of a block control runs through. *)
LEMMA BlockGrown ==
  ASSUME NEW c, NEW have, NEW n \in Nat, Coded(c, have, n), Open(c),
         NEW m \in Nat, n <= m,
         NEW i, IsInstr(i), i.op # "phi", IsNumbered(i, m), i.dst \notin 1 .. n,
         Range(i.args) \subseteq have \cup Defs(c)
  PROVE  /\ Coded(Append(c, i), have, m)
         /\ Defs(Append(c, i)) = Defs(c) \cup ({i.dst} \ {NoValue})
         /\ i.op # "alloca" => Allocas(Append(c, i)) = Allocas(c)
         /\ Goes(Append(c, i)) = Range(i.to)
         /\ ~ IsTerminator(i.op) => Open(Append(c, i))
         /\ IsTerminator(i.op) => IsFinished(Append(c, i))
<1> DEFINE e == Append(c, i)
<1>1. IsSeq(c) /\ Len(c) \in Nat /\ DOMAIN c = 1 .. Len(c)
  BY SeqFacts DEF Coded, Fine
<1>2. /\ IsSeq(e) /\ Len(e) = Len(c) + 1 /\ DOMAIN e = 1 .. Len(c) + 1
      /\ \A k \in 1 .. Len(c) : e[k] = c[k]
      /\ e[Len(c) + 1] = i
  BY <1>1, Appended
<1>3. /\ IsBlock(e) /\ Goes(e) = Range(i.to)
      /\ ~ IsTerminator(i.op) => Open(e)
  BY Closing
<1>4. Fine(e, m)
  <2>1. Fine(c, m)
    BY FineMore DEF Coded
  <2>2. Defs(c) \subseteq 1 .. n
    BY DefsAreValues DEF Coded
  <2> QED
    BY <2>1, <2>2, FineAppended
<1>. HIDE DEF e
<1>5. \A k \in DOMAIN e : \/ k \in DOMAIN c /\ e[k] = c[k]
                          \/ k = Len(c) + 1 /\ e[k] = i
  BY <1>1, <1>2
<1>6. NoPhi(e)
  BY <1>5 DEF NoPhi, Coded
<1>7. Computed(e, have)
  <2> SUFFICES ASSUME NEW k \in DOMAIN e, NEW v \in Range(e[k].args), v \notin have
               PROVE  \E j \in DOMAIN e : j < k /\ e[j].dst = v
    BY DEF Computed
  <2>1. CASE k \in DOMAIN c /\ e[k] = c[k]
    <3>1. PICK j \in DOMAIN c : j < k /\ c[j].dst = v
      BY <2>1 DEF Coded, Computed
    <3> QED
      BY <1>1, <1>2, <3>1
  <2>2. CASE k = Len(c) + 1 /\ e[k] = i
    <3>1. PICK j \in DOMAIN c : c[j].dst = v
      BY <2>2 DEF Defs
    <3>2. j < k /\ j \in DOMAIN e /\ e[j].dst = v
      BY <1>1, <1>2, <2>2, <3>1
    <3> QED
      BY <3>2
  <2> QED
    BY <1>5, <2>1, <2>2
<1>8. have \subseteq 1 .. m
  BY DEF Coded
<1>9. Defs(e) = Defs(c) \cup ({i.dst} \ {NoValue})
  <2>1. Defs(e) \subseteq Defs(c) \cup ({i.dst} \ {NoValue})
    BY <1>5 DEF Defs
  <2>2. Defs(c) \subseteq Defs(e)
    BY <1>1, <1>2 DEF Defs
  <2>3. Len(c) + 1 \in DOMAIN e
    BY <1>1, <1>2
  <2>4. {i.dst} \ {NoValue} \subseteq Defs(e)
    BY <1>2, <2>3 DEF Defs
  <2> QED
    BY <2>1, <2>2, <2>4
<1>10. i.op # "alloca" => Allocas(e) = Allocas(c)
  <2> HAVE i.op # "alloca"
  <2>1. Range(e) = Range(c) \cup {i}
    <3>1. Len(c) + 1 \in DOMAIN e /\ DOMAIN c \subseteq DOMAIN e
      BY <1>1, <1>2
    <3> QED
      BY <1>1, <1>2, <1>5, <3>1 DEF Range
  <2> QED
    BY <2>1 DEF Allocas
<1>11. IsTerminator(i.op) => IsFinished(e)
  <2> HAVE IsTerminator(i.op)
  <2>1. e # <<>>
    BY <1>1, <1>2, EmptyList
  <2>2. \A k \in DOMAIN c : ~ IsTerminator(c[k].op)
    BY OpenFacts
  <2>3. \A k \in DOMAIN e : IsTerminator(e[k].op) <=> k = Len(e)
    BY <1>1, <1>2, <1>5, <2>2
  <2> QED
    BY <2>1, <2>3 DEF IsFinished
<1>12. Coded(e, have, m)
  BY <1>3, <1>4, <1>6, <1>7, <1>8 DEF Coded
<1> QED
  BY <1>3, <1>9, <1>10, <1>11, <1>12 DEF e

(* More values, and more on entry. *)
LEMMA CodedMore ==
  ASSUME NEW c, NEW have, NEW n \in Nat, Coded(c, have, n),
         NEW m \in Nat, n <= m, NEW more, have \subseteq more, more \subseteq 1 .. m
  PROVE  Coded(c, more, m)
<1>1. Fine(c, m)
  BY FineMore DEF Coded
<1>2. Computed(c, more)
  BY DEF Coded, Computed
<1> QED
  BY <1>1, <1>2 DEF Coded

(* An instruction appended, whether it ends the block or not. *)
Lengthened(f, in, b, m, i, g) ==
  /\ Sound(f, in) /\ b \in DOMAIN f.code /\ Open(f.code[b]) /\ m \in Nat /\ f.values <= m
  /\ IsInstr(i) /\ i.op \notin {"phi", "alloca"} /\ IsNumbered(i, m) /\ i.dst \notin 1 .. f.values
  /\ Range(i.args) \subseteq Had(f, in, b)
  /\ \A y \in Range(i.to) : y \in DOMAIN f.code /\ y # EntryBlock /\ in[y] \subseteq Had(f, in, b)
  /\ DOMAIN g = {"code", "values"} /\ g.values = m
  /\ g.code = [f.code EXCEPT ![b] = Append(f.code[b], i)]

(* A sound function stays sound when an instruction is put at the end of   *)
(* an open block that has its operands and whose targets get no more on    *)
(* entry than it had.                                                      *)
LEMMA SoundGrown ==
  ASSUME NEW f, NEW in, NEW b, NEW m, NEW i, NEW g, Lengthened(f, in, b, m, i, g)
  PROVE  /\ Sound(g, in) /\ DOMAIN g.code = DOMAIN f.code
         /\ \A x \in DOMAIN f.code : x # b => g.code[x] = f.code[x]
         /\ g.code[b] = Append(f.code[b], i)
         /\ Slots(g) = Slots(f)
         /\ Had(g, in, b) = Had(f, in, b) \cup ({i.dst} \ {NoValue})
         /\ ~ IsTerminator(i.op) => Open(g.code[b])
         /\ IsTerminator(i.op) => IsFinished(g.code[b])
<1> DEFINE c == f.code[b]
           e == Append(c, i)
<1>0. /\ Sound(f, in) /\ b \in DOMAIN f.code /\ Open(c) /\ m \in Nat /\ f.values <= m
      /\ IsInstr(i) /\ i.op \notin {"phi", "alloca"} /\ IsNumbered(i, m) /\ i.dst \notin 1 .. f.values
      /\ Range(i.args) \subseteq Had(f, in, b)
      /\ \A y \in Range(i.to) : y \in DOMAIN f.code /\ y # EntryBlock /\ in[y] \subseteq Had(f, in, b)
      /\ DOMAIN g = {"code", "values"} /\ g.values = m
      /\ g.code = [f.code EXCEPT ![b] = e]
  BY DEF Lengthened
<1>1. /\ DOMAIN f.code = 1 .. Len(f.code) /\ Len(f.code) \in Nat /\ Len(f.code) >= 1
      /\ f.values \in Nat /\ EntryBlock \in DOMAIN f.code
  BY <1>0, SoundFacts
<1>2. /\ Coded(e, in[b], m)
      /\ Defs(e) = Defs(c) \cup ({i.dst} \ {NoValue})
      /\ Allocas(e) = Allocas(c)
      /\ Goes(e) = Range(i.to)
      /\ ~ IsTerminator(i.op) => Open(e)
      /\ IsTerminator(i.op) => IsFinished(e)
  <2>1. Coded(c, in[b], f.values) /\ Range(i.args) \subseteq in[b] \cup Defs(c)
    BY <1>0 DEF Sound, Had
  <2>. HIDE DEF c
  <2> QED
    BY <1>0, <1>1, <2>1, BlockGrown DEF c
<1>3. DOMAIN g.code = DOMAIN f.code /\ g.code[b] = e /\ \A x \in DOMAIN f.code : x # b => g.code[x] = f.code[x]
  BY <1>0
<1>. HIDE DEF e
<1>4. IsSeq(g.code) /\ g.code # <<>>
  <2>1. g.code = [x \in 1 .. Len(f.code) |-> g.code[x]]
    BY <1>0, <1>1, <1>3
  <2>2. IsSeq(g.code) /\ Len(g.code) = Len(f.code)
    BY <1>0, <1>1, <2>1, ListIs
  <2> QED
    BY <1>0, <1>1, <2>2, EmptyList
<1>5. \A x \in DOMAIN g.code : Coded(g.code[x], in[x], m)
  <2> SUFFICES ASSUME NEW x \in DOMAIN f.code PROVE Coded(g.code[x], in[x], m)
    BY <1>0, <1>3
  <2>1. CASE x = b
    BY <1>0, <1>2, <1>3, <2>1
  <2>2. CASE x # b
    <3>1. Coded(f.code[x], in[x], f.values)
      BY <1>0 DEF Sound
    <3>2. in[x] \subseteq 1 .. m
      BY <1>0, <1>1, <3>1 DEF Coded
    <3> QED
      BY <1>0, <1>1, <1>3, <2>2, <3>1, <3>2, CodedMore
  <2> QED
    BY <2>1, <2>2
<1>6. \A x, y \in DOMAIN g.code : x # y => Defs(g.code[x]) \cap Defs(g.code[y]) = {}
  <2>1. \A x \in DOMAIN f.code : Defs(f.code[x]) \subseteq 1 .. f.values
    BY <1>0, <1>1, DefsAreValues DEF Sound, Coded
  <2>2. ASSUME NEW x \in DOMAIN f.code, x # b PROVE Defs(g.code[b]) \cap Defs(g.code[x]) = {}
    BY <1>0, <1>2, <1>3, <2>1, <2>2 DEF Sound
  <2>3. ASSUME NEW x \in DOMAIN f.code, NEW y \in DOMAIN f.code, x # y, x # b, y # b
        PROVE  Defs(g.code[x]) \cap Defs(g.code[y]) = {}
    BY <1>0, <1>3, <2>3 DEF Sound
  <2> QED
    BY <1>0, <1>3, <2>2, <2>3
<1>7. Allocas(g.code[EntryBlock]) = Allocas(f.code[EntryBlock])
  BY <1>0, <1>1, <1>2, <1>3
<1>8. \A x \in DOMAIN f.code : Had(f, in, x) \subseteq Had(g, in, x)
  BY <1>0, <1>2, <1>3 DEF Had
<1>9. Had(g, in, b) = Had(f, in, b) \cup ({i.dst} \ {NoValue})
  BY <1>0, <1>2, <1>3 DEF Had
<1>10. ASSUME NEW x \in DOMAIN g.code, NEW y \in Goes(g.code[x])
       PROVE  y \in DOMAIN g.code /\ y # EntryBlock /\ in[y] \subseteq Had(g, in, x)
  <2>1. CASE x = b
    BY <1>0, <1>2, <1>3, <1>8, <2>1
  <2>2. CASE x # b
    BY <1>0, <1>3, <1>8, <2>2 DEF Sound
  <2> QED
    BY <2>1, <2>2
<1>11. Sound(g, in)
  <2>1. /\ DOMAIN in = DOMAIN g.code /\ in[EntryBlock] = {}
        /\ \A x \in DOMAIN g.code : x # EntryBlock => Allocas(g.code[EntryBlock]) \subseteq in[x]
    BY <1>0, <1>3, <1>7 DEF Sound
  <2> QED
    BY <1>0, <1>4, <1>5, <1>6, <1>10, <2>1 DEF Sound
<1> QED
  BY <1>0, <1>2, <1>3, <1>7, <1>9, <1>11 DEF e, Slots

(* What each block has on entry, when there is a block more that has S.    *)
With(in, S) == [b \in DOMAIN in \cup {Cardinality(DOMAIN in) + 1} |-> IF b \in DOMAIN in THEN in[b] ELSE S]

(* The same when there is a slot more. *)
Also(in, v) == [b \in DOMAIN in |-> IF b = EntryBlock THEN {} ELSE in[b] \cup {v}]

(* A block more, with S on entry, said of the function as a whole. *)
Widened(f, in, S, g, out, n) ==
  /\ Sound(g, out) /\ n \notin DOMAIN f.code /\ n \in Nat /\ n # EntryBlock
  /\ DOMAIN g.code = DOMAIN f.code \cup {n} /\ g.code[n] = <<>> /\ out[n] = S
  /\ \A x \in DOMAIN f.code : g.code[x] = f.code[x] /\ out[x] = in[x] /\ Had(g, out, x) = Had(f, in, x)
  /\ Slots(g) = Slots(f) /\ Slots(f) \subseteq S /\ EntryBlock \in DOMAIN f.code

(* A block laid out behind the others, empty as yet. *)
LEMMA BlockWidens ==
  ASSUME NEW f, NEW in, Sound(f, in), NEW S, S \subseteq 1 .. f.values, Slots(f) \subseteq S
  PROVE  Widened(f, in, S, NewBlock(f), With(in, S), LastBlock(f) + 1)
<1> DEFINE g == NewBlock(f)
           n == LastBlock(f) + 1
           out == With(in, S)
<1>1. /\ DOMAIN f.code = 1 .. Len(f.code) /\ Len(f.code) \in Nat /\ Len(f.code) >= 1
      /\ f.values \in Nat /\ EntryBlock \in DOMAIN f.code /\ IsFunction(f)
  BY SoundFacts
<1>2. /\ IsFunction(g) /\ DOMAIN g = {"code", "values"}
      /\ Len(g.code) = Len(f.code) + 1
      /\ DOMAIN g.code = 1 .. Len(f.code) + 1
      /\ \A b \in DOMAIN f.code : g.code[b] = f.code[b]
      /\ g.code[n] = <<>>
  BY <1>1, BlockAdded DEF LastBlock
<1>3. g.values = f.values
  BY <1>1, FunctionFacts DEF NewBlock
<1>4. n = Len(f.code) + 1 /\ LastBlock(g) = n
  BY <1>2 DEF LastBlock
<1>5. DOMAIN out = DOMAIN f.code \cup {n} /\ out[n] = S /\ \A b \in DOMAIN f.code : out[b] = in[b]
  <2>1. DOMAIN in = 1 .. Len(f.code)
    BY <1>1 DEF Sound
  <2>2. Cardinality(DOMAIN in) + 1 = n
    <3>1. Cardinality(1 .. Len(f.code)) = Len(f.code)
      BY <1>1, FS_Interval
    <3> QED
      BY <1>4, <2>1, <3>1
  <2>3. n \notin DOMAIN in
    BY <1>1, <1>4, <2>1
  <2> QED
    BY <1>1, <2>1, <2>2, <2>3 DEF With
<1>6. DOMAIN g.code = DOMAIN f.code \cup {n} /\ n \notin DOMAIN f.code /\ n \in Nat /\ n # EntryBlock
  BY <1>1, <1>2, <1>4 DEF EntryBlock
<1>. HIDE DEF g, n, out
<1>7. IsBlock(<<>>) /\ Goes(<<>>) = {} /\ Fine(<<>>, f.values) /\ Defs(<<>>) = {} /\ DOMAIN <<>> = {}
  BY EmptyIsOpen, OpenFacts, FineNothing, EmptyList, SeqFacts
<1>8. Coded(<<>>, S, f.values)
  BY <1>7 DEF Coded, NoPhi, Computed
<1>9. \A b \in DOMAIN g.code : Coded(g.code[b], out[b], g.values)
  BY <1>2, <1>3, <1>5, <1>6, <1>8 DEF Sound
<1>10. \A b, c \in DOMAIN g.code : b # c => Defs(g.code[b]) \cap Defs(g.code[c]) = {}
  BY <1>2, <1>6, <1>7 DEF Sound
<1>11. Allocas(g.code[EntryBlock]) = Allocas(f.code[EntryBlock])
  BY <1>1, <1>2
<1>12. \A b \in DOMAIN f.code : Had(g, out, b) = Had(f, in, b)
  BY <1>2, <1>5 DEF Had
<1>13. out[EntryBlock] = {} /\ \A b \in DOMAIN g.code : b # EntryBlock => Allocas(g.code[EntryBlock]) \subseteq out[b]
  BY <1>1, <1>5, <1>6, <1>11 DEF Sound, Slots
<1>14. ASSUME NEW b \in DOMAIN g.code, NEW y \in Goes(g.code[b])
       PROVE  y \in DOMAIN g.code /\ y # EntryBlock /\ out[y] \subseteq Had(g, out, b)
  <2>1. b # n
    BY <1>2, <1>7
  <2>2. b \in DOMAIN f.code /\ y \in Goes(f.code[b])
    BY <1>2, <1>6, <2>1
  <2>3. y \in DOMAIN f.code /\ y # EntryBlock /\ in[y] \subseteq Had(f, in, b)
    BY <2>2 DEF Sound
  <2> QED
    BY <1>5, <1>6, <1>12, <2>2, <2>3
<1>15. IsSeq(g.code) /\ g.code # <<>>
  BY <1>2, FunctionFacts
<1>16. Sound(g, out)
  BY <1>1, <1>2, <1>3, <1>5, <1>6, <1>9, <1>10, <1>13, <1>14, <1>15 DEF Sound
<1> QED
  <2>1. Widened(f, in, S, g, out, n)
    BY <1>1, <1>2, <1>5, <1>6, <1>11, <1>12, <1>16 DEF Slots, Widened
  <2> QED
    BY <2>1 DEF g, n, out

(* An instruction without operands put in front of a list. *)
LEMMA BlockHeaded ==
  ASSUME NEW c, NEW have, NEW n \in Nat, Coded(c, have, n),
         NEW i, IsInstr(i), ~ IsTerminator(i.op), i.op # "phi", Range(i.args) = {},
         IsNumbered(i, n + 1), i.dst = n + 1
  PROVE  LET e == <<i>> \o c
         IN /\ Coded(e, have, n + 1)
            /\ Defs(e) = Defs(c) \cup {n + 1}
            /\ i.op = "alloca" => Allocas(e) = Allocas(c) \cup {n + 1}
            /\ Goes(e) = Goes(c)
            /\ Open(c) => Open(e)
            /\ IsFinished(c) => IsFinished(e)
<1> DEFINE e == <<i>> \o c
           p == <<i>>
<1>1. IsSeq(c) /\ Len(c) \in Nat /\ DOMAIN c = 1 .. Len(c)
  BY SeqFacts DEF Coded, Fine
<1>2. IsSeq(p) /\ Len(p) = 1 /\ p[1] = i /\ DOMAIN p = {1}
  <2>1. p \in Seq({i}) /\ Len(p) = 1 /\ p[1] = i /\ DOMAIN p = {1}
    OBVIOUS
  <2> QED
    BY <2>1, TypedSeq
<1>3. Open(p)
  BY <1>2 DEF Open
<1>4. Fine(p, n + 1) /\ Defs(p) = {i.dst} \ {NoValue}
  BY FineOne
<1>5. e = p \o c
  OBVIOUS
<1>. HIDE DEF p, e
<1>6. /\ IsBlock(e) /\ Goes(e) = Goes(c)
      /\ Open(c) => Open(e)
  BY <1>3, <1>5, Prefixed DEF Coded
<1>7. /\ IsSeq(e) /\ Len(e) = 1 + Len(c) /\ DOMAIN e = 1 .. 1 + Len(c)
      /\ \A k \in 1 .. 1 + Len(c) : e[k] = IF k <= 1 THEN p[k] ELSE c[k - 1]
  <2>1. /\ IsSeq(p \o c) /\ Len(p \o c) = Len(p) + Len(c)
        /\ DOMAIN (p \o c) = 1 .. Len(p) + Len(c)
        /\ \A k \in 1 .. Len(p) + Len(c) :
             (p \o c)[k] = IF k <= Len(p) THEN p[k] ELSE c[k - Len(p)]
    BY <1>1, <1>2, JoinedSeq
  <2> QED
    BY <1>2, <1>5, <2>1
<1>8. e[1] = i /\ 1 \in DOMAIN e
  BY <1>1, <1>2, <1>7
<1>9. \A k \in DOMAIN e : k = 1 \/ (k - 1 \in DOMAIN c /\ e[k] = c[k - 1])
  BY <1>1, <1>7
<1>10. \A k \in DOMAIN c : k + 1 \in DOMAIN e /\ e[k + 1] = c[k]
  BY <1>1, <1>7
<1>11. Defs(c) \subseteq 1 .. n
  BY DefsAreValues DEF Coded
<1>12. i.dst # NoValue
  BY DEF NoValue
<1>13. Fine(e, n + 1)
  <2>1. Fine(c, n + 1)
    BY FineMore DEF Coded
  <2>2. \A k \in DOMAIN e : IsNumbered(e[k], n + 1)
    BY <1>8, <1>9, <2>1 DEF Fine
  <2>3. \A k \in DOMAIN c : c[k].dst # n + 1
    BY <1>11, <1>12 DEF Defs
  <2>4. Once(e)
    <3> SUFFICES ASSUME NEW j \in DOMAIN e, NEW k \in DOMAIN e, e[j].dst # NoValue, e[j].dst = e[k].dst
                 PROVE  j = k
      BY DEF Once
    <3>1. CASE j = 1 \/ k = 1
      BY <1>8, <1>9, <2>3, <3>1
    <3>2. CASE j # 1 /\ k # 1
      <4>1. j - 1 = k - 1
        BY <1>9, <2>1, <3>2 DEF Fine, Once
      <4> QED
        BY <1>1, <1>7, <4>1
    <3> QED
      BY <3>1, <3>2
  <2> QED
    BY <1>7, <2>2, <2>4 DEF Fine
<1>14. Defs(e) = Defs(c) \cup {n + 1}
  <2>1. Defs(e) \subseteq Defs(c) \cup {n + 1}
    BY <1>8, <1>9 DEF Defs
  <2>2. Defs(c) \subseteq Defs(e)
    BY <1>10 DEF Defs
  <2>3. n + 1 \in Defs(e)
    BY <1>8, <1>12 DEF Defs
  <2> QED
    BY <2>1, <2>2, <2>3
<1>15. i.op = "alloca" => Allocas(e) = Allocas(c) \cup {n + 1}
  <2> HAVE i.op = "alloca"
  <2>1. Range(e) = Range(c) \cup {i}
    BY <1>8, <1>9, <1>10 DEF Range
  <2> QED
    BY <2>1 DEF Allocas
<1>16. IsFinished(c) => IsFinished(e)
  <2> HAVE IsFinished(c)
  <2>1. e # <<>>
    BY <1>1, <1>7, EmptyList
  <2>2. Len(c) # 0
    BY <1>1, ListIs, BlockFacts DEF IsFinished, Coded
  <2>3. \A k \in DOMAIN e : IsTerminator(e[k].op) <=> k = Len(e)
    <3> TAKE k \in DOMAIN e
    <3>1. CASE k = 1
      BY <1>1, <1>7, <1>8, <2>2, <3>1
    <3>2. CASE k # 1
      BY <1>1, <1>7, <1>9, <3>2 DEF IsFinished
    <3> QED
      BY <3>1, <3>2
  <2> QED
    BY <2>1, <2>3 DEF IsFinished
<1>17. NoPhi(e)
  BY <1>8, <1>9 DEF NoPhi, Coded
<1>18. Computed(e, have)
  <2> SUFFICES ASSUME NEW k \in DOMAIN e, NEW v \in Range(e[k].args), v \notin have
               PROVE  \E j \in DOMAIN e : j < k /\ e[j].dst = v
    BY DEF Computed
  <2>1. k # 1 /\ k - 1 \in DOMAIN c /\ e[k] = c[k - 1]
    BY <1>8, <1>9
  <2>2. PICK j \in DOMAIN c : j < k - 1 /\ c[j].dst = v
    BY <2>1 DEF Coded, Computed
  <2>3. j + 1 \in DOMAIN e /\ j + 1 < k /\ e[j + 1].dst = v
    BY <1>1, <1>7, <1>10, <2>1, <2>2
  <2> QED
    BY <2>3
<1>19. Coded(e, have, n + 1)
  BY <1>6, <1>13, <1>17, <1>18 DEF Coded
<1> QED
  BY <1>6, <1>14, <1>15, <1>16, <1>19 DEF e

(* The reservation of a slot. *)
LEMMA AllocaIsInstr ==
  ASSUME NEW n \in Nat
  PROVE  LET i == [Instr("alloca", n + 1, <<>>) EXCEPT !.ty = "ptr"]
         IN /\ IsInstr(i) /\ i.op = "alloca" /\ ~ IsTerminator(i.op) /\ Range(i.args) = {} /\ i.dst = n + 1
            /\ IsNumbered(i, n + 1)
<1> DEFINE i == [Instr("alloca", n + 1, <<>>) EXCEPT !.ty = "ptr"]
<1>1. IsInstr(i) /\ i.op = "alloca" /\ i.dst = n + 1 /\ i.args = <<>> /\ ~ IsTerminator(i.op)
  BY DEF Instr, IsInstr, InstrFields, IsTerminator
<1>. HIDE DEF i
<1>2. IsSeq(<<>>) /\ Range(i.args) = {} /\ Len(i.args) = 0
  BY <1>1, EmptyList, NothingThere
<1>3. IsNumbered(i, n + 1)
  BY <1>1, <1>2 DEF IsNumbered, RequiredArgs, NoValue
<1> QED
  BY <1>1, <1>2, <1>3 DEF i

(* The same of a slot more. *)
Reserved(f, in, g, out, v) ==
  /\ Sound(g, out) /\ g.values = v /\ v = f.values + 1 /\ v \notin 1 .. f.values
  /\ DOMAIN g.code = DOMAIN f.code /\ DOMAIN out = DOMAIN f.code
  /\ \A b \in DOMAIN f.code : /\ b # EntryBlock => g.code[b] = f.code[b] /\ out[b] = in[b] \cup {v}
                              /\ Had(g, out, b) = Had(f, in, b) \cup {v}
                              /\ Open(f.code[b]) => Open(g.code[b])
                              /\ IsFinished(f.code[b]) => IsFinished(g.code[b])
  /\ Slots(g) = Slots(f) \cup {v}

(* slot_for reserves at the head of the entry, so every other block has    *)
(* the slot on entry.                                                      *)
LEMMA SlotReserved ==
  ASSUME NEW f, NEW in, Sound(f, in)
  PROVE  Reserved(f, in, WithSlot(f), Also(in, FreshValue(f)), FreshValue(f))
<1> DEFINE g == WithSlot(f)
           v == FreshValue(f)
           out == Also(in, v)
           i == [Instr("alloca", v, <<>>) EXCEPT !.ty = "ptr"]
           c == f.code[EntryBlock]
           e == <<i>> \o c
<1>1. /\ DOMAIN f.code = 1 .. Len(f.code) /\ Len(f.code) \in Nat /\ Len(f.code) >= 1
      /\ f.values \in Nat /\ EntryBlock \in DOMAIN f.code /\ IsFunction(f)
  BY SoundFacts
<1>2. v = f.values + 1 /\ v \in Nat /\ v \notin 1 .. f.values
  BY <1>1 DEF FreshValue
<1>3. /\ Coded(e, in[EntryBlock], v)
      /\ Defs(e) = Defs(c) \cup {v}
      /\ Allocas(e) = Allocas(c) \cup {v}
      /\ Goes(e) = Goes(c)
      /\ Open(c) => Open(e)
      /\ IsFinished(c) => IsFinished(e)
  <2>1. Coded(c, in[EntryBlock], f.values)
    BY <1>1 DEF Sound
  <2>2. /\ IsInstr(i) /\ i.op = "alloca" /\ ~ IsTerminator(i.op) /\ Range(i.args) = {} /\ i.dst = f.values + 1
        /\ IsNumbered(i, f.values + 1)
    BY <1>1, <1>2, AllocaIsInstr
  <2>. HIDE DEF i, c
  <2> QED
    BY <1>1, <1>2, <2>1, <2>2, BlockHeaded
<1>4. DOMAIN g = {"code", "values"} /\ g.code = [f.code EXCEPT ![EntryBlock] = e] /\ g.values = v
  BY <1>1, FunctionFacts DEF WithSlot, FreshValue
<1>. HIDE DEF e, g, i
<1>5. DOMAIN g.code = DOMAIN f.code /\ g.code[EntryBlock] = e
      /\ \A b \in DOMAIN f.code : b # EntryBlock => g.code[b] = f.code[b]
  BY <1>1, <1>4
<1>6. DOMAIN out = DOMAIN f.code /\ out[EntryBlock] = {}
      /\ \A b \in DOMAIN f.code : b # EntryBlock => out[b] = in[b] \cup {v}
  BY <1>1 DEF Also, Sound
<1>. HIDE DEF out
<1>7. IsSeq(g.code) /\ g.code # <<>>
  <2>1. g.code = [x \in 1 .. Len(f.code) |-> g.code[x]]
    BY <1>1, <1>4, <1>5
  <2>2. IsSeq(g.code) /\ Len(g.code) = Len(f.code)
    BY <1>1, <2>1, ListIs
  <2> QED
    BY <1>1, <2>2, EmptyList
<1>8. in[EntryBlock] = {}
  BY DEF Sound
<1>9. \A b \in DOMAIN g.code : Coded(g.code[b], out[b], v)
  <2> SUFFICES ASSUME NEW b \in DOMAIN f.code PROVE Coded(g.code[b], out[b], v)
    BY <1>5
  <2>1. CASE b = EntryBlock
    BY <1>3, <1>5, <1>6, <1>8, <2>1
  <2>2. CASE b # EntryBlock
    <3>1. Coded(f.code[b], in[b], f.values)
      BY DEF Sound
    <3>2. in[b] \cup {v} \subseteq 1 .. v
      BY <1>1, <1>2, <3>1 DEF Coded
    <3> QED
      BY <1>1, <1>2, <1>5, <1>6, <2>2, <3>1, <3>2, CodedMore
  <2> QED
    BY <2>1, <2>2
<1>10. \A b \in DOMAIN f.code : Had(g, out, b) = Had(f, in, b) \cup {v}
  <2> TAKE b \in DOMAIN f.code
  <2>1. CASE b = EntryBlock
    BY <1>3, <1>5, <1>6, <1>8, <2>1 DEF Had
  <2>2. CASE b # EntryBlock
    BY <1>5, <1>6, <2>2 DEF Had
  <2> QED
    BY <2>1, <2>2
<1>11. \A b, d \in DOMAIN g.code : b # d => Defs(g.code[b]) \cap Defs(g.code[d]) = {}
  <2>1. \A x \in DOMAIN f.code : Defs(f.code[x]) \subseteq 1 .. f.values
    BY <1>1, DefsAreValues DEF Sound, Coded
  <2>2. ASSUME NEW x \in DOMAIN f.code, x # EntryBlock PROVE Defs(g.code[EntryBlock]) \cap Defs(g.code[x]) = {}
    BY <1>1, <1>2, <1>3, <1>5, <2>1, <2>2 DEF Sound
  <2>3. ASSUME NEW x \in DOMAIN f.code, NEW y \in DOMAIN f.code, x # y, x # EntryBlock, y # EntryBlock
        PROVE  Defs(g.code[x]) \cap Defs(g.code[y]) = {}
    BY <1>5, <2>3 DEF Sound
  <2> QED
    BY <1>5, <2>2, <2>3
<1>12. Allocas(g.code[EntryBlock]) = Allocas(f.code[EntryBlock]) \cup {v}
  BY <1>3, <1>5
<1>13. \A b \in DOMAIN g.code : b # EntryBlock => Allocas(g.code[EntryBlock]) \subseteq out[b]
  BY <1>5, <1>6, <1>12 DEF Sound
<1>14. ASSUME NEW b \in DOMAIN g.code, NEW y \in Goes(g.code[b])
       PROVE  y \in DOMAIN g.code /\ y # EntryBlock /\ out[y] \subseteq Had(g, out, b)
  <2>1. b \in DOMAIN f.code /\ y \in Goes(f.code[b])
    BY <1>3, <1>5
  <2>2. y \in DOMAIN f.code /\ y # EntryBlock /\ in[y] \subseteq Had(f, in, b)
    BY <2>1 DEF Sound
  <2> QED
    BY <1>5, <1>6, <1>10, <2>1, <2>2
<1>15. Sound(g, out)
  BY <1>2, <1>4, <1>5, <1>6, <1>7, <1>9, <1>11, <1>13, <1>14 DEF Sound
<1>16. \A b \in DOMAIN f.code :
         /\ Open(f.code[b]) => Open(g.code[b])
         /\ IsFinished(f.code[b]) => IsFinished(g.code[b])
  BY <1>3, <1>5
<1>17. \A b \in DOMAIN f.code : b # EntryBlock => g.code[b] = f.code[b] /\ out[b] = in[b] \cup {v}
  BY <1>5, <1>6
<1>18. g.values = v
  BY <1>4
<1>. HIDE DEF v
<1>19. /\ Sound(g, out) /\ g.values = v /\ v = f.values + 1 /\ v \notin 1 .. f.values
       /\ DOMAIN g.code = DOMAIN f.code
       /\ DOMAIN out = DOMAIN f.code
       /\ Slots(g) = Slots(f) \cup {v}
  BY <1>2, <1>5, <1>6, <1>12, <1>15, <1>18 DEF Slots
<1>20. \A b \in DOMAIN f.code :
         /\ b # EntryBlock => g.code[b] = f.code[b] /\ out[b] = in[b] \cup {v}
         /\ Had(g, out, b) = Had(f, in, b) \cup {v}
         /\ Open(f.code[b]) => Open(g.code[b])
         /\ IsFinished(f.code[b]) => IsFinished(g.code[b])
  BY <1>10, <1>16, <1>17
<1>21. Reserved(f, in, g, out, v)
  BY <1>19, <1>20 DEF Reserved
<1>22. v = FreshValue(f)
  BY DEF v
<1>23. out = Also(in, v) /\ g = WithSlot(f)
  BY DEF out, g
<1> QED
  BY <1>21, <1>22, <1>23

(* The graph the analyses see, and what they say of it. *)
LEMMA Walked ==
  ASSUME NEW g, IsFunction(g)
  PROVE  /\ DOMAIN EdgesOf(g) = DOMAIN g.code /\ IsFiniteSet(DOMAIN EdgesOf(g)) /\ EntryBlock \in DOMAIN EdgesOf(g)
         /\ NoValue \notin DOMAIN g.code
         /\ \A b \in DOMAIN g.code : EdgesOf(g)[b] = Goes(g.code[b]) /\ EdgesOf(g)[b] \subseteq DOMAIN EdgesOf(g)
         /\ Analyses(g).reach = ReachedBlocks(g)
         /\ Analyses(g).preds = Predecessors(EdgesOf(g), ReachedBlocks(g))
         /\ Analyses(g).doms = DominatorSets(EdgesOf(g), ReachedBlocks(g))
         /\ ReachedBlocks(g) = ReachedAvoiding(EdgesOf(g), NoValue)
         /\ ReachedBlocks(g) \subseteq DOMAIN g.code
<1>1. /\ EdgesOf(g) = [b \in BlocksOf(g) |-> Goes(g.code[b])] /\ \A b \in BlocksOf(g) : Goes(g.code[b]) \subseteq BlocksOf(g)
      /\ BlocksOf(g) = 1 .. Len(g.code) /\ DOMAIN g.code = 1 .. Len(g.code) /\ Len(g.code) \in Nat
  BY FunctionFacts
<1>2. EntryBlock \in DOMAIN g.code
  BY EntryIsBlock
<1>3. IsFiniteSet(DOMAIN g.code) /\ NoValue \notin DOMAIN g.code
  BY <1>1, FS_Interval DEF NoValue
<1>4. /\ Analyses(g).reach = ReachedBlocks(g)
      /\ Analyses(g).preds = Predecessors(EdgesOf(g), ReachedBlocks(g))
      /\ Analyses(g).doms = DominatorSets(EdgesOf(g), ReachedBlocks(g))
      /\ ReachedBlocks(g) = ReachedAvoiding(EdgesOf(g), NoValue)
  BY DEF Analyses, AnalysesOn, ReachedBlocks, NoValue
<1>5. /\ DOMAIN EdgesOf(g) = DOMAIN g.code
      /\ \A b \in DOMAIN g.code : EdgesOf(g)[b] = Goes(g.code[b]) /\ EdgesOf(g)[b] \subseteq DOMAIN EdgesOf(g)
  BY <1>1
<1>6. ReachedAvoiding(EdgesOf(g), NoValue) \subseteq DOMAIN EdgesOf(g)
  BY <1>2, <1>3, <1>5, WalkSettles
<1> QED
  BY <1>2, <1>3, <1>4, <1>5, <1>6

(* What is available on entry to a block control reaches is computed in    *)
(* another block, which dominates it.                                      *)
LEMMA EntryDominated ==
  ASSUME NEW g, IsFunction(g), Numbered(g), NEW in, in[EntryBlock] = {},
         \A b \in DOMAIN g.code : \A y \in Goes(g.code[b]) : in[y] \subseteq Had(g, in, b),
         NEW b \in Analyses(g).reach, NEW v \in in[b]
  PROVE  \E a \in DOMAIN g.code : a # b /\ v \in Defs(g.code[a]) /\ Dominates(Analyses(g), a, b)
<1> DEFINE E == EdgesOf(g)
           D == DOMAIN E
           lacks == {y \in D : v \notin in[y]}
           reach == ReachedBlocks(g)
<1>1. /\ D = DOMAIN g.code /\ IsFiniteSet(D) /\ EntryBlock \in D /\ NoValue \notin D
      /\ \A x \in D : E[x] = Goes(g.code[x]) /\ E[x] \subseteq D
      /\ reach = ReachedAvoiding(E, NoValue) /\ reach \subseteq D
      /\ Analyses(g).reach = reach
      /\ Analyses(g).doms = DominatorSets(E, reach)
  BY Walked
<1>. HIDE DEF E, D, reach
<1>2. \A a : LET S == ReachedAvoiding(E, a)
             IN \A U : (EntryBlock # a => EntryBlock \in U) /\ Closed(E, a, U) => S \subseteq U
  BY <1>1, WalkSettles DEF D
<1>3. ASSUME NEW x \in lacks, NEW y \in E[x], y \notin lacks PROVE v \in Defs(g.code[x])
  BY <1>1, <1>3 DEF Had
<1>4. EntryBlock \in lacks /\ b \notin lacks /\ b \in D
  BY <1>1
<1>5. PICK a \in lacks \cap reach : v \in Defs(g.code[a])
  <2> DEFINE U == lacks \cap reach
  <2> SUFFICES ASSUME \A a \in U : v \notin Defs(g.code[a]) PROVE FALSE
    OBVIOUS
  <2>1. EntryBlock \in reach /\ Closed(E, NoValue, reach)
    BY <1>1, WalkSettles DEF D, EntryBlock, NoValue
  <2>2. Closed(E, NoValue, U)
    <3> SUFFICES ASSUME NEW x \in U, NEW y \in E[x], y # NoValue PROVE y \in U
      BY DEF Closed
    <3>1. y \in reach
      BY <2>1 DEF Closed
    <3>2. y \in lacks
      BY <1>3
    <3> QED
      BY <3>1, <3>2
  <2>3. EntryBlock \in U
    BY <1>4, <2>1
  <2>. HIDE DEF U
  <2>4. reach \subseteq U
    BY <1>1, <1>2, <2>2, <2>3
  <2> QED
    BY <1>1, <1>4, <2>4 DEF U
<1>6. \A x \in D : v \in Defs(g.code[x]) => x = a
  BY <1>1, <1>5, NumberedFacts
<1>7. a # b
  BY <1>4, <1>5
<1>8. b \notin ReachedAvoiding(E, a)
  <2> DEFINE U == lacks \ {a}
  <2>1. Closed(E, a, U)
    <3> SUFFICES ASSUME NEW x \in U, NEW y \in E[x], y # a PROVE y \in U
      BY DEF Closed
    <3>1. y \in lacks
      BY <1>3, <1>6
    <3> QED
      BY <3>1
  <2>2. EntryBlock # a => EntryBlock \in U
    BY <1>4
  <2>3. b \notin U
    BY <1>4
  <2>. HIDE DEF U
  <2> QED
    BY <1>2, <2>1, <2>2, <2>3
<1>9. Dominates(Analyses(g), a, b)
  <2>1. DominatorSets(E, reach)[b] = {x \in reach : b \notin ReachedAvoiding(E, x)}
    BY <1>1, <1>4 DEF DominatorSets, D
  <2> QED
    BY <1>1, <1>5, <1>8, <2>1 DEF Dominates
<1> QED
  BY <1>1, <1>5, <1>7, <1>9

(* The one place where a value is defined. *)
LEMMA DefinedThere ==
  ASSUME NEW g, IsFunction(g), Numbered(g), NEW a \in DOMAIN g.code, NEW j \in DOMAIN g.code[a],
         g.code[a][j].dst # NoValue
  PROVE  LET v == g.code[a][j].dst IN IsDefined(g, v) /\ DefSite(g, v)[1] = a /\ DefSite(g, v)[2] = j
                                          /\ DefSite(g, v) = << a, j >>
<1> DEFINE v == g.code[a][j].dst
           t == <<a, j>>
<1>1. t \in Sites(g) /\ InstrAt(g, t).dst = v
  BY DEF Sites, InstrAt, BlocksOf
<1>2. IsDefined(g, v)
  BY <1>1 DEF IsDefined
<1>3. DefSite(g, v) \in Sites(g) /\ InstrAt(g, DefSite(g, v)).dst = v
  BY <1>1 DEF DefSite
<1>4. DefSite(g, v) = t
  BY <1>1, <1>3 DEF Numbered, SingleAssignment
<1> QED
  BY <1>2, <1>4

(* Unreachable blocks dropped, the verifier accepts the function. *)
LEMMA SoundVerifies ==
  ASSUME NEW f, NEW in, Sound(f, in), \A b \in DOMAIN f.code : IsFinished(f.code[b])
  PROVE  LET g == DropUnreachable(f)
         IN IsFunction(g) /\ Numbered(g) /\ Verifies(g, Analyses(g))
<1> DEFINE g == DropUnreachable(f)
           an == Analyses(g)
<1>1. /\ IsFunction(f) /\ Numbered(f) /\ f.values \in Nat
      /\ DOMAIN f.code = 1 .. Len(f.code) /\ EntryBlock \in DOMAIN f.code
  BY SoundFacts
<1>2. IsFunction(g) /\ g.values = f.values /\ DOMAIN g.code = DOMAIN f.code
      /\ \A b \in DOMAIN f.code : g.code[b] = IF b \in ReachedBlocks(f) THEN f.code[b] ELSE <<>>
  BY <1>1, DroppedUnreachable, FunctionFacts DEF DropUnreachable
<1>. HIDE DEF g
<1>3. Fine(<<>>, f.values) /\ Defs(<<>>) = {} /\ Goes(<<>>) = {}
  BY FineNothing, EmptyIsOpen, OpenFacts
<1>4. Numbered(g)
  <2>1. \A b \in DOMAIN g.code : /\ b \in DOMAIN f.code
                                 /\ Fine(g.code[b], g.values)
                                 /\ Defs(g.code[b]) \subseteq Defs(f.code[b])
    BY <1>2, <1>3 DEF Sound, Coded
  <2> QED
    BY <1>1, <1>2, <2>1, NumberedWithin
<1>5. /\ an.reach = ReachedBlocks(g) /\ an.reach \subseteq DOMAIN g.code
      /\ an.preds = Predecessors(EdgesOf(g), ReachedBlocks(g))
  BY <1>2, Walked
<1>6. ReachedBlocks(g) \subseteq ReachedBlocks(f)
  <2> DEFINE S == ReachedBlocks(f)
             F == EdgesOf(f)
             G == EdgesOf(g)
  <2>1. /\ S = ReachedAvoiding(F, NoValue) /\ DOMAIN F = DOMAIN f.code /\ EntryBlock \in DOMAIN F
        /\ IsFiniteSet(DOMAIN F) /\ \A b \in DOMAIN F : F[b] = Goes(f.code[b]) /\ F[b] \subseteq DOMAIN F
    BY <1>1, Walked
  <2>2. /\ ReachedBlocks(g) = ReachedAvoiding(G, NoValue) /\ DOMAIN G = DOMAIN f.code /\ EntryBlock \in DOMAIN G
        /\ IsFiniteSet(DOMAIN G) /\ \A b \in DOMAIN G : G[b] = Goes(g.code[b]) /\ G[b] \subseteq DOMAIN G
    BY <1>2, Walked
  <2>. HIDE DEF F, G, S
  <2>3. EntryBlock \in S /\ Closed(F, NoValue, S) /\ S \subseteq DOMAIN F
    BY <2>1, WalkSettles DEF EntryBlock, NoValue
  <2>4. Closed(G, NoValue, S)
    BY <1>2, <2>1, <2>2, <2>3 DEF Closed, S
  <2>5. \A U : (EntryBlock # NoValue => EntryBlock \in U) /\ Closed(G, NoValue, U) => ReachedAvoiding(G, NoValue) \subseteq U
    BY <2>2, WalkSettles
  <2> QED
    BY <2>2, <2>3, <2>4, <2>5 DEF S
<1>7. \A b \in an.reach : b \in DOMAIN f.code /\ g.code[b] = f.code[b]
  BY <1>2, <1>5, <1>6
<1>8. \A b \in DOMAIN g.code : \A y \in Goes(g.code[b]) : y # EntryBlock /\ in[y] \subseteq Had(g, in, b)
  <2> SUFFICES ASSUME NEW b \in DOMAIN g.code, NEW y \in Goes(g.code[b])
               PROVE  y # EntryBlock /\ in[y] \subseteq Had(g, in, b)
    OBVIOUS
  <2>1. g.code[b] = f.code[b] /\ b \in DOMAIN f.code
    BY <1>2, <1>3
  <2> QED
    BY <2>1 DEF Sound, Had
<1>9. in[EntryBlock] = {}
  BY DEF Sound
<1>10. an.preds[EntryBlock] = {}
  <2>1. EntryBlock \in DOMAIN EdgesOf(g) /\ \A b \in DOMAIN g.code : EdgesOf(g)[b] = Goes(g.code[b])
    BY <1>2, Walked
  <2>2. \A q \in ReachedBlocks(g) : EntryBlock \notin EdgesOf(g)[q]
    BY <1>5, <1>8, <2>1
  <2> QED
    BY <1>5, <2>1, <2>2 DEF Predecessors
<1>11. ASSUME NEW b \in an.reach PROVE BlockOk(g, an, b)
  <2> DEFINE c == g.code[b]
  <2>1. b \in DOMAIN f.code /\ b \in DOMAIN g.code /\ c = f.code[b]
    BY <1>2, <1>7, <1>11
  <2>2. Coded(c, in[b], f.values) /\ IsFinished(c)
    BY <2>1 DEF Sound
  <2>3. IsSeq(c) /\ Len(c) \in Nat /\ DOMAIN c = 1 .. Len(c) /\ c # <<>> /\ Last(c) = c[Len(c)] /\ Len(c) \in DOMAIN c
    BY <2>2, BlockFacts DEF Coded, IsFinished
  <2>4. IsTerminator(Last(c).op) /\ \A k \in DOMAIN c : IsTerminator(c[k].op) => k = Len(c)
    BY <2>2, <2>3 DEF IsFinished
  <2>5. \A k \in DOMAIN c : c[k].op # "phi" /\ RequiredArgs(c[k]) /\ IsNumbered(c[k], f.values)
    BY <2>2 DEF Coded, NoPhi, Fine, IsNumbered
  <2>6. ASSUME NEW k \in DOMAIN c, NEW v \in Range(c[k].args) PROVE DefReaches(g, an, v, <<b, k>>)
    <3>1. v # NoValue
      BY <1>1, <2>5, <2>6 DEF IsNumbered, NoValue
    <3>2. CASE v \in in[b]
      <4>1. PICK a \in DOMAIN g.code : a # b /\ v \in Defs(g.code[a]) /\ Dominates(an, a, b)
        BY <1>2, <1>4, <1>8, <1>9, <1>11, <3>2, EntryDominated
      <4>2. PICK j \in DOMAIN g.code[a] : g.code[a][j].dst = v
        BY <4>1 DEF Defs
      <4>3. IsDefined(g, v) /\ DefSite(g, v)[1] = a
        BY <1>2, <1>4, <3>1, <4>2, DefinedThere
      <4> QED
        BY <3>1, <4>1, <4>3 DEF DefReaches
    <3>3. CASE v \notin in[b]
      <4>1. PICK j \in DOMAIN c : j < k /\ c[j].dst = v
        BY <2>2, <2>6, <3>3 DEF Coded, Computed
      <4>2. IsDefined(g, v) /\ DefSite(g, v)[1] = b /\ DefSite(g, v)[2] = j
        BY <1>2, <1>4, <2>1, <3>1, <4>1, DefinedThere
      <4> QED
        BY <2>3, <3>1, <4>1, <4>2 DEF DefReaches
    <3> QED
      BY <3>2, <3>3
  <2>7. \A k \in DOMAIN c : \A a \in DOMAIN c[k].args : c[k].args[a] \in Range(c[k].args)
    BY DEF Range
  <2>8. \A k \in DOMAIN c : c[k].dst # NoValue => DefSite(g, c[k].dst) = << b, k >>
    BY <1>2, <1>4, <2>1, DefinedThere
  <2>9. \A k \in DOMAIN c : IsInstr(c[k])
    BY <1>2, <2>1, FunctionFacts DEF IsBlock
  <2>10. ASSUME NEW k \in DOMAIN c
         PROVE  /\ IsTerminator(c[k].op) => k = Len(c)
                /\ c[k].op # "phi" /\ RequiredArgs(c[k])
                /\ c[k].op = "jmp" => DOMAIN c[k].to = 1 .. 1
                /\ c[k].op = "br" => DOMAIN c[k].to = 1 .. 2
                /\ \A a \in DOMAIN c[k].args : DefReaches(g, an, c[k].args[a], << b, k >>)
                /\ c[k].dst # NoValue => DefSite(g, c[k].dst) = << b, k >>
    <3>1. \A a \in DOMAIN c[k].args : DefReaches(g, an, c[k].args[a], << b, k >>)
      BY <2>6, <2>7, <2>10
    <3>2. IsTerminator(c[k].op) => k = Len(c)
      BY <2>4, <2>10
    <3>3. c[k].op # "phi" /\ RequiredArgs(c[k])
      BY <2>5, <2>10
    <3>4. /\ c[k].op = "jmp" => DOMAIN c[k].to = 1 .. 1
          /\ c[k].op = "br" => DOMAIN c[k].to = 1 .. 2
      BY <2>9, <2>10 DEF IsInstr
    <3>5. c[k].dst # NoValue => DefSite(g, c[k].dst) = << b, k >>
      BY <2>8, <2>10
    <3> QED
      BY <3>1, <3>2, <3>3, <3>4, <3>5
  <2>11. c # << >> /\ IsTerminator(Last(c).op)
    BY <2>3, <2>4
  <2>. HIDE DEF an
  <2> QED
    BY <2>10, <2>11 DEF BlockOk
<1>12. Verifies(g, an)
  BY <1>10, <1>11 DEF Verifies
<1> QED
  BY <1>2, <1>4, <1>12 DEF g, an

-----------------------------------------------------------------------------
(* What is left to do, as a chain of steps                                 *)

Kinds == {"none", "value", "slot"}

(* A shape: what waits, whether the block is open, how far a switch is,    *)
(* the marks still to be come to, and the blocks to be opened, each with   *)
(* its level: the values below the level are at hand in it.                *)
Sh(stack, open, cs, left, due) ==
  [stack |-> stack, open |-> open, cases |-> cs, left |-> left, due |-> due]

Collecting(n, rem) == [of |-> n, rem |-> rem]
Idle == Collecting(Nothing, {})

Stamps(C) == {"stamp"} \X C

(* The labels and cases a statement holds, and the cases whose test is     *)
(* inside it.                                                              *)
MarksIn(n) ==
  ({"label"} \X LabelsIn[n]) \cup ({"case"} \X CasesIn[n]) \cup Stamps(CasesIn[n] \ OwnCases[n])

(* No block is due above level n. *)
Low(due, n) == \A d \in due : d[2] <= n

DueBlocks(due) == {d[1] : d \in due}

(* What is to hold before a piece of work, and what does behind it. *)
StatementStep(fn, w, s, t) ==
  /\ w.do = "statement" /\ w.node \in NodesOf[fn]
  /\ s.open = TRUE /\ s.stack = <<>> /\ s.cases = Idle /\ Low(s.due, 0)
  /\ MarksIn(w.node) \subseteq s.left /\ Stamps(OwnCases[w.node]) \cap s.left = {}
  /\ t = Sh(<<>>, TRUE, Idle, s.left \ MarksIn(w.node), s.due)

(* What an expression may leave. *)
KindsOf(n) == {"none"} \cup (IF IsVoid(n) THEN {} ELSE {"value"})

ValueStep(fn, w, s, t) ==
  /\ w.do = "value" /\ w.node \in NodesOf[fn]
  /\ s.open = TRUE /\ Low(s.due, Len(s.stack))
  /\ \E kind \in KindsOf(w.node) : t = Sh(Append(s.stack, kind), TRUE, s.cases, s.left, s.due)

AddressStep(fn, w, s, t) ==
  /\ w.do = "address" /\ w.node \in NodesOf[fn]
  /\ s.open = TRUE /\ Low(s.due, Len(s.stack))
  /\ \E kind \in {"none", "value"} : t = Sh(Append(s.stack, kind), TRUE, s.cases, s.left, s.due)

ParameterStep(w, s, t) == w.do = "parameter" /\ s.open = TRUE /\ s.due = {} /\ t = s

JumpStep(B, w, s, t) ==
  /\ w.do = "jump" /\ s.open = TRUE /\ w.to \in B \cup DueBlocks(s.due)
  /\ t = Sh(s.stack, FALSE, s.cases, s.left, s.due)

BranchStep(B, w, s, t) ==
  /\ w.do = "branch" /\ s.open = TRUE
  /\ \E a, b \in B \cup DueBlocks(s.due) : w.to = <<a, b>>
  /\ \E x \in Seq(Kinds), kind \in {"value", "slot"} :
       /\ s.stack = Append(x, kind) /\ Low(s.due, Len(x) + 1)
       /\ t = Sh(x, FALSE, s.cases, s.left, s.due)

OpenStep(w, s, t) ==
  /\ w.do = "open" /\ s.open = FALSE
  /\ \E d \in s.due :
       /\ w.block = d[1] /\ Low(s.due, d[2])
       /\ \A k \in DOMAIN s.stack : k >= d[2] => s.stack[k] = "slot"
       /\ t = Sh(s.stack, TRUE, s.cases, s.left, s.due \ {d})

OpenNewStep(w, s, t) ==
  /\ w.do = "open new" /\ s.open = FALSE /\ s.stack = <<>> /\ Low(s.due, 0)
  /\ t = Sh(<<>>, TRUE, s.cases, s.left, s.due)

PushLoopStep(B, w, s, t) ==
  w.do = "push loop" /\ w.target.onBreak \in B /\ w.target.onContinue \in B /\ t = s

PopLoopStep(w, s, t) == w.do = "pop loop" /\ t = s

CollectStep(fn, w, s, t) ==
  /\ w.do = "collect" /\ w.node \in NodesOf[fn]
  /\ s.cases.of # Nothing /\ OwnCases[w.node] \subseteq s.cases.rem
  /\ t = Sh(s.stack, s.open, Collecting(s.cases.of, s.cases.rem \ OwnCases[w.node]), s.left, s.due)

PopStep(w, s, t) ==
  /\ w.do \in {"forget", "return"}
  /\ w.do = "return" => s.open = TRUE
  /\ \E x \in Seq(Kinds), kind \in Kinds :
       /\ s.stack = Append(x, kind) /\ Low(s.due, Len(x) + 1)
       /\ t = Sh(x, IF w.do = "forget" THEN s.open ELSE FALSE, s.cases, s.left, s.due)

(* Of what an instruction takes and leaves, y and z say what it is. *)
Suits(w, y, z) ==
  /\ Len(y) = w.takes
  /\ ~ IsTerminator(w.op) /\ w.op \notin {"phi", "alloca"}
  /\ IsSeq(w.uses) /\ \A k \in DOMAIN w.uses : w.uses[k] \in DOMAIN y /\ y[w.uses[k]] # "none"
  /\ IsSeq(w.leaves) /\ DOMAIN z = DOMAIN w.leaves
  /\ \A k \in DOMAIN w.leaves :
       IF w.leaves[k] = Result THEN z[k] = "none" \/ (z[k] = "value" /\ HasResult(w.op, w.ty))
       ELSE w.leaves[k] \in DOMAIN y /\ z[k] \in {"none", y[w.leaves[k]]}
  /\ RequiredArgs([op |-> w.op, args |-> w.uses])

AppendStep(w, s, t) ==
  /\ w.do = "append" /\ s.open = TRUE
  /\ \E x, y, z \in Seq(Kinds) :
       /\ s.stack = x \o y /\ Low(s.due, Len(x) + 1) /\ Suits(w, y, z)
       /\ t = Sh(x \o z, TRUE, s.cases, s.left, s.due)

(* The cases of a switch are tested and its body lowered. *)
SwitchEnd(fn, w, s, t, due) ==
  /\ w.node \in NodesOf[fn] /\ w.node.type = "switch"
  /\ s.open = TRUE /\ Low(s.due, 0)
  /\ MarksIn(w.node.body) \subseteq s.left
  /\ t = Sh(<<>>, TRUE, Idle, s.left \ MarksIn(w.node), due)

TestsStep(fn, w, s, t) ==
  /\ w.do = "tests" /\ SwitchEnd(fn, w, s, t, s.due) /\ s.cases = Collecting(w.node, {})
  /\ \E kind \in {"value", "slot"} : s.stack = <<kind>>

Testing(next, control, done, n) ==
  [do |-> "test", next |-> next, control |-> control, done |-> done, node |-> n]

TestStep(fn, B, w, s, t) ==
  /\ w = Testing(w.next, w.control, w.done, w.node) /\ s.cases = w /\ s.stack = <<>> /\ w.done \in B
  /\ <<w.done, 0>> \in s.due /\ SwitchEnd(fn, w, s, t, s.due \ {<<w.done, 0>>})

(* A piece of work w leads from shape s to shape t, with blocks B to jump  *)
(* to.                                                                     *)
Step(fn, B, w, s, t) ==
  \/ StatementStep(fn, w, s, t) \/ ValueStep(fn, w, s, t) \/ AddressStep(fn, w, s, t)
  \/ ParameterStep(w, s, t) \/ JumpStep(B, w, s, t) \/ BranchStep(B, w, s, t)
  \/ OpenStep(w, s, t) \/ OpenNewStep(w, s, t) \/ PushLoopStep(B, w, s, t) \/ PopLoopStep(w, s, t)
  \/ CollectStep(fn, w, s, t) \/ PopStep(w, s, t) \/ AppendStep(w, s, t)
  \/ TestsStep(fn, w, s, t) \/ TestStep(fn, B, w, s, t)

ChainBy(sh, fn, B, work, s, t) ==
  /\ sh[1] = s /\ sh[Len(work) + 1] = t
  /\ \A k \in DOMAIN work : Step(fn, B, work[k], sh[k], sh[k + 1])

(* A list of work leads from s to t. *)
Chain(fn, B, work, s, t) == IsSeq(work) /\ \E sh : ChainBy(sh, fn, B, work, s, t)

(* Nothing left to do leads nowhere else. *)
LEMMA ChainEmpty ==
  ASSUME NEW fn, NEW B, NEW s, NEW t
  PROVE  Chain(fn, B, <<>>, s, t) <=> s = t
<1>1. IsSeq(<<>>) /\ Len(<<>>) = 0 /\ DOMAIN <<>> = {}
  BY EmptyList, SeqFacts
<1>2. ASSUME Chain(fn, B, <<>>, s, t) PROVE s = t
  BY <1>1, <1>2 DEF Chain, ChainBy
<1>3. ASSUME s = t PROVE Chain(fn, B, <<>>, s, t)
  <2> DEFINE sh == [k \in {1} |-> s]
  <2>1. ChainBy(sh, fn, B, <<>>, s, t)
    BY <1>1, <1>3 DEF ChainBy
  <2> QED
    BY <1>1, <2>1 DEF Chain
<1> QED
  BY <1>2, <1>3

(* Work followed by work. *)
LEMMA ChainJoin ==
  ASSUME NEW fn, NEW B, NEW a, NEW b, NEW s, NEW u, NEW t,
         Chain(fn, B, a, s, u), Chain(fn, B, b, u, t)
  PROVE  Chain(fn, B, a \o b, s, t)
<1>1. IsSeq(a) /\ Len(a) \in Nat /\ DOMAIN a = 1 .. Len(a) /\ IsSeq(b) /\ Len(b) \in Nat /\ DOMAIN b = 1 .. Len(b)
  BY SeqFacts DEF Chain
<1>2. PICK f : ChainBy(f, fn, B, a, s, u)
  BY DEF Chain
<1>3. PICK g : ChainBy(g, fn, B, b, u, t)
  BY DEF Chain
<1> DEFINE w == a \o b
           sh == [k \in 1 .. Len(a) + Len(b) + 1 |-> IF k <= Len(a) THEN f[k] ELSE g[k - Len(a)]]
<1>4. /\ IsSeq(w) /\ Len(w) = Len(a) + Len(b) /\ DOMAIN w = 1 .. Len(a) + Len(b)
      /\ \A k \in 1 .. Len(a) + Len(b) : w[k] = IF k <= Len(a) THEN a[k] ELSE b[k - Len(a)]
  BY <1>1, JoinedSeq
<1>. HIDE DEF w
<1>5. f[1] = s /\ f[Len(a) + 1] = u /\ g[1] = u /\ g[Len(b) + 1] = t
  BY <1>2, <1>3 DEF ChainBy
<1>6. \A k \in 1 .. Len(a) + 1 : sh[k] = f[k]
  BY <1>1, <1>5
<1>7. \A k \in 1 .. Len(b) + 1 : sh[k + Len(a)] = g[k]
  BY <1>1, <1>5
<1>. HIDE DEF sh
<1>8. sh[1] = s /\ sh[Len(w) + 1] = t
  BY <1>1, <1>4, <1>5, <1>6, <1>7
<1>9. ASSUME NEW k \in DOMAIN w PROVE Step(fn, B, w[k], sh[k], sh[k + 1])
  <2>1. CASE k <= Len(a)
    <3>1. k \in DOMAIN a /\ w[k] = a[k] /\ sh[k] = f[k] /\ sh[k + 1] = f[k + 1]
      BY <1>1, <1>4, <1>6, <2>1
    <3> QED
      BY <1>2, <3>1 DEF ChainBy
  <2>2. CASE k > Len(a)
    <3> DEFINE j == k - Len(a)
    <3>1. j \in DOMAIN b /\ j \in 1 .. Len(b) /\ j + 1 \in 1 .. Len(b) + 1 /\ w[k] = b[j] /\ k = j + Len(a)
      BY <1>1, <1>4, <2>2
    <3>2. sh[k] = g[j] /\ sh[k + 1] = g[j + 1]
      <4>1. sh[j + Len(a)] = g[j] /\ sh[(j + 1) + Len(a)] = g[j + 1]
        BY <1>1, <1>7, <3>1
      <4>2. (j + 1) + Len(a) = k + 1
        BY <1>1, <3>1
      <4> QED
        BY <3>1, <4>1, <4>2
    <3> QED
      BY <1>3, <3>1, <3>2 DEF ChainBy
  <2> QED
    BY <1>1, <1>4, <2>1, <2>2
<1>10. ChainBy(sh, fn, B, w, s, t)
  BY <1>8, <1>9 DEF ChainBy
<1> QED
  BY <1>4, <1>10 DEF Chain, w

(* One piece of work. *)
LEMMA ChainOne ==
  ASSUME NEW fn, NEW B, NEW w, NEW s, NEW t, Step(fn, B, w, s, t)
  PROVE  Chain(fn, B, <<w>>, s, t)
<1> DEFINE c == <<w>>
           sh == [k \in 1 .. 2 |-> IF k = 1 THEN s ELSE t]
<1>1. IsSeq(c) /\ Len(c) = 1 /\ DOMAIN c = {1} /\ c[1] = w
  <2>1. c \in Seq({w}) /\ Len(c) = 1 /\ c[1] = w /\ DOMAIN c = {1}
    OBVIOUS
  <2> QED
    BY <2>1, TypedSeq
<1>2. sh[1] = s /\ sh[2] = t
  OBVIOUS
<1>. HIDE DEF c, sh
<1>3. ChainBy(sh, fn, B, c, s, t)
  BY <1>1, <1>2 DEF ChainBy
<1> QED
  BY <1>1, <1>3 DEF Chain, c

(* A list and its first piece of work. *)
LEMMA Consed ==
  ASSUME NEW a, IsSeq(a), a # <<>>
  PROVE  IsSeq(Tail(a)) /\ a = <<Head(a)>> \o Tail(a) /\ Head(a) = a[1] /\ Len(a) >= 1
         /\ Len(Tail(a)) = Len(a) - 1 /\ \A k \in 1 .. Len(a) - 1 : Tail(a)[k] = a[k + 1]
<1>1. a \in Seq(Range(a)) /\ Len(a) \in Nat /\ Len(a) >= 1 /\ DOMAIN a = 1 .. Len(a)
  BY SeqFacts DEF IsSeq
<1>2. Tail(a) \in Seq(Range(a)) /\ Head(a) = a[1] /\ Len(Tail(a)) = Len(a) - 1
      /\ \A k \in 1 .. Len(a) - 1 : Tail(a)[k] = a[k + 1]
  BY <1>1, HeadTailProperties
<1>3. a = <<Head(a)>> \o Tail(a)
  BY <1>1, HeadTailProperties
<1> QED
  BY <1>1, <1>2, <1>3, TypedSeq

(* Work begins with its first piece. *)
LEMMA ChainHead ==
  ASSUME NEW fn, NEW B, NEW work, NEW s, NEW t, Chain(fn, B, work, s, t), work # <<>>
  PROVE  \E u : Step(fn, B, Head(work), s, u) /\ Chain(fn, B, Tail(work), u, t)
<1>1. IsSeq(work) /\ Len(work) \in Nat /\ DOMAIN work = 1 .. Len(work)
  BY SeqFacts DEF Chain
<1>2. IsSeq(Tail(work)) /\ Head(work) = work[1] /\ Len(work) >= 1 /\ Len(Tail(work)) = Len(work) - 1
      /\ \A k \in 1 .. Len(work) - 1 : Tail(work)[k] = work[k + 1]
  BY <1>1, Consed
<1>3. PICK f : ChainBy(f, fn, B, work, s, t)
  BY DEF Chain
<1> DEFINE sh == [k \in 1 .. Len(work) |-> f[k + 1]]
           r == Tail(work)
<1>4. sh[1] = f[2] /\ sh[Len(r) + 1] = f[Len(work) + 1] /\ \A k \in 1 .. Len(work) : sh[k] = f[k + 1]
  BY <1>1, <1>2
<1>5. DOMAIN r = 1 .. Len(work) - 1
  BY <1>2, SeqFacts
<1>. HIDE DEF sh, r
<1>6. ASSUME NEW k \in DOMAIN r PROVE Step(fn, B, r[k], sh[k], sh[k + 1])
  <2>1. k + 1 \in DOMAIN work /\ r[k] = work[k + 1] /\ sh[k] = f[k + 1] /\ sh[k + 1] = f[(k + 1) + 1]
    BY <1>1, <1>2, <1>4, <1>5 DEF r
  <2> QED
    BY <1>3, <2>1 DEF ChainBy
<1>7. ChainBy(sh, fn, B, r, f[2], t)
  BY <1>3, <1>4, <1>6 DEF ChainBy
<1>8. Chain(fn, B, r, f[2], t)
  BY <1>2, <1>7 DEF Chain, r
<1>9. Step(fn, B, work[1], s, f[2])
  <2>1. 1 \in DOMAIN work /\ 1 + 1 = 2
    BY <1>1, <1>2
  <2> QED
    BY <1>3, <2>1 DEF ChainBy
<1> QED
  BY <1>2, <1>8, <1>9 DEF r

(* What is a step stays one when there are more blocks to jump to. *)
LEMMA StepMore ==
  ASSUME NEW fn, NEW B, NEW C, B \subseteq C, NEW w, NEW s, NEW t, Step(fn, B, w, s, t)
  PROVE  Step(fn, C, w, s, t)
<1>1. JumpStep(B, w, s, t) => JumpStep(C, w, s, t)
  BY DEF JumpStep
<1>2. BranchStep(B, w, s, t) => BranchStep(C, w, s, t)
  BY DEF BranchStep
<1>3. PushLoopStep(B, w, s, t) => PushLoopStep(C, w, s, t)
  BY DEF PushLoopStep
<1>4. TestStep(fn, B, w, s, t) => TestStep(fn, C, w, s, t)
  BY DEF TestStep
<1> QED
  BY <1>1, <1>2, <1>3, <1>4 DEF Step

(* So does what is left to do. *)
LEMMA ChainMore ==
  ASSUME NEW fn, NEW B, NEW C, B \subseteq C, NEW work, NEW s, NEW t, Chain(fn, B, work, s, t)
  PROVE  Chain(fn, C, work, s, t)
<1>1. PICK f : ChainBy(f, fn, B, work, s, t)
  BY DEF Chain
<1>2. ChainBy(f, fn, C, work, s, t)
  BY <1>1, StepMore DEF ChainBy
<1> QED
  BY <1>2 DEF Chain

(* A list every piece of which has its shapes given. *)
LEMMA ChainAlong ==
  ASSUME NEW fn, NEW B, NEW n \in Nat, NEW work, work = [k \in 1 .. n |-> work[k]], NEW sh,
         \A k \in 1 .. n : Step(fn, B, work[k], sh[k], sh[k + 1])
  PROVE  Chain(fn, B, work, sh[1], sh[n + 1])
<1>1. IsSeq(work) /\ Len(work) = n /\ DOMAIN work = 1 .. n
  BY ListIs
<1>2. ChainBy(sh, fn, B, work, sh[1], sh[n + 1])
  BY <1>1 DEF ChainBy
<1> QED
  BY <1>1, <1>2 DEF Chain

-----------------------------------------------------------------------------
(* The nodes *)

(* What is known of every node of a function: the nodes beneath it are of  *)
(* that function too, and each is typed and labelled as analysis leaves    *)
(* it.                                                                     *)
LEMMA NodeFacts ==
  ASSUME NEW fn \in AllFunctions, NEW n \in NodesOf[fn]
  PROVE  /\ n \in AllNodes /\ Beneath(n) \subseteq NodesOf[fn] /\ WellTyped(n) /\ WellLabelled(n)
         /\ n.type = "goto" => n.name \in LabelsIn[fn.body]
         /\ IsSeq(Within(n)) /\ Range(Within(n)) \subseteq NodesOf[fn]
         /\ LabelsIn[n] = LabelsAt(n, LabelsIn) /\ CasesIn[n] = CasesAt(n, CasesIn)
         /\ OwnCases[n] = IF n.type = "switch" THEN {} ELSE CasesAt(n, OwnCases)
         /\ OwnCases[n] \subseteq CasesIn[n]
<1>1. n \in AllNodes
  BY DEF AllNodes
<1>2. /\ Beneath(n) \subseteq NodesOf[fn] /\ WellTyped(n) /\ WellLabelled(n)
      /\ n.type = "goto" => n.name \in LabelsIn[fn.body]
  BY SourcesAnalysed DEF WellFormedTree
<1>3. /\ LabelsIn[n] = LabelsAt(n, LabelsIn) /\ CasesIn[n] = CasesAt(n, CasesIn)
      /\ OwnCases[n] = IF n.type = "switch" THEN {} ELSE CasesAt(n, OwnCases)
      /\ OwnCases[n] \subseteq CasesIn[n]
  BY <1>1, TreesFinite
<1>4. IsSeq(Within(n))
  BY <1>2 DEF WellLabelled
<1>5. Range(Within(n)) \subseteq NodesOf[fn]
  BY <1>2 DEF Beneath
<1> QED
  BY <1>1, <1>2, <1>3, <1>4, <1>5

(* The operands of each kind of node are beneath it. *)
LEMMA BeneathFacts ==
  ASSUME NEW n
  PROVE  /\ n.type \in {"dereference", "field", "address", "cast", "unary", "step",
                        "expression", "return", "if", "while", "do", "switch"} => n.left \in Beneath(n)
         /\ n.type \in {"subscript", "assign", "comma", "binary", "and", "or"} => n.left \in Beneath(n) /\ n.right \in Beneath(n)
         /\ n.type = "conditional" => n.left \in Beneath(n) /\ n.then \in Beneath(n) /\ n.else \in Beneath(n)
         /\ n.type = "call" => Range(n.args) \subseteq Beneath(n)
         /\ n.type = "for" => n.left \in Beneath(n) /\ n.init \in Beneath(n) /\ n.post \in Beneath(n)
         /\ n.type = "declaration" /\ n.init.type # "braces" => Beneath(n) = Range(Within(n)) \cup {n.init}
         /\ n.type = "declaration" /\ n.init.type = "braces" =>
              Beneath(n) = Range(Within(n)) \cup {i.value : i \in Range(n.init.items)}
BY DEF Beneath

(* The statements a statement consists of. *)
LEMMA WithinFacts ==
  ASSUME NEW n
  PROVE  /\ n.type = "block" => Within(n) = n.body
         /\ n.type = "if" => Within(n) = <<n.then, n.else>>
         /\ n.type \in {"while", "do", "for", "switch", "label", "case", "default"} => Within(n) = <<n.body>>
         /\ n.type \notin {"block", "if", "while", "do", "for", "switch", "label", "case", "default"} => Within(n) = <<>>
BY DEF Within

(* Short lists, as what they hold. *)
LEMMA RangeOfOne == ASSUME NEW a PROVE Range(<<a>>) = {a} /\ DOMAIN <<a>> = {1} /\ <<a>>[1] = a
BY DEF Range
LEMMA RangeOfTwo == ASSUME NEW a, NEW b PROVE Range(<<a, b>>) = {a, b} /\ DOMAIN <<a, b>> = {1, 2} /\ <<a, b>>[1] = a /\ <<a, b>>[2] = b
BY DEF Range

(* Short lists, as the first and the rest. *)
LEMMA TwoIs == ASSUME NEW a, NEW b PROVE <<a, b>> = <<a>> \o <<b>>
<1> DEFINE S == {a, b}
           u == <<a>>
           v == <<b>>
           w == <<a, b>>
<1>1. u \in Seq(S) /\ v \in Seq(S) /\ w \in Seq(S) /\ Len(u) = 1 /\ Len(v) = 1 /\ Len(w) = 2
      /\ u[1] = a /\ v[1] = b /\ w[1] = a /\ w[2] = b
  OBVIOUS
<1>. HIDE DEF S, u, v, w
<1>2. u \o v \in Seq(S) /\ Len(u \o v) = 2 /\ (u \o v)[1] = a /\ (u \o v)[2] = b
  BY <1>1, ConcatProperties
<1>3. w = u \o v
  BY <1>1, <1>2, SeqEqual
<1> QED
  BY <1>3 DEF u, v, w

LEMMA ThreeIs == ASSUME NEW a, NEW b, NEW c PROVE <<a, b, c>> = <<a>> \o <<b, c>>
OBVIOUS
LEMMA FourIs == ASSUME NEW a, NEW b, NEW c, NEW d PROVE <<a, b, c, d>> = <<a>> \o <<b, c, d>>
OBVIOUS
LEMMA FiveIs == ASSUME NEW a, NEW b, NEW c, NEW d, NEW e PROVE <<a, b, c, d, e>> = <<a>> \o <<b, c, d, e>>
OBVIOUS
LEMMA EightIs ==
  ASSUME NEW a, NEW b, NEW c, NEW d, NEW e, NEW f, NEW g, NEW h
  PROVE  <<a, b, c, d, e, f, g, h>> = <<a, b, c, d>> \o <<e, f, g, h>>
BY SMTT(30)
(* The operands. *)
LEMMA TypedFacts ==
  ASSUME NEW n, WellTyped(n)
  PROVE  /\ n.type \in {"dereference", "unary", "if", "while", "do", "switch"} => ~ IsVoid(n.left)
         /\ n.type \in {"subscript", "binary", "and", "or"} => ~ IsVoid(n.left) /\ ~ IsVoid(n.right)
         /\ n.type = "cast" /\ n.ty # n.left.ty => ~ IsVoid(n.left)
         /\ n.type = "cast" /\ n.ty = n.left.ty => (IsVoid(n.left) => IsVoid(n))
         /\ n.type = "comma" => (IsVoid(n.right) => IsVoid(n))
         /\ n.type = "assign" => ~ IsVoid(n.right)
         /\ n.type = "conditional" => ~ IsVoid(n.left) /\ ~ IsVoid(n.then) /\ ~ IsVoid(n.else)
         /\ n.type = "call" => \A a \in Range(n.args) : ~ IsVoid(a)
         /\ n.type = "for" => n.left = Nothing \/ ~ IsVoid(n.left)
         /\ n.type = "declaration" => \A a \in Beneath(n) \ ({n.init} \cap {Nothing}) : ~ IsVoid(a)
<1>1. /\ \A m \in Operands(n) : ~ IsVoid(m)
      /\ \A m \in HandedOn(n) : IsVoid(m) => IsVoid(n)
  BY DEF WellTyped
<1>2. /\ n.type \in {"dereference", "unary", "if", "while", "do", "switch"} => n.left \in Operands(n)
      /\ n.type \in {"subscript", "binary", "and", "or"} => n.left \in Operands(n) /\ n.right \in Operands(n)
      /\ n.type = "cast" /\ n.ty # n.left.ty => n.left \in Operands(n)
      /\ n.type = "assign" => n.right \in Operands(n)
      /\ n.type = "conditional" => {n.left, n.then, n.else} \subseteq Operands(n)
      /\ n.type = "call" => Range(n.args) \subseteq Operands(n)
      /\ n.type = "for" /\ n.left # Nothing => n.left \in Operands(n)
      /\ n.type = "declaration" => Beneath(n) \ ({n.init} \cap {Nothing}) \subseteq Operands(n)
  BY DEF Operands
<1>3. /\ n.type = "cast" /\ n.ty = n.left.ty => n.left \in HandedOn(n)
      /\ n.type = "comma" => n.right \in HandedOn(n)
  BY DEF HandedOn
<1> QED
  BY <1>1, <1>2, <1>3

-----------------------------------------------------------------------------
(* Pieces of work, and short lists of them *)

(* Short lists of work, by the shapes between the pieces. *)
LEMMA ChainTwo ==
  ASSUME NEW fn, NEW B, NEW a, NEW b, NEW s, NEW u, NEW t, Step(fn, B, a, s, u), Step(fn, B, b, u, t)
  PROVE  Chain(fn, B, <<a, b>>, s, t)
<1>1. Chain(fn, B, <<a>> \o <<b>>, s, t)
  BY ChainOne, ChainJoin
<1> QED
  BY <1>1, TwoIs

LEMMA ChainThree ==
  ASSUME NEW fn, NEW B, NEW a, NEW b, NEW c, NEW s, NEW u, NEW v, NEW t,
         Step(fn, B, a, s, u), Step(fn, B, b, u, v), Step(fn, B, c, v, t)
  PROVE  Chain(fn, B, <<a, b, c>>, s, t)
<1>1. Chain(fn, B, <<a>>, s, u) /\ Chain(fn, B, <<b, c>>, u, t)
  BY ChainOne, ChainTwo
<1>2. Chain(fn, B, <<a>> \o <<b, c>>, s, t)
  BY <1>1, ChainJoin
<1> QED
  BY <1>2, ThreeIs

LEMMA ChainFour ==
  ASSUME NEW fn, NEW B, NEW a, NEW b, NEW c, NEW d, NEW s, NEW u, NEW v, NEW w, NEW t,
         Step(fn, B, a, s, u), Step(fn, B, b, u, v), Step(fn, B, c, v, w), Step(fn, B, d, w, t)
  PROVE  Chain(fn, B, <<a, b, c, d>>, s, t)
<1>1. Chain(fn, B, <<a>>, s, u) /\ Chain(fn, B, <<b, c, d>>, u, t)
  BY ChainOne, ChainThree
<1>2. Chain(fn, B, <<a>> \o <<b, c, d>>, s, t)
  BY <1>1, ChainJoin
<1> QED
  BY <1>2, FourIs

LEMMA ChainFive ==
  ASSUME NEW fn, NEW B, NEW a, NEW b, NEW c, NEW d, NEW e, NEW s, NEW u, NEW v, NEW w, NEW x, NEW t,
         Step(fn, B, a, s, u), Step(fn, B, b, u, v), Step(fn, B, c, v, w), Step(fn, B, d, w, x), Step(fn, B, e, x, t)
  PROVE  Chain(fn, B, <<a, b, c, d, e>>, s, t)
<1>1. Chain(fn, B, <<a>>, s, u) /\ Chain(fn, B, <<b, c, d, e>>, u, t)
  BY ChainOne, ChainFour
<1>2. Chain(fn, B, <<a>> \o <<b, c, d, e>>, s, t)
  BY <1>1, ChainJoin
<1> QED
  BY <1>2, FiveIs

-----------------------------------------------------------------------------
(* The values waiting *)

(* A block is due once. *)
IsDue(due) == due \subseteq Nat \X Nat /\ \A d, e \in due : d[1] = e[1] => d = e

IsShape(s) ==
  /\ s = Sh(s.stack, s.open, s.cases, s.left, s.due)
  /\ s.stack \in Seq(Kinds) /\ s.open \in BOOLEAN /\ IsDue(s.due)

(* The shape s with more values waiting, control running on. *)
Ex(s, y) == Sh(s.stack \o y, TRUE, s.cases, s.left, s.due)

(* Short lists of kinds. *)
LEMMA KindLists ==
  /\ <<>> \in Seq(Kinds)
  /\ \A a \in Kinds : <<a>> \in Seq(Kinds) /\ Append(<<>>, a) = <<a>>
  /\ \A a, b \in Kinds : <<a, b>> \in Seq(Kinds) /\ Append(<<a>>, b) = <<a, b>>
  /\ \A a, b, c \in Kinds : <<a, b, c>> \in Seq(Kinds) /\ Append(<<a, b>>, c) = <<a, b, c>>
  /\ "none" \in Kinds /\ "value" \in Kinds /\ "slot" \in Kinds
<1>1. "none" \in Kinds /\ "value" \in Kinds /\ "slot" \in Kinds
  BY DEF Kinds
<1>2. <<>> \in Seq(Kinds)
  OBVIOUS
<1>3. \A a \in Kinds : <<a>> \in Seq(Kinds) /\ Append(<<>>, a) = <<a>>
  OBVIOUS
<1>4. ASSUME NEW a \in Kinds, NEW b \in Kinds PROVE <<a, b>> \in Seq(Kinds) /\ Append(<<a>>, b) = <<a, b>>
  <2> DEFINE u == <<a>>
             w == <<a, b>>
  <2>3. u \in Seq(Kinds) /\ Len(u) = 1 /\ u[1] = a
    OBVIOUS
  <2>4. Len(w) = 2 /\ w[1] = a /\ w[2] = b
    OBVIOUS
  <2>5. w \in Seq(Kinds)
    OBVIOUS
  <2>1. u \in Seq(Kinds) /\ Len(u) = 1 /\ u[1] = a /\ w \in Seq(Kinds) /\ Len(w) = 2 /\ w[1] = a /\ w[2] = b
    BY <2>3, <2>4, <2>5
  <2>. HIDE DEF u, w
  <2>8. IsSeq(u)
    BY <2>1, TypedSeq
  <2>9. Append(u, b) \in Seq(Kinds)
    BY <2>1
  <2>7. /\ Append(u, b) \in Seq(Kinds) /\ Len(Append(u, b)) = Len(u) + 1 /\ Append(u, b)[Len(u) + 1] = b
        /\ \A i \in 1 .. Len(u) : Append(u, b)[i] = u[i]
    BY <2>8, <2>9, Appended
  <2>2. Append(u, b) \in Seq(Kinds) /\ Len(Append(u, b)) = 2 /\ Append(u, b)[1] = a /\ Append(u, b)[2] = b
    BY <2>1, <2>7
  <2>6. Append(u, b) = w
    BY <2>1, <2>2, SeqEqual
  <2> QED
    BY <2>1, <2>6 DEF u, w
<1>5. ASSUME NEW a \in Kinds, NEW b \in Kinds, NEW c \in Kinds
      PROVE  <<a, b, c>> \in Seq(Kinds) /\ Append(<<a, b>>, c) = <<a, b, c>>
  <2> DEFINE u == <<a, b>>
             w == <<a, b, c>>
  <2>3. u \in Seq(Kinds)
    BY <1>4
  <2>4. w \in Seq(Kinds)
    OBVIOUS
  <2>5. Len(u) = 2 /\ u[1] = a /\ u[2] = b /\ Len(w) = 3 /\ w[1] = a /\ w[2] = b /\ w[3] = c
    OBVIOUS
  <2>1. u \in Seq(Kinds) /\ Len(u) = 2 /\ u[1] = a /\ u[2] = b
        /\ w \in Seq(Kinds) /\ Len(w) = 3 /\ w[1] = a /\ w[2] = b /\ w[3] = c
    BY <2>3, <2>4, <2>5
  <2>. HIDE DEF u, w
  <2>8. IsSeq(u)
    BY <2>1, TypedSeq
  <2>9. Append(u, c) \in Seq(Kinds)
    BY <2>1
  <2>7. /\ Append(u, c) \in Seq(Kinds) /\ Len(Append(u, c)) = Len(u) + 1 /\ Append(u, c)[Len(u) + 1] = c
        /\ \A i \in 1 .. Len(u) : Append(u, c)[i] = u[i]
    BY <2>8, <2>9, Appended
  <2>2. /\ Append(u, c) \in Seq(Kinds) /\ Len(Append(u, c)) = 3
        /\ Append(u, c)[1] = a /\ Append(u, c)[2] = b /\ Append(u, c)[3] = c
    BY <2>1, <2>7
  <2>6. Append(u, c) = w
    BY <2>1, <2>2, SeqEqual
  <2> QED
    BY <2>1, <2>6 DEF u, w
<1> QED
  BY <1>1, <1>2, <1>3, <1>4, <1>5

(* More values on top of those that wait. *)
LEMMA Piled ==
  ASSUME NEW x \in Seq(Kinds), NEW y \in Seq(Kinds), NEW k \in Kinds
  PROVE  /\ Append(x \o y, k) = x \o Append(y, k) /\ x \o y \in Seq(Kinds)
         /\ x \o <<>> = x /\ Append(x, k) = x \o <<k>> /\ Append(x, k) \in Seq(Kinds)
         /\ Len(x \o y) = Len(x) + Len(y) /\ Len(x) \in Nat /\ Len(y) \in Nat
<1>1. x \o y \in Seq(Kinds) /\ Len(x \o y) = Len(x) + Len(y)
  BY ConcatProperties
<1>2. <<k>> \in Seq(Kinds)
  BY KindLists
<1>3. Append(x \o y, k) = (x \o y) \o <<k>> /\ Append(y, k) = y \o <<k>> /\ Append(x, k) = x \o <<k>>
  BY <1>1, AppendIsConcat
<1>4. (x \o y) \o <<k>> = x \o (y \o <<k>>)
  BY <1>2, ConcatAssociative
<1>5. x \o <<>> = x
  BY ConcatEmptySeq
<1>6. Len(x) \in Nat /\ Len(y) \in Nat /\ Append(x, k) \in Seq(Kinds)
  BY LenProperties, AppendProperties
<1> QED
  BY <1>1, <1>3, <1>4, <1>5, <1>6

(* The parts of a shape with more values waiting. *)
LEMMA ExFacts ==
  ASSUME NEW s, IsShape(s), NEW y \in Seq(Kinds)
  PROVE  /\ s.open = TRUE => Ex(s, <<>>) = s
         /\ Ex(s, y).stack = s.stack \o y /\ Ex(s, y).open = TRUE /\ Ex(s, y).cases = s.cases
         /\ Ex(s, y).left = s.left /\ Ex(s, y).due = s.due
         /\ IsShape(Ex(s, y))
         /\ Ex(s, y) = Sh(s.stack \o y, TRUE, s.cases, s.left, s.due)
<1>1. s.stack \in Seq(Kinds)
  BY DEF IsShape
<1>2. s.stack \o <<>> = s.stack /\ s.stack \o y \in Seq(Kinds)
  BY <1>1
<1>3. s.open = TRUE => Ex(s, <<>>) = s
  BY <1>2 DEF Ex, IsShape
<1>4. /\ Ex(s, y).stack = s.stack \o y /\ Ex(s, y).open = TRUE /\ Ex(s, y).cases = s.cases
      /\ Ex(s, y).left = s.left /\ Ex(s, y).due = s.due
      /\ Ex(s, y) = Sh(s.stack \o y, TRUE, s.cases, s.left, s.due)
  BY DEF Ex, Sh
<1>5. IsShape(Ex(s, y))
  BY <1>2, <1>4 DEF IsShape
<1> QED
  BY <1>3, <1>4, <1>5

(* A node of which a value is wanted, of which an address is. *)
LEMMA ValueOver ==
  ASSUME NEW fn, NEW B, NEW s, IsShape(s), Low(s.due, Len(s.stack)),
         NEW n \in NodesOf[fn], NEW y \in Seq(Kinds), NEW k \in KindsOf(n)
  PROVE  Step(fn, B, Value(n), Ex(s, y), Ex(s, Append(y, k)))
<1>1. k \in Kinds
  BY KindLists DEF KindsOf
<1>2. s.stack \in Seq(Kinds) /\ s.due \subseteq Nat \X Nat
  BY DEF IsShape, IsDue
<1>3. Append(s.stack \o y, k) = s.stack \o Append(y, k) /\ Len(s.stack \o y) = Len(s.stack) + Len(y)
      /\ Len(s.stack) \in Nat /\ Len(y) \in Nat
  BY <1>1, <1>2, Piled
<1>4. Low(s.due, Len(s.stack \o y))
  BY <1>2, <1>3 DEF Low
<1>5. Append(y, k) \in Seq(Kinds)
  BY <1>1, Piled
<1> DEFINE a == Ex(s, y)
           b == Ex(s, Append(y, k))
           w == Value(n)
<1>6. /\ a.stack = s.stack \o y /\ a.open = TRUE /\ a.cases = s.cases /\ a.left = s.left /\ a.due = s.due
      /\ b = Sh(s.stack \o Append(y, k), TRUE, s.cases, s.left, s.due)
  BY DEF Ex, Sh
<1>7. w.do = "value" /\ w.node = n
  BY DEF Value
<1>. HIDE DEF a, b, w
<1>8. ValueStep(fn, w, a, b)
  BY <1>3, <1>4, <1>6, <1>7 DEF ValueStep
<1> QED
  BY <1>8 DEF Step, w, a, b

(* The same of an address. *)
LEMMA AddressOver ==
  ASSUME NEW fn, NEW B, NEW s, IsShape(s), Low(s.due, Len(s.stack)),
         NEW n \in NodesOf[fn], NEW y \in Seq(Kinds), NEW k \in {"none", "value"}
  PROVE  Step(fn, B, Address(n), Ex(s, y), Ex(s, Append(y, k)))
<1>2. s.stack \in Seq(Kinds) /\ s.due \subseteq Nat \X Nat
  BY DEF IsShape, IsDue
<1>1. k \in Kinds
  BY KindLists
<1>3. Append(s.stack \o y, k) = s.stack \o Append(y, k) /\ Len(s.stack \o y) = Len(s.stack) + Len(y)
      /\ Len(s.stack) \in Nat /\ Len(y) \in Nat
  BY <1>1, <1>2, Piled
<1>4. Low(s.due, Len(s.stack \o y))
  BY <1>2, <1>3 DEF Low
<1>5. Append(y, k) \in Seq(Kinds)
  BY <1>1, Piled
<1> DEFINE a == Ex(s, y)
           b == Ex(s, Append(y, k))
           w == Address(n)
<1>6. /\ a.stack = s.stack \o y /\ a.open = TRUE /\ a.cases = s.cases /\ a.left = s.left /\ a.due = s.due
      /\ b = Sh(s.stack \o Append(y, k), TRUE, s.cases, s.left, s.due)
  BY DEF Ex, Sh
<1>7. w.do = "address" /\ w.node = n
  BY DEF Address
<1>. HIDE DEF a, b, w
<1>8. AddressStep(fn, w, a, b)
  BY <1>3, <1>4, <1>6, <1>7 DEF AddressStep
<1> QED
  BY <1>8 DEF Step, w, a, b

(* An instruction on the values waiting. *)
LEMMA AppendOver ==
  ASSUME NEW fn, NEW B, NEW s, IsShape(s), Low(s.due, Len(s.stack) + 1),
         NEW y \in Seq(Kinds), NEW z \in Seq(Kinds), NEW w, w.do = "append", Suits(w, y, z)
  PROVE  Step(fn, B, w, Ex(s, y), Ex(s, z))
<1>1. s.stack \in Seq(Kinds)
  BY DEF IsShape
<1> DEFINE a == Ex(s, y)
           b == Ex(s, z)
<1>2. /\ a.stack = s.stack \o y /\ a.open = TRUE /\ a.cases = s.cases /\ a.left = s.left /\ a.due = s.due
      /\ b = Sh(s.stack \o z, TRUE, s.cases, s.left, s.due)
  BY DEF Ex, Sh
<1>. HIDE DEF a, b
<1>3. AppendStep(w, a, b)
  BY <1>1, <1>2 DEF AppendStep
<1> QED
  BY <1>3 DEF Step, a, b

(* No block is due one level up that was not due before. *)
LEMMA Lower1 ==
  ASSUME NEW s, IsShape(s), Low(s.due, Len(s.stack))
  PROVE  Low(s.due, Len(s.stack) + 1)
<1>1. s.stack \in Seq(Kinds) /\ s.due \subseteq Nat \X Nat /\ Len(s.stack) \in Nat
  BY DEF IsShape, IsDue
<1> QED
  BY <1>1 DEF Low

(* A constant, or the address of what has a name. *)
LEMMA PushOver ==
  ASSUME NEW fn, NEW B, NEW s, IsShape(s), Low(s.due, Len(s.stack)), NEW y \in Seq(Kinds),
         NEW k \in {"none", "value"}, NEW op \in {"const", "global"}, NEW w, NEW ty, w.do = "append", w.op = op, w.takes = 0,
         w.uses = <<>>, w.leaves = <<Result>>, w.ty = ty
  PROVE  Step(fn, B, w, Ex(s, y), Ex(s, Append(y, k)))
<1>1. s.stack \in Seq(Kinds) /\ s.due \subseteq Nat \X Nat
  BY DEF IsShape, IsDue
<1> DEFINE x == s.stack \o y
<1>9. k \in Kinds
  BY KindLists
<1>2. /\ Append(x, k) = s.stack \o Append(y, k) /\ Len(x) = Len(s.stack) + Len(y)
      /\ Len(s.stack) \in Nat /\ Len(y) \in Nat /\ x \in Seq(Kinds) /\ Append(y, k) \in Seq(Kinds)
  BY <1>1, <1>9, Piled
<1>5. Append(x, k) = x \o <<k>> /\ x \o <<>> = x
  BY <1>2, <1>9, Piled
<1>3. Low(s.due, Len(x) + 1)
  BY <1>1, <1>2 DEF Low
<1>4. Suits(w, <<>>, <<k>>)
  <2> DEFINE z == <<k>>
             l == <<Result>>
             e == <<>>
  <2>1. IsSeq(e) /\ Len(e) = 0 /\ DOMAIN e = {}
    BY EmptyList, SeqFacts
  <2>2. DOMAIN z = {1} /\ z[1] = k /\ DOMAIN l = {1} /\ l[1] = Result
    OBVIOUS
  <2>3. IsSeq(l)
    <3>1. l \in Seq({Result})
      OBVIOUS
    <3> QED
      BY <3>1, TypedSeq
  <2>. HIDE DEF z, l, e
  <2>4. Suits(w, e, z)
    BY <2>1, <2>2, <2>3 DEF Suits, IsTerminator, RequiredArgs, HasResult, e, l
  <2> QED
    BY <2>4 DEF e, z
<1> DEFINE a == Ex(s, y)
           b == Ex(s, Append(y, k))
<1>6. /\ a.stack = x /\ a.open = TRUE /\ a.cases = s.cases /\ a.left = s.left /\ a.due = s.due
      /\ b = Sh(s.stack \o Append(y, k), TRUE, s.cases, s.left, s.due)
  BY DEF Ex, Sh
<1>7. <<>> \in Seq(Kinds) /\ <<k>> \in Seq(Kinds)
  BY KindLists
<1>. HIDE DEF a, b, x
<1>8. AppendStep(w, a, b)
  <2> DEFINE e == <<>>
             z == <<k>>
  <2>1. /\ a.stack = x \o e /\ e \in Seq(Kinds) /\ z \in Seq(Kinds) /\ Low(a.due, Len(x) + 1) /\ Suits(w, e, z)
        /\ b = Sh(x \o z, TRUE, a.cases, a.left, a.due)
    BY <1>2, <1>3, <1>4, <1>5, <1>6, <1>7
  <2>. HIDE DEF e, z
  <2> QED
    BY <1>2, <1>6, <2>1 DEF AppendStep
<1> QED
  BY <1>8 DEF Step, a, b

(* A constant. *)
LEMMA ConstOver ==
  ASSUME NEW fn, NEW B, NEW s, IsShape(s), Low(s.due, Len(s.stack)), NEW y \in Seq(Kinds), NEW k \in {"none", "value"}, NEW n, NEW ty
  PROVE  Step(fn, B, ConstOf(n, ty), Ex(s, y), Ex(s, Append(y, k)))
<1> DEFINE w == ConstOf(n, ty)
<1>1. w.do = "append" /\ w.op = "const" /\ w.takes = 0 /\ w.uses = <<>> /\ w.leaves = <<Result>>
  BY DEF ConstOf, Appending
<1>. HIDE DEF w
<1>2. Step(fn, B, w, Ex(s, y), Ex(s, Append(y, k)))
  BY <1>1, PushOver
<1> QED
  BY <1>2 DEF w

(* An address that has a name. *)
LEMMA GlobalOver ==
  ASSUME NEW fn, NEW B, NEW s, IsShape(s), Low(s.due, Len(s.stack)), NEW y \in Seq(Kinds), NEW k \in {"none", "value"}, NEW sym
  PROVE  Step(fn, B, GlobalOf(sym), Ex(s, y), Ex(s, Append(y, k)))
<1> DEFINE w == GlobalOf(sym)
<1>1. w.do = "append" /\ w.op = "global" /\ w.takes = 0 /\ w.uses = <<>> /\ w.leaves = <<Result>>
  BY DEF GlobalOf, Appending
<1>. HIDE DEF w
<1>2. Step(fn, B, w, Ex(s, y), Ex(s, Append(y, k)))
  BY <1>1, PushOver
<1> QED
  BY <1>2 DEF w

-----------------------------------------------------------------------------
(* What each instruction takes and leaves *)

Binary2 == {"add", "sub", "mul", "div", "mod", "shl", "shr", "and", "or", "xor",
            "eq", "ne", "lt", "le", "gt", "ge"}

(* The lists instructions name their operands by. *)
LEMMA ShortLists ==
  /\ IsSeq(<<>>) /\ Len(<<>>) = 0 /\ DOMAIN <<>> = {}
  /\ \A a : IsSeq(<<a>>) /\ Len(<<a>>) = 1 /\ DOMAIN <<a>> = {1} /\ <<a>>[1] = a
  /\ \A a, b : /\ IsSeq(<<a, b>>) /\ Len(<<a, b>>) = 2 /\ DOMAIN <<a, b>> = {1, 2}
               /\ <<a, b>>[1] = a /\ <<a, b>>[2] = b
  /\ \A a, b, c : /\ IsSeq(<<a, b, c>>) /\ Len(<<a, b, c>>) = 3 /\ DOMAIN <<a, b, c>> = {1, 2, 3}
                  /\ <<a, b, c>>[1] = a /\ <<a, b, c>>[2] = b /\ <<a, b, c>>[3] = c
<1>1. IsSeq(<<>>) /\ Len(<<>>) = 0 /\ DOMAIN <<>> = {}
  BY EmptyList, SeqFacts
<1>2. ASSUME NEW a PROVE IsSeq(<<a>>) /\ Len(<<a>>) = 1 /\ DOMAIN <<a>> = {1} /\ <<a>>[1] = a
  <2>1. <<a>> \in Seq({a})
    OBVIOUS
  <2>2. IsSeq(<<a>>)
    BY <2>1, TypedSeq
  <2>3. Len(<<a>>) = 1 /\ DOMAIN <<a>> = {1} /\ <<a>>[1] = a
    OBVIOUS
  <2> QED
    BY <2>2, <2>3
<1>3. ASSUME NEW a, NEW b
      PROVE  /\ IsSeq(<<a, b>>) /\ Len(<<a, b>>) = 2 /\ DOMAIN <<a, b>> = {1, 2}
             /\ <<a, b>>[1] = a /\ <<a, b>>[2] = b
  <2>1. <<a, b>> \in Seq({a, b})
    OBVIOUS
  <2>2. IsSeq(<<a, b>>)
    BY <2>1, TypedSeq
  <2>3. Len(<<a, b>>) = 2 /\ DOMAIN <<a, b>> = {1, 2} /\ <<a, b>>[1] = a /\ <<a, b>>[2] = b
    OBVIOUS
  <2> QED
    BY <2>2, <2>3
<1>4. ASSUME NEW a, NEW b, NEW c
      PROVE  /\ IsSeq(<<a, b, c>>) /\ Len(<<a, b, c>>) = 3 /\ DOMAIN <<a, b, c>> = {1, 2, 3}
             /\ <<a, b, c>>[1] = a /\ <<a, b, c>>[2] = b /\ <<a, b, c>>[3] = c
  <2>1. <<a, b, c>> \in Seq({a, b, c})
    OBVIOUS
  <2>2. IsSeq(<<a, b, c>>)
    BY <2>1, TypedSeq
  <2>3. /\ Len(<<a, b, c>>) = 3 /\ DOMAIN <<a, b, c>> = {1, 2, 3}
        /\ <<a, b, c>>[1] = a /\ <<a, b, c>>[2] = b /\ <<a, b, c>>[3] = c
    OBVIOUS
  <2> QED
    BY <2>2, <2>3
<1> QED
  BY <1>1, <1>2, <1>3, <1>4

(* An instruction of one operand. *)
LEMMA SuitsOne ==
  ASSUME NEW w, NEW a \in {"value", "slot"}, NEW r \in {"none", "value"}, w.op \in {"load", "cast", "neg", "complement", "lognot"}, w.takes = 1, w.uses = << 1 >>, w.leaves = <<Result>>
  PROVE  Suits(w, <<a>>, <<r>>)
<1> DEFINE y == <<a>>
           z == <<r>>
           u == << 1 >>
           l == <<Result>>
<1>1. /\ IsSeq(u) /\ Len(u) = 1 /\ DOMAIN u = {1}
      /\ IsSeq(l) /\ DOMAIN l = {1}
      /\ DOMAIN z = {1}
      /\ Len(y) = 1 /\ DOMAIN y = {1}
  BY ShortLists
<1>2. u[1] = 1
  OBVIOUS
<1>3. l[1] = Result
  OBVIOUS
<1>4. y[1] = a
  OBVIOUS
<1>5. z[1] = r
  OBVIOUS
<1>. HIDE DEF y, z, u, l
<1>6. w.uses = u /\ w.leaves = l
  BY DEF u, l
<1>7. Suits(w, y, z)
  <2>1. Len(y) = w.takes
    BY <1>1
  <2>2. ~ IsTerminator(w.op) /\ w.op \notin {"phi", "alloca"}
    BY DEF IsTerminator, Binary2
  <2>3. IsSeq(w.uses) /\ \A k \in DOMAIN w.uses : w.uses[k] \in DOMAIN y /\ y[w.uses[k]] # "none"
    BY <1>1, <1>2, <1>4, <1>6
  <2>4. IsSeq(w.leaves) /\ DOMAIN z = DOMAIN w.leaves
    BY <1>1, <1>6
  <2>5. \A k \in DOMAIN w.leaves :
          IF w.leaves[k] = Result THEN z[k] = "none" \/ (z[k] = "value" /\ HasResult(w.op, w.ty))
          ELSE w.leaves[k] \in DOMAIN y /\ z[k] \in {"none", y[w.leaves[k]]}
    BY <1>1, <1>3, <1>4, <1>5, <1>6 DEF Result, HasResult, Binary2
  <2>6. RequiredArgs([op |-> w.op, args |-> w.uses])
    BY <1>1, <1>6 DEF RequiredArgs, Binary2
  <2> QED
    BY <2>1, <2>2, <2>3, <2>4, <2>5, <2>6 DEF Suits
<1> QED
  BY <1>7 DEF y, z

(* An instruction of two. *)
LEMMA SuitsTwo ==
  ASSUME NEW w, NEW a \in {"value", "slot"}, NEW b \in {"value", "slot"}, NEW r \in {"none", "value"}, w.op \in Binary2, w.takes = 2, w.uses = <<1, 2>>, w.leaves = <<Result>>
  PROVE  Suits(w, <<a, b>>, <<r>>)
<1> DEFINE y == <<a, b>>
           z == <<r>>
           u == <<1, 2>>
           l == <<Result>>
<1>1. /\ IsSeq(u) /\ Len(u) = 2 /\ DOMAIN u = {1, 2}
      /\ IsSeq(l) /\ DOMAIN l = {1}
      /\ DOMAIN z = {1}
      /\ Len(y) = 2 /\ DOMAIN y = {1, 2}
  BY ShortLists
<1>2. u[1] = 1 /\ u[2] = 2
  OBVIOUS
<1>3. l[1] = Result
  OBVIOUS
<1>4. y[1] = a /\ y[2] = b
  OBVIOUS
<1>5. z[1] = r
  OBVIOUS
<1>. HIDE DEF y, z, u, l
<1>6. w.uses = u /\ w.leaves = l
  BY DEF u, l
<1>7. Suits(w, y, z)
  <2>1. Len(y) = w.takes
    BY <1>1
  <2>2. ~ IsTerminator(w.op) /\ w.op \notin {"phi", "alloca"}
    BY DEF IsTerminator, Binary2
  <2>3. IsSeq(w.uses) /\ \A k \in DOMAIN w.uses : w.uses[k] \in DOMAIN y /\ y[w.uses[k]] # "none"
    BY <1>1, <1>2, <1>4, <1>6
  <2>4. IsSeq(w.leaves) /\ DOMAIN z = DOMAIN w.leaves
    BY <1>1, <1>6
  <2>5. \A k \in DOMAIN w.leaves :
          IF w.leaves[k] = Result THEN z[k] = "none" \/ (z[k] = "value" /\ HasResult(w.op, w.ty))
          ELSE w.leaves[k] \in DOMAIN y /\ z[k] \in {"none", y[w.leaves[k]]}
    BY <1>1, <1>3, <1>4, <1>5, <1>6 DEF Result, HasResult, Binary2
  <2>6. RequiredArgs([op |-> w.op, args |-> w.uses])
    BY <1>1, <1>6 DEF RequiredArgs, Binary2
  <2> QED
    BY <2>1, <2>2, <2>3, <2>4, <2>5, <2>6 DEF Suits
<1> QED
  BY <1>7 DEF y, z

(* An index scaled, above the pointer it is added to. *)
LEMMA SuitsScale ==
  ASSUME NEW w, NEW a \in {"value", "slot"}, w.op \in Binary2, w.takes = 3, w.uses = <<2, 3>>, w.leaves = <<1, Result>>
  PROVE  Suits(w, <<a, "value", "value">>, <<a, "value">>)
<1> DEFINE y == <<a, "value", "value">>
           z == <<a, "value">>
           u == <<2, 3>>
           l == <<1, Result>>
<1>1. /\ IsSeq(u) /\ Len(u) = 2 /\ DOMAIN u = {1, 2}
      /\ IsSeq(l) /\ DOMAIN l = {1, 2}
      /\ DOMAIN z = {1, 2}
      /\ Len(y) = 3 /\ DOMAIN y = {1, 2, 3}
  BY ShortLists
<1>2. u[1] = 2 /\ u[2] = 3
  OBVIOUS
<1>3. l[1] = 1 /\ l[2] = Result
  OBVIOUS
<1>4. y[1] = a /\ y[2] = "value" /\ y[3] = "value"
  OBVIOUS
<1>5. z[1] = a /\ z[2] = "value"
  OBVIOUS
<1>. HIDE DEF y, z, u, l
<1>6. w.uses = u /\ w.leaves = l
  BY DEF u, l
<1>7. Suits(w, y, z)
  <2>1. Len(y) = w.takes
    BY <1>1
  <2>2. ~ IsTerminator(w.op) /\ w.op \notin {"phi", "alloca"}
    BY DEF IsTerminator, Binary2
  <2>3. IsSeq(w.uses) /\ \A k \in DOMAIN w.uses : w.uses[k] \in DOMAIN y /\ y[w.uses[k]] # "none"
    BY <1>1, <1>2, <1>4, <1>6
  <2>4. IsSeq(w.leaves) /\ DOMAIN z = DOMAIN w.leaves
    BY <1>1, <1>6
  <2>5. \A k \in DOMAIN w.leaves :
          IF w.leaves[k] = Result THEN z[k] = "none" \/ (z[k] = "value" /\ HasResult(w.op, w.ty))
          ELSE w.leaves[k] \in DOMAIN y /\ z[k] \in {"none", y[w.leaves[k]]}
    BY <1>1, <1>3, <1>4, <1>5, <1>6 DEF Result, HasResult, Binary2
  <2>6. RequiredArgs([op |-> w.op, args |-> w.uses])
    BY <1>1, <1>6 DEF RequiredArgs, Binary2
  <2> QED
    BY <2>1, <2>2, <2>3, <2>4, <2>5, <2>6 DEF Suits
<1> QED
  BY <1>7 DEF y, z

(* The same below it: the pointer is the right operand. *)
LEMMA SuitsScaleLeft ==
  ASSUME NEW w, w.op \in Binary2, w.takes = 3, w.uses = <<1, 3>>, w.leaves = <<Result, 2>>
  PROVE  Suits(w, <<"value", "value", "value">>, <<"value", "value">>)
<1> DEFINE y == <<"value", "value", "value">>
           z == <<"value", "value">>
           u == <<1, 3>>
           l == <<Result, 2>>
<1>1. /\ IsSeq(u) /\ Len(u) = 2 /\ DOMAIN u = {1, 2}
      /\ IsSeq(l) /\ DOMAIN l = {1, 2}
      /\ DOMAIN z = {1, 2}
      /\ Len(y) = 3 /\ DOMAIN y = {1, 2, 3}
  BY ShortLists
<1>2. u[1] = 1 /\ u[2] = 3
  OBVIOUS
<1>3. l[1] = Result /\ l[2] = 2
  OBVIOUS
<1>4. y[1] = "value" /\ y[2] = "value" /\ y[3] = "value"
  OBVIOUS
<1>5. z[1] = "value" /\ z[2] = "value"
  OBVIOUS
<1>. HIDE DEF y, z, u, l
<1>6. w.uses = u /\ w.leaves = l
  BY DEF u, l
<1>7. Suits(w, y, z)
  <2>1. Len(y) = w.takes
    BY <1>1
  <2>2. ~ IsTerminator(w.op) /\ w.op \notin {"phi", "alloca"}
    BY DEF IsTerminator, Binary2
  <2>3. IsSeq(w.uses) /\ \A k \in DOMAIN w.uses : w.uses[k] \in DOMAIN y /\ y[w.uses[k]] # "none"
    BY <1>1, <1>2, <1>4, <1>6
  <2>4. IsSeq(w.leaves) /\ DOMAIN z = DOMAIN w.leaves
    BY <1>1, <1>6
  <2>5. \A k \in DOMAIN w.leaves :
          IF w.leaves[k] = Result THEN z[k] = "none" \/ (z[k] = "value" /\ HasResult(w.op, w.ty))
          ELSE w.leaves[k] \in DOMAIN y /\ z[k] \in {"none", y[w.leaves[k]]}
    BY <1>1, <1>3, <1>4, <1>5, <1>6 DEF Result, HasResult, Binary2
  <2>6. RequiredArgs([op |-> w.op, args |-> w.uses])
    BY <1>1, <1>6 DEF RequiredArgs, Binary2
  <2> QED
    BY <2>1, <2>2, <2>3, <2>4, <2>5, <2>6 DEF Suits
<1> QED
  BY <1>7 DEF y, z

(* A store or copy whose operands were computed in the other order; the    *)
(* older or the newer of them is the result.                               *)
LEMMA SuitsStoreFirst ==
  ASSUME NEW w, NEW r \in {"none", "value"}, w.op \in {"store", "memcpy"}, w.takes = 2, w.uses = <<2, 1>>, w.leaves = << 1 >>
  PROVE  Suits(w, <<"value", "value">>, <<r>>)
<1> DEFINE y == <<"value", "value">>
           z == <<r>>
           u == <<2, 1>>
           l == << 1 >>
<1>1. /\ IsSeq(u) /\ Len(u) = 2 /\ DOMAIN u = {1, 2}
      /\ IsSeq(l) /\ DOMAIN l = {1}
      /\ DOMAIN z = {1}
      /\ Len(y) = 2 /\ DOMAIN y = {1, 2}
  BY ShortLists
<1>2. u[1] = 2 /\ u[2] = 1
  OBVIOUS
<1>3. l[1] = 1
  OBVIOUS
<1>4. y[1] = "value" /\ y[2] = "value"
  OBVIOUS
<1>5. z[1] = r
  OBVIOUS
<1>. HIDE DEF y, z, u, l
<1>6. w.uses = u /\ w.leaves = l
  BY DEF u, l
<1>7. Suits(w, y, z)
  <2>1. Len(y) = w.takes
    BY <1>1
  <2>2. ~ IsTerminator(w.op) /\ w.op \notin {"phi", "alloca"}
    BY DEF IsTerminator, Binary2
  <2>3. IsSeq(w.uses) /\ \A k \in DOMAIN w.uses : w.uses[k] \in DOMAIN y /\ y[w.uses[k]] # "none"
    BY <1>1, <1>2, <1>4, <1>6
  <2>4. IsSeq(w.leaves) /\ DOMAIN z = DOMAIN w.leaves
    BY <1>1, <1>6
  <2>5. \A k \in DOMAIN w.leaves :
          IF w.leaves[k] = Result THEN z[k] = "none" \/ (z[k] = "value" /\ HasResult(w.op, w.ty))
          ELSE w.leaves[k] \in DOMAIN y /\ z[k] \in {"none", y[w.leaves[k]]}
    BY <1>1, <1>3, <1>4, <1>5, <1>6 DEF Result, HasResult, Binary2
  <2>6. RequiredArgs([op |-> w.op, args |-> w.uses])
    BY <1>1, <1>6 DEF RequiredArgs, Binary2
  <2> QED
    BY <2>1, <2>2, <2>3, <2>4, <2>5, <2>6 DEF Suits
<1> QED
  BY <1>7 DEF y, z

LEMMA SuitsStoreSecond ==
  ASSUME NEW w, NEW r \in {"none", "value"}, w.op \in {"store", "memcpy"}, w.takes = 2, w.uses = <<2, 1>>, w.leaves = << 2 >>
  PROVE  Suits(w, <<"value", "value">>, <<r>>)
<1> DEFINE y == <<"value", "value">>
           z == <<r>>
           u == <<2, 1>>
           l == << 2 >>
<1>1. /\ IsSeq(u) /\ Len(u) = 2 /\ DOMAIN u = {1, 2}
      /\ IsSeq(l) /\ DOMAIN l = {1}
      /\ DOMAIN z = {1}
      /\ Len(y) = 2 /\ DOMAIN y = {1, 2}
  BY ShortLists
<1>2. u[1] = 2 /\ u[2] = 1
  OBVIOUS
<1>3. l[1] = 2
  OBVIOUS
<1>4. y[1] = "value" /\ y[2] = "value"
  OBVIOUS
<1>5. z[1] = r
  OBVIOUS
<1>. HIDE DEF y, z, u, l
<1>6. w.uses = u /\ w.leaves = l
  BY DEF u, l
<1>7. Suits(w, y, z)
  <2>1. Len(y) = w.takes
    BY <1>1
  <2>2. ~ IsTerminator(w.op) /\ w.op \notin {"phi", "alloca"}
    BY DEF IsTerminator, Binary2
  <2>3. IsSeq(w.uses) /\ \A k \in DOMAIN w.uses : w.uses[k] \in DOMAIN y /\ y[w.uses[k]] # "none"
    BY <1>1, <1>2, <1>4, <1>6
  <2>4. IsSeq(w.leaves) /\ DOMAIN z = DOMAIN w.leaves
    BY <1>1, <1>6
  <2>5. \A k \in DOMAIN w.leaves :
          IF w.leaves[k] = Result THEN z[k] = "none" \/ (z[k] = "value" /\ HasResult(w.op, w.ty))
          ELSE w.leaves[k] \in DOMAIN y /\ z[k] \in {"none", y[w.leaves[k]]}
    BY <1>1, <1>3, <1>4, <1>5, <1>6 DEF Result, HasResult, Binary2
  <2>6. RequiredArgs([op |-> w.op, args |-> w.uses])
    BY <1>1, <1>6 DEF RequiredArgs, Binary2
  <2> QED
    BY <2>1, <2>2, <2>3, <2>4, <2>5, <2>6 DEF Suits
<1> QED
  BY <1>7 DEF y, z

(* A store that leaves nothing. *)
LEMMA SuitsStore ==
  ASSUME NEW w, NEW a \in {"value", "slot"}, w.op \in {"store", "memcpy"}, w.takes = 2, w.uses = <<1, 2>>, w.leaves = <<>>
  PROVE  Suits(w, <<a, "value">>, <<>>)
<1> DEFINE y == <<a, "value">>
           z == <<>>
           u == <<1, 2>>
           l == <<>>
<1>1. /\ IsSeq(u) /\ Len(u) = 2 /\ DOMAIN u = {1, 2}
      /\ IsSeq(l) /\ DOMAIN l = {}
      /\ DOMAIN z = {}
      /\ Len(y) = 2 /\ DOMAIN y = {1, 2}
  BY ShortLists
<1>2. u[1] = 1 /\ u[2] = 2
  OBVIOUS
<1>3. TRUE
  OBVIOUS
<1>4. y[1] = a /\ y[2] = "value"
  OBVIOUS
<1>5. TRUE
  OBVIOUS
<1>. HIDE DEF y, z, u, l
<1>6. w.uses = u /\ w.leaves = l
  BY DEF u, l
<1>7. Suits(w, y, z)
  <2>1. Len(y) = w.takes
    BY <1>1
  <2>2. ~ IsTerminator(w.op) /\ w.op \notin {"phi", "alloca"}
    BY DEF IsTerminator, Binary2
  <2>3. IsSeq(w.uses) /\ \A k \in DOMAIN w.uses : w.uses[k] \in DOMAIN y /\ y[w.uses[k]] # "none"
    BY <1>1, <1>2, <1>4, <1>6
  <2>4. IsSeq(w.leaves) /\ DOMAIN z = DOMAIN w.leaves
    BY <1>1, <1>6
  <2>5. \A k \in DOMAIN w.leaves :
          IF w.leaves[k] = Result THEN z[k] = "none" \/ (z[k] = "value" /\ HasResult(w.op, w.ty))
          ELSE w.leaves[k] \in DOMAIN y /\ z[k] \in {"none", y[w.leaves[k]]}
    BY <1>1, <1>3, <1>4, <1>5, <1>6 DEF Result, HasResult, Binary2
  <2>6. RequiredArgs([op |-> w.op, args |-> w.uses])
    BY <1>1, <1>6 DEF RequiredArgs, Binary2
  <2> QED
    BY <2>1, <2>2, <2>3, <2>4, <2>5, <2>6 DEF Suits
<1> QED
  BY <1>7 DEF y, z

(* A store that leaves the address, for the next store to it. *)
LEMMA SuitsStoreKeep ==
  ASSUME NEW w, NEW a \in {"value", "slot"}, w.op \in {"store"}, w.takes = 2, w.uses = <<1, 2>>, w.leaves = << 1 >>
  PROVE  Suits(w, <<a, "value">>, <<a>>)
<1> DEFINE y == <<a, "value">>
           z == <<a>>
           u == <<1, 2>>
           l == << 1 >>
<1>1. /\ IsSeq(u) /\ Len(u) = 2 /\ DOMAIN u = {1, 2}
      /\ IsSeq(l) /\ DOMAIN l = {1}
      /\ DOMAIN z = {1}
      /\ Len(y) = 2 /\ DOMAIN y = {1, 2}
  BY ShortLists
<1>2. u[1] = 1 /\ u[2] = 2
  OBVIOUS
<1>3. l[1] = 1
  OBVIOUS
<1>4. y[1] = a /\ y[2] = "value"
  OBVIOUS
<1>5. z[1] = a
  OBVIOUS
<1>. HIDE DEF y, z, u, l
<1>6. w.uses = u /\ w.leaves = l
  BY DEF u, l
<1>7. Suits(w, y, z)
  <2>1. Len(y) = w.takes
    BY <1>1
  <2>2. ~ IsTerminator(w.op) /\ w.op \notin {"phi", "alloca"}
    BY DEF IsTerminator, Binary2
  <2>3. IsSeq(w.uses) /\ \A k \in DOMAIN w.uses : w.uses[k] \in DOMAIN y /\ y[w.uses[k]] # "none"
    BY <1>1, <1>2, <1>4, <1>6
  <2>4. IsSeq(w.leaves) /\ DOMAIN z = DOMAIN w.leaves
    BY <1>1, <1>6
  <2>5. \A k \in DOMAIN w.leaves :
          IF w.leaves[k] = Result THEN z[k] = "none" \/ (z[k] = "value" /\ HasResult(w.op, w.ty))
          ELSE w.leaves[k] \in DOMAIN y /\ z[k] \in {"none", y[w.leaves[k]]}
    BY <1>1, <1>3, <1>4, <1>5, <1>6 DEF Result, HasResult, Binary2
  <2>6. RequiredArgs([op |-> w.op, args |-> w.uses])
    BY <1>1, <1>6 DEF RequiredArgs, Binary2
  <2> QED
    BY <2>1, <2>2, <2>3, <2>4, <2>5, <2>6 DEF Suits
<1> QED
  BY <1>7 DEF y, z

(* A store that leaves both: the answer in a slot that is tested too. *)
LEMMA SuitsStoreKeepBoth ==
  ASSUME NEW w, NEW a \in {"value", "slot"}, w.op \in {"store"}, w.takes = 2, w.uses = <<1, 2>>, w.leaves = <<1, 2>>
  PROVE  Suits(w, <<a, "value">>, <<a, "value">>)
<1> DEFINE y == <<a, "value">>
           z == <<a, "value">>
           u == <<1, 2>>
           l == <<1, 2>>
<1>1. /\ IsSeq(u) /\ Len(u) = 2 /\ DOMAIN u = {1, 2}
      /\ IsSeq(l) /\ DOMAIN l = {1, 2}
      /\ DOMAIN z = {1, 2}
      /\ Len(y) = 2 /\ DOMAIN y = {1, 2}
  BY ShortLists
<1>2. u[1] = 1 /\ u[2] = 2
  OBVIOUS
<1>3. l[1] = 1 /\ l[2] = 2
  OBVIOUS
<1>4. y[1] = a /\ y[2] = "value"
  OBVIOUS
<1>5. z[1] = a /\ z[2] = "value"
  OBVIOUS
<1>. HIDE DEF y, z, u, l
<1>6. w.uses = u /\ w.leaves = l
  BY DEF u, l
<1>7. Suits(w, y, z)
  <2>1. Len(y) = w.takes
    BY <1>1
  <2>2. ~ IsTerminator(w.op) /\ w.op \notin {"phi", "alloca"}
    BY DEF IsTerminator, Binary2
  <2>3. IsSeq(w.uses) /\ \A k \in DOMAIN w.uses : w.uses[k] \in DOMAIN y /\ y[w.uses[k]] # "none"
    BY <1>1, <1>2, <1>4, <1>6
  <2>4. IsSeq(w.leaves) /\ DOMAIN z = DOMAIN w.leaves
    BY <1>1, <1>6
  <2>5. \A k \in DOMAIN w.leaves :
          IF w.leaves[k] = Result THEN z[k] = "none" \/ (z[k] = "value" /\ HasResult(w.op, w.ty))
          ELSE w.leaves[k] \in DOMAIN y /\ z[k] \in {"none", y[w.leaves[k]]}
    BY <1>1, <1>3, <1>4, <1>5, <1>6 DEF Result, HasResult, Binary2
  <2>6. RequiredArgs([op |-> w.op, args |-> w.uses])
    BY <1>1, <1>6 DEF RequiredArgs, Binary2
  <2> QED
    BY <2>1, <2>2, <2>3, <2>4, <2>5, <2>6 DEF Suits
<1> QED
  BY <1>7 DEF y, z

(* What ++ and -- do: load and keep the address, add, store, and leave the *)
(* new value or the old.                                                   *)
LEMMA SuitsLoadKeep ==
  ASSUME NEW w, w.op \in {"load"}, w.takes = 1, w.uses = << 1 >>, w.leaves = <<1, Result>>
  PROVE  Suits(w, <<"value">>, <<"value", "value">>)
<1> DEFINE y == <<"value">>
           z == <<"value", "value">>
           u == << 1 >>
           l == <<1, Result>>
<1>1. /\ IsSeq(u) /\ Len(u) = 1 /\ DOMAIN u = {1}
      /\ IsSeq(l) /\ DOMAIN l = {1, 2}
      /\ DOMAIN z = {1, 2}
      /\ Len(y) = 1 /\ DOMAIN y = {1}
  BY ShortLists
<1>2. u[1] = 1
  OBVIOUS
<1>3. l[1] = 1 /\ l[2] = Result
  OBVIOUS
<1>4. y[1] = "value"
  OBVIOUS
<1>5. z[1] = "value" /\ z[2] = "value"
  OBVIOUS
<1>. HIDE DEF y, z, u, l
<1>6. w.uses = u /\ w.leaves = l
  BY DEF u, l
<1>7. Suits(w, y, z)
  <2>1. Len(y) = w.takes
    BY <1>1
  <2>2. ~ IsTerminator(w.op) /\ w.op \notin {"phi", "alloca"}
    BY DEF IsTerminator, Binary2
  <2>3. IsSeq(w.uses) /\ \A k \in DOMAIN w.uses : w.uses[k] \in DOMAIN y /\ y[w.uses[k]] # "none"
    BY <1>1, <1>2, <1>4, <1>6
  <2>4. IsSeq(w.leaves) /\ DOMAIN z = DOMAIN w.leaves
    BY <1>1, <1>6
  <2>5. \A k \in DOMAIN w.leaves :
          IF w.leaves[k] = Result THEN z[k] = "none" \/ (z[k] = "value" /\ HasResult(w.op, w.ty))
          ELSE w.leaves[k] \in DOMAIN y /\ z[k] \in {"none", y[w.leaves[k]]}
    BY <1>1, <1>3, <1>4, <1>5, <1>6 DEF Result, HasResult, Binary2
  <2>6. RequiredArgs([op |-> w.op, args |-> w.uses])
    BY <1>1, <1>6 DEF RequiredArgs, Binary2
  <2> QED
    BY <2>1, <2>2, <2>3, <2>4, <2>5, <2>6 DEF Suits
<1> QED
  BY <1>7 DEF y, z

LEMMA SuitsStep ==
  ASSUME NEW w, w.op \in {"add", "sub"}, w.takes = 3, w.uses = <<2, 3>>, w.leaves = <<1, 2, Result>>
  PROVE  Suits(w, <<"value", "value", "value">>, <<"value", "value", "value">>)
<1> DEFINE y == <<"value", "value", "value">>
           z == <<"value", "value", "value">>
           u == <<2, 3>>
           l == <<1, 2, Result>>
<1>1. /\ IsSeq(u) /\ Len(u) = 2 /\ DOMAIN u = {1, 2}
      /\ IsSeq(l) /\ DOMAIN l = {1, 2, 3}
      /\ DOMAIN z = {1, 2, 3}
      /\ Len(y) = 3 /\ DOMAIN y = {1, 2, 3}
  BY ShortLists
<1>2. u[1] = 2 /\ u[2] = 3
  OBVIOUS
<1>3. l[1] = 1 /\ l[2] = 2 /\ l[3] = Result
  OBVIOUS
<1>4. y[1] = "value" /\ y[2] = "value" /\ y[3] = "value"
  OBVIOUS
<1>5. z[1] = "value" /\ z[2] = "value" /\ z[3] = "value"
  OBVIOUS
<1>. HIDE DEF y, z, u, l
<1>6. w.uses = u /\ w.leaves = l
  BY DEF u, l
<1>7. Suits(w, y, z)
  <2>1. Len(y) = w.takes
    BY <1>1
  <2>2. ~ IsTerminator(w.op) /\ w.op \notin {"phi", "alloca"}
    BY DEF IsTerminator, Binary2
  <2>3. IsSeq(w.uses) /\ \A k \in DOMAIN w.uses : w.uses[k] \in DOMAIN y /\ y[w.uses[k]] # "none"
    BY <1>1, <1>2, <1>4, <1>6
  <2>4. IsSeq(w.leaves) /\ DOMAIN z = DOMAIN w.leaves
    BY <1>1, <1>6
  <2>5. \A k \in DOMAIN w.leaves :
          IF w.leaves[k] = Result THEN z[k] = "none" \/ (z[k] = "value" /\ HasResult(w.op, w.ty))
          ELSE w.leaves[k] \in DOMAIN y /\ z[k] \in {"none", y[w.leaves[k]]}
    BY <1>1, <1>3, <1>4, <1>5, <1>6 DEF Result, HasResult, Binary2
  <2>6. RequiredArgs([op |-> w.op, args |-> w.uses])
    BY <1>1, <1>6 DEF RequiredArgs, Binary2
  <2> QED
    BY <2>1, <2>2, <2>3, <2>4, <2>5, <2>6 DEF Suits
<1> QED
  BY <1>7 DEF y, z

LEMMA SuitsStepPrefix ==
  ASSUME NEW w, NEW r \in {"none", "value"}, w.op \in {"store"}, w.takes = 3, w.uses = <<1, 3>>, w.leaves = << 3 >>
  PROVE  Suits(w, <<"value", "value", "value">>, <<r>>)
<1> DEFINE y == <<"value", "value", "value">>
           z == <<r>>
           u == <<1, 3>>
           l == << 3 >>
<1>1. /\ IsSeq(u) /\ Len(u) = 2 /\ DOMAIN u = {1, 2}
      /\ IsSeq(l) /\ DOMAIN l = {1}
      /\ DOMAIN z = {1}
      /\ Len(y) = 3 /\ DOMAIN y = {1, 2, 3}
  BY ShortLists
<1>2. u[1] = 1 /\ u[2] = 3
  OBVIOUS
<1>3. l[1] = 3
  OBVIOUS
<1>4. y[1] = "value" /\ y[2] = "value" /\ y[3] = "value"
  OBVIOUS
<1>5. z[1] = r
  OBVIOUS
<1>. HIDE DEF y, z, u, l
<1>6. w.uses = u /\ w.leaves = l
  BY DEF u, l
<1>7. Suits(w, y, z)
  <2>1. Len(y) = w.takes
    BY <1>1
  <2>2. ~ IsTerminator(w.op) /\ w.op \notin {"phi", "alloca"}
    BY DEF IsTerminator, Binary2
  <2>3. IsSeq(w.uses) /\ \A k \in DOMAIN w.uses : w.uses[k] \in DOMAIN y /\ y[w.uses[k]] # "none"
    BY <1>1, <1>2, <1>4, <1>6
  <2>4. IsSeq(w.leaves) /\ DOMAIN z = DOMAIN w.leaves
    BY <1>1, <1>6
  <2>5. \A k \in DOMAIN w.leaves :
          IF w.leaves[k] = Result THEN z[k] = "none" \/ (z[k] = "value" /\ HasResult(w.op, w.ty))
          ELSE w.leaves[k] \in DOMAIN y /\ z[k] \in {"none", y[w.leaves[k]]}
    BY <1>1, <1>3, <1>4, <1>5, <1>6 DEF Result, HasResult, Binary2
  <2>6. RequiredArgs([op |-> w.op, args |-> w.uses])
    BY <1>1, <1>6 DEF RequiredArgs, Binary2
  <2> QED
    BY <2>1, <2>2, <2>3, <2>4, <2>5, <2>6 DEF Suits
<1> QED
  BY <1>7 DEF y, z

LEMMA SuitsStepPostfix ==
  ASSUME NEW w, NEW r \in {"none", "value"}, w.op \in {"store"}, w.takes = 3, w.uses = <<1, 3>>, w.leaves = << 2 >>
  PROVE  Suits(w, <<"value", "value", "value">>, <<r>>)
<1> DEFINE y == <<"value", "value", "value">>
           z == <<r>>
           u == <<1, 3>>
           l == << 2 >>
<1>1. /\ IsSeq(u) /\ Len(u) = 2 /\ DOMAIN u = {1, 2}
      /\ IsSeq(l) /\ DOMAIN l = {1}
      /\ DOMAIN z = {1}
      /\ Len(y) = 3 /\ DOMAIN y = {1, 2, 3}
  BY ShortLists
<1>2. u[1] = 1 /\ u[2] = 3
  OBVIOUS
<1>3. l[1] = 2
  OBVIOUS
<1>4. y[1] = "value" /\ y[2] = "value" /\ y[3] = "value"
  OBVIOUS
<1>5. z[1] = r
  OBVIOUS
<1>. HIDE DEF y, z, u, l
<1>6. w.uses = u /\ w.leaves = l
  BY DEF u, l
<1>7. Suits(w, y, z)
  <2>1. Len(y) = w.takes
    BY <1>1
  <2>2. ~ IsTerminator(w.op) /\ w.op \notin {"phi", "alloca"}
    BY DEF IsTerminator, Binary2
  <2>3. IsSeq(w.uses) /\ \A k \in DOMAIN w.uses : w.uses[k] \in DOMAIN y /\ y[w.uses[k]] # "none"
    BY <1>1, <1>2, <1>4, <1>6
  <2>4. IsSeq(w.leaves) /\ DOMAIN z = DOMAIN w.leaves
    BY <1>1, <1>6
  <2>5. \A k \in DOMAIN w.leaves :
          IF w.leaves[k] = Result THEN z[k] = "none" \/ (z[k] = "value" /\ HasResult(w.op, w.ty))
          ELSE w.leaves[k] \in DOMAIN y /\ z[k] \in {"none", y[w.leaves[k]]}
    BY <1>1, <1>3, <1>4, <1>5, <1>6 DEF Result, HasResult, Binary2
  <2>6. RequiredArgs([op |-> w.op, args |-> w.uses])
    BY <1>1, <1>6 DEF RequiredArgs, Binary2
  <2> QED
    BY <2>1, <2>2, <2>3, <2>4, <2>5, <2>6 DEF Suits
<1> QED
  BY <1>7 DEF y, z

(* An element of a declared object: its address above the object's, and    *)
(* the store that leaves only the latter.                                  *)
LEMMA SuitsOffset ==
  ASSUME NEW w, NEW a \in {"value", "slot"}, w.op \in Binary2, w.takes = 2, w.uses = <<1, 2>>, w.leaves = <<1, Result>>
  PROVE  Suits(w, <<a, "value">>, <<a, "value">>)
<1> DEFINE y == <<a, "value">>
           z == <<a, "value">>
           u == <<1, 2>>
           l == <<1, Result>>
<1>1. /\ IsSeq(u) /\ Len(u) = 2 /\ DOMAIN u = {1, 2}
      /\ IsSeq(l) /\ DOMAIN l = {1, 2}
      /\ DOMAIN z = {1, 2}
      /\ Len(y) = 2 /\ DOMAIN y = {1, 2}
  BY ShortLists
<1>2. u[1] = 1 /\ u[2] = 2
  OBVIOUS
<1>3. l[1] = 1 /\ l[2] = Result
  OBVIOUS
<1>4. y[1] = a /\ y[2] = "value"
  OBVIOUS
<1>5. z[1] = a /\ z[2] = "value"
  OBVIOUS
<1>. HIDE DEF y, z, u, l
<1>6. w.uses = u /\ w.leaves = l
  BY DEF u, l
<1>7. Suits(w, y, z)
  <2>1. Len(y) = w.takes
    BY <1>1
  <2>2. ~ IsTerminator(w.op) /\ w.op \notin {"phi", "alloca"}
    BY DEF IsTerminator, Binary2
  <2>3. IsSeq(w.uses) /\ \A k \in DOMAIN w.uses : w.uses[k] \in DOMAIN y /\ y[w.uses[k]] # "none"
    BY <1>1, <1>2, <1>4, <1>6
  <2>4. IsSeq(w.leaves) /\ DOMAIN z = DOMAIN w.leaves
    BY <1>1, <1>6
  <2>5. \A k \in DOMAIN w.leaves :
          IF w.leaves[k] = Result THEN z[k] = "none" \/ (z[k] = "value" /\ HasResult(w.op, w.ty))
          ELSE w.leaves[k] \in DOMAIN y /\ z[k] \in {"none", y[w.leaves[k]]}
    BY <1>1, <1>3, <1>4, <1>5, <1>6 DEF Result, HasResult, Binary2
  <2>6. RequiredArgs([op |-> w.op, args |-> w.uses])
    BY <1>1, <1>6 DEF RequiredArgs, Binary2
  <2> QED
    BY <2>1, <2>2, <2>3, <2>4, <2>5, <2>6 DEF Suits
<1> QED
  BY <1>7 DEF y, z

LEMMA SuitsFill ==
  ASSUME NEW w, NEW a \in {"value", "slot"}, w.op \in {"store"}, w.takes = 3, w.uses = <<2, 3>>, w.leaves = << 1 >>
  PROVE  Suits(w, <<a, "value", "value">>, <<a>>)
<1> DEFINE y == <<a, "value", "value">>
           z == <<a>>
           u == <<2, 3>>
           l == << 1 >>
<1>1. /\ IsSeq(u) /\ Len(u) = 2 /\ DOMAIN u = {1, 2}
      /\ IsSeq(l) /\ DOMAIN l = {1}
      /\ DOMAIN z = {1}
      /\ Len(y) = 3 /\ DOMAIN y = {1, 2, 3}
  BY ShortLists
<1>2. u[1] = 2 /\ u[2] = 3
  OBVIOUS
<1>3. l[1] = 1
  OBVIOUS
<1>4. y[1] = a /\ y[2] = "value" /\ y[3] = "value"
  OBVIOUS
<1>5. z[1] = a
  OBVIOUS
<1>. HIDE DEF y, z, u, l
<1>6. w.uses = u /\ w.leaves = l
  BY DEF u, l
<1>7. Suits(w, y, z)
  <2>1. Len(y) = w.takes
    BY <1>1
  <2>2. ~ IsTerminator(w.op) /\ w.op \notin {"phi", "alloca"}
    BY DEF IsTerminator, Binary2
  <2>3. IsSeq(w.uses) /\ \A k \in DOMAIN w.uses : w.uses[k] \in DOMAIN y /\ y[w.uses[k]] # "none"
    BY <1>1, <1>2, <1>4, <1>6
  <2>4. IsSeq(w.leaves) /\ DOMAIN z = DOMAIN w.leaves
    BY <1>1, <1>6
  <2>5. \A k \in DOMAIN w.leaves :
          IF w.leaves[k] = Result THEN z[k] = "none" \/ (z[k] = "value" /\ HasResult(w.op, w.ty))
          ELSE w.leaves[k] \in DOMAIN y /\ z[k] \in {"none", y[w.leaves[k]]}
    BY <1>1, <1>3, <1>4, <1>5, <1>6 DEF Result, HasResult, Binary2
  <2>6. RequiredArgs([op |-> w.op, args |-> w.uses])
    BY <1>1, <1>6 DEF RequiredArgs, Binary2
  <2> QED
    BY <2>1, <2>2, <2>3, <2>4, <2>5, <2>6 DEF Suits
<1> QED
  BY <1>7 DEF y, z

-----------------------------------------------------------------------------
(* What expressions are lowered by way of                                  *)

(* The shape before an expression. *)
Fit(fn, s) == fn \in AllFunctions /\ IsShape(s) /\ Low(s.due, Len(s.stack))

(* Each piece of work an expression becomes, on the few values that are    *)
(* above those of the shape before the expression.                         *)
LEMMA ValueOn ==
  ASSUME NEW fn, NEW B, NEW s, Fit(fn, s), NEW n \in NodesOf[fn], NEW k \in KindsOf(n)
  PROVE  /\ Step(fn, B, Value(n), Ex(s, <<>>), Ex(s, <<k>>))
         /\ \A a \in Kinds : Step(fn, B, Value(n), Ex(s, <<a>>), Ex(s, <<a, k>>))
         /\ \A a, b \in Kinds : Step(fn, B, Value(n), Ex(s, <<a, b>>), Ex(s, <<a, b, k>>))
<1>1. k \in Kinds
  BY KindLists DEF KindsOf
<1>2. \A y \in Seq(Kinds) : Step(fn, B, Value(n), Ex(s, y), Ex(s, Append(y, k)))
  BY ValueOver DEF Fit
<1>3. <<>> \in Seq(Kinds) /\ Append(<<>>, k) = <<k>>
  BY <1>1, KindLists
<1>4. \A a \in Kinds : <<a>> \in Seq(Kinds) /\ Append(<<a>>, k) = <<a, k>>
  BY <1>1, KindLists
<1>5. \A a, b \in Kinds : <<a, b>> \in Seq(Kinds) /\ Append(<<a, b>>, k) = <<a, b, k>>
  BY <1>1, KindLists
<1>6. Step(fn, B, Value(n), Ex(s, <<>>), Ex(s, <<k>>))
  BY <1>2, <1>3
<1>7. ASSUME NEW a \in Kinds PROVE Step(fn, B, Value(n), Ex(s, <<a>>), Ex(s, <<a, k>>))
  BY <1>2, <1>4
<1>8. ASSUME NEW a \in Kinds, NEW b \in Kinds
      PROVE  Step(fn, B, Value(n), Ex(s, <<a, b>>), Ex(s, <<a, b, k>>))
  BY <1>2, <1>5
<1> QED
  BY <1>6, <1>7, <1>8

LEMMA AddressOn ==
  ASSUME NEW fn, NEW B, NEW s, Fit(fn, s), NEW n \in NodesOf[fn], NEW k \in {"none", "value"}
  PROVE  /\ Step(fn, B, Address(n), Ex(s, <<>>), Ex(s, <<k>>))
         /\ \A a \in Kinds : Step(fn, B, Address(n), Ex(s, <<a>>), Ex(s, <<a, k>>))
<1>1. k \in Kinds
  BY KindLists
<1>2. \A y \in Seq(Kinds) : Step(fn, B, Address(n), Ex(s, y), Ex(s, Append(y, k)))
  BY AddressOver DEF Fit
<1>3. <<>> \in Seq(Kinds) /\ Append(<<>>, k) = <<k>>
  BY <1>1, KindLists
<1>4. \A a \in Kinds : <<a>> \in Seq(Kinds) /\ Append(<<a>>, k) = <<a, k>>
  BY <1>1, KindLists
<1>6. Step(fn, B, Address(n), Ex(s, <<>>), Ex(s, <<k>>))
  BY <1>2, <1>3
<1>7. ASSUME NEW a \in Kinds PROVE Step(fn, B, Address(n), Ex(s, <<a>>), Ex(s, <<a, k>>))
  BY <1>2, <1>4
<1> QED
  BY <1>6, <1>7

LEMMA ConstOn ==
  ASSUME NEW fn, NEW B, NEW s, Fit(fn, s), NEW n, NEW ty, NEW k \in {"none", "value"}
  PROVE  /\ Step(fn, B, ConstOf(n, ty), Ex(s, <<>>), Ex(s, <<k>>))
         /\ \A a \in Kinds : Step(fn, B, ConstOf(n, ty), Ex(s, <<a>>), Ex(s, <<a, k>>))
         /\ \A a, b \in Kinds : Step(fn, B, ConstOf(n, ty), Ex(s, <<a, b>>), Ex(s, <<a, b, k>>))
<1>1. k \in Kinds
  BY KindLists
<1>2. \A y \in Seq(Kinds) : Step(fn, B, ConstOf(n, ty), Ex(s, y), Ex(s, Append(y, k)))
  BY ConstOver DEF Fit
<1>3. <<>> \in Seq(Kinds) /\ Append(<<>>, k) = <<k>>
  BY <1>1, KindLists
<1>4. \A a \in Kinds : <<a>> \in Seq(Kinds) /\ Append(<<a>>, k) = <<a, k>>
  BY <1>1, KindLists
<1>5. \A a, b \in Kinds : <<a, b>> \in Seq(Kinds) /\ Append(<<a, b>>, k) = <<a, b, k>>
  BY <1>1, KindLists
<1>6. Step(fn, B, ConstOf(n, ty), Ex(s, <<>>), Ex(s, <<k>>))
  BY <1>2, <1>3
<1>7. ASSUME NEW a \in Kinds PROVE Step(fn, B, ConstOf(n, ty), Ex(s, <<a>>), Ex(s, <<a, k>>))
  BY <1>2, <1>4
<1>8. ASSUME NEW a \in Kinds, NEW b \in Kinds
      PROVE  Step(fn, B, ConstOf(n, ty), Ex(s, <<a, b>>), Ex(s, <<a, b, k>>))
  BY <1>2, <1>5
<1> QED
  BY <1>6, <1>7, <1>8

LEMMA GlobalOn ==
  ASSUME NEW fn, NEW B, NEW s, Fit(fn, s), NEW sym, NEW k \in {"none", "value"}
  PROVE  Step(fn, B, GlobalOf(sym), Ex(s, <<>>), Ex(s, <<k>>))
<1>1. k \in Kinds
  BY KindLists
<1>2. <<>> \in Seq(Kinds) /\ Append(<<>>, k) = <<k>>
  BY <1>1, KindLists
<1>3. Step(fn, B, GlobalOf(sym), Ex(s, <<>>), Ex(s, Append(<<>>, k)))
  BY <1>2, GlobalOver DEF Fit
<1> QED
  BY <1>2, <1>3

LEMMA AppendOn ==
  ASSUME NEW fn, NEW B, NEW s, Fit(fn, s), NEW y \in Seq(Kinds), NEW z \in Seq(Kinds),
         NEW w, w.do = "append", Suits(w, y, z)
  PROVE  Step(fn, B, w, Ex(s, y), Ex(s, z))
BY Lower1, AppendOver DEF Fit

(* What the instructions the expressions ask for are. *)
LEMMA AppendingIs ==
  ASSUME NEW op, NEW takes, NEW uses, NEW ty, NEW leaves
  PROVE  LET w == Appending(op, takes, uses, ty, leaves)
         IN w.do = "append" /\ w.op = op /\ w.takes = takes /\ w.uses = uses /\ w.leaves = leaves /\ w.ty = ty.ir
BY DEF Appending

(* The same with an immediate. *)
LEMMA SizedIs ==
  ASSUME NEW op, NEW takes, NEW uses, NEW ty, NEW leaves, NEW n
  PROVE  LET w == [Appending(op, takes, uses, ty, leaves) EXCEPT !.imm = n]
         IN w.do = "append" /\ w.op = op /\ w.takes = takes /\ w.uses = uses /\ w.leaves = leaves /\ w.ty = ty.ir
BY DEF Appending

(* The instructions lower.c emits by name. *)
LEMMA LoadIs == ASSUME NEW ty PROVE Load(ty) = Appending("load", 1, << 1 >>, ty, <<Result>>)
BY DEF Load
LEMMA CombineIs == ASSUME NEW op, NEW ty PROVE Combine(op, ty) = Appending(op, 2, <<1, 2>>, ty, <<Result>>)
BY DEF Combine
LEMMA StoreIs == ASSUME NEW l PROVE Store(l) = Appending("store", 2, <<1, 2>>, VoidType, l)
BY DEF Store

Ones == {"load", "cast", "neg", "complement", "lognot"}

(* An instruction of one operand on top of what waits. *)
LEMMA OneOn ==
  ASSUME NEW fn, NEW B, NEW s, Fit(fn, s), NEW op \in Ones, NEW ty, NEW a \in {"value", "slot"}, NEW r \in {"none", "value"}
  PROVE  Step(fn, B, Appending(op, 1, << 1 >>, ty, <<Result>>), Ex(s, <<a>>), Ex(s, <<r>>))
<1> DEFINE w == Appending(op, 1, << 1 >>, ty, <<Result>>)
<1>1. w.do = "append" /\ w.op \in Ones /\ w.takes = 1 /\ w.uses = << 1 >> /\ w.leaves = <<Result>>
  BY AppendingIs
<1>. HIDE DEF w
<1>2. Suits(w, <<a>>, <<r>>)
  BY <1>1, SuitsOne DEF Ones
<1>3. <<a>> \in Seq(Kinds) /\ <<r>> \in Seq(Kinds)
  BY KindLists
<1>4. Step(fn, B, w, Ex(s, <<a>>), Ex(s, <<r>>))
  BY <1>1, <1>2, <1>3, AppendOn
<1> QED
  BY <1>4 DEF w

(* An instruction of two. *)
LEMMA TwoOn ==
  ASSUME NEW fn, NEW B, NEW s, Fit(fn, s), NEW op \in Binary2, NEW ty,
         NEW a \in {"value", "slot"}, NEW b \in {"value", "slot"}, NEW r \in {"none", "value"}
  PROVE  Step(fn, B, Combine(op, ty), Ex(s, <<a, b>>), Ex(s, <<r>>))
<1> DEFINE w == Combine(op, ty)
<1>1. w.do = "append" /\ w.op \in Binary2 /\ w.takes = 2 /\ w.uses = <<1, 2>> /\ w.leaves = <<Result>>
  BY AppendingIs, CombineIs
<1>. HIDE DEF w
<1>2. Suits(w, <<a, b>>, <<r>>)
  BY <1>1, SuitsTwo
<1>3. <<a, b>> \in Seq(Kinds) /\ <<r>> \in Seq(Kinds)
  BY KindLists
<1>4. Step(fn, B, w, Ex(s, <<a, b>>), Ex(s, <<r>>))
  BY <1>1, <1>2, <1>3, AppendOn
<1> QED
  BY <1>4 DEF w

(* A void expression leaves no value; any other may be taken to leave one, *)
(* or to leave what nobody asks for.                                       *)
LEMMA KindsFacts ==
  ASSUME NEW n
  PROVE  /\ "none" \in KindsOf(n) /\ KindsOf(n) \subseteq {"none", "value"} /\ KindsOf(n) \subseteq Kinds
         /\ ~ IsVoid(n) => "value" \in KindsOf(n)
BY DEF KindsOf, Kinds

(* What an expression hands on, it has. *)
LEMMA SameKinds ==
  ASSUME NEW m, NEW n, IsVoid(m) => IsVoid(n), NEW r \in KindsOf(n)
  PROVE  r \in KindsOf(m)
BY DEF KindsOf

(* The work each kind of expression becomes leads from the shape before it *)
(* to the shape with its value on top. A literal:                          *)
LEMMA LiteralWork ==
  ASSUME NEW fn, NEW B, NEW s, Fit(fn, s), NEW v, NEW ty, NEW r \in {"none", "value"}
  PROVE  Chain(fn, B, <<ConstOf(v, ty)>>, Ex(s, <<>>), Ex(s, <<r>>))
BY ConstOn, ChainOne

(* The address of a global or function: *)
LEMMA GlobalWork ==
  ASSUME NEW fn, NEW B, NEW s, Fit(fn, s), NEW sym, NEW r \in {"none", "value"}
  PROVE  Chain(fn, B, <<GlobalOf(sym)>>, Ex(s, <<>>), Ex(s, <<r>>))
BY GlobalOn, ChainOne

(* An address taken: *)
LEMMA AddressWork ==
  ASSUME NEW fn, NEW B, NEW s, Fit(fn, s), NEW n \in NodesOf[fn], NEW r \in {"none", "value"}
  PROVE  Chain(fn, B, <<Address(n)>>, Ex(s, <<>>), Ex(s, <<r>>))
BY AddressOn, ChainOne

(* An object read, a struct by its address: *)
LEMMA ObjectWork ==
  ASSUME NEW fn, NEW B, NEW s, Fit(fn, s), NEW n \in NodesOf[fn], NEW r \in {"none", "value"}
  PROVE  Chain(fn, B, <<Address(n)>> \o IF IsAggregate(n.ty) THEN <<>> ELSE <<Load(n.ty)>>, Ex(s, <<>>), Ex(s, <<r>>))
<1>1. CASE IsAggregate(n.ty)
  <2>1. Chain(fn, B, <<Address(n)>>, Ex(s, <<>>), Ex(s, <<r>>))
    BY AddressWork
  <2>2. Chain(fn, B, <<>>, Ex(s, <<r>>), Ex(s, <<r>>))
    BY ChainEmpty
  <2>3. Chain(fn, B, <<Address(n)>> \o <<>>, Ex(s, <<>>), Ex(s, <<r>>))
    BY <2>1, <2>2, ChainJoin
  <2> QED
    BY <1>1, <2>3
<1>2. CASE ~ IsAggregate(n.ty)
  <2>1. Chain(fn, B, <<Address(n)>>, Ex(s, <<>>), Ex(s, <<"value">>))
    BY AddressWork
  <2>2. Step(fn, B, Load(n.ty), Ex(s, <<"value">>), Ex(s, <<r>>))
    BY OneOn, LoadIs DEF Ones
  <2>3. Chain(fn, B, <<Load(n.ty)>>, Ex(s, <<"value">>), Ex(s, <<r>>))
    BY <2>2, ChainOne
  <2>4. Chain(fn, B, <<Address(n)>> \o <<Load(n.ty)>>, Ex(s, <<>>), Ex(s, <<r>>))
    BY <2>1, <2>3, ChainJoin
  <2> QED
    BY <1>2, <2>4
<1> QED
  BY <1>1, <1>2

(* An index is scaled on either side of its pointer. *)
LEMMA ScaleOn ==
  ASSUME NEW fn, NEW B, NEW s, Fit(fn, s), NEW ty
  PROVE  /\ Step(fn, B, Appending("mul", 3, <<2, 3>>, ty, <<1, Result>>),
                 Ex(s, <<"value", "value", "value">>), Ex(s, <<"value", "value">>))
         /\ Step(fn, B, Appending("mul", 3, <<1, 3>>, ty, <<Result, 2>>),
                 Ex(s, <<"value", "value", "value">>), Ex(s, <<"value", "value">>))
<1>0. <<"value", "value">> \in Seq(Kinds) /\ <<"value", "value", "value">> \in Seq(Kinds)
  BY KindLists
<1>9. "mul" \in Binary2
  BY DEF Binary2
<1> DEFINE w == Appending("mul", 3, <<2, 3>>, ty, <<1, Result>>)
           x == Appending("mul", 3, <<1, 3>>, ty, <<Result, 2>>)
<1>1. /\ w.do = "append" /\ w.op = "mul" /\ w.takes = 3 /\ w.uses = <<2, 3>> /\ w.leaves = <<1, Result>>
      /\ x.do = "append" /\ x.op = "mul" /\ x.takes = 3 /\ x.uses = <<1, 3>> /\ x.leaves = <<Result, 2>>
  BY AppendingIs
<1>. HIDE DEF w, x
<1>2. Suits(w, <<"value", "value", "value">>, <<"value", "value">>)
  BY <1>1, <1>9, SuitsScale
<1>3. Suits(x, <<"value", "value", "value">>, <<"value", "value">>)
  BY <1>1, <1>9, SuitsScaleLeft
<1>4. Step(fn, B, w, Ex(s, <<"value", "value", "value">>), Ex(s, <<"value", "value">>))
  BY <1>0, <1>1, <1>2, AppendOn
<1>5. Step(fn, B, x, Ex(s, <<"value", "value", "value">>), Ex(s, <<"value", "value">>))
  BY <1>0, <1>1, <1>3, AppendOn
<1> QED
  BY <1>4, <1>5 DEF w, x

(* An element of an array: *)
LEMMA SubscriptWork ==
  ASSUME NEW fn, NEW B, NEW s, Fit(fn, s), NEW n \in NodesOf[fn], n.type = "subscript", NEW r \in {"none", "value"}
  PROVE  Chain(fn, B, <<Value(n.left), Value(n.right), ConstOf(ElementSize(n.left.ty), LongType),
                        Appending("mul", 3, <<2, 3>>, LongType, <<1, Result>>),
                        Combine("add", PointerTo(n.ty))>>, Ex(s, <<>>), Ex(s, <<r>>))
<1>1. n.left \in NodesOf[fn] /\ n.right \in NodesOf[fn] /\ "value" \in KindsOf(n.left) /\ "value" \in KindsOf(n.right)
  BY NodeFacts, BeneathFacts, TypedFacts, KindsFacts DEF Fit
<1>2. "value" \in Kinds /\ "add" \in Binary2
  BY KindLists DEF Binary2
<1>3. Step(fn, B, Value(n.left), Ex(s, <<>>), Ex(s, <<"value">>))
  BY <1>1, ValueOn
<1>4. Step(fn, B, Value(n.right), Ex(s, <<"value">>), Ex(s, <<"value", "value">>))
  BY <1>1, <1>2, ValueOn
<1>5. Step(fn, B, ConstOf(ElementSize(n.left.ty), LongType), Ex(s, <<"value", "value">>), Ex(s, <<"value", "value", "value">>))
  BY <1>2, ConstOn
<1>6. Step(fn, B, Appending("mul", 3, <<2, 3>>, LongType, <<1, Result>>),
           Ex(s, <<"value", "value", "value">>), Ex(s, <<"value", "value">>))
  BY ScaleOn
<1>7. Step(fn, B, Combine("add", PointerTo(n.ty)), Ex(s, <<"value", "value">>), Ex(s, <<r>>))
  BY <1>2, TwoOn
<1> QED
  BY <1>3, <1>4, <1>5, <1>6, <1>7, ChainFive

(* A field: *)
LEMMA FieldWork ==
  ASSUME NEW fn, NEW B, NEW s, Fit(fn, s), NEW n \in NodesOf[fn], n.type = "field", NEW k, NEW r \in {"none", "value"}
  PROVE  Chain(fn, B, <<Address(n.left), ConstOf(k, LongType), Combine("add", PointerTo(n.ty))>>, Ex(s, <<>>), Ex(s, <<r>>))
<1>1. n.left \in NodesOf[fn]
  BY NodeFacts, BeneathFacts DEF Fit
<1>2. "value" \in Kinds /\ "add" \in Binary2
  BY KindLists DEF Binary2
<1>3. Step(fn, B, Address(n.left), Ex(s, <<>>), Ex(s, <<"value">>))
  BY <1>1, AddressOn
<1>4. Step(fn, B, ConstOf(k, LongType), Ex(s, <<"value">>), Ex(s, <<"value", "value">>))
  BY <1>2, ConstOn
<1>5. Step(fn, B, Combine("add", PointerTo(n.ty)), Ex(s, <<"value", "value">>), Ex(s, <<r>>))
  BY <1>2, TwoOn
<1> QED
  BY <1>3, <1>4, <1>5, ChainThree

(* What a pointer points to: *)
LEMMA DereferenceWork ==
  ASSUME NEW fn, NEW B, NEW s, Fit(fn, s), NEW n \in NodesOf[fn], n.type = "dereference", NEW r \in {"none", "value"}
  PROVE  Chain(fn, B, <<Value(n.left)>>, Ex(s, <<>>), Ex(s, <<r>>))
<1>1. n.left \in NodesOf[fn] /\ r \in KindsOf(n.left)
  BY NodeFacts, BeneathFacts, TypedFacts, KindsFacts DEF Fit
<1> QED
  BY <1>1, ValueOn, ChainOne

(* An assignment, of a scalar, of the struct a call returns and of a       *)
(* struct in memory:                                                       *)
LEMMA AssignWork ==
  ASSUME NEW fn, NEW B, NEW s, Fit(fn, s), NEW n \in NodesOf[fn], n.type = "assign", NEW r \in {"none", "value"}
  PROVE  /\ Chain(fn, B, Assigned(n), Ex(s, <<>>), Ex(s, <<r>>))
         /\ Chain(fn, B, <<Value(n.right), Address(n.left), Appending("store", 2, <<2, 1>>, VoidType, << 2 >>)>>,
                  Ex(s, <<>>), Ex(s, <<r>>))
         /\ \A k : Chain(fn, B, <<Address(n.right), Address(n.left),
                                  [Appending("memcpy", 2, <<2, 1>>, VoidType, << 2 >>) EXCEPT !.imm = k]>>,
                         Ex(s, <<>>), Ex(s, <<r>>))
<1>1. n.left \in NodesOf[fn] /\ n.right \in NodesOf[fn] /\ "value" \in KindsOf(n.right)
  BY NodeFacts, BeneathFacts, TypedFacts, KindsFacts DEF Fit
<1>2. "value" \in Kinds
  BY KindLists
<1>3. Step(fn, B, Value(n.right), Ex(s, <<>>), Ex(s, <<"value">>))
  BY <1>1, ValueOn
<1>4. Step(fn, B, Address(n.right), Ex(s, <<>>), Ex(s, <<"value">>))
  BY <1>1, AddressOn
<1>5. Step(fn, B, Address(n.left), Ex(s, <<"value">>), Ex(s, <<"value", "value">>))
  BY <1>1, <1>2, AddressOn
<1>6. <<"value", "value">> \in Seq(Kinds) /\ <<r>> \in Seq(Kinds)
  BY KindLists
<1>7. Step(fn, B, Appending("store", 2, <<2, 1>>, VoidType, << 1 >>), Ex(s, <<"value", "value">>), Ex(s, <<r>>))
  <2> DEFINE w == Appending("store", 2, <<2, 1>>, VoidType, << 1 >>)
  <2>1. w.do = "append" /\ w.op = "store" /\ w.takes = 2 /\ w.uses = <<2, 1>> /\ w.leaves = << 1 >>
    BY AppendingIs
  <2>. HIDE DEF w
  <2>2. Suits(w, <<"value", "value">>, <<r>>)
    BY <2>1, SuitsStoreFirst
  <2>3. Step(fn, B, w, Ex(s, <<"value", "value">>), Ex(s, <<r>>))
    BY <1>6, <2>1, <2>2, AppendOn
  <2> QED
    BY <2>3 DEF w
<1>8. Step(fn, B, Appending("store", 2, <<2, 1>>, VoidType, << 2 >>), Ex(s, <<"value", "value">>), Ex(s, <<r>>))
  <2> DEFINE w == Appending("store", 2, <<2, 1>>, VoidType, << 2 >>)
  <2>1. w.do = "append" /\ w.op = "store" /\ w.takes = 2 /\ w.uses = <<2, 1>> /\ w.leaves = << 2 >>
    BY AppendingIs
  <2>. HIDE DEF w
  <2>2. Suits(w, <<"value", "value">>, <<r>>)
    BY <2>1, SuitsStoreSecond
  <2>3. Step(fn, B, w, Ex(s, <<"value", "value">>), Ex(s, <<r>>))
    BY <1>6, <2>1, <2>2, AppendOn
  <2> QED
    BY <2>3 DEF w
<1>9. ASSUME NEW k
      PROVE  Step(fn, B, [Appending("memcpy", 2, <<2, 1>>, VoidType, << 2 >>) EXCEPT !.imm = k],
                  Ex(s, <<"value", "value">>), Ex(s, <<r>>))
  <2> DEFINE w == [Appending("memcpy", 2, <<2, 1>>, VoidType, << 2 >>) EXCEPT !.imm = k]
  <2>1. w.do = "append" /\ w.op = "memcpy" /\ w.takes = 2 /\ w.uses = <<2, 1>> /\ w.leaves = << 2 >>
    BY SizedIs
  <2>. HIDE DEF w
  <2>2. Suits(w, <<"value", "value">>, <<r>>)
    BY <2>1, SuitsStoreSecond
  <2>3. Step(fn, B, w, Ex(s, <<"value", "value">>), Ex(s, <<r>>))
    BY <1>6, <2>1, <2>2, AppendOn
  <2> QED
    BY <2>3 DEF w
<1>10. Chain(fn, B, Assigned(n), Ex(s, <<>>), Ex(s, <<r>>))
  BY <1>3, <1>5, <1>7, ChainThree DEF Assigned
<1>11. Chain(fn, B, <<Value(n.right), Address(n.left), Appending("store", 2, <<2, 1>>, VoidType, << 2 >>)>>,
             Ex(s, <<>>), Ex(s, <<r>>))
  BY <1>3, <1>5, <1>8, ChainThree
<1>12. ASSUME NEW k
       PROVE  Chain(fn, B, <<Address(n.right), Address(n.left),
                             [Appending("memcpy", 2, <<2, 1>>, VoidType, << 2 >>) EXCEPT !.imm = k]>>,
                    Ex(s, <<>>), Ex(s, <<r>>))
  <2> DEFINE w == [Appending("memcpy", 2, <<2, 1>>, VoidType, << 2 >>) EXCEPT !.imm = k]
  <2>1. Step(fn, B, w, Ex(s, <<"value", "value">>), Ex(s, <<r>>))
    BY <1>9
  <2>. HIDE DEF w
  <2>2. Chain(fn, B, <<Address(n.right), Address(n.left), w>>, Ex(s, <<>>), Ex(s, <<r>>))
    BY <1>4, <1>5, <2>1, ChainThree
  <2> QED
    BY <2>2 DEF w
<1> QED
  BY <1>10, <1>11, <1>12

(* n values waiting. *)
Many(n) == [j \in 1 .. n |-> "value"]

(* The arguments of a call. *)
LEMMA ManyFacts ==
  ASSUME NEW n \in Nat
  PROVE  /\ Many(n) \in Seq(Kinds) /\ Len(Many(n)) = n /\ DOMAIN Many(n) = 1 .. n
         /\ Append(Many(n), "value") = Many(n + 1)
         /\ Many(0) = <<>> /\ Many(1) = <<"value">>
<1>1. \A m \in Nat : Many(m) \in Seq(Kinds) /\ Len(Many(m)) = m /\ DOMAIN Many(m) = 1 .. m
                     /\ \A k \in 1 .. m : Many(m)[k] = "value"
  BY DEF Many, Kinds
<1>2. Append(Many(n), "value") = Many(n + 1)
  <2> DEFINE a == Append(Many(n), "value")
  <2>1. IsSeq(Many(n))
    BY <1>1, TypedSeq
  <2>2. a \in Seq(Kinds)
    BY <1>1, KindLists
  <2>3. Len(a) = n + 1 /\ (\A k \in 1 .. n : a[k] = "value") /\ a[n + 1] = "value"
    BY <1>1, <2>1, Appended
  <2>. HIDE DEF a
  <2>4. \A k \in 1 .. Len(a) : a[k] = Many(n + 1)[k]
    BY <1>1, <2>3
  <2>5. a = Many(n + 1)
    BY <1>1, <2>2, <2>3, <2>4, SeqEqual
  <2> QED
    BY <2>5 DEF a
<1>3. Many(0) = <<>>
  BY <1>1, EmptySeq
<1>4. Many(1) = <<"value">>
  <2> DEFINE v == <<"value">>
  <2>1. v \in Seq(Kinds) /\ Len(v) = 1 /\ v[1] = "value"
    BY KindLists
  <2>. HIDE DEF v
  <2>2. Many(1) = v
    BY <1>1, <2>1, SeqEqual
  <2> QED
    BY <2>2 DEF v
<1> QED
  BY <1>1, <1>2, <1>3, <1>4

(* A call, above the value that is called: *)
LEMMA CallWork ==
  ASSUME NEW fn, NEW B, NEW s, Fit(fn, s), NEW n \in NodesOf[fn], n.type = "call", NEW r \in KindsOf(n)
  PROVE  Chain(fn, B, ArgumentsAndCall(n), Ex(s, <<"value">>), Ex(s, <<r>>))
<1>1. IsSeq(n.args) /\ \A k \in DOMAIN n.args : n.args[k] \in NodesOf[fn] /\ "value" \in KindsOf(n.args[k])
  <2>1. WellTyped(n) /\ Beneath(n) \subseteq NodesOf[fn]
    BY NodeFacts DEF Fit
  <2>2. IsSeq(n.args) /\ \A a \in Range(n.args) : ~ IsVoid(a) /\ a \in NodesOf[fn]
    BY <2>1, BeneathFacts, TypedFacts DEF WellTyped
  <2> QED
    BY <2>2, KindsFacts DEF Range
<1> DEFINE N == Len(n.args)
           work == [k \in DOMAIN n.args |-> Value(n.args[k])]
           sh == [k \in 1 .. N + 1 |-> Ex(s, Many(k))]
           uses == [k \in 1 .. N + 1 |-> k]
           w == Appending("call", N + 1, uses, n.ty, <<Result>>)
<1>2. N \in Nat /\ DOMAIN n.args = 1 .. N
  BY <1>1, SeqFacts
<1>3. ASSUME NEW k \in 1 .. N PROVE Step(fn, B, work[k], sh[k], sh[k + 1])
  <2>1. work[k] = Value(n.args[k]) /\ sh[k] = Ex(s, Many(k)) /\ sh[k + 1] = Ex(s, Many(k + 1))
    BY <1>2
  <2>4. k \in Nat
    BY <1>2
  <2>2. Many(k) \in Seq(Kinds) /\ Append(Many(k), "value") = Many(k + 1)
    BY <2>4, ManyFacts
  <2>3. Step(fn, B, Value(n.args[k]), Ex(s, Many(k)), Ex(s, Append(Many(k), "value")))
    BY <1>1, <1>2, <2>2, ValueOver DEF Fit
  <2> QED
    BY <2>1, <2>2, <2>3
<1>4. Chain(fn, B, work, sh[1], sh[N + 1])
  <2>1. work = [k \in 1 .. N |-> work[k]]
    BY <1>2
  <2>. HIDE DEF work, sh, N
  <2> QED
    BY <1>2, <1>3, <2>1, ChainAlong
<1>5. sh[1] = Ex(s, <<"value">>) /\ sh[N + 1] = Ex(s, Many(N + 1))
  <2>1. sh[1] = Ex(s, Many(1)) /\ sh[N + 1] = Ex(s, Many(N + 1))
    BY <1>2
  <2>2. Many(1) = <<"value">>
    BY <1>2, ManyFacts
  <2>. HIDE DEF sh, N
  <2> QED
    BY <2>1, <2>2
<1>6. w.do = "append" /\ w.op = "call" /\ w.takes = N + 1 /\ w.uses = uses /\ w.leaves = <<Result>> /\ w.ty = n.ty.ir
  BY AppendingIs
<1>7. /\ IsSeq(uses) /\ Len(uses) = N + 1 /\ DOMAIN uses = 1 .. N + 1 /\ \A k \in 1 .. N + 1 : uses[k] = k
  <2>1. uses = [k \in 1 .. N + 1 |-> uses[k]] /\ \A k \in 1 .. N + 1 : uses[k] = k
    OBVIOUS
  <2>2. N + 1 \in Nat
    BY <1>2
  <2>. HIDE DEF uses, N
  <2> QED
    BY <2>1, <2>2, ListIs
<1>8. r = "none" \/ (r = "value" /\ HasResult("call", n.ty.ir))
  BY DEF KindsOf, IsVoid, HasResult
<1>9. /\ Many(N + 1) \in Seq(Kinds) /\ Len(Many(N + 1)) = N + 1 /\ DOMAIN Many(N + 1) = 1 .. N + 1
      /\ \A k \in 1 .. N + 1 : Many(N + 1)[k] = "value"
  <2>1. N + 1 \in Nat
    BY <1>2
  <2>. HIDE DEF N
  <2>2. Many(N + 1) \in Seq(Kinds) /\ Len(Many(N + 1)) = N + 1 /\ DOMAIN Many(N + 1) = 1 .. N + 1
    BY <2>1, ManyFacts
  <2>3. \A k \in 1 .. N + 1 : Many(N + 1)[k] = "value"
    BY DEF Many
  <2> QED
    BY <2>2, <2>3
<1>10. <<r>> \in Seq(Kinds)
  BY <1>8, KindLists
<1>. HIDE DEF w, uses, work, sh, N
<1>11. Suits(w, Many(N + 1), <<r>>)
  <2> DEFINE z == <<r>>
             l == <<Result>>
  <2>1. DOMAIN z = {1} /\ z[1] = r /\ IsSeq(l) /\ DOMAIN l = {1} /\ l[1] = Result
    BY ShortLists
  <2>2. w.leaves = l
    BY <1>6
  <2>. HIDE DEF z, l
  <2>3. IsSeq(w.uses) /\ \A k \in DOMAIN w.uses : w.uses[k] \in DOMAIN Many(N + 1) /\ Many(N + 1)[w.uses[k]] # "none"
    BY <1>6, <1>7, <1>9
  <2>4. IsSeq(w.leaves) /\ DOMAIN z = DOMAIN w.leaves
    BY <2>1, <2>2
  <2>5. \A k \in DOMAIN w.leaves :
          IF w.leaves[k] = Result THEN z[k] = "none" \/ (z[k] = "value" /\ HasResult(w.op, w.ty))
          ELSE w.leaves[k] \in DOMAIN Many(N + 1) /\ z[k] \in {"none", Many(N + 1)[w.leaves[k]]}
    BY <1>6, <1>8, <2>1, <2>2
  <2>6. RequiredArgs([op |-> w.op, args |-> w.uses])
    <3>1. Len(w.uses) >= 1
      BY <1>2, <1>6, <1>7
    <3> QED
      BY <1>6, <3>1 DEF RequiredArgs
  <2>7. Len(Many(N + 1)) = w.takes /\ ~ IsTerminator(w.op) /\ w.op \notin {"phi", "alloca"}
    BY <1>6, <1>9 DEF IsTerminator
  <2>8. Suits(w, Many(N + 1), z)
    BY <2>3, <2>4, <2>5, <2>6, <2>7 DEF Suits
  <2> QED
    BY <2>8 DEF z
<1>12. Step(fn, B, w, Ex(s, Many(N + 1)), Ex(s, <<r>>))
  BY <1>6, <1>9, <1>10, <1>11, AppendOn
<1>13. Chain(fn, B, work \o <<w>>, Ex(s, <<"value">>), Ex(s, <<r>>))
  BY <1>4, <1>5, <1>12, ChainOne, ChainJoin
<1>14. ArgumentsAndCall(n) = work \o <<w>>
  BY DEF ArgumentsAndCall, work, w, uses, N
<1> QED
  BY <1>13, <1>14

(* A conversion, or none: *)
LEMMA CastWork ==
  ASSUME NEW fn, NEW B, NEW s, Fit(fn, s), NEW n \in NodesOf[fn], n.type = "cast", NEW r \in KindsOf(n)
  PROVE  Chain(fn, B, <<Value(n.left)>> \o
                 IF n.ty = n.left.ty THEN <<>> ELSE <<Appending("cast", 1, << 1 >>, n.ty, <<Result>>)>>,
               Ex(s, <<>>), Ex(s, <<r>>))
<1>1. n.left \in NodesOf[fn] /\ (n.ty = n.left.ty => r \in KindsOf(n.left)) /\ (n.ty # n.left.ty => "value" \in KindsOf(n.left))
  BY NodeFacts, BeneathFacts, TypedFacts, KindsFacts, SameKinds DEF Fit
<1>2. CASE n.ty = n.left.ty
  <2>1. Chain(fn, B, <<Value(n.left)>>, Ex(s, <<>>), Ex(s, <<r>>))
    BY <1>1, <1>2, ValueOn, ChainOne
  <2>2. Chain(fn, B, <<Value(n.left)>> \o <<>>, Ex(s, <<>>), Ex(s, <<r>>))
    BY <2>1, ChainEmpty, ChainJoin
  <2> QED
    BY <1>2, <2>2
<1>3. CASE n.ty # n.left.ty
  <2>1. Chain(fn, B, <<Value(n.left)>>, Ex(s, <<>>), Ex(s, <<"value">>))
    BY <1>1, <1>3, ValueOn, ChainOne
  <2>2. r \in {"none", "value"}
    BY KindsFacts
  <2>3. Step(fn, B, Appending("cast", 1, << 1 >>, n.ty, <<Result>>), Ex(s, <<"value">>), Ex(s, <<r>>))
    BY <2>2, OneOn DEF Ones
  <2>4. Chain(fn, B, <<Value(n.left)>> \o <<Appending("cast", 1, << 1 >>, n.ty, <<Result>>)>>, Ex(s, <<>>), Ex(s, <<r>>))
    BY <2>1, <2>3, ChainOne, ChainJoin
  <2> QED
    BY <1>3, <2>4
<1> QED
  BY <1>2, <1>3

(* An operator of one operand: *)
LEMMA UnaryWork ==
  ASSUME NEW fn, NEW B, NEW s, Fit(fn, s), NEW n \in NodesOf[fn], n.type = "unary", NEW r \in {"none", "value"}
  PROVE  Chain(fn, B, <<Value(n.left), Appending(n.op, 1, << 1 >>, n.ty, <<Result>>)>>, Ex(s, <<>>), Ex(s, <<r>>))
<1>0. WellTyped(n)
  BY NodeFacts DEF Fit
<1>1. n.left \in NodesOf[fn] /\ "value" \in KindsOf(n.left) /\ n.op \in Ones
  BY <1>0, NodeFacts, BeneathFacts, TypedFacts, KindsFacts DEF Fit, WellTyped, Ones
<1>2. Step(fn, B, Value(n.left), Ex(s, <<>>), Ex(s, <<"value">>))
  BY <1>1, ValueOn
<1>3. Step(fn, B, Appending(n.op, 1, << 1 >>, n.ty, <<Result>>), Ex(s, <<"value">>), Ex(s, <<r>>))
  BY <1>1, OneOn
<1> QED
  BY <1>2, <1>3, ChainTwo

(* Steps by one, prefix and postfix: *)
LEMMA StepWork ==
  ASSUME NEW fn, NEW B, NEW s, Fit(fn, s), NEW n \in NodesOf[fn], n.type = "step", NEW r \in {"none", "value"}
  PROVE  Chain(fn, B, <<Address(n.left),
                        Appending("load", 1, << 1 >>, n.ty, <<1, Result>>),
                        ConstOf(StepOf(n.ty), n.ty),
                        Appending(n.op, 3, <<2, 3>>, n.ty, <<1, 2, Result>>),
                        Appending("store", 3, <<1, 3>>, VoidType, IF n.prefix THEN << 3 >> ELSE << 2 >>)>>,
               Ex(s, <<>>), Ex(s, <<r>>))
<1>0. WellTyped(n)
  BY NodeFacts DEF Fit
<1>1. n.left \in NodesOf[fn] /\ n.op \in {"add", "sub"}
  BY <1>0, NodeFacts, BeneathFacts DEF Fit, WellTyped
<1>2. /\ "value" \in Kinds /\ <<"value">> \in Seq(Kinds) /\ <<"value", "value">> \in Seq(Kinds)
      /\ <<"value", "value", "value">> \in Seq(Kinds) /\ <<r>> \in Seq(Kinds)
  BY KindLists
<1>3. Step(fn, B, Address(n.left), Ex(s, <<>>), Ex(s, <<"value">>))
  BY <1>1, AddressOn
<1> DEFINE p == Appending("load", 1, << 1 >>, n.ty, <<1, Result>>)
           q == Appending(n.op, 3, <<2, 3>>, n.ty, <<1, 2, Result>>)
           l == IF n.prefix THEN << 3 >> ELSE << 2 >>
           w == Appending("store", 3, <<1, 3>>, VoidType, l)
<1>4. /\ p.do = "append" /\ p.op = "load" /\ p.takes = 1 /\ p.uses = << 1 >> /\ p.leaves = <<1, Result>>
      /\ q.do = "append" /\ q.op = n.op /\ q.takes = 3 /\ q.uses = <<2, 3>> /\ q.leaves = <<1, 2, Result>>
      /\ w.do = "append" /\ w.op = "store" /\ w.takes = 3 /\ w.uses = <<1, 3>> /\ w.leaves = l
  BY AppendingIs
<1>5. l = << 3 >> \/ l = << 2 >>
  OBVIOUS
<1>. HIDE DEF p, q, l, w
<1>6. Step(fn, B, p, Ex(s, <<"value">>), Ex(s, <<"value", "value">>))
  <2>1. Suits(p, <<"value">>, <<"value", "value">>)
    BY <1>4, SuitsLoadKeep
  <2> QED
    BY <1>2, <1>4, <2>1, AppendOn
<1>7. Step(fn, B, ConstOf(StepOf(n.ty), n.ty), Ex(s, <<"value", "value">>), Ex(s, <<"value", "value", "value">>))
  BY <1>2, ConstOn
<1>8. Step(fn, B, q, Ex(s, <<"value", "value", "value">>), Ex(s, <<"value", "value", "value">>))
  <2>1. Suits(q, <<"value", "value", "value">>, <<"value", "value", "value">>)
    BY <1>1, <1>4, SuitsStep
  <2> QED
    BY <1>2, <1>4, <2>1, AppendOn
<1>9. Suits(w, <<"value", "value", "value">>, <<r>>)
  BY <1>4, <1>5, SuitsStepPrefix, SuitsStepPostfix
<1>10. Step(fn, B, w, Ex(s, <<"value", "value", "value">>), Ex(s, <<r>>))
  BY <1>2, <1>4, <1>9, AppendOn
<1>11. Chain(fn, B, <<Address(n.left), p, ConstOf(StepOf(n.ty), n.ty), q, w>>, Ex(s, <<>>), Ex(s, <<r>>))
  BY <1>3, <1>6, <1>7, <1>8, <1>10, ChainFive
<1> QED
  BY <1>11 DEF p, q, w, l

(* A value nobody asks for. *)
LEMMA ForgetOn ==
  ASSUME NEW fn, NEW B, NEW s, Fit(fn, s), NEW k \in Kinds
  PROVE  Step(fn, B, Forget, Ex(s, <<k>>), Ex(s, <<>>))
<1>1. s.stack \in Seq(Kinds)
  BY DEF Fit, IsShape
<1>2. s.stack \o <<k>> = Append(s.stack, k) /\ s.stack \o <<>> = s.stack
  <2>1. <<>> \in Seq(Kinds)
    BY KindLists
  <2> QED
    BY <1>1, <2>1, Piled
<1>3. Low(s.due, Len(s.stack) + 1)
  BY Lower1 DEF Fit
<1> DEFINE a == Ex(s, <<k>>)
           b == Ex(s, <<>>)
<1>4. /\ a.stack = Append(s.stack, k) /\ a.open = TRUE /\ a.cases = s.cases /\ a.left = s.left /\ a.due = s.due
      /\ b = Sh(s.stack, TRUE, s.cases, s.left, s.due)
  BY <1>2 DEF Ex, Sh
<1>5. Forget.do = "forget"
  BY DEF Forget
<1>. HIDE DEF a, b
<1>6. PopStep(Forget, a, b)
  BY <1>1, <1>3, <1>4, <1>5 DEF PopStep
<1> QED
  BY <1>6 DEF Step, a, b

(* The left operand is forgotten: *)
LEMMA CommaWork ==
  ASSUME NEW fn, NEW B, NEW s, Fit(fn, s), NEW n \in NodesOf[fn], n.type = "comma", NEW r \in KindsOf(n)
  PROVE  Chain(fn, B, <<Value(n.left), Forget, Value(n.right)>>, Ex(s, <<>>), Ex(s, <<r>>))
<1>1. n.left \in NodesOf[fn] /\ n.right \in NodesOf[fn] /\ r \in KindsOf(n.right) /\ "none" \in KindsOf(n.left)
  BY NodeFacts, BeneathFacts, TypedFacts, KindsFacts, SameKinds DEF Fit
<1>2. Step(fn, B, Value(n.left), Ex(s, <<>>), Ex(s, <<"none">>))
  BY <1>1, ValueOn
<1>3. Step(fn, B, Forget, Ex(s, <<"none">>), Ex(s, <<>>))
  BY ForgetOn, KindLists
<1>4. Step(fn, B, Value(n.right), Ex(s, <<>>), Ex(s, <<r>>))
  BY <1>1, ValueOn
<1> QED
  BY <1>2, <1>3, <1>4, ChainThree

(* An operator of two operands, pointers with an index scaled among them: *)
LEMMA OperationWork ==
  ASSUME NEW fn, NEW B, NEW s, Fit(fn, s), NEW n \in NodesOf[fn], n.type = "binary", NEW r \in {"none", "value"}
  PROVE  Chain(fn, B, <<Value(n.left), Value(n.right)>> \o Operation(n), Ex(s, <<>>), Ex(s, <<r>>))
<1>0. WellTyped(n)
  BY NodeFacts DEF Fit
<1>1. /\ n.left \in NodesOf[fn] /\ n.right \in NodesOf[fn] /\ "value" \in KindsOf(n.left) /\ "value" \in KindsOf(n.right)
      /\ n.op \in Binary2
  BY <1>0, NodeFacts, BeneathFacts, TypedFacts, KindsFacts DEF Fit, WellTyped, Binary2
<1>2. "value" \in Kinds /\ {"add", "sub", "mul", "div"} \subseteq Binary2
  BY KindLists DEF Binary2
<1>3. Step(fn, B, Value(n.left), Ex(s, <<>>), Ex(s, <<"value">>))
  BY <1>1, ValueOn
<1>4. Step(fn, B, Value(n.right), Ex(s, <<"value">>), Ex(s, <<"value", "value">>))
  BY <1>1, <1>2, ValueOn
<1>5. Chain(fn, B, <<Value(n.left), Value(n.right)>>, Ex(s, <<>>), Ex(s, <<"value", "value">>))
  BY <1>3, <1>4, ChainTwo
<1>6. \A op \in Binary2 : \A ty : Step(fn, B, Combine(op, ty), Ex(s, <<"value", "value">>), Ex(s, <<r>>))
  BY TwoOn
<1>7. Step(fn, B, Combine("sub", LongType), Ex(s, <<"value", "value">>), Ex(s, <<"value">>))
  BY <1>2, TwoOn
<1>8. \A k : Step(fn, B, ConstOf(k, LongType), Ex(s, <<"value">>), Ex(s, <<"value", "value">>))
  BY <1>2, ConstOn
<1>9. \A k : Step(fn, B, ConstOf(k, LongType), Ex(s, <<"value", "value">>), Ex(s, <<"value", "value", "value">>))
  BY <1>2, ConstOn
<1>10. /\ Step(fn, B, Appending("mul", 3, <<2, 3>>, LongType, <<1, Result>>),
               Ex(s, <<"value", "value", "value">>), Ex(s, <<"value", "value">>))
       /\ Step(fn, B, Appending("mul", 3, <<1, 3>>, LongType, <<Result, 2>>),
               Ex(s, <<"value", "value", "value">>), Ex(s, <<"value", "value">>))
  BY ScaleOn
<1>11. Chain(fn, B, <<Combine(n.op, n.ty)>>, Ex(s, <<"value", "value">>), Ex(s, <<r>>))
  BY <1>1, <1>6, ChainOne
<1>12. \A k : Chain(fn, B, <<Combine("sub", LongType), ConstOf(k, LongType), Combine("div", n.ty)>>,
                    Ex(s, <<"value", "value">>), Ex(s, <<r>>))
  BY <1>2, <1>6, <1>7, <1>8, ChainThree
<1>13. \A k : Chain(fn, B, <<ConstOf(k, LongType), Appending("mul", 3, <<2, 3>>, LongType, <<1, Result>>), Combine(n.op, n.ty)>>,
                    Ex(s, <<"value", "value">>), Ex(s, <<r>>))
  BY <1>1, <1>6, <1>9, <1>10, ChainThree
<1>14. \A k : Chain(fn, B, <<ConstOf(k, LongType), Appending("mul", 3, <<1, 3>>, LongType, <<Result, 2>>), Combine("add", n.ty)>>,
                    Ex(s, <<"value", "value">>), Ex(s, <<r>>))
  BY <1>2, <1>6, <1>9, <1>10, ChainThree
<1>15. Chain(fn, B, Operation(n), Ex(s, <<"value", "value">>), Ex(s, <<r>>))
  BY <1>11, <1>12, <1>13, <1>14 DEF Operation
<1> QED
  BY <1>5, <1>15, ChainJoin

(* An answer that waits in a slot, above what waits in s; blocks D are due *)
(* while it does.                                                          *)
Slotted(s, D) == Sh(Append(s.stack, "slot"), TRUE, s.cases, s.left, s.due \cup D)
Shut(s) == Sh(s.stack, FALSE, s.cases, s.left, s.due)

SlotDue(s, D) == D \subseteq Nat \X {Len(s.stack) + 1} /\ IsDue(s.due \cup D)

(* What waits, and the slot above it. *)
LEMMA SlotOnTop ==
  ASSUME NEW x \in Seq(Kinds)
  PROVE  LET y == Append(x, "slot")
         IN /\ y \in Seq(Kinds) /\ Len(x) \in Nat /\ Len(y) = Len(x) + 1
            /\ y = x \o <<"slot">>
            /\ y \o <<"value">> = x \o <<"slot", "value">>
            /\ y \o <<"value">> = Append(y, "value")
            /\ y[Len(x) + 1] = "slot" /\ DOMAIN y = 1 .. Len(x) + 1
<1> DEFINE y == Append(x, "slot")
<1>3. "slot" \in Kinds /\ "value" \in Kinds /\ <<"slot">> \in Seq(Kinds) /\ <<>> \in Seq(Kinds)
      /\ Append(<<"slot">>, "value") = <<"slot", "value">>
  BY KindLists
<1>4. y \in Seq(Kinds) /\ y = x \o <<"slot">> /\ Len(x) \in Nat
  BY <1>3, Piled
<1>5. y \o <<"value">> = Append(y, "value")
  BY <1>3, <1>4, Piled
<1>6. Append(x \o <<"slot">>, "value") = x \o Append(<<"slot">>, "value")
  BY <1>3, Piled
<1>7. Len(y) = Len(x) + 1 /\ y[Len(x) + 1] = "slot" /\ DOMAIN y = 1 .. Len(x) + 1
  BY TypedSeq, Appended
<1>. HIDE DEF y
<1>8. y \o <<"value">> = x \o <<"slot", "value">>
  BY <1>3, <1>4, <1>5, <1>6
<1> QED
  BY <1>4, <1>5, <1>7, <1>8 DEF y

(* An answer that waits in a slot is a value above those of the shape, at  *)
(* the level of the blocks that are due while it does.                     *)
LEMMA SlottedFit ==
  ASSUME NEW fn, NEW s, Fit(fn, s), NEW D, SlotDue(s, D)
  PROVE  /\ Fit(fn, Slotted(s, D)) /\ Ex(Slotted(s, D), <<>>) = Slotted(s, D)
         /\ Low(s.due \cup D, Len(s.stack) + 1) /\ s.stack \in Seq(Kinds)
<1> DEFINE p == Slotted(s, D)
           x == s.stack
           y == Append(x, "slot")
<1>1. /\ p.stack = y /\ p.open = TRUE /\ p.cases = s.cases /\ p.left = s.left /\ p.due = s.due \cup D
      /\ p = Sh(y, TRUE, s.cases, s.left, s.due \cup D)
  BY DEF Slotted, Sh
<1>2. x \in Seq(Kinds) /\ s.due \subseteq Nat \X Nat
  BY DEF Fit, IsShape, IsDue
<1>4. y \in Seq(Kinds) /\ Len(x) \in Nat /\ Len(y) = Len(x) + 1
  BY <1>2, SlotOnTop
<1>8. Low(s.due \cup D, Len(x) + 1)
  BY <1>2, <1>4 DEF Low, Fit, SlotDue
<1>. HIDE DEF p, x, y
<1>9. IsShape(p)
  BY <1>1, <1>4 DEF IsShape, SlotDue
<1>10. Fit(fn, p)
  BY <1>1, <1>4, <1>8, <1>9 DEF Fit
<1>11. Ex(p, <<>>) = p
  BY <1>1, <1>9, KindLists, ExFacts
<1> QED
  BY <1>2, <1>8, <1>10, <1>11 DEF p, x

(* A value is stored to the slot, and the slot left. *)
LEMMA SlottedStores ==
  ASSUME NEW fn, NEW B, NEW s, Fit(fn, s), NEW D, SlotDue(s, D)
  PROVE  LET p == Slotted(s, D)
         IN /\ Step(fn, B, Store(<<1, 2>>), Ex(p, <<"value">>), Ex(p, <<"value">>))
            /\ Step(fn, B, Store(<< 1 >>), Ex(p, <<"value">>), p)
<1> DEFINE p == Slotted(s, D)
           q == Ex(p, <<"value">>)
           v == Store(<<1, 2>>)
           w == Store(<< 1 >>)
<1>9. /\ p.stack = Append(s.stack, "slot") /\ p.open = TRUE /\ p.cases = s.cases /\ p.left = s.left
      /\ p.due = s.due \cup D /\ p = Sh(p.stack, TRUE, p.cases, p.left, p.due)
  BY DEF Slotted, Sh
<1>10. Low(s.due \cup D, Len(s.stack) + 1) /\ s.stack \in Seq(Kinds)
  BY SlottedFit
<1>. HIDE DEF p
<1>1. /\ p.stack = s.stack \o <<"slot">> /\ p.stack \o <<"value">> = s.stack \o <<"slot", "value">>
      /\ Low(p.due, Len(s.stack) + 1) /\ s.stack \in Seq(Kinds)
  BY <1>9, <1>10, SlotOnTop
<1>11. p = Sh(s.stack \o <<"slot">>, TRUE, p.cases, p.left, p.due)
  BY <1>1, <1>9
<1>2. q = Sh(s.stack \o <<"slot", "value">>, TRUE, p.cases, p.left, p.due)
  BY <1>1, <1>9 DEF Ex
<1>3. q.stack = s.stack \o <<"slot", "value">> /\ q.open = TRUE /\ q.cases = p.cases /\ q.left = p.left /\ q.due = p.due
  BY <1>2 DEF Sh
<1>4. /\ v.do = "append" /\ v.op = "store" /\ v.takes = 2 /\ v.uses = <<1, 2>> /\ v.leaves = <<1, 2>>
      /\ w.do = "append" /\ w.op = "store" /\ w.takes = 2 /\ w.uses = <<1, 2>> /\ w.leaves = << 1 >>
  BY StoreIs, AppendingIs
<1>. HIDE DEF q, v, w
<1>5. Suits(v, <<"slot", "value">>, <<"slot", "value">>) /\ Suits(w, <<"slot", "value">>, <<"slot">>)
  BY <1>4, SuitsStoreKeep, SuitsStoreKeepBoth
<1>6. <<"slot", "value">> \in Seq(Kinds) /\ <<"slot">> \in Seq(Kinds)
  BY KindLists
<1>7. AppendStep(v, q, q)
  BY <1>1, <1>2, <1>3, <1>4, <1>5, <1>6, <1>11 DEF AppendStep
<1>8. AppendStep(w, q, p)
  BY <1>1, <1>2, <1>3, <1>4, <1>5, <1>6, <1>11 DEF AppendStep
<1> QED
  BY <1>7, <1>8 DEF Step, p, q, v, w

(* Control moves between the blocks due at the level of the slot. *)
LEMMA SlottedMoves ==
  ASSUME NEW fn, NEW B, NEW s, Fit(fn, s), NEW D, SlotDue(s, D)
  PROVE  LET p == Slotted(s, D)
         IN /\ \A a, b \in DueBlocks(D) : Step(fn, B, BranchTo(a, b), Ex(p, <<"value">>), Shut(p))
            /\ \A b \in DueBlocks(D) : Step(fn, B, JumpTo(b), p, Shut(p))
            /\ \A b : <<b, Len(s.stack) + 1>> \in D /\ <<b, Len(s.stack) + 1>> \notin s.due =>
                 Step(fn, B, OpenAt(b), Shut(p), Slotted(s, D \ {<<b, Len(s.stack) + 1>>}))
<1> DEFINE p == Slotted(s, D)
           q == Ex(p, <<"value">>)
           n == Len(s.stack)
<1>10. /\ p.stack = Append(s.stack, "slot") /\ p.open = TRUE /\ p.cases = s.cases /\ p.left = s.left
       /\ p.due = s.due \cup D
  BY DEF Slotted, Sh
<1>11. Low(s.due \cup D, n + 1) /\ s.stack \in Seq(Kinds)
  BY SlottedFit
<1>. HIDE DEF p
<1>1. /\ p.stack = Append(s.stack, "slot") /\ p.cases = s.cases /\ p.left = s.left /\ p.due = s.due \cup D
      /\ p.stack \o <<"value">> = Append(p.stack, "value") /\ p.stack \in Seq(Kinds)
      /\ Low(p.due, n + 1) /\ s.stack \in Seq(Kinds) /\ n \in Nat /\ Len(p.stack) = n + 1
      /\ p.stack[n + 1] = "slot"
  BY <1>10, <1>11, SlotOnTop
<1>2. q.stack = Append(p.stack, "value") /\ q.open = TRUE /\ q.cases = p.cases /\ q.left = p.left /\ q.due = p.due
  BY <1>1, <1>10 DEF Ex, Sh
<1>3. p.due \subseteq Nat \X Nat
  BY <1>1 DEF SlotDue, IsDue
<1>4. DueBlocks(D) \subseteq DueBlocks(p.due)
  BY <1>1 DEF DueBlocks
<1>5. Shut(p) = Sh(p.stack, FALSE, p.cases, p.left, p.due)
  BY DEF Shut
<1>6. /\ Shut(p).stack = p.stack /\ Shut(p).open = FALSE /\ Shut(p).cases = p.cases
      /\ Shut(p).left = p.left /\ Shut(p).due = p.due
  BY <1>5 DEF Sh
<1>. HIDE DEF q
<1>7. ASSUME NEW a \in DueBlocks(D), NEW b \in DueBlocks(D)
      PROVE  Step(fn, B, BranchTo(a, b), q, Shut(p))
  <2> DEFINE w == BranchTo(a, b)
  <2>1. w.do = "branch" /\ w.to = <<a, b>>
    BY DEF BranchTo
  <2>2. Low(p.due, Len(p.stack) + 1)
    BY <1>1, <1>3 DEF Low
  <2>3. a \in B \cup DueBlocks(q.due) /\ b \in B \cup DueBlocks(q.due)
    BY <1>2, <1>4
  <2>. HIDE DEF w
  <2>4. BranchStep(B, w, q, Shut(p))
    BY <1>1, <1>2, <1>5, <2>1, <2>2, <2>3 DEF BranchStep
  <2> QED
    BY <2>4 DEF Step, w
<1>8. ASSUME NEW b \in DueBlocks(D)
      PROVE  Step(fn, B, JumpTo(b), p, Shut(p))
  <2> DEFINE w == JumpTo(b)
  <2>1. w.do = "jump" /\ w.to = b
    BY DEF JumpTo
  <2>. HIDE DEF w
  <2>2. JumpStep(B, w, p, Shut(p))
    BY <1>1, <1>4, <1>5, <1>10, <2>1 DEF JumpStep
  <2> QED
    BY <2>2 DEF Step, w
<1>9. ASSUME NEW b, <<b, n + 1>> \in D, <<b, n + 1>> \notin s.due
      PROVE  Step(fn, B, OpenAt(b), Shut(p), Slotted(s, D \ {<<b, n + 1>>}))
  <2> DEFINE w == OpenAt(b)
             d == <<b, n + 1>>
             r == Slotted(s, D \ {d})
  <2>1. w.do = "open" /\ w.block = b /\ d[1] = b /\ d[2] = n + 1 /\ d \in p.due
    BY <1>1, <1>9 DEF OpenAt
  <2>2. (s.due \cup (D \ {d})) = p.due \ {d}
    BY <1>1, <1>9
  <2>3. r = Sh(p.stack, TRUE, p.cases, p.left, p.due \ {d})
    BY <1>1, <2>2 DEF Slotted
  <2>4. DOMAIN p.stack = 1 .. n + 1
    BY <1>1, LenProperties
  <2>5. \A k \in DOMAIN p.stack : k >= n + 1 => p.stack[k] = "slot"
    BY <1>1, <2>4
  <2>. HIDE DEF w, d, r
  <2>6. OpenStep(w, Shut(p), r)
    BY <1>1, <1>6, <2>1, <2>3, <2>5 DEF OpenStep
  <2> QED
    BY <2>6 DEF Step, w, d, r
<1> QED
  BY <1>7, <1>8, <1>9 DEF p, q, n

(* The answer is read from the slot. *)
LEMMA SlottedLoad ==
  ASSUME NEW fn, NEW B, NEW s, Fit(fn, s), NEW ty, NEW r \in {"none", "value"}
  PROVE  Step(fn, B, Load(ty), Slotted(s, {}), Ex(s, <<r>>))
<1>1. Slotted(s, {}) = Ex(s, <<"slot">>)
  <2>1. SlotDue(s, {})
    BY DEF SlotDue, Fit, IsShape
  <2>2. Append(s.stack, "slot") = s.stack \o <<"slot">>
    BY SlotOnTop DEF Fit, IsShape
  <2> QED
    BY <2>2 DEF Slotted, Ex
<1>2. Step(fn, B, Load(ty), Ex(s, <<"slot">>), Ex(s, <<r>>))
  BY OneOn, LoadIs DEF Ones
<1> QED
  BY <1>1, <1>2

(* An operand, and whether it is zero. *)
LEMMA TruthWork ==
  ASSUME NEW fn, NEW B, NEW s, Fit(fn, s), NEW n \in NodesOf[fn], ~ IsVoid(n)
  PROVE  Chain(fn, B, <<Value(n)>> \o IsTrue, Ex(s, <<>>), Ex(s, <<"value">>))
<1>1. "value" \in KindsOf(n) /\ "value" \in Kinds /\ "ne" \in Binary2
  BY KindsFacts, KindLists DEF Binary2
<1>2. Chain(fn, B, <<Value(n)>>, Ex(s, <<>>), Ex(s, <<"value">>))
  BY <1>1, ValueOn, ChainOne
<1>3. Step(fn, B, ConstOf(0, IntType), Ex(s, <<"value">>), Ex(s, <<"value", "value">>))
  BY <1>1, ConstOn
<1>4. Step(fn, B, Combine("ne", IntType), Ex(s, <<"value", "value">>), Ex(s, <<"value">>))
  BY <1>1, TwoOn
<1>5. Chain(fn, B, IsTrue, Ex(s, <<"value">>), Ex(s, <<"value">>))
  BY <1>3, <1>4, ChainTwo DEF IsTrue
<1> QED
  BY <1>2, <1>5, ChainJoin

(* Twelve pieces of work, by four. *)
LEMMA ChainTwelve ==
  ASSUME NEW fn, NEW B, NEW s, NEW u, NEW v, NEW t,
         NEW a, NEW b, NEW c, NEW d, NEW e, NEW f, NEW g, NEW h, NEW i, NEW j, NEW k, NEW l,
         Chain(fn, B, <<a, b, c, d>>, s, u), Chain(fn, B, <<e, f, g, h>>, u, v), Chain(fn, B, <<i, j, k, l>>, v, t)
  PROVE  Chain(fn, B, <<a, b, c, d, e, f, g, h, i, j, k, l>>, s, t)
<1> DEFINE x == <<a, b, c, d, e, f, g, h, i, j, k, l>>
           y == <<a, b, c, d, e, f, g, h>>
           z == <<i, j, k, l>>
           w == <<a, b, c, d>> \o <<e, f, g, h>>
<1>1. Chain(fn, B, w, s, v)
  BY ChainJoin
<1>2. y = w
  BY EightIs
<1>3. x = y \o z
  BY SMTT(30)
<1>. HIDE DEF w, x, y
<1>4. Chain(fn, B, y \o z, s, t)
  BY <1>1, <1>2, ChainJoin
<1>5. Chain(fn, B, x, s, t)
  BY <1>3, <1>4
<1> QED
  BY <1>5 DEF x

(* && and ||: the operand on the right is computed in a block of its own,  *)
(* and the answer waits in a slot (lower.c:341).                           *)
LEMMA ShortCircuitWork ==
  ASSUME NEW fn, NEW B, NEW s, Fit(fn, s), NEW n \in NodesOf[fn], n.type \in {"and", "or"}, NEW r \in {"none", "value"},
         NEW rhs \in Nat, NEW done \in Nat, rhs # done, rhs \notin DueBlocks(s.due), done \notin DueBlocks(s.due)
  PROVE  LET L == Len(s.stack) + 1
         IN Chain(fn, B, <<Value(n.left)>> \o IsTrue \o
                    <<Store(<<1, 2>>), IF n.type = "and" THEN BranchTo(rhs, done) ELSE BranchTo(done, rhs),
                      OpenAt(rhs), Value(n.right)>> \o IsTrue \o
                    <<Store(<< 1 >>), JumpTo(done), OpenAt(done), Load(IntType)>>,
                  Slotted(s, {<<rhs, L>>, <<done, L>>}), Ex(s, <<r>>))
<1> DEFINE L == Len(s.stack) + 1
           d == <<rhs, L>>
           e == <<done, L>>
           p == Slotted(s, {d, e})
           q == Slotted(s, {e})
           o == Slotted(s, {})
           br == IF n.type = "and" THEN BranchTo(rhs, done) ELSE BranchTo(done, rhs)
<1>1. n.left \in NodesOf[fn] /\ n.right \in NodesOf[fn] /\ ~ IsVoid(n.left) /\ ~ IsVoid(n.right)
  BY NodeFacts, BeneathFacts, TypedFacts DEF Fit
<1>2. L \in Nat /\ IsDue(s.due)
  BY LenProperties DEF Fit, IsShape
<1>3. /\ d[1] = rhs /\ d[2] = L /\ e[1] = done /\ e[2] = L /\ d \notin s.due /\ e \notin s.due /\ d # e
      /\ d \in Nat \X {L} /\ e \in Nat \X {L}
  BY <1>2 DEF DueBlocks
<1>4. \A x \in s.due : x[1] # rhs /\ x[1] # done
  BY DEF DueBlocks
<1>5. SlotDue(s, {d, e}) /\ SlotDue(s, {e}) /\ SlotDue(s, {})
  <2>. HIDE DEF d, e
  <2>1. IsDue(s.due \cup {d, e}) /\ IsDue(s.due \cup {e}) /\ IsDue(s.due \cup {})
    BY <1>2, <1>3, <1>4 DEF IsDue
  <2> QED
    BY <1>3, <2>1 DEF SlotDue
<1>6. Fit(fn, p) /\ Fit(fn, q) /\ Ex(p, <<>>) = p /\ Ex(q, <<>>) = q
  BY <1>5, SlottedFit
<1>7. rhs \in DueBlocks({d, e}) /\ done \in DueBlocks({d, e}) /\ done \in DueBlocks({e})
  BY DEF DueBlocks
<1>8. Chain(fn, B, <<Value(n.left)>> \o IsTrue, p, Ex(p, <<"value">>))
  <2>. HIDE DEF p
  <2> QED
    BY <1>1, <1>6, TruthWork
<1>9. Step(fn, B, Store(<<1, 2>>), Ex(p, <<"value">>), Ex(p, <<"value">>))
  BY <1>5, SlottedStores
<1>10. Step(fn, B, br, Ex(p, <<"value">>), Shut(p))
  BY <1>5, <1>7, SlottedMoves
<1>11. Step(fn, B, OpenAt(rhs), Shut(p), q)
  <2>1. {d, e} \ {d} = {e}
    BY <1>3
  <2>2. Step(fn, B, OpenAt(rhs), Shut(p), Slotted(s, {d, e} \ {d}))
    BY <1>3, <1>5, SlottedMoves
  <2> QED
    BY <2>1, <2>2
<1>12. Step(fn, B, Value(n.right), q, Ex(q, <<"value">>))
  <2>1. "value" \in KindsOf(n.right)
    BY <1>1, KindsFacts
  <2>. HIDE DEF q, d, e, L
  <2>2. Step(fn, B, Value(n.right), Ex(q, <<>>), Ex(q, <<"value">>))
    BY <1>1, <1>6, <2>1, ValueOn
  <2> QED
    BY <1>6, <2>2
<1>13. Chain(fn, B, IsTrue, Ex(q, <<"value">>), Ex(q, <<"value">>))
  <2>1. "value" \in Kinds /\ "ne" \in Binary2
    BY KindLists DEF Binary2
  <2>3. Step(fn, B, ConstOf(0, IntType), Ex(q, <<"value">>), Ex(q, <<"value", "value">>))
    BY <1>6, <2>1, ConstOn
  <2>4. Step(fn, B, Combine("ne", IntType), Ex(q, <<"value", "value">>), Ex(q, <<"value">>))
    BY <1>6, <2>1, TwoOn
  <2> QED
    BY <2>3, <2>4, ChainTwo DEF IsTrue
<1>14. Step(fn, B, Store(<< 1 >>), Ex(q, <<"value">>), q)
  BY <1>5, SlottedStores
<1>15. Step(fn, B, JumpTo(done), q, Shut(q))
  BY <1>5, <1>7, SlottedMoves
<1>16. Step(fn, B, OpenAt(done), Shut(q), o)
  <2>1. {e} \ {e} = {}
    OBVIOUS
  <2>2. Step(fn, B, OpenAt(done), Shut(q), Slotted(s, {e} \ {e}))
    BY <1>3, <1>5, SlottedMoves
  <2> QED
    BY <2>1, <2>2
<1>17. Step(fn, B, Load(IntType), o, Ex(s, <<r>>))
  BY SlottedLoad
<1>. HIDE DEF d, e, p, q, o, br, L
<1>18. Chain(fn, B, <<Store(<<1, 2>>), br, OpenAt(rhs), Value(n.right)>>, Ex(p, <<"value">>), Ex(q, <<"value">>))
  BY <1>9, <1>10, <1>11, <1>12, ChainFour
<1>19. Chain(fn, B, <<Store(<< 1 >>), JumpTo(done), OpenAt(done), Load(IntType)>>, Ex(q, <<"value">>), Ex(s, <<r>>))
  BY <1>14, <1>15, <1>16, <1>17, ChainFour
<1>20. Chain(fn, B, (<<Value(n.left)>> \o IsTrue) \o <<Store(<<1, 2>>), br, OpenAt(rhs), Value(n.right)>>, p, Ex(q, <<"value">>))
  BY <1>8, <1>18, ChainJoin
<1>21. Chain(fn, B, ((<<Value(n.left)>> \o IsTrue) \o <<Store(<<1, 2>>), br, OpenAt(rhs), Value(n.right)>>) \o IsTrue,
             p, Ex(q, <<"value">>))
  BY <1>13, <1>20, ChainJoin
<1>22. Chain(fn, B, (((<<Value(n.left)>> \o IsTrue) \o <<Store(<<1, 2>>), br, OpenAt(rhs), Value(n.right)>>) \o IsTrue)
                    \o <<Store(<< 1 >>), JumpTo(done), OpenAt(done), Load(IntType)>>, p, Ex(s, <<r>>))
  BY <1>19, <1>21, ChainJoin
<1> QED
  BY <1>22 DEF p, d, e, L, br

(* ?: the same with a block for each arm (lower.c:370). *)
LEMMA ConditionalWork ==
  ASSUME NEW fn, NEW B, NEW s, Fit(fn, s), NEW n \in NodesOf[fn], n.type = "conditional", NEW r \in {"none", "value"},
         NEW then \in Nat, NEW else \in Nat, NEW done \in Nat, then # else, then # done, else # done,
         then \notin DueBlocks(s.due), else \notin DueBlocks(s.due), done \notin DueBlocks(s.due)
  PROVE  LET L == Len(s.stack) + 1
         IN Chain(fn, B, <<Value(n.left), BranchTo(then, else),
                           OpenAt(then), Value(n.then), Store(<< 1 >>), JumpTo(done),
                           OpenAt(else), Value(n.else), Store(<< 1 >>), JumpTo(done),
                           OpenAt(done), Load(n.ty)>>,
                  Slotted(s, {<<then, L>>, <<else, L>>, <<done, L>>}), Ex(s, <<r>>))
<1> DEFINE L == Len(s.stack) + 1
           c == <<then, L>>
           d == <<else, L>>
           e == <<done, L>>
           p == Slotted(s, {c, d, e})
           q == Slotted(s, {d, e})
           u == Slotted(s, {e})
           o == Slotted(s, {})
<1>1. n.left \in NodesOf[fn] /\ n.then \in NodesOf[fn] /\ n.else \in NodesOf[fn]
  BY NodeFacts, BeneathFacts DEF Fit
<1>40. "value" \in KindsOf(n.left) /\ "value" \in KindsOf(n.then) /\ "value" \in KindsOf(n.else)
  BY NodeFacts, TypedFacts, KindsFacts DEF Fit
<1>2. L \in Nat /\ IsDue(s.due)
  BY LenProperties DEF Fit, IsShape
<1>3. /\ c[1] = then /\ c[2] = L /\ d[1] = else /\ d[2] = L /\ e[1] = done /\ e[2] = L
      /\ c \notin s.due /\ d \notin s.due /\ e \notin s.due /\ c # d /\ c # e /\ d # e
      /\ c \in Nat \X {L} /\ d \in Nat \X {L} /\ e \in Nat \X {L}
  BY <1>2 DEF DueBlocks
<1>4. \A x \in s.due : x[1] # then /\ x[1] # else /\ x[1] # done
  BY DEF DueBlocks
<1>5. SlotDue(s, {c, d, e}) /\ SlotDue(s, {d, e}) /\ SlotDue(s, {e}) /\ SlotDue(s, {})
  <2>. HIDE DEF c, d, e
  <2>1. IsDue(s.due \cup {c, d, e})
    BY <1>2, <1>3, <1>4 DEF IsDue
  <2>2. IsDue(s.due \cup {d, e}) /\ IsDue(s.due \cup {e}) /\ IsDue(s.due \cup {})
    BY <2>1 DEF IsDue
  <2> QED
    BY <1>3, <2>1, <2>2 DEF SlotDue
<1>6. Fit(fn, p) /\ Fit(fn, q) /\ Fit(fn, u) /\ Ex(p, <<>>) = p /\ Ex(q, <<>>) = q /\ Ex(u, <<>>) = u
  BY <1>5, SlottedFit
<1>7. then \in DueBlocks({c, d, e}) /\ else \in DueBlocks({c, d, e}) /\ done \in DueBlocks({d, e}) /\ done \in DueBlocks({e})
  BY DEF DueBlocks
<1>8. Step(fn, B, Value(n.left), p, Ex(p, <<"value">>))
  <2>. HIDE DEF p
  <2>1. Step(fn, B, Value(n.left), Ex(p, <<>>), Ex(p, <<"value">>))
    BY <1>1, <1>40, <1>6, ValueOn
  <2> QED
    BY <1>6, <2>1
<1>9. Step(fn, B, BranchTo(then, else), Ex(p, <<"value">>), Shut(p))
  BY <1>5, <1>7, SlottedMoves
<1>10. Step(fn, B, OpenAt(then), Shut(p), q)
  <2>1. {c, d, e} \ {c} = {d, e}
    BY <1>3
  <2>2. Step(fn, B, OpenAt(then), Shut(p), Slotted(s, {c, d, e} \ {c}))
    BY <1>3, <1>5, SlottedMoves
  <2> QED
    BY <2>1, <2>2
<1>11. Step(fn, B, Value(n.then), q, Ex(q, <<"value">>))
  <2>. HIDE DEF q
  <2>1. Step(fn, B, Value(n.then), Ex(q, <<>>), Ex(q, <<"value">>))
    BY <1>1, <1>40, <1>6, ValueOn
  <2> QED
    BY <1>6, <2>1
<1>12. Step(fn, B, Store(<< 1 >>), Ex(q, <<"value">>), q)
  BY <1>5, SlottedStores
<1>13. Step(fn, B, JumpTo(done), q, Shut(q))
  BY <1>5, <1>7, SlottedMoves
<1>14. Step(fn, B, OpenAt(else), Shut(q), u)
  <2>1. {d, e} \ {d} = {e}
    BY <1>3
  <2>2. Step(fn, B, OpenAt(else), Shut(q), Slotted(s, {d, e} \ {d}))
    BY <1>3, <1>5, SlottedMoves
  <2> QED
    BY <2>1, <2>2
<1>15. Step(fn, B, Value(n.else), u, Ex(u, <<"value">>))
  <2>. HIDE DEF u
  <2>1. Step(fn, B, Value(n.else), Ex(u, <<>>), Ex(u, <<"value">>))
    BY <1>1, <1>40, <1>6, ValueOn
  <2> QED
    BY <1>6, <2>1
<1>16. Step(fn, B, Store(<< 1 >>), Ex(u, <<"value">>), u)
  BY <1>5, SlottedStores
<1>17. Step(fn, B, JumpTo(done), u, Shut(u))
  BY <1>5, <1>7, SlottedMoves
<1>18. Step(fn, B, OpenAt(done), Shut(u), o)
  <2>1. {e} \ {e} = {}
    OBVIOUS
  <2>2. Step(fn, B, OpenAt(done), Shut(u), Slotted(s, {e} \ {e}))
    BY <1>3, <1>5, SlottedMoves
  <2> QED
    BY <2>1, <2>2
<1>19. Step(fn, B, Load(n.ty), o, Ex(s, <<r>>))
  BY SlottedLoad
<1>. HIDE DEF c, d, e, p, q, u, o, L
<1>20. Chain(fn, B, <<Value(n.left), BranchTo(then, else), OpenAt(then), Value(n.then)>>, p, Ex(q, <<"value">>))
  BY <1>8, <1>9, <1>10, <1>11, ChainFour
<1>21. Chain(fn, B, <<Store(<< 1 >>), JumpTo(done), OpenAt(else), Value(n.else)>>, Ex(q, <<"value">>), Ex(u, <<"value">>))
  BY <1>12, <1>13, <1>14, <1>15, ChainFour
<1>22. Chain(fn, B, <<Store(<< 1 >>), JumpTo(done), OpenAt(done), Load(n.ty)>>, Ex(u, <<"value">>), Ex(s, <<r>>))
  BY <1>16, <1>17, <1>18, <1>19, ChainFour
<1>23. Chain(fn, B, <<Value(n.left), BranchTo(then, else), OpenAt(then), Value(n.then), Store(<< 1 >>), JumpTo(done),
                      OpenAt(else), Value(n.else), Store(<< 1 >>), JumpTo(done), OpenAt(done), Load(n.ty)>>, p, Ex(s, <<r>>))
  BY <1>20, <1>21, <1>22, ChainTwelve
<1> QED
  BY <1>23 DEF p, c, d, e, L

-----------------------------------------------------------------------------
(* The labels and cases a statement holds                                  *)

(* What the marks of a statement are. *)
LEMMA InMarks ==
  ASSUME NEW n, NEW x
  PROVE  x \in MarksIn(n) <=> \/ \E l \in LabelsIn[n] : x = <<"label", l>>
                              \/ \E c \in CasesIn[n] : x = <<"case", c>>
                              \/ \E c \in CasesIn[n] \ OwnCases[n] : x = <<"stamp", c>>
BY DEF MarksIn, Stamps

(* What its stamps are. *)
LEMMA InStamps ==
  ASSUME NEW C, NEW x
  PROVE  x \in Stamps(C) <=> \E c \in C : x = <<"stamp", c>>
BY DEF Stamps

Simple(n) == n.type \notin {"label", "case", "default", "switch"}

(* A statement that is no label, case or switch holds what its parts hold, *)
(* and no two parts hold the same.                                         *)
LEMMA PartsOfSimple ==
  ASSUME NEW fn \in AllFunctions, NEW n \in NodesOf[fn], Simple(n)
  PROVE  LET parts == Within(n)
         IN /\ \A x : x \in LabelsIn[n] <=> \E k \in DOMAIN parts : x \in LabelsIn[parts[k]]
            /\ \A x : x \in CasesIn[n] <=> \E k \in DOMAIN parts : x \in CasesIn[parts[k]]
            /\ \A x : x \in OwnCases[n] <=> \E k \in DOMAIN parts : x \in OwnCases[parts[k]]
            /\ \A k \in DOMAIN parts : parts[k] \in NodesOf[fn] /\ OwnCases[parts[k]] \subseteq CasesIn[parts[k]]
            /\ \A j, k \in DOMAIN parts :
                 j # k => /\ LabelsIn[parts[j]] \cap LabelsIn[parts[k]] = {}
                          /\ CasesIn[parts[j]] \cap CasesIn[parts[k]] = {}
<1> DEFINE parts == Within(n)
<1>1. /\ LabelsIn[n] = LabelsAt(n, LabelsIn) /\ CasesIn[n] = CasesAt(n, CasesIn)
      /\ OwnCases[n] = CasesAt(n, OwnCases)
  BY NodeFacts DEF Simple
<1>2. /\ LabelsIn[n] = UNION {LabelsIn[m] : m \in Range(parts)}
      /\ CasesIn[n] = UNION {CasesIn[m] : m \in Range(parts)}
      /\ OwnCases[n] = UNION {OwnCases[m] : m \in Range(parts)}
  BY <1>1 DEF LabelsAt, CasesAt, IsCase, Simple
<1>3. Range(parts) \subseteq NodesOf[fn] /\ WellLabelled(n)
  BY NodeFacts
<1>4. \A k \in DOMAIN parts : parts[k] \in NodesOf[fn]
  BY <1>3 DEF Range
<1>5. \A k \in DOMAIN parts : OwnCases[parts[k]] \subseteq CasesIn[parts[k]]
  BY <1>4, NodeFacts
<1>6. \A j, k \in DOMAIN parts :
        j # k => /\ LabelsIn[parts[j]] \cap LabelsIn[parts[k]] = {}
                 /\ CasesIn[parts[j]] \cap CasesIn[parts[k]] = {}
  BY <1>3 DEF WellLabelled
<1>. HIDE DEF parts
<1>7. /\ \A x : x \in LabelsIn[n] <=> \E k \in DOMAIN parts : x \in LabelsIn[parts[k]]
      /\ \A x : x \in CasesIn[n] <=> \E k \in DOMAIN parts : x \in CasesIn[parts[k]]
      /\ \A x : x \in OwnCases[n] <=> \E k \in DOMAIN parts : x \in OwnCases[parts[k]]
  BY <1>2 DEF Range
<1> QED
  BY <1>4, <1>5, <1>6, <1>7 DEF parts

(* So do its marks. *)
LEMMA MarksOfParts ==
  ASSUME NEW fn \in AllFunctions, NEW n \in NodesOf[fn], Simple(n)
  PROVE  LET parts == Within(n)
         IN /\ \A x : x \in MarksIn(n) <=> \E k \in DOMAIN parts : x \in MarksIn(parts[k])
            /\ \A j, k \in DOMAIN parts :
                 j # k => /\ MarksIn(parts[j]) \cap MarksIn(parts[k]) = {}
                          /\ Stamps(OwnCases[parts[j]]) \cap MarksIn(parts[k]) = {}
            /\ \A k \in DOMAIN parts : /\ Stamps(OwnCases[parts[k]]) \subseteq Stamps(OwnCases[n])
                                       /\ Stamps(OwnCases[parts[k]]) \cap MarksIn(parts[k]) = {}
<1> DEFINE parts == Within(n)
<1>1. /\ \A x : x \in LabelsIn[n] <=> \E k \in DOMAIN parts : x \in LabelsIn[parts[k]]
      /\ \A x : x \in CasesIn[n] <=> \E k \in DOMAIN parts : x \in CasesIn[parts[k]]
      /\ \A x : x \in OwnCases[n] <=> \E k \in DOMAIN parts : x \in OwnCases[parts[k]]
      /\ \A k \in DOMAIN parts : OwnCases[parts[k]] \subseteq CasesIn[parts[k]]
      /\ \A j, k \in DOMAIN parts :
           j # k => /\ LabelsIn[parts[j]] \cap LabelsIn[parts[k]] = {}
                    /\ CasesIn[parts[j]] \cap CasesIn[parts[k]] = {}
  BY PartsOfSimple
<1>. HIDE DEF parts
<1>2. \A x : x \in CasesIn[n] \ OwnCases[n] <=> \E k \in DOMAIN parts : x \in CasesIn[parts[k]] \ OwnCases[parts[k]]
  <2>1. ASSUME NEW x \in CasesIn[n] \ OwnCases[n] PROVE \E k \in DOMAIN parts : x \in CasesIn[parts[k]] \ OwnCases[parts[k]]
    BY <1>1
  <2>2. ASSUME NEW x, NEW k \in DOMAIN parts, x \in CasesIn[parts[k]] \ OwnCases[parts[k]]
        PROVE  x \in CasesIn[n] \ OwnCases[n]
    <3>1. x \in CasesIn[n]
      BY <1>1, <2>2
    <3>2. ASSUME x \in OwnCases[n] PROVE FALSE
      <4>1. PICK j \in DOMAIN parts : x \in OwnCases[parts[j]]
        BY <1>1, <3>2
      <4> QED
        BY <1>1, <2>2, <4>1
    <3> QED
      BY <3>1, <3>2
  <2> QED
    BY <2>1, <2>2
<1>3. ASSUME NEW x PROVE x \in MarksIn(n) <=> \E k \in DOMAIN parts : x \in MarksIn(parts[k])
  <2>1. ASSUME x \in MarksIn(n) PROVE \E k \in DOMAIN parts : x \in MarksIn(parts[k])
    <3>1. CASE \E l \in LabelsIn[n] : x = <<"label", l>>
      BY <1>1, <3>1, InMarks
    <3>2. CASE \E c \in CasesIn[n] : x = <<"case", c>>
      BY <1>1, <3>2, InMarks
    <3>3. CASE \E c \in CasesIn[n] \ OwnCases[n] : x = <<"stamp", c>>
      BY <1>2, <3>3, InMarks
    <3> QED
      BY <2>1, <3>1, <3>2, <3>3, InMarks
  <2>2. ASSUME NEW k \in DOMAIN parts, x \in MarksIn(parts[k]) PROVE x \in MarksIn(n)
    <3>1. CASE \E l \in LabelsIn[parts[k]] : x = <<"label", l>>
      BY <1>1, <3>1, InMarks
    <3>2. CASE \E c \in CasesIn[parts[k]] : x = <<"case", c>>
      BY <1>1, <3>2, InMarks
    <3>3. CASE \E c \in CasesIn[parts[k]] \ OwnCases[parts[k]] : x = <<"stamp", c>>
      BY <1>2, <3>3, InMarks
    <3> QED
      BY <2>2, <3>1, <3>2, <3>3, InMarks
  <2> QED
    BY <2>1, <2>2
<1>4. ASSUME NEW j \in DOMAIN parts, NEW k \in DOMAIN parts, j # k
      PROVE  MarksIn(parts[j]) \cap MarksIn(parts[k]) = {} /\ Stamps(OwnCases[parts[j]]) \cap MarksIn(parts[k]) = {}
  <2>1. /\ LabelsIn[parts[j]] \cap LabelsIn[parts[k]] = {} /\ CasesIn[parts[j]] \cap CasesIn[parts[k]] = {}
        /\ OwnCases[parts[j]] \subseteq CasesIn[parts[j]]
    BY <1>1, <1>4
  <2> QED
    BY <2>1 DEF MarksIn, Stamps
<1>5. ASSUME NEW k \in DOMAIN parts
      PROVE  /\ Stamps(OwnCases[parts[k]]) \subseteq Stamps(OwnCases[n])
             /\ Stamps(OwnCases[parts[k]]) \cap MarksIn(parts[k]) = {}
  <2>1. OwnCases[parts[k]] \subseteq OwnCases[n]
    BY <1>1
  <2> QED
    BY <2>1 DEF MarksIn, Stamps
<1> QED
  BY <1>3, <1>4, <1>5 DEF parts

(* The one part of a loop, label, case or switch. *)
LEMMA BodyOf ==
  ASSUME NEW fn \in AllFunctions, NEW n \in NodesOf[fn],
         n.type \in {"while", "do", "for", "switch", "label", "case", "default"}
  PROVE  /\ n.body \in NodesOf[fn] /\ Within(n) = <<n.body>> /\ Range(Within(n)) = {n.body}
         /\ DOMAIN Within(n) = {1} /\ Within(n)[1] = n.body
<1>1. Within(n) = <<n.body>>
  BY WithinFacts
<1>2. Range(Within(n)) = {n.body} /\ DOMAIN Within(n) = {1} /\ Within(n)[1] = n.body
  BY <1>1, RangeOfOne
<1> QED
  BY <1>1, <1>2, NodeFacts

(* A label is a mark more than its body has. *)
LEMMA MarksOfLabel ==
  ASSUME NEW fn \in AllFunctions, NEW n \in NodesOf[fn], n.type = "label"
  PROVE  /\ MarksIn(n) = {<<"label", n.name>>} \cup MarksIn(n.body) /\ OwnCases[n] = OwnCases[n.body]
         /\ <<"label", n.name>> \notin MarksIn(n.body)
<1>1. /\ LabelsIn[n] = LabelsAt(n, LabelsIn) /\ CasesIn[n] = CasesAt(n, CasesIn) /\ OwnCases[n] = CasesAt(n, OwnCases)
      /\ WellLabelled(n)
  BY NodeFacts
<1>2. Range(Within(n)) = {n.body}
  BY BodyOf
<1>3. LabelsIn[n] = {n.name} \cup LabelsIn[n.body] /\ CasesIn[n] = CasesIn[n.body] /\ OwnCases[n] = OwnCases[n.body]
  BY <1>1, <1>2 DEF LabelsAt, CasesAt, IsCase
<1>4. n.name \notin LabelsIn[n.body]
  BY <1>1 DEF WellLabelled
<1> QED
  BY <1>3, <1>4 DEF MarksIn, Stamps

(* A case is a mark more, and a case more of the switch around it. *)
LEMMA MarksOfCase ==
  ASSUME NEW fn \in AllFunctions, NEW n \in NodesOf[fn], n.type \in {"case", "default"}
  PROVE  /\ MarksIn(n) = {<<"case", n>>} \cup MarksIn(n.body) /\ OwnCases[n] = {n} \cup OwnCases[n.body]
         /\ <<"case", n>> \notin MarksIn(n.body)
<1>1. /\ LabelsIn[n] = LabelsAt(n, LabelsIn) /\ CasesIn[n] = CasesAt(n, CasesIn) /\ OwnCases[n] = CasesAt(n, OwnCases)
      /\ WellLabelled(n)
  BY NodeFacts
<1>2. Range(Within(n)) = {n.body}
  BY BodyOf
<1>3. LabelsIn[n] = LabelsIn[n.body] /\ CasesIn[n] = {n} \cup CasesIn[n.body] /\ OwnCases[n] = {n} \cup OwnCases[n.body]
  BY <1>1, <1>2 DEF LabelsAt, CasesAt, IsCase
<1>4. n \notin CasesIn[n.body]
  BY <1>1 DEF WellLabelled, IsCase
<1>5. CasesIn[n] \ OwnCases[n] = CasesIn[n.body] \ OwnCases[n.body]
  BY <1>3, <1>4
<1> QED
  BY <1>3, <1>4, <1>5 DEF MarksIn, Stamps

(* The cases of a switch are its own, and to be tested before its body. *)
LEMMA MarksOfSwitch ==
  ASSUME NEW fn \in AllFunctions, NEW n \in NodesOf[fn], n.type = "switch"
  PROVE  /\ MarksIn(n) = MarksIn(n.body) \cup Stamps(OwnCases[n.body]) /\ OwnCases[n] = {}
         /\ Stamps(OwnCases[n.body]) \cap MarksIn(n.body) = {}
         /\ n.body \in NodesOf[fn] /\ CasesFit(OwnCases[n.body])
<1>1. /\ LabelsIn[n] = LabelsAt(n, LabelsIn) /\ CasesIn[n] = CasesAt(n, CasesIn) /\ OwnCases[n] = {}
      /\ WellLabelled(n)
  BY NodeFacts
<1>2. Range(Within(n)) = {n.body} /\ n.body \in NodesOf[fn]
  BY BodyOf
<1>3. LabelsIn[n] = LabelsIn[n.body] /\ CasesIn[n] = CasesIn[n.body]
  BY <1>1, <1>2 DEF LabelsAt, CasesAt, IsCase
<1>4. OwnCases[n.body] \subseteq CasesIn[n.body]
  BY <1>2, NodeFacts
<1>5. CasesFit(OwnCases[n.body])
  BY <1>1 DEF WellLabelled
<1>6. MarksIn(n) = MarksIn(n.body) \cup Stamps(OwnCases[n.body]) /\ Stamps(OwnCases[n.body]) \cap MarksIn(n.body) = {}
  BY <1>1, <1>3, <1>4 DEF MarksIn, Stamps
<1> QED
  BY <1>1, <1>2, <1>5, <1>6

-----------------------------------------------------------------------------
(* What statements are lowered by way of                                   *)

(* Before and behind a statement: nothing waits, the marks left are yet to *)
(* be reached and the blocks of D are due.                                 *)
St(left, D) == Sh(<<>>, TRUE, Idle, left, D)

(* Blocks due where nothing waits. *)
Plain(D) == IsDue(D) /\ Low(D, 0)

(* The marks of a statement are left, and the cases in it that belong to   *)
(* the switch around it are tested.                                        *)
Ready(left, n) == MarksIn(n) \subseteq left /\ Stamps(OwnCases[n]) \cap left = {}

(* The shape before a statement. *)
LEMMA StFit ==
  ASSUME NEW fn \in AllFunctions, NEW left, NEW D, Plain(D)
  PROVE  Fit(fn, St(left, D)) /\ Ex(St(left, D), <<>>) = St(left, D)
<1> DEFINE s == St(left, D)
<1>1. s.stack = <<>> /\ s.open = TRUE /\ s.cases = Idle /\ s.left = left /\ s.due = D
  BY DEF St, Sh
<1>6. s = Sh(<<>>, TRUE, Idle, left, D)
  BY DEF St
<1>2. Len(<<>>) = 0 /\ <<>> \in Seq(Kinds)
  BY EmptyList, KindLists
<1>. HIDE DEF s
<1>3. IsShape(s)
  BY <1>1, <1>2, <1>6 DEF IsShape, Plain
<1>4. Fit(fn, s)
  BY <1>1, <1>2, <1>3 DEF Fit, Plain
<1>5. Ex(s, <<>>) = s
  BY <1>1, <1>2, <1>3, ExFacts
<1> QED
  BY <1>4, <1>5 DEF s

(* A value above it. *)
LEMMA StEx ==
  ASSUME NEW left, NEW D, NEW k \in Kinds
  PROVE  Ex(St(left, D), <<k>>) = Sh(<<k>>, TRUE, Idle, left, D)
<1> DEFINE s == St(left, D)
           e == <<>>
<1>1. s.stack = e /\ s.open = TRUE /\ s.cases = Idle /\ s.left = left /\ s.due = D
  BY DEF St, Sh
<1>2. e \in Seq(Kinds)
  BY KindLists
<1>3. Append(e, k) = <<k>>
  BY KindLists
<1>. HIDE DEF s, e
<1>4. Append(e, k) = e \o <<k>>
  BY <1>2, Piled
<1>5. Ex(s, <<k>>) = Sh(<<k>>, TRUE, Idle, left, D)
  BY <1>1, <1>3, <1>4 DEF Ex
<1> QED
  BY <1>5 DEF s

(* The same when the block is ended. *)
LEMMA StShut == ASSUME NEW left, NEW D PROVE Shut(St(left, D)) = Sh(<<>>, FALSE, Idle, left, D)
BY DEF Shut, St, Sh

(* Each piece of work a statement becomes, where nothing waits. A          *)
(* statement:                                                              *)
LEMMA StatementOn ==
  ASSUME NEW fn \in AllFunctions, NEW B, NEW left, NEW D, Plain(D), NEW n \in NodesOf[fn], Ready(left, n)
  PROVE  Step(fn, B, Statement(n), St(left, D), St(left \ MarksIn(n), D))
<1> DEFINE s == St(left, D)
           w == Statement(n)
<1>1. s.stack = <<>> /\ s.open = TRUE /\ s.cases = Idle /\ s.left = left /\ s.due = D
  BY DEF St, Sh
<1>2. w.do = "statement" /\ w.node = n
  BY DEF Statement
<1>. HIDE DEF s, w
<1>3. StatementStep(fn, w, s, St(left \ MarksIn(n), D))
  BY <1>1, <1>2 DEF StatementStep, Ready, Plain, St
<1> QED
  BY <1>3 DEF Step, s, w

(* A jump: *)
LEMMA PlainJump ==
  ASSUME NEW fn \in AllFunctions, NEW B, NEW left, NEW D, NEW b \in B
  PROVE  Step(fn, B, JumpTo(b), St(left, D), Shut(St(left, D)))
<1> DEFINE s == St(left, D)
           w == JumpTo(b)
<1>1. s.open = TRUE
  BY DEF St, Sh
<1>2. w.do = "jump" /\ w.to = b
  BY DEF JumpTo
<1>. HIDE DEF s, w
<1>3. JumpStep(B, w, s, Shut(s))
  BY <1>1, <1>2 DEF JumpStep, Shut
<1> QED
  BY <1>3 DEF Step, s, w

(* A choice: *)
LEMMA PlainBranch ==
  ASSUME NEW fn \in AllFunctions, NEW B, NEW left, NEW D, Plain(D), NEW a \in B, NEW b \in B
  PROVE  Step(fn, B, BranchTo(a, b), Ex(St(left, D), <<"value">>), Shut(St(left, D)))
<1> DEFINE q == Ex(St(left, D), <<"value">>)
           t == Shut(St(left, D))
           w == BranchTo(a, b)
           e == <<>>
<1>1. q = Sh(<<"value">>, TRUE, Idle, left, D) /\ t = Sh(e, FALSE, Idle, left, D)
  BY StEx, StShut, KindLists
<1>2. q.stack = <<"value">> /\ q.open = TRUE /\ q.cases = Idle /\ q.left = left /\ q.due = D
  BY <1>1 DEF Sh
<1>3. w.do = "branch" /\ w.to = <<a, b>>
  BY DEF BranchTo
<1>4. e \in Seq(Kinds) /\ Append(e, "value") = <<"value">> /\ Len(e) = 0
  BY KindLists, EmptyList
<1>5. Low(D, Len(e) + 1)
  BY <1>4 DEF Plain, Low, IsDue
<1>. HIDE DEF q, t, w, e
<1>6. BranchStep(B, w, q, t)
  BY <1>1, <1>2, <1>3, <1>4, <1>5 DEF BranchStep
<1> QED
  BY <1>6 DEF Step, q, t, w

(* A block that is due: *)
LEMMA PlainOpen ==
  ASSUME NEW fn \in AllFunctions, NEW B, NEW left, NEW D, Plain(D), NEW b, <<b, 0>> \in D
  PROVE  Step(fn, B, OpenAt(b), Shut(St(left, D)), St(left, D \ {<<b, 0>>}))
<1> DEFINE s == Shut(St(left, D))
           d == <<b, 0>>
           w == OpenAt(b)
           t == St(left, D \ {d})
<1>1. s = Sh(<<>>, FALSE, Idle, left, D)
  BY StShut
<1>2. s.stack = <<>> /\ s.open = FALSE /\ s.cases = Idle /\ s.left = left /\ s.due = D
  BY <1>1 DEF Sh
<1>3. w.do = "open" /\ w.block = b /\ d[1] = b /\ d[2] = 0 /\ d \in D
  BY DEF OpenAt
<1>4. DOMAIN s.stack = {}
  BY <1>2, EmptyList, SeqFacts
<1>5. t = Sh(s.stack, TRUE, s.cases, s.left, s.due \ {d})
  BY <1>2 DEF St
<1>. HIDE DEF s, d, w, t
<1>6. OpenStep(w, s, t)
  BY <1>2, <1>3, <1>4, <1>5 DEF OpenStep, Plain
<1> QED
  BY <1>6 DEF Step, s, d, w, t

(* A block nothing leads to: *)
LEMMA PlainNew ==
  ASSUME NEW fn \in AllFunctions, NEW B, NEW left, NEW D, Plain(D)
  PROVE  Step(fn, B, OpenNew, Shut(St(left, D)), St(left, D))
<1> DEFINE s == Shut(St(left, D))
<1>1. s = Sh(<<>>, FALSE, Idle, left, D)
  BY StShut
<1>2. s.stack = <<>> /\ s.open = FALSE /\ s.cases = Idle /\ s.left = left /\ s.due = D
  BY <1>1 DEF Sh
<1>3. OpenNew.do = "open new"
  BY DEF OpenNew
<1>. HIDE DEF s
<1>4. OpenNewStep(OpenNew, s, St(left, D))
  BY <1>2, <1>3 DEF OpenNewStep, Plain, St
<1> QED
  BY <1>4 DEF Step, s

(* The targets of break and continue: *)
LEMMA PlainLoop ==
  ASSUME NEW fn \in AllFunctions, NEW B, NEW s, NEW a \in B, NEW b \in B
  PROVE  Step(fn, B, PushLoop(a, b), s, s) /\ Step(fn, B, PopLoop, s, s)
<1> DEFINE w == PushLoop(a, b)
<1>1. w.do = "push loop" /\ w.target.onBreak = a /\ w.target.onContinue = b /\ PopLoop.do = "pop loop"
  BY DEF PushLoop, PopLoop
<1>. HIDE DEF w
<1>2. PushLoopStep(B, w, s, s) /\ PopLoopStep(PopLoop, s, s)
  BY <1>1 DEF PushLoopStep, PopLoopStep
<1> QED
  BY <1>2 DEF Step, w

(* A return: *)
LEMMA PlainReturn ==
  ASSUME NEW fn \in AllFunctions, NEW B, NEW left, NEW D, Plain(D), NEW k \in Kinds
  PROVE  Step(fn, B, EmitReturn, Ex(St(left, D), <<k>>), Shut(St(left, D)))
<1> DEFINE q == Ex(St(left, D), <<k>>)
           t == Shut(St(left, D))
           e == <<>>
<1>1. q = Sh(<<k>>, TRUE, Idle, left, D) /\ t = Sh(e, FALSE, Idle, left, D)
  BY StEx, StShut
<1>2. q.stack = <<k>> /\ q.open = TRUE /\ q.cases = Idle /\ q.left = left /\ q.due = D
  BY <1>1 DEF Sh
<1>3. EmitReturn.do = "return"
  BY DEF EmitReturn
<1>4. e \in Seq(Kinds) /\ Append(e, k) = <<k>> /\ Len(e) = 0
  BY KindLists, EmptyList
<1>5. Low(D, Len(e) + 1)
  BY <1>4 DEF Plain, Low, IsDue
<1>. HIDE DEF q, t, e
<1>6. PopStep(EmitReturn, q, t)
  BY <1>1, <1>2, <1>3, <1>4, <1>5 DEF PopStep
<1> QED
  BY <1>6 DEF Step, q, t

(* A condition, and a choice by it. *)
LEMMA TestWork ==
  ASSUME NEW fn \in AllFunctions, NEW B, NEW left, NEW D, Plain(D), NEW a \in B, NEW b \in B,
         NEW n \in NodesOf[fn], ~ IsVoid(n)
  PROVE  /\ Step(fn, B, Value(n), St(left, D), Ex(St(left, D), <<"value">>))
         /\ Step(fn, B, BranchTo(a, b), Ex(St(left, D), <<"value">>), Shut(St(left, D)))
<1>1. Fit(fn, St(left, D)) /\ Ex(St(left, D), <<>>) = St(left, D)
  BY StFit
<1>2. "value" \in KindsOf(n)
  BY KindsFacts
<1>3. Step(fn, B, Value(n), Ex(St(left, D), <<>>), Ex(St(left, D), <<"value">>))
  BY <1>1, <1>2, ValueOn
<1> QED
  BY <1>1, <1>3, PlainBranch

(* Blocks taken out of those due. *)
LEMMA PlainMore ==
  ASSUME NEW D, Plain(D), NEW d \in Nat \X {0}, d[1] \notin DueBlocks(D)
  PROVE  Plain(D \cup {d}) /\ (D \cup {d}) \ {d} = D /\ DueBlocks(D \cup {d}) = DueBlocks(D) \cup {d[1]}
<1>1. d \notin D
  BY DEF DueBlocks
<1>2. \A e \in D : e[1] # d[1]
  BY DEF DueBlocks
<1>3. IsDue(D \cup {d})
  BY <1>2 DEF Plain, IsDue
<1>4. Low(D \cup {d}, 0)
  BY DEF Plain, Low
<1> QED
  BY <1>1, <1>3, <1>4 DEF Plain, DueBlocks

(* b of level 0. *)
LEMMA PlainPair == ASSUME NEW b \in Nat PROVE <<b, 0>> \in Nat \X {0} /\ <<b, 0>>[1] = b /\ <<b, 0>>[2] = 0
OBVIOUS

(* A block more that is due, and its opening. *)
LEMMA PlainWith ==
  ASSUME NEW fn \in AllFunctions, NEW D, Plain(D), NEW b \in Nat, b \notin DueBlocks(D)
  PROVE  /\ Plain(D \cup {<<b, 0>>}) /\ DueBlocks(D \cup {<<b, 0>>}) = DueBlocks(D) \cup {b}
         /\ \A B, left : Step(fn, B, OpenAt(b), Shut(St(left, D \cup {<<b, 0>>})), St(left, D))
<1> DEFINE d == <<b, 0>>
           E == D \cup {d}
<1>1. d \in Nat \X {0} /\ d[1] = b
  BY PlainPair
<1>. HIDE DEF d
<1>2. Plain(E) /\ E \ {d} = D /\ DueBlocks(E) = DueBlocks(D) \cup {b} /\ d \in E
  BY <1>1, PlainMore
<1>. HIDE DEF E
<1>3. ASSUME NEW B, NEW left PROVE Step(fn, B, OpenAt(b), Shut(St(left, E)), St(left, D))
  <2>1. Step(fn, B, OpenAt(b), Shut(St(left, E)), St(left, E \ {d}))
    BY <1>2, PlainOpen DEF d
  <2> QED
    BY <1>2, <2>1
<1> QED
  BY <1>2, <1>3 DEF E, d

-----------------------------------------------------------------------------
(* The marks of the statements a statement consists of                     *)

(* A statement that is ready, in a function that is lowered. *)
Placed(fn, n, left, D) == fn \in AllFunctions /\ n \in NodesOf[fn] /\ Plain(D) /\ Ready(left, n)

(* A statement whose marks are all left. *)
LEMMA PlacedOn ==
  ASSUME NEW fn, NEW B, NEW left, NEW D, NEW n, Placed(fn, n, left, D)
  PROVE  Step(fn, B, Statement(n), St(left, D), St(left \ MarksIn(n), D))
BY StatementOn DEF Placed

(* A statement without parts has no marks. *)
LEMMA LeafMarks ==
  ASSUME NEW fn \in AllFunctions, NEW n \in NodesOf[fn], Simple(n), Within(n) = <<>>
  PROVE  MarksIn(n) = {}
<1> DEFINE parts == Within(n)
<1>1. DOMAIN parts = {}
  BY EmptyList, SeqFacts
<1>2. \A x : x \in MarksIn(n) <=> \E k \in DOMAIN parts : x \in MarksIn(parts[k])
  BY MarksOfParts
<1>. HIDE DEF parts
<1> QED
  BY <1>1, <1>2

(* Nothing is less left behind it. *)
LEMMA LeafPlaced ==
  ASSUME NEW fn, NEW n, NEW left, NEW D, Placed(fn, n, left, D),
         n.type \notin {"block", "if", "while", "do", "for", "switch", "label", "case", "default"}
  PROVE  left \ MarksIn(n) = left
<1>1. Within(n) = <<>> /\ Simple(n)
  BY WithinFacts DEF Simple
<1> QED
  BY <1>1, LeafMarks DEF Placed

(* The parts of a statement have their marks left when it has. *)
LEMMA PartReady ==
  ASSUME NEW fn, NEW n, NEW left, NEW D, Placed(fn, n, left, D), Simple(n), NEW k \in DOMAIN Within(n)
  PROVE  Placed(fn, Within(n)[k], left, D)
<1> DEFINE parts == Within(n)
           m == parts[k]
<1>1. /\ \A x : x \in MarksIn(n) <=> \E j \in DOMAIN parts : x \in MarksIn(parts[j])
      /\ Stamps(OwnCases[m]) \subseteq Stamps(OwnCases[n])
  BY MarksOfParts DEF Placed
<1>2. MarksIn(m) \subseteq MarksIn(n)
  BY <1>1
<1>3. m \in NodesOf[fn]
  BY PartsOfSimple DEF Placed
<1>. HIDE DEF m
<1> QED
  BY <1>1, <1>2, <1>3 DEF Placed, Ready, m, parts

(* The body of a loop has the marks of the loop. *)
LEMMA OnePart ==
  ASSUME NEW fn, NEW n, NEW left, NEW D, Placed(fn, n, left, D), n.type \in {"while", "do", "for"}
  PROVE  Placed(fn, n.body, left, D) /\ MarksIn(n) = MarksIn(n.body)
<1> DEFINE parts == Within(n)
<1>1. DOMAIN parts = {1} /\ parts[1] = n.body
  BY BodyOf DEF Placed
<1>2. Simple(n)
  BY DEF Simple
<1>3. \A x : x \in MarksIn(n) <=> \E j \in DOMAIN parts : x \in MarksIn(parts[j])
  BY <1>2, MarksOfParts DEF Placed
<1>4. Placed(fn, parts[1], left, D)
  BY <1>1, <1>2, PartReady
<1>. HIDE DEF parts
<1> QED
  BY <1>1, <1>3, <1>4

(* The arms of an if have them between them; those of the second are left  *)
(* behind the first.                                                       *)
LEMMA TwoParts ==
  ASSUME NEW fn, NEW n, NEW left, NEW D, Placed(fn, n, left, D), n.type = "if"
  PROVE  /\ Placed(fn, n.then, left, D) /\ Placed(fn, n.else, left \ MarksIn(n.then), D)
         /\ MarksIn(n) = MarksIn(n.then) \cup MarksIn(n.else)
<1> DEFINE parts == Within(n)
<1>1. DOMAIN parts = {1, 2} /\ parts[1] = n.then /\ parts[2] = n.else
  BY WithinFacts, RangeOfTwo
<1>2. Simple(n)
  BY DEF Simple
<1>3. /\ \A x : x \in MarksIn(n) <=> \E j \in DOMAIN parts : x \in MarksIn(parts[j])
      /\ \A j, k \in DOMAIN parts : j # k => MarksIn(parts[j]) \cap MarksIn(parts[k]) = {}
  BY <1>2, MarksOfParts DEF Placed
<1>4. Placed(fn, parts[1], left, D) /\ Placed(fn, parts[2], left, D)
  BY <1>1, <1>2, PartReady
<1>. HIDE DEF parts
<1>5. MarksIn(n.then) \cap MarksIn(n.else) = {}
  BY <1>1, <1>3
<1>6. MarksIn(n) = MarksIn(n.then) \cup MarksIn(n.else)
  BY <1>1, <1>3
<1>7. Placed(fn, n.then, left, D) /\ Placed(fn, n.else, left, D)
  BY <1>1, <1>4
<1>8. Placed(fn, n.else, left \ MarksIn(n.then), D)
  BY <1>5, <1>7 DEF Placed, Ready
<1> QED
  BY <1>6, <1>7, <1>8

-----------------------------------------------------------------------------
(* Statements                                                              *)

(* The statements of a block; those before the k-th have their marks.      *)
Past(parts, k) == UNION {MarksIn(parts[j]) : j \in {i \in DOMAIN parts : i < k}}

(* The work each kind of statement becomes leads from the shape before it  *)
(* to the shape with its marks gone. A block:                              *)
LEMMA SequenceWork ==
  ASSUME NEW fn, NEW B, NEW n, NEW left, NEW D, Placed(fn, n, left, D), n.type = "block"
  PROVE  Chain(fn, B, [k \in DOMAIN n.body |-> Statement(n.body[k])], St(left, D), St(left \ MarksIn(n), D))
<1> DEFINE parts == Within(n)
           N == Len(parts)
           work == [k \in DOMAIN parts |-> Statement(parts[k])]
           sh == [k \in 1 .. N + 1 |-> St(left \ Past(parts, k), D)]
<1>1. parts = n.body /\ Simple(n)
  BY WithinFacts DEF Simple
<1>2. IsSeq(parts) /\ N \in Nat /\ DOMAIN parts = 1 .. N
  BY NodeFacts, SeqFacts DEF Placed
<1>3. /\ \A x : x \in MarksIn(n) <=> \E j \in DOMAIN parts : x \in MarksIn(parts[j])
      /\ \A j, k \in DOMAIN parts : j # k => MarksIn(parts[j]) \cap MarksIn(parts[k]) = {}
  BY <1>1, MarksOfParts DEF Placed
<1>4. \A k \in DOMAIN parts : Placed(fn, parts[k], left, D)
  BY <1>1, PartReady
<1>5. work = [k \in 1 .. N |-> work[k]] /\ \A k \in 1 .. N : work[k] = Statement(parts[k])
  BY <1>2
<1>6. \A k \in 1 .. N + 1 : sh[k] = St(left \ Past(parts, k), D)
  OBVIOUS
<1>. HIDE DEF N, parts, work, sh
<1>7. ASSUME NEW k \in 1 .. N PROVE Step(fn, B, work[k], sh[k], sh[k + 1])
  <2> DEFINE m == parts[k]
             now == left \ Past(parts, k)
  <2>1. k \in DOMAIN parts /\ k \in 1 .. N + 1 /\ k + 1 \in 1 .. N + 1
    BY <1>2
  <2>2. Placed(fn, m, left, D)
    BY <1>4, <2>1
  <2>3. MarksIn(m) \cap Past(parts, k) = {}
    BY <1>2, <1>3, <2>1 DEF Past
  <2>4. now \ MarksIn(m) = left \ Past(parts, k + 1)
    <3>1. \A x : x \in Past(parts, k + 1) <=> x \in Past(parts, k) \/ x \in MarksIn(m)
      <4>1. \A j \in DOMAIN parts : j < k + 1 <=> j < k \/ j = k
        BY <1>2, <2>1
      <4> QED
        BY <2>1, <4>1 DEF Past
    <3> QED
      BY <3>1
  <2>5. Placed(fn, m, now, D)
    BY <2>2, <2>3 DEF Placed, Ready
  <2>. HIDE DEF now
  <2>6. Step(fn, B, Statement(m), St(now, D), St(now \ MarksIn(m), D))
    BY <2>5, PlacedOn
  <2> QED
    BY <1>5, <1>6, <2>1, <2>4, <2>6 DEF now
<1>8. Chain(fn, B, work, sh[1], sh[N + 1])
  BY <1>2, <1>5, <1>7, ChainAlong
<1>9. Past(parts, 1) = {} /\ Past(parts, N + 1) = MarksIn(n)
  BY <1>2, <1>3 DEF Past
<1>10. left \ Past(parts, 1) = left
  BY <1>9
<1>11. sh[1] = St(left, D) /\ sh[N + 1] = St(left \ MarksIn(n), D)
  BY <1>2, <1>6, <1>9, <1>10
<1>12. Chain(fn, B, work, St(left, D), St(left \ MarksIn(n), D))
  BY <1>8, <1>11
<1>13. work = [k \in DOMAIN n.body |-> Statement(n.body[k])]
  BY <1>1 DEF work
<1> QED
  BY <1>12, <1>13

(* An expression for its effect: *)
LEMMA ForgottenWork ==
  ASSUME NEW fn \in AllFunctions, NEW B, NEW left, NEW D, Plain(D), NEW m \in NodesOf[fn]
  PROVE  Chain(fn, B, <<Value(m), Forget>>, St(left, D), St(left, D))
<1> DEFINE s == St(left, D)
<1>1. Fit(fn, s) /\ Ex(s, <<>>) = s
  BY StFit
<1>2. "none" \in KindsOf(m) /\ "none" \in Kinds
  BY KindLists DEF KindsOf
<1>. HIDE DEF s
<1>3. Step(fn, B, Value(m), Ex(s, <<>>), Ex(s, <<"none">>))
  BY <1>1, <1>2, ValueOn
<1>4. Step(fn, B, Forget, Ex(s, <<"none">>), Ex(s, <<>>))
  BY <1>1, <1>2, ForgetOn
<1>5. Chain(fn, B, <<Value(m), Forget>>, s, s)
  BY <1>1, <1>3, <1>4, ChainTwo
<1> QED
  BY <1>5 DEF s

(* An expression statement: *)
LEMMA ExpressionWork ==
  ASSUME NEW fn, NEW B, NEW n, NEW left, NEW D, Placed(fn, n, left, D), n.type = "expression"
  PROVE  Chain(fn, B, <<Value(n.left), Forget>>, St(left, D), St(left \ MarksIn(n), D))
<1>1. left \ MarksIn(n) = left
  BY LeafPlaced
<1>2. n.left \in NodesOf[fn]
  BY NodeFacts, BeneathFacts DEF Placed
<1> QED
  BY <1>1, <1>2, ForgottenWork DEF Placed

(* What leaves, and what follows it in a block of its own. *)
LEMMA LeaveWork ==
  ASSUME NEW fn, NEW B, NEW n, NEW left, NEW D, Placed(fn, n, left, D),
         n.type \in {"break", "continue", "goto"}, NEW b \in B
  PROVE  Chain(fn, B, <<JumpTo(b), OpenNew>>, St(left, D), St(left \ MarksIn(n), D))
<1>1. left \ MarksIn(n) = left
  BY LeafPlaced
<1>2. Step(fn, B, JumpTo(b), St(left, D), Shut(St(left, D)))
  BY PlainJump DEF Placed
<1>3. Step(fn, B, OpenNew, Shut(St(left, D)), St(left, D))
  BY PlainNew DEF Placed
<1>4. Chain(fn, B, <<JumpTo(b), OpenNew>>, St(left, D), St(left, D))
  BY <1>2, <1>3, ChainTwo
<1> QED
  BY <1>1, <1>4

(* A return, and the block of what follows it: *)
LEMMA ReturnWork ==
  ASSUME NEW fn, NEW B, NEW n, NEW left, NEW D, Placed(fn, n, left, D), n.type = "return"
  PROVE  Chain(fn, B, <<Value(n.left), EmitReturn, OpenNew>>, St(left, D), St(left \ MarksIn(n), D))
<1> DEFINE s == St(left, D)
           u == Shut(s)
<1>1. left \ MarksIn(n) = left
  BY LeafPlaced
<1>2. n.left \in NodesOf[fn]
  BY NodeFacts, BeneathFacts DEF Placed
<1>3. "none" \in KindsOf(n.left) /\ "none" \in Kinds
  BY KindLists DEF KindsOf
<1>4. Fit(fn, s) /\ Ex(s, <<>>) = s
  BY StFit DEF Placed
<1>5. Step(fn, B, EmitReturn, Ex(s, <<"none">>), u)
  BY <1>3, PlainReturn DEF Placed
<1>6. Step(fn, B, OpenNew, u, s)
  BY PlainNew DEF Placed
<1>. HIDE DEF s, u
<1>7. Step(fn, B, Value(n.left), Ex(s, <<>>), Ex(s, <<"none">>))
  BY <1>2, <1>3, <1>4, ValueOn
<1>8. Chain(fn, B, <<Value(n.left), EmitReturn, OpenNew>>, s, s)
  BY <1>4, <1>5, <1>6, <1>7, ChainThree
<1> QED
  BY <1>1, <1>8 DEF s

-----------------------------------------------------------------------------
(* Statements that branch                                                  *)

(* Longer lists of work, by their halves. *)
LEMMA ChainSix ==
  ASSUME NEW fn, NEW B, NEW a, NEW b, NEW c, NEW d, NEW e, NEW f, NEW s, NEW u, NEW t,
         Chain(fn, B, <<a, b, c>>, s, u), Chain(fn, B, <<d, e, f>>, u, t)
  PROVE  Chain(fn, B, <<a, b, c, d, e, f>>, s, t)
<1> DEFINE x == <<a, b, c, d, e, f>>
           y == <<a, b, c>>
           z == <<d, e, f>>
<1>1. x = y \o z
  BY SMTT(30)
<1>. HIDE DEF x
<1>2. Chain(fn, B, y \o z, s, t)
  BY ChainJoin
<1>3. Chain(fn, B, x, s, t)
  BY <1>1, <1>2
<1> QED
  BY <1>3 DEF x

LEMMA ChainEight ==
  ASSUME NEW fn, NEW B, NEW a, NEW b, NEW c, NEW d, NEW e, NEW f, NEW g, NEW h, NEW s, NEW u, NEW t,
         Chain(fn, B, <<a, b, c, d>>, s, u), Chain(fn, B, <<e, f, g, h>>, u, t)
  PROVE  Chain(fn, B, <<a, b, c, d, e, f, g, h>>, s, t)
<1> DEFINE x == <<a, b, c, d, e, f, g, h>>
           y == <<a, b, c, d>> \o <<e, f, g, h>>
<1>1. Chain(fn, B, y, s, t)
  BY ChainJoin
<1>2. x = y
  BY EightIs
<1>. HIDE DEF x, y
<1>3. Chain(fn, B, x, s, t)
  BY <1>1, <1>2
<1> QED
  BY <1>3 DEF x

LEMMA ChainNine ==
  ASSUME NEW fn, NEW B, NEW a, NEW b, NEW c, NEW d, NEW e, NEW f, NEW g, NEW h, NEW i, NEW s, NEW u, NEW t,
         Chain(fn, B, <<a, b, c, d, e, f, g, h>>, s, u), Step(fn, B, i, u, t)
  PROVE  Chain(fn, B, <<a, b, c, d, e, f, g, h, i>>, s, t)
<1> DEFINE x == <<a, b, c, d, e, f, g, h, i>>
           y == <<a, b, c, d, e, f, g, h>>
           z == <<i>>
<1>1. x = y \o z
  BY SMTT(30)
<1>2. Chain(fn, B, z, u, t)
  BY ChainOne
<1>. HIDE DEF x, y, z
<1>3. Chain(fn, B, y, s, u)
  BY DEF y
<1>4. Chain(fn, B, y \o z, s, t)
  BY <1>2, <1>3, ChainJoin
<1>5. Chain(fn, B, x, s, t)
  BY <1>1, <1>4
<1> QED
  BY <1>5 DEF x

(* b is due besides the blocks of D. *)
DueToo(D, b) == D \cup {<<b, 0>>}

(* A block more that is due. *)
LEMMA DueTooFacts ==
  ASSUME NEW fn \in AllFunctions, NEW D, Plain(D), NEW b \in Nat, b \notin DueBlocks(D)
  PROVE  Plain(DueToo(D, b)) /\ DueBlocks(DueToo(D, b)) = DueBlocks(D) \cup {b}
BY PlainWith DEF DueToo

(* It is opened. *)
LEMMA OpenDueToo ==
  ASSUME NEW fn \in AllFunctions, NEW D, Plain(D), NEW b \in Nat, b \notin DueBlocks(D), NEW B, NEW left
  PROVE  Step(fn, B, OpenAt(b), Shut(St(left, DueToo(D, b))), St(left, D))
BY PlainWith DEF DueToo

(* A statement is as ready when a block more is due. *)
LEMMA PlacedDueToo ==
  ASSUME NEW fn, NEW D, NEW n, NEW left, Placed(fn, n, left, D), NEW b \in Nat, b \notin DueBlocks(D)
  PROVE  Placed(fn, n, left, DueToo(D, b))
BY DueTooFacts DEF Placed

(* A block behind what leads into it, and a statement in it. *)
LEMMA EnterWork ==
  ASSUME NEW fn, NEW B, NEW left, NEW D, NEW m, Placed(fn, m, left, D),
         NEW b \in B, b \in Nat, b \notin DueBlocks(D)
  PROVE  /\ Chain(fn, B, <<OpenAt(b), Statement(m)>>, Shut(St(left, DueToo(D, b))), St(left \ MarksIn(m), D))
         /\ Chain(fn, B, <<JumpTo(b), OpenAt(b), Statement(m)>>, St(left, DueToo(D, b)), St(left \ MarksIn(m), D))
<1>1. Step(fn, B, OpenAt(b), Shut(St(left, DueToo(D, b))), St(left, D))
  BY OpenDueToo DEF Placed
<1>2. Step(fn, B, Statement(m), St(left, D), St(left \ MarksIn(m), D))
  BY PlacedOn
<1>3. Step(fn, B, JumpTo(b), St(left, DueToo(D, b)), Shut(St(left, DueToo(D, b))))
  BY PlainJump DEF Placed
<1> QED
  BY <1>1, <1>2, <1>3, ChainTwo, ChainThree

(* An if without else: *)
LEMMA IfWork ==
  ASSUME NEW fn, NEW B, NEW n, NEW left, NEW D, Placed(fn, n, left, D), n.type = "if", IsNull(n.else),
         NEW a \in B, NEW z \in B, a \in Nat, z \in Nat, a # z, a \notin DueBlocks(D), z \notin DueBlocks(D)
  PROVE  Chain(fn, B, <<Value(n.left), BranchTo(a, z), OpenAt(a), Statement(n.then), JumpTo(z), OpenAt(z)>>,
               St(left, DueToo(DueToo(D, z), a)), St(left \ MarksIn(n), D))
<1> DEFINE E == DueToo(D, z)
           F == DueToo(E, a)
           rest == left \ MarksIn(n.then)
<1>1. fn \in AllFunctions /\ Plain(D) /\ n \in NodesOf[fn]
  BY DEF Placed
<1>2. Plain(E) /\ DueBlocks(E) = DueBlocks(D) \cup {z}
  BY <1>1, DueTooFacts
<1>3. a \notin DueBlocks(E)
  BY <1>2
<1>4. Plain(F)
  BY <1>1, <1>2, <1>3, DueTooFacts
<1>5. n.left \in NodesOf[fn] /\ ~ IsVoid(n.left)
  BY <1>1, NodeFacts, BeneathFacts, TypedFacts
<1>6. /\ Placed(fn, n.then, left, D) /\ Placed(fn, n.else, rest, D)
      /\ MarksIn(n) = MarksIn(n.then) \cup MarksIn(n.else)
  BY TwoParts
<1>7. Placed(fn, n.then, left, E)
  BY <1>6, PlacedDueToo
<1>8. MarksIn(n.else) = {}
  <2>1. n.else.type = "nothing"
    BY DEF IsNull, Nothing
  <2>2. Simple(n.else) /\ Within(n.else) = <<>>
    BY <2>1, WithinFacts DEF Simple
  <2> QED
    BY <2>2, <1>6, LeafMarks DEF Placed
<1>9. rest = left \ MarksIn(n)
  BY <1>6, <1>8
<1> DEFINE p == St(left, F)
<1>10. /\ Step(fn, B, Value(n.left), p, Ex(p, <<"value">>))
       /\ Step(fn, B, BranchTo(a, z), Ex(p, <<"value">>), Shut(p))
  BY <1>1, <1>4, <1>5, TestWork
<1>11. Chain(fn, B, <<Value(n.left), BranchTo(a, z)>>, p, Shut(p))
  BY <1>10, ChainTwo
<1>12. Step(fn, B, OpenAt(a), Shut(p), St(left, E))
  BY <1>1, <1>2, <1>3, OpenDueToo
<1>13. Chain(fn, B, <<Value(n.left), BranchTo(a, z), OpenAt(a)>>, p, St(left, E))
  BY <1>10, <1>12, ChainThree
<1>14. Step(fn, B, Statement(n.then), St(left, E), St(rest, E))
  BY <1>7, PlacedOn
<1>15. Step(fn, B, JumpTo(z), St(rest, E), Shut(St(rest, E)))
  BY <1>1, PlainJump
<1>16. Step(fn, B, OpenAt(z), Shut(St(rest, E)), St(rest, D))
  BY <1>1, OpenDueToo
<1>. HIDE DEF E, F, rest, p
<1>17. Chain(fn, B, <<Statement(n.then), JumpTo(z), OpenAt(z)>>, St(left, E), St(rest, D))
  BY <1>14, <1>15, <1>16, ChainThree
<1>18. Chain(fn, B, <<Value(n.left), BranchTo(a, z), OpenAt(a), Statement(n.then), JumpTo(z), OpenAt(z)>>, p, St(rest, D))
  BY <1>13, <1>17, ChainSix
<1> QED
  BY <1>9, <1>18 DEF p, F, E

(* An if with one: *)
LEMMA IfElseWork ==
  ASSUME NEW fn, NEW B, NEW n, NEW left, NEW D, Placed(fn, n, left, D), n.type = "if",
         NEW a \in B, NEW b \in B, NEW z \in B, a \in Nat, b \in Nat, z \in Nat, a # z, a # b, b # z,
         a \notin DueBlocks(D), b \notin DueBlocks(D), z \notin DueBlocks(D)
  PROVE  Chain(fn, B, <<Value(n.left), BranchTo(a, b), OpenAt(a), Statement(n.then), JumpTo(z),
                        OpenAt(b), Statement(n.else), JumpTo(z), OpenAt(z)>>,
               St(left, DueToo(DueToo(DueToo(D, z), b), a)), St(left \ MarksIn(n), D))
<1> DEFINE E == DueToo(D, z)
           F == DueToo(E, b)
           G == DueToo(F, a)
           rest == left \ MarksIn(n.then)
           end == rest \ MarksIn(n.else)
<1>1. fn \in AllFunctions /\ Plain(D) /\ n \in NodesOf[fn]
  BY DEF Placed
<1>2. Plain(E) /\ DueBlocks(E) = DueBlocks(D) \cup {z}
  BY <1>1, DueTooFacts
<1>3. a \notin DueBlocks(E) /\ b \notin DueBlocks(E)
  BY <1>2
<1>4. Plain(F) /\ DueBlocks(F) = DueBlocks(E) \cup {b}
  BY <1>1, <1>2, <1>3, DueTooFacts
<1>19. a \notin DueBlocks(F)
  BY <1>3, <1>4
<1>20. Plain(G)
  BY <1>1, <1>4, <1>19, DueTooFacts
<1>5. n.left \in NodesOf[fn] /\ ~ IsVoid(n.left)
  BY <1>1, NodeFacts, BeneathFacts, TypedFacts
<1>6. /\ Placed(fn, n.then, left, D) /\ Placed(fn, n.else, rest, D)
      /\ MarksIn(n) = MarksIn(n.then) \cup MarksIn(n.else)
  BY TwoParts
<1>7. Placed(fn, n.then, left, F) /\ Placed(fn, n.else, rest, E)
  BY <1>2, <1>3, <1>6, PlacedDueToo
<1>9. end = left \ MarksIn(n)
  BY <1>6
<1> DEFINE p == St(left, G)
<1>10. /\ Step(fn, B, Value(n.left), p, Ex(p, <<"value">>))
       /\ Step(fn, B, BranchTo(a, b), Ex(p, <<"value">>), Shut(p))
  BY <1>1, <1>20, <1>5, TestWork
<1>12. Step(fn, B, OpenAt(a), Shut(p), St(left, F))
  BY <1>1, <1>4, <1>19, OpenDueToo
<1>14. Step(fn, B, Statement(n.then), St(left, F), St(rest, F))
  BY <1>7, PlacedOn
<1>15. Step(fn, B, JumpTo(z), St(rest, F), Shut(St(rest, F)))
  BY <1>1, PlainJump
<1>16. Step(fn, B, OpenAt(b), Shut(St(rest, F)), St(rest, E))
  BY <1>1, <1>2, <1>3, OpenDueToo
<1>17. Step(fn, B, Statement(n.else), St(rest, E), St(end, E))
  BY <1>7, PlacedOn
<1>18. Step(fn, B, JumpTo(z), St(end, E), Shut(St(end, E)))
  BY <1>1, PlainJump
<1>21. Step(fn, B, OpenAt(z), Shut(St(end, E)), St(end, D))
  BY <1>1, OpenDueToo
<1>. HIDE DEF E, F, G, rest, end, p
<1>22. Chain(fn, B, <<Value(n.left), BranchTo(a, b), OpenAt(a), Statement(n.then)>>, p, St(rest, F))
  BY <1>10, <1>12, <1>14, ChainFour
<1>23. Chain(fn, B, <<JumpTo(z), OpenAt(b), Statement(n.else), JumpTo(z)>>, St(rest, F), Shut(St(end, E)))
  BY <1>15, <1>16, <1>17, <1>18, ChainFour
<1>24. Chain(fn, B, <<Value(n.left), BranchTo(a, b), OpenAt(a), Statement(n.then),
                      JumpTo(z), OpenAt(b), Statement(n.else), JumpTo(z)>>, p, Shut(St(end, E)))
  BY <1>22, <1>23, ChainEight
<1>25. Chain(fn, B, <<Value(n.left), BranchTo(a, b), OpenAt(a), Statement(n.then),
                      JumpTo(z), OpenAt(b), Statement(n.else), JumpTo(z), OpenAt(z)>>, p, St(end, D))
  BY <1>21, <1>24, ChainNine
<1> QED
  BY <1>9, <1>25 DEF p, G, F, E

(* The body of a loop. *)
LEMMA LoopedWork ==
  ASSUME NEW fn, NEW B, NEW m, NEW left, NEW D, Placed(fn, m, left, D), NEW b \in B, NEW c \in B
  PROVE  Chain(fn, B, Looped(m, b, c), St(left, D), St(left \ MarksIn(m), D))
<1>1. Step(fn, B, PushLoop(b, c), St(left, D), St(left, D))
  BY PlainLoop DEF Placed
<1>2. Step(fn, B, Statement(m), St(left, D), St(left \ MarksIn(m), D))
  BY PlacedOn
<1>3. Step(fn, B, PopLoop, St(left \ MarksIn(m), D), St(left \ MarksIn(m), D))
  BY PlainLoop DEF Placed
<1>4. Chain(fn, B, <<PushLoop(b, c), Statement(m), PopLoop>>, St(left, D), St(left \ MarksIn(m), D))
  BY <1>1, <1>2, <1>3, ChainThree
<1> QED
  BY <1>4 DEF Looped

-----------------------------------------------------------------------------
(* Loops, labels and the body of a switch                                  *)

(* A block behind a jump into it. *)
LEMMA ArriveWork ==
  ASSUME NEW fn \in AllFunctions, NEW B, NEW left, NEW D, Plain(D), NEW b \in B, b \in Nat, b \notin DueBlocks(D)
  PROVE  /\ Chain(fn, B, <<JumpTo(b), OpenAt(b)>>, St(left, DueToo(D, b)), St(left, D))
         /\ \A c \in B : Chain(fn, B, <<JumpTo(c), OpenAt(b)>>, St(left, DueToo(D, b)), St(left, D))
<1>1. \A c \in B : Step(fn, B, JumpTo(c), St(left, DueToo(D, b)), Shut(St(left, DueToo(D, b))))
  BY PlainJump
<1>2. Step(fn, B, OpenAt(b), Shut(St(left, DueToo(D, b))), St(left, D))
  BY OpenDueToo
<1>3. \A c \in B : Chain(fn, B, <<JumpTo(c), OpenAt(b)>>, St(left, DueToo(D, b)), St(left, D))
  BY <1>1, <1>2, ChainTwo
<1> QED
  BY <1>3

(* A test, and the block behind it. *)
LEMMA TestedWork ==
  ASSUME NEW fn \in AllFunctions, NEW B, NEW left, NEW D, Plain(D), NEW n \in NodesOf[fn], ~ IsVoid(n),
         NEW a \in B, NEW z \in B, NEW b \in B, b \in Nat, b \notin DueBlocks(D)
  PROVE  Chain(fn, B, <<Value(n), BranchTo(a, z), OpenAt(b)>>, St(left, DueToo(D, b)), St(left, D))
<1> DEFINE p == St(left, DueToo(D, b))
<1>1. Plain(DueToo(D, b))
  BY DueTooFacts
<1>2. Step(fn, B, Value(n), p, Ex(p, <<"value">>)) /\ Step(fn, B, BranchTo(a, z), Ex(p, <<"value">>), Shut(p))
  BY <1>1, TestWork
<1>3. Step(fn, B, OpenAt(b), Shut(p), St(left, D))
  BY OpenDueToo
<1> QED
  BY <1>2, <1>3, ChainThree

(* Five pieces of work, by two and three. *)
LEMMA ChainTwoThree ==
  ASSUME NEW fn, NEW B, NEW a, NEW b, NEW c, NEW d, NEW e, NEW s, NEW u, NEW t,
         Chain(fn, B, <<a, b>>, s, u), Chain(fn, B, <<c, d, e>>, u, t)
  PROVE  Chain(fn, B, <<a, b, c, d, e>>, s, t)
<1> DEFINE x == <<a, b, c, d, e>>
           y == <<a, b>>
           z == <<c, d, e>>
<1>1. x = y \o z
  BY SMTT(30)
<1>. HIDE DEF x
<1>2. Chain(fn, B, y \o z, s, t)
  BY ChainJoin
<1>3. Chain(fn, B, x, s, t)
  BY <1>1, <1>2
<1> QED
  BY <1>3 DEF x

(* A while: *)
LEMMA WhileWork ==
  ASSUME NEW fn, NEW B, NEW n, NEW left, NEW D, Placed(fn, n, left, D), n.type = "while",
         NEW a \in B, NEW b \in B, NEW z \in B, a \in Nat, b \in Nat, z \in Nat, a # z, a # b, b # z,
         a \notin DueBlocks(D), b \notin DueBlocks(D), z \notin DueBlocks(D)
  PROVE  Chain(fn, B, <<JumpTo(a), OpenAt(a), Value(n.left), BranchTo(b, z), OpenAt(b)>> \o
                      Looped(n.body, z, a) \o <<JumpTo(a), OpenAt(z)>>,
               St(left, DueToo(DueToo(DueToo(D, z), b), a)), St(left \ MarksIn(n), D))
<1> DEFINE E == DueToo(D, z)
           F == DueToo(E, b)
           G == DueToo(F, a)
<1>1. fn \in AllFunctions /\ Plain(D) /\ n \in NodesOf[fn]
  BY DEF Placed
<1>2. Plain(E) /\ DueBlocks(E) = DueBlocks(D) \cup {z}
  BY <1>1, DueTooFacts
<1>3. a \notin DueBlocks(E) /\ b \notin DueBlocks(E)
  BY <1>2
<1>4. Plain(F) /\ DueBlocks(F) = DueBlocks(E) \cup {b}
  BY <1>1, <1>2, <1>3, DueTooFacts
<1>5. a \notin DueBlocks(F)
  BY <1>3, <1>4
<1>6. n.left \in NodesOf[fn] /\ ~ IsVoid(n.left)
  BY <1>1, NodeFacts, BeneathFacts, TypedFacts
<1>7. Placed(fn, n.body, left, E) /\ MarksIn(n) = MarksIn(n.body)
  <2>1. Placed(fn, n.body, left, D) /\ MarksIn(n) = MarksIn(n.body)
    BY OnePart
  <2> QED
    BY <2>1, PlacedDueToo
<1>8. Chain(fn, B, <<JumpTo(a), OpenAt(a)>>, St(left, G), St(left, F))
  BY <1>1, <1>4, <1>5, ArriveWork
<1>9. Chain(fn, B, <<Value(n.left), BranchTo(b, z), OpenAt(b)>>, St(left, F), St(left, E))
  BY <1>1, <1>2, <1>3, <1>6, TestedWork
<1>10. Chain(fn, B, Looped(n.body, z, a), St(left, E), St(left \ MarksIn(n), E))
  BY <1>7, LoopedWork
<1>11. Chain(fn, B, <<JumpTo(a), OpenAt(z)>>, St(left \ MarksIn(n), E), St(left \ MarksIn(n), D))
  BY <1>1, ArriveWork
<1> DEFINE x == <<JumpTo(a), OpenAt(a), Value(n.left), BranchTo(b, z), OpenAt(b)>>
<1>12. Chain(fn, B, x, St(left, G), St(left, E))
  BY <1>8, <1>9, ChainTwoThree
<1>. HIDE DEF E, F, G, x
<1>13. Chain(fn, B, x \o Looped(n.body, z, a), St(left, G), St(left \ MarksIn(n), E))
  BY <1>10, <1>12, ChainJoin
<1>14. Chain(fn, B, x \o Looped(n.body, z, a) \o <<JumpTo(a), OpenAt(z)>>, St(left, G), St(left \ MarksIn(n), D))
  BY <1>11, <1>13, ChainJoin
<1> QED
  BY <1>14 DEF x, G, F, E

(* A do, whose test is behind its body: *)
LEMMA DoWork ==
  ASSUME NEW fn, NEW B, NEW n, NEW left, NEW D, Placed(fn, n, left, D), n.type = "do",
         NEW a \in B, NEW b \in B, NEW z \in B, a \in Nat, b \in Nat, z \in Nat, a # z, a # b, b # z,
         a \notin DueBlocks(D), b \notin DueBlocks(D), z \notin DueBlocks(D)
  PROVE  Chain(fn, B, <<JumpTo(b), OpenAt(b)>> \o Looped(n.body, z, a) \o
                      <<JumpTo(a), OpenAt(a), Value(n.left), BranchTo(b, z), OpenAt(z)>>,
               St(left, DueToo(DueToo(DueToo(D, z), a), b)), St(left \ MarksIn(n), D))
<1> DEFINE E == DueToo(D, z)
           F == DueToo(E, a)
           G == DueToo(F, b)
           rest == left \ MarksIn(n)
<1>1. fn \in AllFunctions /\ Plain(D) /\ n \in NodesOf[fn]
  BY DEF Placed
<1>2. Plain(E) /\ DueBlocks(E) = DueBlocks(D) \cup {z}
  BY <1>1, DueTooFacts
<1>3. a \notin DueBlocks(E) /\ b \notin DueBlocks(E)
  BY <1>2
<1>4. Plain(F) /\ DueBlocks(F) = DueBlocks(E) \cup {a}
  BY <1>1, <1>2, <1>3, DueTooFacts
<1>5. b \notin DueBlocks(F)
  BY <1>3, <1>4
<1>6. n.left \in NodesOf[fn] /\ ~ IsVoid(n.left)
  BY <1>1, NodeFacts, BeneathFacts, TypedFacts
<1>7. Placed(fn, n.body, left, F) /\ MarksIn(n) = MarksIn(n.body)
  <2>1. Placed(fn, n.body, left, D) /\ MarksIn(n) = MarksIn(n.body)
    BY OnePart
  <2> QED
    BY <2>1, <1>3, PlacedDueToo
<1>8. Chain(fn, B, <<JumpTo(b), OpenAt(b)>>, St(left, G), St(left, F))
  BY <1>1, <1>4, <1>5, ArriveWork
<1>9. Chain(fn, B, Looped(n.body, z, a), St(left, F), St(rest, F))
  BY <1>7, LoopedWork
<1>10. Chain(fn, B, <<JumpTo(a), OpenAt(a)>>, St(rest, F), St(rest, E))
  BY <1>1, <1>2, <1>3, ArriveWork
<1>11. Chain(fn, B, <<Value(n.left), BranchTo(b, z), OpenAt(z)>>, St(rest, E), St(rest, D))
  BY <1>1, <1>6, TestedWork
<1> DEFINE x == <<JumpTo(a), OpenAt(a), Value(n.left), BranchTo(b, z), OpenAt(z)>>
           y == <<JumpTo(b), OpenAt(b)>>
<1>12. Chain(fn, B, x, St(rest, F), St(rest, D))
  BY <1>10, <1>11, ChainTwoThree
<1>. HIDE DEF E, F, G, x, y, rest
<1>13. Chain(fn, B, y \o Looped(n.body, z, a), St(left, G), St(rest, F))
  BY <1>8, <1>9, ChainJoin DEF y
<1>14. Chain(fn, B, y \o Looped(n.body, z, a) \o x, St(left, G), St(rest, D))
  BY <1>12, <1>13, ChainJoin
<1> QED
  BY <1>14 DEF x, y, G, F, E, rest

(* The first and third clause of a for, if there are any: *)
LEMMA ClauseWork ==
  ASSUME NEW fn \in AllFunctions, NEW B, NEW left, NEW D, Plain(D), NEW m \in NodesOf[fn]
  PROVE  Chain(fn, B, Clause(m), St(left, D), St(left, D))
<1>1. CASE IsNull(m)
  BY <1>1, ChainEmpty DEF Clause, IsNull, Nothing
<1>2. CASE ~ IsNull(m) /\ m.type = "declaration"
  <2>1. Simple(m) /\ Within(m) = <<>>
    BY <1>2, WithinFacts DEF Simple
  <2>2. MarksIn(m) = {}
    BY <2>1, LeafMarks
  <2>3. OwnCases[m] = {}
    <3>1. \A x : x \in OwnCases[m] <=> \E k \in DOMAIN Within(m) : x \in OwnCases[Within(m)[k]]
      BY <2>1, PartsOfSimple
    <3>2. DOMAIN Within(m) = {}
      BY <2>1, EmptyList, SeqFacts
    <3> QED
      BY <3>1, <3>2
  <2>4. Placed(fn, m, left, D)
    BY <2>2, <2>3 DEF Placed, Ready, Stamps
  <2>5. Step(fn, B, Statement(m), St(left, D), St(left \ MarksIn(m), D))
    BY <2>4, PlacedOn
  <2>6. left \ MarksIn(m) = left
    BY <2>2
  <2>7. Chain(fn, B, <<Statement(m)>>, St(left, D), St(left, D))
    BY <2>5, <2>6, ChainOne
  <2> QED
    BY <1>2, <2>7 DEF Clause
<1>3. CASE ~ IsNull(m) /\ m.type # "declaration"
  BY <1>3, ForgottenWork DEF Clause
<1> QED
  BY <1>1, <1>2, <1>3

(* How the body of a for is entered. *)
LEMMA EnteredWork ==
  ASSUME NEW fn \in AllFunctions, NEW B, NEW left, NEW D, Plain(D), NEW n \in NodesOf[fn], n.type = "for",
         NEW b \in B, NEW z \in B
  PROVE  Chain(fn, B, IF IsNull(n.left) THEN <<JumpTo(b)>> ELSE <<Value(n.left), BranchTo(b, z)>>,
               St(left, D), Shut(St(left, D)))
<1> DEFINE p == St(left, D)
<1>1. CASE IsNull(n.left)
  <2>1. Step(fn, B, JumpTo(b), p, Shut(p))
    BY PlainJump
  <2>2. Chain(fn, B, <<JumpTo(b)>>, p, Shut(p))
    BY <2>1, ChainOne
  <2> QED
    BY <1>1, <2>2
<1>2. CASE ~ IsNull(n.left)
  <2>1. n.left \in NodesOf[fn] /\ ~ IsVoid(n.left)
    BY <1>2, NodeFacts, BeneathFacts, TypedFacts DEF IsNull
  <2>2. Step(fn, B, Value(n.left), p, Ex(p, <<"value">>)) /\ Step(fn, B, BranchTo(b, z), Ex(p, <<"value">>), Shut(p))
    BY <2>1, TestWork
  <2>3. Chain(fn, B, <<Value(n.left), BranchTo(b, z)>>, p, Shut(p))
    BY <2>2, ChainTwo
  <2> QED
    BY <1>2, <2>3
<1> QED
  BY <1>1, <1>2

(* A for: *)
LEMMA ForWork ==
  ASSUME NEW fn, NEW B, NEW n, NEW left, NEW D, Placed(fn, n, left, D), n.type = "for",
         NEW a \in B, NEW b \in B, NEW c \in B, NEW z \in B, a \in Nat, b \in Nat, c \in Nat, z \in Nat,
         a # z, a # b, a # c, b # z, b # c, c # z,
         a \notin DueBlocks(D), b \notin DueBlocks(D), c \notin DueBlocks(D), z \notin DueBlocks(D)
  PROVE  LET enter == IF IsNull(n.left) THEN <<JumpTo(b)>> ELSE <<Value(n.left), BranchTo(b, z)>>
         IN Chain(fn, B, Clause(n.init) \o <<JumpTo(a), OpenAt(a)>> \o enter \o <<OpenAt(b)>> \o
                         Looped(n.body, z, c) \o <<JumpTo(c), OpenAt(c)>> \o Clause(n.post) \o <<JumpTo(a), OpenAt(z)>>,
                  St(left, DueToo(DueToo(DueToo(DueToo(D, z), c), b), a)), St(left \ MarksIn(n), D))
<1> DEFINE E == DueToo(D, z)
           F == DueToo(E, c)
           G == DueToo(F, b)
           H == DueToo(G, a)
           rest == left \ MarksIn(n)
           enter == IF IsNull(n.left) THEN <<JumpTo(b)>> ELSE <<Value(n.left), BranchTo(b, z)>>
<1>1. fn \in AllFunctions /\ Plain(D) /\ n \in NodesOf[fn]
  BY DEF Placed
<1>2. Plain(E) /\ DueBlocks(E) = DueBlocks(D) \cup {z}
  BY <1>1, DueTooFacts
<1>3. a \notin DueBlocks(E) /\ b \notin DueBlocks(E) /\ c \notin DueBlocks(E)
  BY <1>2
<1>4. Plain(F) /\ DueBlocks(F) = DueBlocks(E) \cup {c}
  BY <1>1, <1>2, <1>3, DueTooFacts
<1>5. a \notin DueBlocks(F) /\ b \notin DueBlocks(F)
  BY <1>3, <1>4
<1>6. Plain(G) /\ DueBlocks(G) = DueBlocks(F) \cup {b}
  BY <1>1, <1>4, <1>5, DueTooFacts
<1>7. a \notin DueBlocks(G)
  BY <1>5, <1>6
<1>8. Plain(H)
  BY <1>1, <1>6, <1>7, DueTooFacts
<1>9. n.init \in NodesOf[fn] /\ n.post \in NodesOf[fn]
  BY <1>1, NodeFacts, BeneathFacts
<1>10. Placed(fn, n.body, left, F) /\ MarksIn(n) = MarksIn(n.body)
  <2>1. Placed(fn, n.body, left, D) /\ MarksIn(n) = MarksIn(n.body)
    BY OnePart
  <2>2. Placed(fn, n.body, left, E)
    BY <2>1, PlacedDueToo
  <2> QED
    BY <2>1, <2>2, <1>3, PlacedDueToo
<1>11. Chain(fn, B, Clause(n.init), St(left, H), St(left, H))
  BY <1>1, <1>8, <1>9, ClauseWork
<1>12. Chain(fn, B, <<JumpTo(a), OpenAt(a)>>, St(left, H), St(left, G))
  BY <1>1, <1>6, <1>7, ArriveWork
<1>13. Chain(fn, B, enter, St(left, G), Shut(St(left, G)))
  BY <1>1, <1>6, EnteredWork
<1>14. Chain(fn, B, <<OpenAt(b)>>, Shut(St(left, G)), St(left, F))
  BY <1>1, <1>4, <1>5, OpenDueToo, ChainOne
<1>15. Chain(fn, B, Looped(n.body, z, c), St(left, F), St(rest, F))
  BY <1>10, LoopedWork
<1>16. Chain(fn, B, <<JumpTo(c), OpenAt(c)>>, St(rest, F), St(rest, E))
  BY <1>1, <1>2, <1>3, ArriveWork
<1>17. Chain(fn, B, Clause(n.post), St(rest, E), St(rest, E))
  BY <1>1, <1>2, <1>9, ClauseWork
<1>18. Chain(fn, B, <<JumpTo(a), OpenAt(z)>>, St(rest, E), St(rest, D))
  BY <1>1, ArriveWork
<1>. HIDE DEF E, F, G, H, rest, enter
<1> DEFINE w1 == Clause(n.init) \o <<JumpTo(a), OpenAt(a)>>
           w2 == w1 \o enter
           w3 == w2 \o <<OpenAt(b)>>
           w4 == w3 \o Looped(n.body, z, c)
           w5 == w4 \o <<JumpTo(c), OpenAt(c)>>
           w6 == w5 \o Clause(n.post)
           w7 == w6 \o <<JumpTo(a), OpenAt(z)>>
<1>21. Chain(fn, B, w1, St(left, H), St(left, G))
  BY <1>11, <1>12, ChainJoin
<1>. HIDE DEF w1
<1>22. Chain(fn, B, w2, St(left, H), Shut(St(left, G)))
  BY <1>13, <1>21, ChainJoin
<1>. HIDE DEF w2
<1>23. Chain(fn, B, w3, St(left, H), St(left, F))
  BY <1>14, <1>22, ChainJoin
<1>. HIDE DEF w3
<1>24. Chain(fn, B, w4, St(left, H), St(rest, F))
  BY <1>15, <1>23, ChainJoin
<1>. HIDE DEF w4
<1>25. Chain(fn, B, w5, St(left, H), St(rest, E))
  BY <1>16, <1>24, ChainJoin
<1>. HIDE DEF w5
<1>26. Chain(fn, B, w6, St(left, H), St(rest, E))
  BY <1>17, <1>25, ChainJoin
<1>. HIDE DEF w6
<1>27. Chain(fn, B, w7, St(left, H), St(rest, D))
  BY <1>18, <1>26, ChainJoin
<1> QED
  BY <1>27 DEF w7, w6, w5, w4, w3, w2, w1, enter, rest, H, G, F, E

(* What stands behind a label. *)
LEMMA LabelWork ==
  ASSUME NEW fn, NEW B, NEW n, NEW left, NEW D, Placed(fn, n, left, D), n.type \in {"label", "case", "default"},
         NEW b \in B, b \in Nat, b \notin DueBlocks(D)
  PROVE  LET x == IF n.type = "label" THEN <<"label", n.name>> ELSE <<"case", n>>
         IN /\ Chain(fn, B, <<JumpTo(b), OpenAt(b), Statement(n.body)>>, St(left \ {x}, DueToo(D, b)),
                     St(left \ MarksIn(n), D))
            /\ x \in left
<1> DEFINE x == IF n.type = "label" THEN <<"label", n.name>> ELSE <<"case", n>>
<1>1. MarksIn(n) = {x} \cup MarksIn(n.body) /\ OwnCases[n.body] \subseteq OwnCases[n] /\ x \notin MarksIn(n.body)
  BY MarksOfLabel, MarksOfCase DEF Placed
<1>2. n.body \in NodesOf[fn]
  BY BodyOf DEF Placed
<1>3. Placed(fn, n.body, left \ {x}, D) /\ x \in left
  BY <1>1, <1>2 DEF Placed, Ready, Stamps
<1>4. (left \ {x}) \ MarksIn(n.body) = left \ MarksIn(n)
  BY <1>1
<1>. HIDE DEF x
<1>5. Chain(fn, B, <<JumpTo(b), OpenAt(b), Statement(n.body)>>, St(left \ {x}, DueToo(D, b)),
            St((left \ {x}) \ MarksIn(n.body), D))
  BY <1>3, EnterWork
<1> QED
  BY <1>3, <1>4, <1>5 DEF x

-----------------------------------------------------------------------------
(* Declarations                                                            *)

OnSlot(left, D) == Ex(St(left, D), <<"slot">>)

(* An element is stored, and the object is left for the next one: *)
LEMMA FillWork ==
  ASSUME NEW fn \in AllFunctions, NEW B, NEW left, NEW D, Plain(D), NEW ty, NEW k, NEW e \in NodesOf[fn], ~ IsVoid(e)
  PROVE  Chain(fn, B, FillItem(ty, k, e), OnSlot(left, D), OnSlot(left, D))
<1> DEFINE s == St(left, D)
           piece  == IF ty.kind = "struct" THEN ty.members[k].ty ELSE ty.base
           offset == IF ty.kind = "struct" THEN ty.members[k].offset ELSE (k - 1) * ElementSize(ty)
           w1 == ConstOf(offset, LongType)
           w2 == Appending("add", 2, <<1, 2>>, PointerTo(piece), <<1, Result>>)
           w3 == Value(e)
           w4 == Appending("store", 3, <<2, 3>>, VoidType, << 1 >>)
<1>1. FillItem(ty, k, e) = <<w1, w2, w3, w4>>
  BY DEF FillItem
<1>2. Fit(fn, s)
  BY StFit
<1>3. /\ w2.do = "append" /\ w2.op \in Binary2 /\ w2.takes = 2 /\ w2.uses = <<1, 2>> /\ w2.leaves = <<1, Result>>
  BY AppendingIs DEF Binary2
<1>4. /\ w4.do = "append" /\ w4.op \in {"store"} /\ w4.takes = 3 /\ w4.uses = <<2, 3>> /\ w4.leaves = << 1 >>
  BY AppendingIs
<1>5. "value" \in KindsOf(e)
  BY KindsFacts
<1>6. "slot" \in Kinds /\ "value" \in Kinds /\ "slot" \in {"value", "slot"}
  BY KindLists
<1>. HIDE DEF s, w2, w4
<1>7. Step(fn, B, w1, Ex(s, <<"slot">>), Ex(s, <<"slot", "value">>))
  BY <1>2, <1>6, ConstOn
<1>8. Step(fn, B, w2, Ex(s, <<"slot", "value">>), Ex(s, <<"slot", "value">>))
  <2>1. Suits(w2, <<"slot", "value">>, <<"slot", "value">>)
    BY <1>3, <1>6, SuitsOffset
  <2>2. <<"slot", "value">> \in Seq(Kinds)
    BY <1>6, KindLists
  <2> QED
    BY <1>2, <1>3, <2>1, <2>2, AppendOn
<1>9. Step(fn, B, w3, Ex(s, <<"slot", "value">>), Ex(s, <<"slot", "value", "value">>))
  BY <1>2, <1>5, <1>6, ValueOn
<1>10. Step(fn, B, w4, Ex(s, <<"slot", "value", "value">>), Ex(s, <<"slot">>))
  <2>1. Suits(w4, <<"slot", "value", "value">>, <<"slot">>)
    BY <1>4, <1>6, SuitsFill
  <2>2. <<"slot", "value", "value">> \in Seq(Kinds) /\ <<"slot">> \in Seq(Kinds)
    BY <1>6, KindLists
  <2> QED
    BY <1>2, <1>4, <2>1, <2>2, AppendOn
<1>. HIDE DEF w1, w3
<1>11. Chain(fn, B, <<w1, w2, w3, w4>>, Ex(s, <<"slot">>), Ex(s, <<"slot">>))
  BY <1>7, <1>8, <1>9, <1>10, ChainFour
<1> QED
  BY <1>1, <1>11 DEF OnSlot, s

(* One after another: *)
LEMMA FillsWork ==
  ASSUME NEW fn \in AllFunctions, NEW B, NEW left, NEW D, Plain(D), NEW lists, IsSeq(lists),
         \A j \in DOMAIN lists : Chain(fn, B, lists[j], OnSlot(left, D), OnSlot(left, D))
  PROVE  Chain(fn, B, FlattenSeq(lists), OnSlot(left, D), OnSlot(left, D))
<1> DEFINE p == OnSlot(left, D)
<1>1. CASE lists = <<>>
  <2>1. Len(lists) = 0
    BY <1>1, EmptyList
  <2>2. FlattenSeq(lists) = <<>>
    BY <1>1, <2>1 DEF FlattenSeq
  <2> QED
    BY <2>2, ChainEmpty
<1>2. CASE lists # <<>>
  <2> DEFINE V == UNION {Range(lists[j]) : j \in DOMAIN lists}
             G == {g \in Nat \X Seq(V) : Chain(fn, B, g[2], p, p)}
  <2>1. Len(lists) \in Nat /\ DOMAIN lists = 1 .. Len(lists) /\ Len(lists) >= 1
    BY <1>2, SeqFacts
  <2>2. \A j \in DOMAIN lists : lists[j] \in Seq(V)
    <3> SUFFICES ASSUME NEW j \in DOMAIN lists PROVE lists[j] \in Seq(V)
      OBVIOUS
    <3>1. lists[j] \in Seq(Range(lists[j])) /\ Range(lists[j]) \subseteq V
      BY DEF Chain, IsSeq
    <3> QED
      BY <3>1
  <2>3. <<1, lists[1]>> \in G
    BY <2>1, <2>2
  <2>4. \A k \in 1 .. Len(lists) - 1 : \A c : <<k, c>> \in G => <<k + 1, c \o lists[k + 1]>> \in G
    <3> SUFFICES ASSUME NEW k \in 1 .. Len(lists) - 1, NEW c, <<k, c>> \in G
                 PROVE  <<k + 1, c \o lists[k + 1]>> \in G
      OBVIOUS
    <3>1. c \in Seq(V) /\ Chain(fn, B, c, p, p) /\ k + 1 \in DOMAIN lists /\ k + 1 \in Nat
      BY <2>1
    <3>2. lists[k + 1] \in Seq(V) /\ Chain(fn, B, lists[k + 1], p, p)
      BY <2>2, <3>1
    <3>. HIDE DEF V, p
    <3>3. c \o lists[k + 1] \in Seq(V)
      BY <3>1, <3>2
    <3>4. Chain(fn, B, c \o lists[k + 1], p, p)
      BY <3>1, <3>2, ChainJoin
    <3> QED
      BY <3>1, <3>3, <3>4
  <2>. HIDE DEF V, G
  <2>5. <<Len(lists), FlattenSeq(lists)>> \in G
    BY <1>2, <2>2, <2>3, <2>4, FlattenInduct
  <2> QED
    BY <2>5 DEF G
<1> QED
  BY <1>1, <1>2

(* An initialiser that is there is not Nothing. *)
LEMMA OnlyNothing == ASSUME NEW a, a # Nothing PROVE {a} \cap {Nothing} = {}
OBVIOUS

(* A declaration, above the slot it is given: *)
LEMMA DeclarationWork ==
  ASSUME NEW fn, NEW B, NEW n, NEW left, NEW D, Placed(fn, n, left, D), n.type = "declaration"
  PROVE  Chain(fn, B, Initialised(n.ty, n.init), OnSlot(left, D), St(left \ MarksIn(n), D))
<1> DEFINE s == St(left, D)
           init == n.init
           p == OnSlot(left, D)
<1>1. left \ MarksIn(n) = left
  BY LeafPlaced
<1>2. fn \in AllFunctions /\ n \in NodesOf[fn] /\ Plain(D) /\ Beneath(n) \subseteq NodesOf[fn] /\ WellTyped(n)
  BY NodeFacts DEF Placed
<1>3. Fit(fn, s) /\ Ex(s, <<>>) = s /\ p = Ex(s, <<"slot">>)
  BY <1>2, StFit DEF OnSlot
<1>4. "slot" \in Kinds /\ "value" \in Kinds /\ "slot" \in {"value", "slot"} /\ "value" \in {"none", "value"}
  BY KindLists
<1>. HIDE DEF s, p
<1>5. Step(fn, B, Forget, p, s)
  BY <1>3, <1>4, ForgetOn
<1>6. Chain(fn, B, <<Forget>>, p, s)
  BY <1>5, ChainOne
<1>7. \A a \in Beneath(n) \ ({init} \cap {Nothing}) : ~ IsVoid(a)
  BY <1>2, TypedFacts
<1>8. CASE IsNull(init)
  <2>1. Initialised(n.ty, n.init) = <<Forget>>
    BY <1>8 DEF Initialised, IsNull, Nothing
  <2> QED
    BY <1>1, <1>6, <2>1 DEF s, p
<1>9. CASE ~ IsNull(init) /\ init.type = "braces"
  <2> DEFINE items == init.items
             lists == [j \in DOMAIN items |-> FillItem(n.ty, FilledBy(items)[j], items[j].value)]
  <2>1. IsSeq(items)
    BY <1>2, <1>9 DEF WellTyped
  <2>2. Len(items) \in Nat /\ DOMAIN items = 1 .. Len(items)
    BY <2>1, SeqFacts
  <2>3. IsSeq(lists) /\ DOMAIN lists = DOMAIN items
    BY <2>2, ListIs
  <2>4. ASSUME NEW j \in DOMAIN lists PROVE Chain(fn, B, lists[j], p, p)
    <3>1. items[j].value \in Beneath(n)
      BY <1>9, <2>3, BeneathFacts DEF Range
    <3>3. items[j].value \in NodesOf[fn] /\ ~ IsVoid(items[j].value)
      BY <1>2, <1>7, <1>9, <3>1 DEF IsNull
    <3>4. lists[j] = FillItem(n.ty, FilledBy(items)[j], items[j].value)
      BY <2>3
    <3>5. Chain(fn, B, FillItem(n.ty, FilledBy(items)[j], items[j].value), p, p)
      BY <1>2, <3>3, FillWork DEF p
    <3> QED
      BY <3>4, <3>5
  <2>. HIDE DEF lists
  <2>5. Chain(fn, B, FlattenSeq(lists), p, p)
    BY <1>2, <2>3, <2>4, FillsWork DEF p
  <2>6. Chain(fn, B, FlattenSeq(lists) \o <<Forget>>, p, s)
    BY <1>6, <2>5, ChainJoin
  <2>7. Initialised(n.ty, n.init) = FlattenSeq(lists) \o <<Forget>>
    BY <1>9 DEF Initialised, lists
  <2> QED
    BY <1>1, <2>6, <2>7 DEF s, p
<1>10. CASE ~ IsNull(init) /\ init.type # "braces"
  <2>1. init \in NodesOf[fn] /\ ~ IsVoid(init)
    BY <1>2, <1>7, <1>10, BeneathFacts, OnlyNothing DEF IsNull
  <2>2. CASE n.ty.kind = "struct" /\ init.type # "call"
    <3> DEFINE w == [Appending("memcpy", 2, <<1, 2>>, VoidType, <<>>) EXCEPT !.imm = n.ty.size]
    <3>1. Initialised(n.ty, n.init) = <<Address(init), w>>
      BY <1>10, <2>2 DEF Initialised
    <3>2. w.do = "append" /\ w.op \in {"store", "memcpy"} /\ w.takes = 2 /\ w.uses = <<1, 2>> /\ w.leaves = <<>>
      BY SizedIs
    <3>. HIDE DEF w
    <3>3. Step(fn, B, Address(init), p, Ex(s, <<"slot", "value">>))
      BY <1>3, <1>4, <2>1, AddressOn
    <3>4. Suits(w, <<"slot", "value">>, <<>>)
      BY <1>4, <3>2, SuitsStore
    <3>5. Step(fn, B, w, Ex(s, <<"slot", "value">>), Ex(s, <<>>))
      <4>1. <<"slot", "value">> \in Seq(Kinds) /\ <<>> \in Seq(Kinds)
        BY <1>4, KindLists
      <4> QED
        BY <1>3, <3>2, <3>4, <4>1, AppendOn
    <3>6. Chain(fn, B, <<Address(init), w>>, p, s)
      BY <1>3, <3>3, <3>5, ChainTwo
    <3> QED
      BY <1>1, <3>1, <3>6 DEF s, p
  <2>3. CASE ~ (n.ty.kind = "struct" /\ init.type # "call")
    <3> DEFINE w == Store(<<>>)
    <3>1. Initialised(n.ty, n.init) = <<Value(init), w>>
      BY <1>10, <2>3 DEF Initialised
    <3>2. w.do = "append" /\ w.op \in {"store", "memcpy"} /\ w.takes = 2 /\ w.uses = <<1, 2>> /\ w.leaves = <<>>
      BY StoreIs, AppendingIs
    <3>. HIDE DEF w
    <3>3. Step(fn, B, Value(init), p, Ex(s, <<"slot", "value">>))
      <4>1. "value" \in KindsOf(init)
        BY <2>1, KindsFacts
      <4> QED
        BY <1>3, <1>4, <2>1, <4>1, ValueOn
    <3>4. Suits(w, <<"slot", "value">>, <<>>)
      BY <1>4, <3>2, SuitsStore
    <3>5. Step(fn, B, w, Ex(s, <<"slot", "value">>), Ex(s, <<>>))
      <4>1. <<"slot", "value">> \in Seq(Kinds) /\ <<>> \in Seq(Kinds)
        BY <1>4, KindLists
      <4> QED
        BY <1>3, <3>2, <3>4, <4>1, AppendOn
    <3>6. Chain(fn, B, <<Value(init), w>>, p, s)
      BY <1>3, <3>3, <3>5, ChainTwo
    <3> QED
      BY <1>1, <3>1, <3>6 DEF s, p
  <2> QED
    BY <2>2, <2>3
<1> QED
  BY <1>8, <1>9, <1>10

-----------------------------------------------------------------------------
(* A switch                                                                *)

Tests(n) == [do |-> "tests", node |-> n]

(* A switch: its cases are collected, its value computed, and its cases    *)
(* tested:                                                                 *)
LEMMA SwitchWork ==
  ASSUME NEW fn, NEW B, NEW n, NEW left, NEW D, Placed(fn, n, left, D), n.type = "switch"
  PROVE  Chain(fn, B, <<Collect(n.body), Value(n.left), Tests(n)>>,
               Sh(<<>>, TRUE, Collecting(n, OwnCases[n.body]), left, D), St(left \ MarksIn(n), D))
<1> DEFINE own == OwnCases[n.body]
           e == <<>>
           v == <<"value">>
           p == Sh(e, TRUE, Collecting(n, own), left, D)
           q == Sh(e, TRUE, Collecting(n, {}), left, D)
           r == Sh(v, TRUE, Collecting(n, {}), left, D)
           t == St(left \ MarksIn(n), D)
           w1 == Collect(n.body)
           w2 == Value(n.left)
           w3 == Tests(n)
<1>1. fn \in AllFunctions /\ n \in NodesOf[fn] /\ Plain(D) /\ MarksIn(n) \subseteq left /\ n # Nothing
  BY DEF Placed, Ready, Nothing
<1>2. /\ MarksIn(n) = MarksIn(n.body) \cup Stamps(own) /\ n.body \in NodesOf[fn]
  BY <1>1, MarksOfSwitch
<1>3. n.left \in NodesOf[fn] /\ ~ IsVoid(n.left)
  BY <1>1, NodeFacts, BeneathFacts, TypedFacts
<1>4. "value" \in KindsOf(n.left)
  BY <1>3, KindsFacts
<1>5. Append(e, "value") = v /\ Len(e) = 0 /\ e \in Seq(Kinds)
  BY KindLists, EmptyList
<1>6. Low(D, 0)
  BY <1>1 DEF Plain
<1>7. /\ p.stack = e /\ p.open = TRUE /\ p.cases = Collecting(n, own) /\ p.left = left /\ p.due = D
      /\ q.stack = e /\ q.open = TRUE /\ q.cases = Collecting(n, {}) /\ q.left = left /\ q.due = D
      /\ r.stack = v /\ r.open = TRUE /\ r.cases = Collecting(n, {}) /\ r.left = left /\ r.due = D
      /\ q = Sh(e, TRUE, Collecting(n, {}), left, D) /\ r = Sh(v, TRUE, Collecting(n, {}), left, D)
      /\ t = Sh(<<>>, TRUE, Idle, left \ MarksIn(n), D)
  BY DEF Sh, St
<1>8. /\ w1.do = "collect" /\ w1.node = n.body /\ w2.do = "value" /\ w2.node = n.left
      /\ w3.do = "tests" /\ w3.node = n
  BY DEF Collect, Value, Tests
<1>. HIDE DEF p, own
<1>9. p.cases.of = n /\ p.cases.rem = own /\ own \ own = {}
  BY <1>7 DEF Collecting
<1>. HIDE DEF e, v, q, r, t, w1, w2, w3
<1>10. CollectStep(fn, w1, p, q)
  BY <1>1, <1>2, <1>7, <1>8, <1>9 DEF CollectStep, own
<1>11. ValueStep(fn, w2, q, r)
  BY <1>3, <1>4, <1>5, <1>6, <1>7, <1>8 DEF ValueStep
<1>12. TestsStep(fn, w3, r, t)
  <2>1. r.stack = <<"value">>
    BY <1>7 DEF v
  <2>2. SwitchEnd(fn, w3, r, t, r.due)
    BY <1>1, <1>2, <1>6, <1>7, <1>8 DEF SwitchEnd
  <2> QED
    BY <1>7, <1>8, <2>1, <2>2 DEF TestsStep
<1>13. Chain(fn, B, <<w1, w2, w3>>, p, t)
  BY <1>10, <1>11, <1>12, ChainThree DEF Step
<1> QED
  BY <1>13 DEF w1, w2, w3, p, t, e, own

(* The cases are collected node by node. *)
LEMMA CollectWork ==
  ASSUME NEW fn \in AllFunctions, NEW B, NEW m \in NodesOf[fn], NEW s, s = Sh(s.stack, s.open, s.cases, s.left, s.due),
         NEW of, of # Nothing, NEW rem, s.cases = Collecting(of, rem), OwnCases[m] \subseteq rem
  PROVE  LET now == rem \ (IF IsCase(m) THEN {m} ELSE {})
         IN Chain(fn, B, PartsOf(m), Sh(s.stack, s.open, Collecting(of, now), s.left, s.due),
                  Sh(s.stack, s.open, Collecting(of, rem \ OwnCases[m]), s.left, s.due))
<1> DEFINE now == rem \ (IF IsCase(m) THEN {m} ELSE {})
           Left(x) == Sh(s.stack, s.open, Collecting(of, x), s.left, s.due)
<1>1. /\ IsSeq(Within(m)) /\ Range(Within(m)) \subseteq NodesOf[fn] /\ WellLabelled(m)
      /\ CasesIn[m] = CasesAt(m, CasesIn)
      /\ OwnCases[m] = IF m.type = "switch" THEN {} ELSE CasesAt(m, OwnCases)
  BY NodeFacts
<1>2. CASE m.type = "switch"
  <2>1. OwnCases[m] = {} /\ ~ IsCase(m) /\ PartsOf(m) = <<>>
    BY <1>1, <1>2 DEF IsCase, PartsOf
  <2>2. now = rem \ OwnCases[m]
    BY <2>1
  <2> QED
    BY <2>1, <2>2, ChainEmpty
<1>3. CASE m.type # "switch"
  <2> DEFINE parts == Within(m)
             N == Len(parts)
             work == [k \in DOMAIN parts |-> Collect(parts[k])]
             gone(k) == UNION {OwnCases[parts[j]] : j \in {i \in DOMAIN parts : i < k}}
             sh == [k \in 1 .. N + 1 |-> Left(now \ gone(k))]
  <2>1. N \in Nat /\ DOMAIN parts = 1 .. N
    BY <1>1, SeqFacts
  <2>2. \A k \in DOMAIN parts : parts[k] \in NodesOf[fn] /\ OwnCases[parts[k]] \subseteq CasesIn[parts[k]]
    <3> SUFFICES ASSUME NEW k \in DOMAIN parts PROVE parts[k] \in NodesOf[fn] /\ OwnCases[parts[k]] \subseteq CasesIn[parts[k]]
      OBVIOUS
    <3>1. parts[k] \in NodesOf[fn]
      BY <1>1 DEF Range
    <3> QED
      BY <3>1, NodeFacts
  <2>3. \A j, k \in DOMAIN parts : j # k => CasesIn[parts[j]] \cap CasesIn[parts[k]] = {}
    BY <1>1 DEF WellLabelled
  <2>4. IsCase(m) => \A k \in DOMAIN parts : m \notin CasesIn[parts[k]]
    <3>1. IsCase(m) => m \notin CasesIn[m.body] /\ parts = <<m.body>>
      BY <1>1, WithinFacts DEF WellLabelled, IsCase
    <3>2. parts = <<m.body>> => \A k \in DOMAIN parts : parts[k] = m.body
      BY RangeOfOne
    <3> QED
      BY <3>1, <3>2
  <2>5. \A x : x \in OwnCases[m] <=> (IsCase(m) /\ x = m) \/ \E k \in DOMAIN parts : x \in OwnCases[parts[k]]
    BY <1>1, <1>3 DEF CasesAt, Range
  <2>6. work = [k \in 1 .. N |-> work[k]] /\ \A k \in 1 .. N : work[k] = Collect(parts[k])
    BY <2>1
  <2>7. \A k \in 1 .. N + 1 : sh[k] = Left(now \ gone(k))
    OBVIOUS
  <2>8. \A k : \A x : x \in gone(k) <=> \E j \in DOMAIN parts : j < k /\ x \in OwnCases[parts[j]]
    OBVIOUS
  <2>9. PartsOf(m) = work
    BY <1>3 DEF PartsOf
  <2>. HIDE DEF N, parts, work, sh, gone
  <2>10. ASSUME NEW k \in 1 .. N PROVE Step(fn, B, work[k], sh[k], sh[k + 1])
    <3> DEFINE p == parts[k]
               before == now \ gone(k)
               w == Collect(p)
    <3>1. k \in DOMAIN parts /\ k \in 1 .. N + 1 /\ k + 1 \in 1 .. N + 1
      BY <2>1
    <3>2. OwnCases[p] \subseteq before
      <4> SUFFICES ASSUME NEW x \in OwnCases[p] PROVE x \in rem /\ ~ (IsCase(m) /\ x = m) /\ x \notin gone(k)
        OBVIOUS
      <4>1. x \in OwnCases[m] /\ x \in CasesIn[p]
        BY <2>2, <2>5, <3>1
      <4>2. ~ (IsCase(m) /\ x = m)
        BY <2>4, <3>1, <4>1
      <4>3. x \notin gone(k)
        <5> SUFFICES ASSUME NEW j \in DOMAIN parts, j < k, x \in OwnCases[parts[j]] PROVE FALSE
          BY <2>8
        <5>1. x \in CasesIn[parts[j]] /\ j # k
          BY <2>2, <2>1
        <5> QED
          BY <2>3, <3>1, <4>1, <5>1
      <4> QED
        BY <4>1, <4>2, <4>3
    <3>3. before \ OwnCases[p] = now \ gone(k + 1)
      <4>1. \A j \in DOMAIN parts : j < k + 1 <=> j < k \/ j = k
        BY <2>1, <3>1
      <4>2. \A x : x \in gone(k + 1) <=> x \in gone(k) \/ x \in OwnCases[p]
        BY <2>8, <3>1, <4>1
      <4>. HIDE DEF now
      <4> QED
        BY <4>2
    <3>4. w.do = "collect" /\ w.node = p /\ p \in NodesOf[fn]
      BY <2>2, <3>1 DEF Collect
    <3>5. LET u == Left(before) IN /\ u.stack = s.stack /\ u.open = s.open /\ u.left = s.left /\ u.due = s.due
                                 /\ u.cases.of = of /\ u.cases.rem = before
      BY DEF Sh, Collecting
    <3>6. sh[k] = Left(before) /\ sh[k + 1] = Left(before \ OwnCases[p]) /\ work[k] = w
      BY <2>6, <2>7, <3>1, <3>3
    <3>. HIDE DEF before, p, w
    <3>7. CollectStep(fn, w, Left(before), Left(before \ OwnCases[p]))
      BY <3>2, <3>4, <3>5 DEF CollectStep
    <3> QED
      BY <3>6, <3>7 DEF Step
  <2>11. Chain(fn, B, work, sh[1], sh[N + 1])
    BY <2>1, <2>6, <2>10, ChainAlong
  <2>12. now \ gone(1) = now /\ now \ gone(N + 1) = rem \ OwnCases[m]
    <3>1. gone(1) = {}
      BY <2>1, <2>8
    <3>2. \A x : x \in gone(N + 1) <=> \E j \in DOMAIN parts : x \in OwnCases[parts[j]]
      BY <2>1, <2>8
    <3> QED
      BY <2>5, <3>1, <3>2
  <2>13. sh[1] = Left(now) /\ sh[N + 1] = Left(rem \ OwnCases[m])
    BY <2>1, <2>7, <2>12
  <2> QED
    BY <2>9, <2>11, <2>13
<1> QED
  BY <1>2, <1>3

(* The body of a switch, once its cases are tested. *)
LEMMA SwitchBodyWork ==
  ASSUME NEW fn \in AllFunctions, NEW B, NEW n \in NodesOf[fn], n.type = "switch", NEW left, NEW D, Plain(D),
         MarksIn(n) \subseteq left \cup Stamps(OwnCases[n.body]), Stamps(OwnCases[n.body]) \cap left = {},
         NEW z \in B, z \in Nat, z \notin DueBlocks(D), NEW c \in B, NEW b \in B
  PROVE  Chain(fn, B, <<JumpTo(b)>> \o <<PushLoop(z, c), OpenNew, Statement(n.body), JumpTo(z), PopLoop, OpenAt(z)>>,
               St(left, DueToo(D, z)), St(left \ MarksIn(n), D))
<1> DEFINE E == DueToo(D, z)
           m == n.body
           rest == left \ MarksIn(m)
           p == St(left, E)
           q == St(rest, E)
           u == Shut(p)
           v == Shut(q)
<1>1. /\ MarksIn(n) = MarksIn(m) \cup Stamps(OwnCases[m]) /\ Stamps(OwnCases[m]) \cap MarksIn(m) = {} /\ m \in NodesOf[fn]
  BY MarksOfSwitch
<1>2. Plain(E)
  BY DueTooFacts
<1>3. Placed(fn, m, left, E)
  BY <1>1, <1>2 DEF Placed, Ready
<1>4. rest = left \ MarksIn(n)
  BY <1>1
<1>5. Step(fn, B, JumpTo(b), p, u)
  BY <1>2, PlainJump
<1>6. Step(fn, B, PushLoop(z, c), u, u) /\ Step(fn, B, PopLoop, v, v)
  BY PlainLoop
<1>7. Step(fn, B, OpenNew, u, p)
  BY <1>2, PlainNew
<1>8. Step(fn, B, Statement(m), p, q)
  BY <1>3, PlacedOn
<1>9. Step(fn, B, JumpTo(z), q, v)
  BY <1>2, PlainJump
<1>10. Step(fn, B, OpenAt(z), v, St(rest, D))
  BY OpenDueToo
<1>. HIDE DEF E, m, rest, p, q, u, v
<1>11. Chain(fn, B, <<JumpTo(b)>>, p, u)
  BY <1>5, ChainOne
<1>12. Chain(fn, B, <<PushLoop(z, c), OpenNew, Statement(m)>>, u, q)
  BY <1>6, <1>7, <1>8, ChainThree
<1>13. Chain(fn, B, <<JumpTo(z), PopLoop, OpenAt(z)>>, q, St(rest, D))
  BY <1>6, <1>9, <1>10, ChainThree
<1>14. Chain(fn, B, <<PushLoop(z, c), OpenNew, Statement(m), JumpTo(z), PopLoop, OpenAt(z)>>, u, St(rest, D))
  BY <1>12, <1>13, ChainSix
<1>15. Chain(fn, B, <<JumpTo(b)>> \o <<PushLoop(z, c), OpenNew, Statement(m), JumpTo(z), PopLoop, OpenAt(z)>>, p, St(rest, D))
  BY <1>11, <1>14, ChainJoin
<1> QED
  BY <1>4, <1>15 DEF p, E, m

(* The work a function begins with. *)
LEMMA FunctionWork ==
  ASSUME NEW fn \in AllFunctions, NEW B
  PROVE  Chain(fn, B, WorkFor(fn), St(MarksIn(fn.body), {}), St({}, {}))
<1> DEFINE s == St(MarksIn(fn.body), {})
           N == Len(fn.params)
           work == [k \in DOMAIN fn.params |-> Parameter(k)]
           sh == [k \in 1 .. N + 1 |-> s]
<1>1. IsSeq(fn.params) /\ fn.body \in NodesOf[fn] /\ OwnCases[fn.body] = {}
  BY SourcesAnalysed DEF WellFormedTree
<1>2. N \in Nat /\ DOMAIN fn.params = 1 .. N
  BY <1>1, SeqFacts
<1>3. work = [k \in 1 .. N |-> work[k]] /\ \A k \in 1 .. N : work[k] = Parameter(k)
  BY <1>2
<1>4. \A k \in 1 .. N + 1 : sh[k] = s
  OBVIOUS
<1>5. s.open = TRUE /\ s.due = {}
  BY DEF St, Sh
<1>6. Plain({})
  BY DEF Plain, IsDue, Low
<1>7. Placed(fn, fn.body, MarksIn(fn.body), {})
  BY <1>1, <1>6 DEF Placed, Ready, Stamps
<1>8. Step(fn, B, Statement(fn.body), s, St({}, {}))
  <2>1. MarksIn(fn.body) \ MarksIn(fn.body) = {}
    OBVIOUS
  <2>2. Step(fn, B, Statement(fn.body), s, St(MarksIn(fn.body) \ MarksIn(fn.body), {}))
    BY <1>7, PlacedOn
  <2> QED
    BY <2>1, <2>2
<1>. HIDE DEF s, N, work, sh
<1>9. ASSUME NEW k \in 1 .. N PROVE Step(fn, B, work[k], sh[k], sh[k + 1])
  <2>1. work[k] = Parameter(k) /\ sh[k] = s /\ sh[k + 1] = s
    BY <1>2, <1>3, <1>4
  <2>2. Parameter(k).do = "parameter"
    BY DEF Parameter
  <2>3. ParameterStep(Parameter(k), s, s)
    BY <1>5, <2>2 DEF ParameterStep
  <2> QED
    BY <2>1, <2>3 DEF Step
<1>10. Chain(fn, B, work, sh[1], sh[N + 1])
  BY <1>2, <1>3, <1>9, ChainAlong
<1>11. sh[1] = s /\ sh[N + 1] = s
  BY <1>2, <1>4
<1>12. Chain(fn, B, work, s, s)
  BY <1>10, <1>11
<1>13. Chain(fn, B, work \o <<Statement(fn.body)>>, s, St({}, {}))
  BY <1>8, <1>12, ChainOne, ChainJoin
<1> QED
  BY <1>13 DEF WorkFor, work, s

-----------------------------------------------------------------------------
(* The function under construction, at a shape                             *)

(* The blocks that have the slots on entry and nothing else. *)
Plains(f, in) == {b \in DOMAIN f.code : b # EntryBlock /\ in[b] = Slots(f)}

(* A value that waits, as its kind says. *)
Available(slts, have, kind, v) ==
  /\ kind = "slot" => v \in slts
  /\ kind = "value" => v \in have
  /\ kind = "none" => v \in have \cup {NoValue}

(* The values that wait are at hand where control is, and those below the  *)
(* level of a block that is due are at hand on entry to it.                *)
Values(f, b, vs, in, stack, due) ==
  /\ IsSeq(vs) /\ DOMAIN vs = DOMAIN stack
  /\ \A k \in DOMAIN vs : Available(Slots(f), Had(f, in, b), stack[k], vs[k])
  /\ \A d \in due : \A k \in DOMAIN vs : k < d[2] => Available(Slots(f), in[d[1]], stack[k], vs[k])

(* The blocks something is yet to be put into: those that are due, and     *)
(* those of labels and cases not reached.                                  *)
Pending(at, due) == DueBlocks(due) \cup Range(at)

(* A block that is due has on entry no more than control has now, and the  *)
(* lower its level the less.                                               *)
DueFit(f, b, in, due) ==
  /\ \A d \in due : in[d[1]] \subseteq Had(f, in, b) /\ (d[2] = 0 => in[d[1]] = Slots(f))
  /\ \A d, e \in due : d[2] <= e[2] => in[d[1]] \subseteq in[e[1]]

(* Labels and cases not come to have different blocks, with the slots on   *)
(* entry.                                                                  *)
AtFit(f, in, at, due) ==
  /\ Range(at) \subseteq Plains(f, in) /\ Range(at) \cap DueBlocks(due) = {}
  /\ \A x, y \in DOMAIN at : at[x] = at[y] => x = y

(* Where control is, a block is open or finished as the shape says; those  *)
(* something is yet to be put into are empty; all others are finished.     *)
Blocks(f, b, in, at, open, due) ==
  /\ Sound(f, in) /\ b \in DOMAIN f.code
  /\ open = TRUE => Open(f.code[b])
  /\ open = FALSE => IsFinished(f.code[b])
  /\ \A x \in Pending(at, due) : x \in DOMAIN f.code /\ x # b /\ x # EntryBlock /\ f.code[x] = <<>>
  /\ \A x \in DOMAIN f.code : x = b \/ x \in Pending(at, due) \/ IsFinished(f.code[x])

(* The blocks, as a shape describes them. *)
Standing(f, b, in, at, open, due) ==
  Blocks(f, b, in, at, open, due) /\ AtFit(f, in, at, due) /\ DueFit(f, b, in, due) /\ IsDue(due)

(* The blocks and the values that wait, as a shape describes them. *)
Laid(f, b, vs, in, at, s) ==
  /\ IsShape(s) /\ Standing(f, b, in, at, s.open, s.due)
  /\ Values(f, b, vs, in, s.stack, s.due)

(* A value stays at hand when more is. *)
LEMMA AvailableMore ==
  ASSUME NEW slts, NEW have, NEW kind, NEW v, Available(slts, have, kind, v),
         NEW slts2, NEW have2, slts \subseteq slts2, have \subseteq have2
  PROVE  Available(slts2, have2, kind, v)
BY DEF Available

(* The values afterwards, the first n of them those there were. *)
Carried(f, b, vs, in, st, due, g, c, out, ws, ts, due2, n) ==
  /\ Values(f, b, vs, in, st, due) /\ IsSeq(ws) /\ DOMAIN ws = DOMAIN ts /\ n \in Nat
  /\ Slots(f) \subseteq Slots(g) /\ Had(f, in, b) \subseteq Had(g, out, c)
  /\ \A d \in due2 : /\ d[2] \in Nat /\ d[2] <= n + 1
                     /\ \/ d \in due /\ in[d[1]] \subseteq out[d[1]]
                        \/ Had(f, in, b) \subseteq out[d[1]]
                        \/ d[2] = 0
  /\ \A k \in DOMAIN ws : /\ k <= n => k \in DOMAIN vs /\ ws[k] = vs[k] /\ ts[k] = st[k]
                          /\ k > n => Available(Slots(g), Had(g, out, c), ts[k], ws[k])

(* The values that wait stay at hand where blocks are due, whatever is put *)
(* on top.                                                                 *)
LEMMA ValuesAfter ==
  ASSUME NEW f, NEW b, NEW vs, NEW in, NEW st, NEW due, NEW g, NEW c, NEW out, NEW ws, NEW ts, NEW due2, NEW n,
         Carried(f, b, vs, in, st, due, g, c, out, ws, ts, due2, n)
  PROVE  Values(g, c, ws, out, ts, due2)
<1>0. /\ Values(f, b, vs, in, st, due) /\ IsSeq(ws) /\ DOMAIN ws = DOMAIN ts /\ n \in Nat
      /\ Slots(f) \subseteq Slots(g) /\ Had(f, in, b) \subseteq Had(g, out, c)
      /\ \A d \in due2 : /\ d[2] \in Nat /\ d[2] <= n + 1
                         /\ \/ d \in due /\ in[d[1]] \subseteq out[d[1]]
                            \/ Had(f, in, b) \subseteq out[d[1]]
                            \/ d[2] = 0
      /\ \A k \in DOMAIN ws : /\ k <= n => k \in DOMAIN vs /\ ws[k] = vs[k] /\ ts[k] = st[k]
                              /\ k > n => Available(Slots(g), Had(g, out, c), ts[k], ws[k])
  BY DEF Carried
<1>1. DOMAIN ws = 1 .. Len(ws) /\ Len(ws) \in Nat
  BY <1>0, SeqFacts
<1>2. ASSUME NEW k \in DOMAIN ws PROVE Available(Slots(g), Had(g, out, c), ts[k], ws[k])
  <2>1. CASE k <= n
    <3>1. Available(Slots(f), Had(f, in, b), st[k], vs[k]) /\ ws[k] = vs[k] /\ ts[k] = st[k]
      BY <1>0, <2>1 DEF Values
    <3> QED
      BY <1>0, <3>1, AvailableMore
  <2>2. CASE k > n
    BY <1>0, <2>2
  <2> QED
    BY <1>0, <1>1, <2>1, <2>2
<1>3. ASSUME NEW d \in due2, NEW k \in DOMAIN ws, k < d[2]
      PROVE  Available(Slots(g), out[d[1]], ts[k], ws[k])
  <2>1. k <= n /\ d[2] # 0
    BY <1>0, <1>1, <1>3
  <2>2. k \in DOMAIN vs /\ ws[k] = vs[k] /\ ts[k] = st[k]
    BY <1>0, <2>1
  <2>3. CASE d \in due /\ in[d[1]] \subseteq out[d[1]]
    <3>1. Available(Slots(f), in[d[1]], st[k], vs[k])
      BY <1>0, <1>3, <2>2, <2>3 DEF Values
    <3> QED
      BY <1>0, <2>2, <2>3, <3>1, AvailableMore
  <2>4. CASE Had(f, in, b) \subseteq out[d[1]]
    <3>1. Available(Slots(f), Had(f, in, b), st[k], vs[k])
      BY <1>0, <2>2 DEF Values
    <3> QED
      BY <1>0, <2>2, <2>4, <3>1, AvailableMore
  <2> QED
    BY <1>0, <1>3, <2>1, <2>3, <2>4
<1> QED
  BY <1>0, <1>2, <1>3 DEF Values

(* An instruction put at the end of the block control is in. *)
Puts(f, b, in, at, due, m, i, g) ==
  /\ Standing(f, b, in, at, TRUE, due) /\ m \in Nat /\ f.values <= m
  /\ IsInstr(i) /\ i.op \notin {"phi", "alloca"} /\ IsNumbered(i, m) /\ i.dst \notin 1 .. f.values
  /\ Range(i.args) \subseteq Had(f, in, b) /\ Range(i.to) \subseteq Plains(f, in) \cup DueBlocks(due)
  /\ DOMAIN g = {"code", "values"} /\ g.values = m
  /\ g.code = [f.code EXCEPT ![b] = Append(f.code[b], i)]

Grew(f, b, in, at, due, i, g) ==
  /\ Standing(g, b, in, at, IF IsTerminator(i.op) THEN FALSE ELSE TRUE, due)
  /\ Plains(g, in) = Plains(f, in) /\ Slots(g) = Slots(f)
  /\ Had(g, in, b) = Had(f, in, b) \cup ({i.dst} \ {NoValue})

(* An instruction emitted leaves the blocks as they stand. *)
LEMMA StandingGrown ==
  ASSUME NEW f, NEW b, NEW in, NEW at, NEW due, NEW m, NEW i, NEW g, Puts(f, b, in, at, due, m, i, g)
  PROVE  Grew(f, b, in, at, due, i, g)
<1>0. /\ Standing(f, b, in, at, TRUE, due) /\ m \in Nat /\ f.values <= m
      /\ IsInstr(i) /\ i.op \notin {"phi", "alloca"} /\ IsNumbered(i, m) /\ i.dst \notin 1 .. f.values
      /\ Range(i.args) \subseteq Had(f, in, b) /\ Range(i.to) \subseteq Plains(f, in) \cup DueBlocks(due)
      /\ DOMAIN g = {"code", "values"} /\ g.values = m
      /\ g.code = [f.code EXCEPT ![b] = Append(f.code[b], i)]
  BY DEF Puts
<1>1. Sound(f, in) /\ b \in DOMAIN f.code /\ Open(f.code[b])
  BY <1>0 DEF Standing, Blocks
<1>2. \A y \in Range(i.to) : y \in DOMAIN f.code /\ y # EntryBlock /\ in[y] \subseteq Had(f, in, b)
  <2> SUFFICES ASSUME NEW y \in Range(i.to)
               PROVE  y \in DOMAIN f.code /\ y # EntryBlock /\ in[y] \subseteq Had(f, in, b)
    OBVIOUS
  <2>1. CASE y \in Plains(f, in)
    <3>1. Slots(f) \subseteq Had(f, in, b)
      BY <1>1, SoundFacts DEF Slots
    <3> QED
      BY <2>1, <3>1 DEF Plains
  <2>2. CASE y \in DueBlocks(due)
    <3>1. y \in Pending(at, due)
      BY <2>2 DEF Pending
    <3>2. PICK d \in due : y = d[1]
      BY <2>2 DEF DueBlocks
    <3> QED
      BY <1>0, <3>1, <3>2 DEF Standing, Blocks, DueFit
  <2> QED
    BY <1>0, <2>1, <2>2
<1>9. Lengthened(f, in, b, m, i, g)
  BY <1>0, <1>1, <1>2 DEF Lengthened
<1>3. /\ Sound(g, in) /\ DOMAIN g.code = DOMAIN f.code
      /\ \A x \in DOMAIN f.code : x # b => g.code[x] = f.code[x]
  BY <1>9, SoundGrown
<1>4. /\ Slots(g) = Slots(f)
      /\ Had(g, in, b) = Had(f, in, b) \cup ({i.dst} \ {NoValue})
  <2>1. Slots(g) = Slots(f)
    BY <1>9, SoundGrown
  <2>2. Had(g, in, b) = Had(f, in, b) \cup ({i.dst} \ {NoValue})
    BY <1>9, SoundGrown
  <2> QED
    BY <2>1, <2>2
<1>5. /\ ~ IsTerminator(i.op) => Open(g.code[b])
      /\ IsTerminator(i.op) => IsFinished(g.code[b])
  BY <1>9, SoundGrown
<1>6. Slots(g) = Slots(f) /\ Plains(g, in) = Plains(f, in)
  BY <1>3, <1>4 DEF Plains
<1>7. Blocks(g, b, in, at, IF IsTerminator(i.op) THEN FALSE ELSE TRUE, due)
  BY <1>0, <1>1, <1>3, <1>5 DEF Standing, Blocks
<1>8. AtFit(g, in, at, due) /\ DueFit(g, b, in, due) /\ IsDue(due)
  BY <1>0, <1>4, <1>6 DEF Standing, AtFit, DueFit
<1> QED
  BY <1>4, <1>6, <1>7, <1>8 DEF Standing, Grew

-----------------------------------------------------------------------------
(* How the function grows                                                  *)

(* The blocks that have the slots on entry, when there is one more. *)
LEMMA WidenedPlains ==
  ASSUME NEW f, NEW in, NEW S, NEW g, NEW out, NEW n, Widened(f, in, S, g, out, n)
  PROVE  /\ Plains(f, in) \subseteq Plains(g, out) /\ (S = Slots(f) => n \in Plains(g, out))
         /\ n \notin Plains(f, in)
BY DEF Widened, Plains

(* The blocks that are due. *)
LEMMA DueBlocksFacts ==
  ASSUME NEW due, NEW d
  PROVE  /\ d \in due => d[1] \in DueBlocks(due)
         /\ DueBlocks(due \cup {d}) = DueBlocks(due) \cup {d[1]}
         /\ \A x \in DueBlocks(due) : \E e \in due : x = e[1]
BY DEF DueBlocks

(* A block that is due, and its level. *)
LEMMA PairFacts == ASSUME NEW a, NEW b PROVE <<a, b>>[1] = a /\ <<a, b>>[2] = b
OBVIOUS

(* The block is to be opened later. *)
LEMMA StandingDue ==
  ASSUME NEW f, NEW b, NEW in, NEW at, NEW open, NEW due, Standing(f, b, in, at, open, due),
         NEW S, NEW g, NEW out, NEW n, Widened(f, in, S, g, out, n), NEW l \in Nat,
         S \subseteq Had(f, in, b), l = 0 => S = Slots(f),
         \A e \in due : /\ e[2] <= l => in[e[1]] \subseteq S
                        /\ l <= e[2] => S \subseteq in[e[1]]
  PROVE  Standing(g, b, out, at, open, due \cup {<<n, l>>})
<1> DEFINE p == <<n, l>>
           more == due \cup {p}
<1>1. /\ Blocks(f, b, in, at, open, due) /\ AtFit(f, in, at, due) /\ DueFit(f, b, in, due) /\ IsDue(due)
  BY DEF Standing
<1>2. b \in DOMAIN f.code /\ \A x \in Pending(at, due) : x \in DOMAIN f.code
  BY <1>1 DEF Blocks
<1>3. p[1] = n /\ p[2] = l /\ p \in Nat \X Nat
  BY DEF Widened
<1>4. n \notin DOMAIN f.code /\ n \notin Pending(at, due) /\ n # b
  BY <1>2 DEF Widened
<1>. HIDE DEF p, more
<1>5. Pending(at, more) = Pending(at, due) \cup {n} /\ DueBlocks(more) = DueBlocks(due) \cup {n}
  <2>1. DueBlocks(more) = DueBlocks(due) \cup {n}
    BY <1>3, DueBlocksFacts DEF more
  <2> QED
    BY <2>1 DEF Pending
<1>6. Blocks(g, b, out, at, open, more)
  BY <1>1, <1>2, <1>4, <1>5 DEF Blocks, Widened
<1>7. Range(at) \subseteq Pending(at, due)
  BY DEF Pending
<1>8. AtFit(g, out, at, more)
  <2>1. Range(at) \subseteq Plains(g, out)
    BY <1>1, WidenedPlains DEF AtFit
  <2> QED
    BY <1>1, <1>4, <1>5, <1>7, <2>1 DEF AtFit
<1>9. \A d \in due : d[1] \in DOMAIN f.code /\ d[1] # n /\ out[d[1]] = in[d[1]]
  BY <1>2, <1>4, DueBlocksFacts DEF Pending, Widened
<1>10. out[n] = S /\ Had(g, out, b) = Had(f, in, b) /\ Slots(g) = Slots(f)
  BY <1>2 DEF Widened
<1>11. \A d \in more : d \in due \/ d = p
  BY DEF more
<1>12. DueFit(g, b, out, more)
  <2>1. ASSUME NEW d \in more PROVE out[d[1]] \subseteq Had(g, out, b) /\ (d[2] = 0 => out[d[1]] = Slots(g))
    BY <1>1, <1>3, <1>9, <1>10, <1>11 DEF DueFit
  <2>2. ASSUME NEW d \in more, NEW e \in more, d[2] <= e[2] PROVE out[d[1]] \subseteq out[e[1]]
    BY <1>1, <1>3, <1>9, <1>10, <1>11, <2>2 DEF DueFit
  <2> QED
    BY <2>1, <2>2 DEF DueFit
<1>13. IsDue(more)
  <2>1. more \subseteq Nat \X Nat
    BY <1>1, <1>3 DEF more, IsDue
  <2>2. ASSUME NEW d \in more, NEW e \in more, d[1] = e[1] PROVE d = e
    BY <1>1, <1>3, <1>9, <1>11, <2>2 DEF IsDue
  <2> QED
    BY <2>1, <2>2 DEF IsDue
<1> QED
  BY <1>6, <1>8, <1>12, <1>13 DEF Standing, more, p

(* at with one mark more, and with one less. *)
Marked(at, x, n) == [y \in DOMAIN at \cup {x} |-> IF y = x THEN n ELSE at[y]]
Unmarked(at, x)  == [y \in DOMAIN at \ {x} |-> at[y]]

(* The block is that of a label or case not reached. *)
LEMMA StandingMark ==
  ASSUME NEW f, NEW b, NEW in, NEW at, NEW open, NEW due, Standing(f, b, in, at, open, due),
         NEW g, NEW out, NEW n, Widened(f, in, Slots(f), g, out, n), NEW x, x \notin DOMAIN at
  PROVE  Standing(g, b, out, Marked(at, x, n), open, due)
<1> DEFINE a == Marked(at, x, n)
<1>1. /\ Blocks(f, b, in, at, open, due) /\ AtFit(f, in, at, due) /\ DueFit(f, b, in, due) /\ IsDue(due)
  BY DEF Standing
<1>2. b \in DOMAIN f.code /\ \A y \in Pending(at, due) : y \in DOMAIN f.code
  BY <1>1 DEF Blocks
<1>3. DOMAIN a = DOMAIN at \cup {x} /\ a[x] = n /\ \A y \in DOMAIN at : a[y] = at[y]
  BY DEF Marked
<1>4. n \notin DOMAIN f.code /\ n \notin Pending(at, due) /\ n # b
  BY <1>2 DEF Widened
<1>. HIDE DEF a
<1>5. Range(a) = Range(at) \cup {n}
  BY <1>3 DEF Range
<1>6. Pending(a, due) = Pending(at, due) \cup {n}
  BY <1>5 DEF Pending
<1>7. Blocks(g, b, out, a, open, due)
  BY <1>1, <1>2, <1>4, <1>6 DEF Blocks, Widened
<1>8. Range(at) \subseteq Pending(at, due) /\ DueBlocks(due) \subseteq Pending(at, due)
  BY DEF Pending
<1>9. AtFit(g, out, a, due)
  <2>1. Range(a) \subseteq Plains(g, out)
    BY <1>1, <1>5, WidenedPlains DEF AtFit
  <2>2. \A y \in DOMAIN at : at[y] \in Range(at)
    BY DEF Range
  <2>3. \A y, z \in DOMAIN a : a[y] = a[z] => y = z
    BY <1>1, <1>3, <1>4, <1>8, <2>2 DEF AtFit
  <2> QED
    BY <1>1, <1>4, <1>5, <1>8, <2>1, <2>3 DEF AtFit
<1>10. \A d \in due : d[1] \in DOMAIN f.code /\ out[d[1]] = in[d[1]]
  BY <1>2, <1>8, DueBlocksFacts DEF Widened
<1>11. Had(g, out, b) = Had(f, in, b) /\ Slots(g) = Slots(f)
  BY <1>2 DEF Widened
<1>12. DueFit(g, b, out, due)
  BY <1>1, <1>10, <1>11 DEF DueFit
<1> QED
  BY <1>1, <1>7, <1>9, <1>12 DEF Standing, a

(* A label or case is reached: its block is the next to be opened. *)
LEMMA StandingReach ==
  ASSUME NEW f, NEW b, NEW in, NEW at, NEW open, NEW due, Standing(f, b, in, at, open, due),
         NEW x \in DOMAIN at, Slots(f) \subseteq Had(f, in, b)
  PROVE  /\ Standing(f, b, in, Unmarked(at, x), open, due \cup {<<at[x], 0>>})
         /\ at[x] \in Plains(f, in) /\ at[x] \in Nat /\ at[x] \notin DueBlocks(due)
<1> DEFINE a == Unmarked(at, x)
           n == at[x]
           p == <<n, 0>>
           more == due \cup {p}
<1>1. /\ Blocks(f, b, in, at, open, due) /\ AtFit(f, in, at, due) /\ DueFit(f, b, in, due) /\ IsDue(due)
  BY DEF Standing
<1>2. n \in Range(at)
  BY DEF Range
<1>3. n \in Plains(f, in) /\ n \notin DueBlocks(due) /\ n \in Pending(at, due)
  BY <1>1, <1>2 DEF AtFit, Pending
<1>4. n \in DOMAIN f.code /\ in[n] = Slots(f) /\ n # EntryBlock
  BY <1>3 DEF Plains
<1>5. n \in Nat
  <2>1. Sound(f, in)
    BY <1>1 DEF Blocks
  <2> QED
    BY <1>4, <2>1, SoundFacts
<1>6. p[1] = n /\ p[2] = 0 /\ p \in Nat \X Nat
  BY <1>5
<1>7. DOMAIN a = DOMAIN at \ {x} /\ \A y \in DOMAIN a : a[y] = at[y]
  BY DEF Unmarked
<1>. HIDE DEF a, p, more, n
<1>8. DueBlocks(more) = DueBlocks(due) \cup {n}
  BY <1>6, DueBlocksFacts DEF more
<1>9. Range(a) = Range(at) \ {n}
  <2>1. \A y \in DOMAIN at : at[y] = n => y = x
    BY <1>1 DEF AtFit, n
  <2> QED
    BY <1>7, <2>1 DEF Range, n
<1>10. Pending(a, more) = Pending(at, due)
  BY <1>2, <1>8, <1>9 DEF Pending
<1>11. Blocks(f, b, in, a, open, more)
  BY <1>1, <1>10 DEF Blocks
<1>12. AtFit(f, in, a, more)
  BY <1>1, <1>7, <1>8, <1>9 DEF AtFit
<1>13. \A d \in more : d \in due \/ d = p
  BY DEF more
<1>14. \A d \in due : Slots(f) \subseteq in[d[1]] /\ d[2] \in Nat
  <2>1. \A d \in due : d[1] \in Pending(at, due)
    BY DueBlocksFacts DEF Pending
  <2>2. \A d \in due : d[1] \in DOMAIN f.code /\ d[1] # EntryBlock
    BY <1>1, <2>1 DEF Blocks
  <2> QED
    BY <1>1, <2>2 DEF Blocks, Sound, Slots, IsDue
<1>15. DueFit(f, b, in, more)
  <2>1. ASSUME NEW d \in more PROVE in[d[1]] \subseteq Had(f, in, b) /\ (d[2] = 0 => in[d[1]] = Slots(f))
    BY <1>1, <1>4, <1>6, <1>13 DEF DueFit
  <2>2. ASSUME NEW d \in more, NEW e \in more, d[2] <= e[2] PROVE in[d[1]] \subseteq in[e[1]]
    <3>1. CASE d \in due /\ e \in due
      BY <1>1, <2>2, <3>1 DEF DueFit
    <3>2. CASE d = p /\ e \in due
      BY <1>4, <1>6, <1>14, <3>2
    <3>3. CASE d \in due /\ e = p
      <4>1. d[2] = 0
        BY <1>6, <1>14, <2>2, <3>3
      <4> QED
        BY <1>1, <1>4, <1>6, <3>3, <4>1 DEF DueFit
    <3> QED
      BY <1>13, <3>1, <3>2, <3>3
  <2> QED
    BY <2>1, <2>2 DEF DueFit
<1>16. IsDue(more)
  <2>1. more \subseteq Nat \X Nat
    BY <1>1, <1>6 DEF more, IsDue
  <2>2. ASSUME NEW d \in more, NEW e \in more, d[1] = e[1] PROVE d = e
    BY <1>1, <1>3, <1>6, <1>13, <2>2, DueBlocksFacts DEF IsDue
  <2> QED
    BY <2>1, <2>2 DEF IsDue
<1>17. Standing(f, b, in, a, open, more)
  BY <1>11, <1>12, <1>15, <1>16 DEF Standing
<1> QED
  BY <1>3, <1>5, <1>17 DEF a, more, p, n

(* A slot more. *)
LEMMA StandingSlot ==
  ASSUME NEW f, NEW b, NEW in, NEW at, NEW open, NEW due, Standing(f, b, in, at, open, due),
         NEW g, NEW out, NEW v, Reserved(f, in, g, out, v)
  PROVE  /\ Standing(g, b, out, at, open, due)
         /\ Plains(f, in) \subseteq Plains(g, out) /\ v \in Slots(g) /\ Slots(f) \subseteq Slots(g)
<1>1. /\ Blocks(f, b, in, at, open, due) /\ AtFit(f, in, at, due) /\ DueFit(f, b, in, due) /\ IsDue(due)
  BY DEF Standing
<1>2. b \in DOMAIN f.code /\ \A x \in Pending(at, due) : x \in DOMAIN f.code /\ x # EntryBlock
  BY <1>1 DEF Blocks
<1>3. Slots(g) = Slots(f) \cup {v} /\ Had(g, out, b) = Had(f, in, b) \cup {v}
  BY <1>2 DEF Reserved
<1>4. Plains(f, in) \subseteq Plains(g, out)
  BY <1>3 DEF Plains, Reserved
<1>5. Blocks(g, b, out, at, open, due)
  BY <1>1, <1>2 DEF Blocks, Reserved
<1>6. AtFit(g, out, at, due)
  BY <1>1, <1>4 DEF AtFit
<1>7. \A d \in due : out[d[1]] = in[d[1]] \cup {v}
  <2>1. \A d \in due : d[1] \in Pending(at, due)
    BY DueBlocksFacts DEF Pending
  <2> QED
    BY <1>2, <2>1 DEF Reserved
<1>8. DueFit(g, b, out, due)
  BY <1>1, <1>3, <1>7 DEF DueFit
<1> QED
  BY <1>1, <1>3, <1>4, <1>5, <1>6, <1>8 DEF Standing

(* A block that is due is opened. *)
Opens(f, b, in, at, due, d) ==
  /\ Standing(f, d[1], in, at, TRUE, due \ {d}) /\ Had(f, in, d[1]) = in[d[1]] /\ IsFinished(f.code[b])
  /\ f.code[d[1]] = <<>>

(* The lowest level is opened last: what is due still has on entry no more *)
(* than the block control is in now.                                       *)
LEMMA StandingOpens ==
  ASSUME NEW f, NEW b, NEW in, NEW at, NEW due, Standing(f, b, in, at, FALSE, due), NEW d \in due, Low(due, d[2])
  PROVE  Opens(f, b, in, at, due, d)
<1> DEFINE c == d[1]
           less == due \ {d}
<1>1. /\ Blocks(f, b, in, at, FALSE, due) /\ AtFit(f, in, at, due) /\ DueFit(f, b, in, due) /\ IsDue(due)
  BY DEF Standing
<1>2. \A e \in due : e[1] \in DueBlocks(due) /\ e[1] \in Pending(at, due)
  BY DueBlocksFacts DEF Pending
<1>3. /\ c \in DOMAIN f.code /\ c # b /\ c # EntryBlock /\ f.code[c] = <<>> /\ Sound(f, in)
      /\ IsFinished(f.code[b])
  BY <1>1, <1>2 DEF Blocks
<1>4. Had(f, in, c) = in[c]
  <2>1. Defs(<<>>) = {}
    BY FineNothing
  <2> QED
    BY <1>3, <2>1 DEF Had
<1>5. DueBlocks(less) = DueBlocks(due) \ {c}
  <2>1. \A e \in due : e[1] = c => e = d
    BY <1>1 DEF IsDue
  <2> QED
    BY <2>1 DEF DueBlocks
<1>6. c \notin Range(at)
  BY <1>1, <1>2 DEF AtFit
<1>. HIDE DEF less, c
<1>7. Pending(at, less) = Pending(at, due) \ {c}
  BY <1>5, <1>6 DEF Pending
<1>8. Open(f.code[c])
  BY <1>3, EmptyIsOpen
<1>9. Blocks(f, c, in, at, TRUE, less)
  <2>1. \A x \in Pending(at, less) : x \in DOMAIN f.code /\ x # c /\ x # EntryBlock /\ f.code[x] = <<>>
    BY <1>1, <1>7 DEF Blocks
  <2>2. \A x \in DOMAIN f.code : x = c \/ x \in Pending(at, less) \/ IsFinished(f.code[x])
    BY <1>1, <1>3, <1>7 DEF Blocks
  <2> QED
    BY <1>3, <1>8, <2>1, <2>2 DEF Blocks
<1>10. AtFit(f, in, at, less)
  BY <1>1, <1>5 DEF AtFit
<1>11. DueFit(f, c, in, less)
  BY <1>1, <1>4 DEF DueFit, Low, less, c
<1>12. IsDue(less)
  BY <1>1 DEF IsDue, less
<1>13. Standing(f, c, in, at, TRUE, less)
  BY <1>9, <1>10, <1>11, <1>12 DEF Standing
<1> QED
  BY <1>3, <1>4, <1>13 DEF Opens, c, less

(* A block nothing leads to is opened. *)
LEMMA StandingNew ==
  ASSUME NEW f, NEW b, NEW in, NEW at, NEW due, Standing(f, b, in, at, FALSE, due), Low(due, 0),
         NEW g, NEW out, NEW n, Widened(f, in, Slots(f), g, out, n)
  PROVE  Standing(g, n, out, at, TRUE, due) /\ g.code[n] = <<>> /\ IsFinished(g.code[b]) /\ n # b
<1>1. /\ Blocks(f, b, in, at, FALSE, due) /\ AtFit(f, in, at, due) /\ DueFit(f, b, in, due) /\ IsDue(due)
  BY DEF Standing
<1>2. /\ b \in DOMAIN f.code /\ \A x \in Pending(at, due) : x \in DOMAIN f.code
      /\ IsFinished(f.code[b])
  BY <1>1 DEF Blocks
<1>3. n \notin Pending(at, due) /\ n # b /\ g.code[n] = <<>> /\ n \in DOMAIN g.code /\ n # EntryBlock
  BY <1>2 DEF Widened
<1>4. Open(g.code[n])
  BY <1>3, EmptyIsOpen
<1>5. Blocks(g, n, out, at, TRUE, due)
  BY <1>1, <1>2, <1>3, <1>4 DEF Blocks, Widened
<1>6. AtFit(g, out, at, due)
  BY <1>1, WidenedPlains DEF AtFit
<1>7. \A d \in due : out[d[1]] = in[d[1]] /\ d[2] = 0
  <2>1. \A d \in due : d[1] \in Pending(at, due) /\ d[2] \in Nat
    BY <1>1, DueBlocksFacts DEF Pending, IsDue
  <2> QED
    BY <1>2, <2>1 DEF Widened, Low
<1>8. out[n] = Slots(f) /\ Slots(g) = Slots(f)
  BY DEF Widened
<1>9. Had(g, out, n) = Slots(f)
  <2>1. Defs(<<>>) = {}
    BY FineNothing
  <2> QED
    BY <1>3, <1>8, <2>1 DEF Had
<1>10. DueFit(g, n, out, due)
  BY <1>1, <1>7, <1>8, <1>9 DEF DueFit
<1>11. IsFinished(g.code[b])
  BY <1>2 DEF Widened
<1> QED
  BY <1>1, <1>3, <1>5, <1>6, <1>10, <1>11 DEF Standing

-----------------------------------------------------------------------------
(* The values that wait, and how they move                                 *)

(* The newest of them apart from the others. *)
Apart(vs, x, y, older, taken) ==
  /\ IsSeq(older) /\ DOMAIN older = 1 .. Len(x) /\ Len(older) = Len(x)
  /\ \A k \in 1 .. Len(x) : older[k] = vs[k] /\ (x \o y)[k] = x[k]
  /\ IsSeq(taken) /\ DOMAIN taken = DOMAIN y
  /\ \A j \in DOMAIN y : /\ Len(x) + j \in DOMAIN vs /\ taken[j] = vs[Len(x) + j]
                         /\ (x \o y)[Len(x) + j] = y[j]
  /\ Len(vs) = Len(x) + Len(y) /\ DOMAIN vs = 1 .. Len(x) + Len(y)

(* A list of values is cut where a piece of work takes them. *)
LEMMA Parted ==
  ASSUME NEW vs, IsSeq(vs), NEW x \in Seq(Kinds), NEW y \in Seq(Kinds), DOMAIN vs = DOMAIN (x \o y)
  PROVE  Apart(vs, x, y, SubSeq(vs, 1, Len(vs) - Len(y)), SubSeq(vs, Len(vs) - Len(y) + 1, Len(vs)))
<1>1. IsSeq(x) /\ IsSeq(y) /\ Len(x) \in Nat /\ Len(y) \in Nat /\ DOMAIN x = 1 .. Len(x) /\ DOMAIN y = 1 .. Len(y)
  BY TypedSeq, SeqFacts
<1>2. /\ DOMAIN (x \o y) = 1 .. Len(x) + Len(y)
      /\ \A k \in 1 .. Len(x) + Len(y) : (x \o y)[k] = IF k <= Len(x) THEN x[k] ELSE y[k - Len(x)]
  BY <1>1, JoinedSeq
<1>3. Len(vs) = Len(x) + Len(y) /\ DOMAIN vs = 1 .. Len(x) + Len(y)
  <2>1. Len(vs) \in Nat /\ DOMAIN vs = 1 .. Len(vs)
    BY SeqFacts
  <2> QED
    BY <1>1, <1>2, <2>1
<1> DEFINE m == Len(x)
           n == Len(y)
<1>4. Len(vs) - Len(y) = m /\ Len(vs) - Len(y) + 1 = m + 1 /\ Len(vs) = m + n
  BY <1>1, <1>3
<1> DEFINE older == SubSeq(vs, 1, m)
           taken == SubSeq(vs, m + 1, m + n)
<1>5. /\ IsSeq(older) /\ Len(older) = m /\ DOMAIN older = 1 .. m
      /\ \A k \in 1 .. m : older[k] = vs[k]
  BY <1>1, <1>3, FirstPart
<1>6. /\ IsSeq(taken) /\ Len(taken) = n /\ DOMAIN taken = 1 .. n
      /\ \A k \in 1 .. n : taken[k] = vs[m + k]
  <2>1. m + 1 \in Int /\ m + n \in Int /\ 1 <= m + 1 /\ m + 1 <= (m + n) + 1 /\ m + n <= Len(vs)
    BY <1>1, <1>3
  <2>2. /\ IsSeq(taken) /\ Len(taken) = (m + n) - (m + 1) + 1
        /\ DOMAIN taken = 1 .. (m + n) - (m + 1) + 1
        /\ \A k \in 1 .. (m + n) - (m + 1) + 1 : taken[k] = vs[(m + 1) + k - 1]
    BY <2>1, PartOf
  <2>3. (m + n) - (m + 1) + 1 = n /\ \A k \in 1 .. n : (m + 1) + k - 1 = m + k
    BY <1>1
  <2>. HIDE DEF taken
  <2> QED
    BY <2>2, <2>3
<1>7. \A k \in 1 .. m : (x \o y)[k] = x[k]
  BY <1>1, <1>2
<1>8. \A j \in 1 .. n : m + j \in 1 .. Len(x) + Len(y) /\ (x \o y)[m + j] = y[j]
  BY <1>1, <1>2
<1>. HIDE DEF older, taken
<1>9. Apart(vs, x, y, older, taken)
  BY <1>1, <1>3, <1>4, <1>5, <1>6, <1>7, <1>8 DEF Apart
<1> QED
  BY <1>4, <1>9 DEF older, taken

(* What they are afterwards. *)
PiledUp(x, z, older, left, ws) ==
  /\ IsSeq(ws) /\ DOMAIN ws = DOMAIN (x \o z) /\ x \o z \in Seq(Kinds)
  /\ \A k \in 1 .. Len(x) : ws[k] = older[k] /\ (x \o z)[k] = x[k]
  /\ \A k \in DOMAIN ws : k > Len(x) => /\ k - Len(x) \in DOMAIN z
                                       /\ ws[k] = left[k - Len(x)] /\ (x \o z)[k] = z[k - Len(x)]

(* And joined with what it leaves. *)
LEMMA Repiled ==
  ASSUME NEW x \in Seq(Kinds), NEW z \in Seq(Kinds), NEW older, IsSeq(older), Len(older) = Len(x),
         NEW left, IsSeq(left), DOMAIN left = DOMAIN z
  PROVE  PiledUp(x, z, older, left, older \o left)
<1>1. IsSeq(x) /\ IsSeq(z) /\ Len(x) \in Nat /\ Len(z) \in Nat /\ DOMAIN x = 1 .. Len(x) /\ DOMAIN z = 1 .. Len(z)
      /\ Len(left) \in Nat /\ DOMAIN left = 1 .. Len(left)
  BY TypedSeq, SeqFacts
<1>2. Len(left) = Len(z)
  BY <1>1
<1>3. /\ DOMAIN (x \o z) = 1 .. Len(x) + Len(z)
      /\ \A k \in 1 .. Len(x) + Len(z) : (x \o z)[k] = IF k <= Len(x) THEN x[k] ELSE z[k - Len(x)]
  BY <1>1, JoinedSeq
<1>4. /\ IsSeq(older \o left) /\ DOMAIN (older \o left) = 1 .. Len(x) + Len(z)
      /\ \A k \in 1 .. Len(x) + Len(z) : (older \o left)[k] = IF k <= Len(x) THEN older[k] ELSE left[k - Len(x)]
  <2>1. /\ IsSeq(older \o left) /\ DOMAIN (older \o left) = 1 .. Len(older) + Len(left)
        /\ \A k \in 1 .. Len(older) + Len(left) : (older \o left)[k] = IF k <= Len(older) THEN older[k] ELSE left[k - Len(older)]
    BY JoinedSeq
  <2> QED
    BY <1>2, <2>1
<1>5. x \o z \in Seq(Kinds)
  BY Piled
<1>6. \A k \in 1 .. Len(x) + Len(z) : k > Len(x) => k - Len(x) \in DOMAIN z
  BY <1>1
<1>7. \A k \in 1 .. Len(x) : (older \o left)[k] = older[k] /\ (x \o z)[k] = x[k]
  BY <1>1, <1>3, <1>4
<1>8. \A k \in 1 .. Len(x) + Len(z) : k > Len(x) => (older \o left)[k] = left[k - Len(x)] /\ (x \o z)[k] = z[k - Len(x)]
  BY <1>1, <1>3, <1>4
<1> QED
  BY <1>3, <1>4, <1>5, <1>6, <1>7, <1>8 DEF PiledUp

(* One value fewer. *)
LEMMA ValuesPopped ==
  ASSUME NEW f, NEW b, NEW vs, NEW in, NEW due, NEW x \in Seq(Kinds), NEW kind \in Kinds,
         Values(f, b, vs, in, Append(x, kind), due), Low(due, Len(x) + 1), IsDue(due)
  PROVE  LET ws == SubSeq(vs, 1, Len(vs) - 1)
         IN Values(f, b, ws, in, x, due) /\ Available(Slots(f), Had(f, in, b), kind, Last(vs))
<1> DEFINE y == <<kind>>
           ws == SubSeq(vs, 1, Len(vs) - 1)
<1>1. y \in Seq(Kinds) /\ Append(x, kind) = x \o y /\ Len(x) \in Nat
  BY KindLists, Piled
<1>2. Len(y) = 1 /\ DOMAIN y = {1} /\ y[1] = kind
  OBVIOUS
<1>3. IsSeq(vs) /\ DOMAIN vs = DOMAIN (x \o y) /\ DOMAIN x = 1 .. Len(x)
  BY <1>1, TypedSeq, SeqFacts DEF Values
<1>. HIDE DEF y
<1>4. /\ IsSeq(ws) /\ DOMAIN ws = 1 .. Len(x)
      /\ \A k \in 1 .. Len(x) : ws[k] = vs[k] /\ (x \o y)[k] = x[k]
      /\ Len(x) + 1 \in DOMAIN vs /\ (x \o y)[Len(x) + 1] = y[1]
      /\ Len(vs) = Len(x) + 1 /\ DOMAIN vs = 1 .. Len(x) + 1
  <2>1. Apart(vs, x, y, SubSeq(vs, 1, Len(vs) - Len(y)), SubSeq(vs, Len(vs) - Len(y) + 1, Len(vs)))
    BY <1>1, <1>3, Parted
  <2>2. SubSeq(vs, 1, Len(vs) - Len(y)) = ws
    BY <1>2
  <2>. HIDE DEF ws
  <2> QED
    BY <1>2, <2>1, <2>2 DEF Apart
<1>5. Last(vs) = vs[Len(x) + 1]
  BY <1>3, <1>4, SeqFacts DEF Last
<1>6. Available(Slots(f), Had(f, in, b), kind, Last(vs))
  BY <1>1, <1>2, <1>3, <1>4, <1>5 DEF Values
<1>. HIDE DEF ws
<1>7. \A d \in due : d[2] \in Nat /\ d[2] <= Len(x) + 1
  BY DEF Low, IsDue
<1>8. Values(f, b, ws, in, x, due)
  <2>1. \A k \in DOMAIN ws : k \in DOMAIN vs /\ k <= Len(x) /\ ws[k] = vs[k] /\ x[k] = Append(x, kind)[k]
    BY <1>1, <1>4
  <2>2. DOMAIN ws = DOMAIN x
    BY <1>3, <1>4
  <2> QED
    BY <1>4, <2>1, <2>2 DEF Values
<1> QED
  BY <1>6, <1>8 DEF ws

(* One more, on top. *)
LEMMA ValuesPushed ==
  ASSUME NEW f, NEW b, NEW vs, NEW in, NEW x \in Seq(Kinds), NEW due, Values(f, b, vs, in, x, due),
         Low(due, Len(x) + 1), IsDue(due), NEW kind \in Kinds, NEW v, Available(Slots(f), Had(f, in, b), kind, v)
  PROVE  Values(f, b, Append(vs, v), in, Append(x, kind), due)
<1> DEFINE ws == Append(vs, v)
           ts == Append(x, kind)
<1>1. IsSeq(x) /\ Len(x) \in Nat /\ DOMAIN x = 1 .. Len(x) /\ IsSeq(vs) /\ DOMAIN vs = 1 .. Len(x)
  BY TypedSeq, SeqFacts DEF Values
<1>2. Len(vs) = Len(x)
  <2>1. Len(vs) \in Nat /\ DOMAIN vs = 1 .. Len(vs)
    BY <1>1, SeqFacts
  <2> QED
    BY <1>1, <2>1
<1>3. /\ IsSeq(ws) /\ DOMAIN ws = 1 .. Len(x) + 1 /\ ws[Len(x) + 1] = v
      /\ \A k \in 1 .. Len(x) : ws[k] = vs[k]
  BY <1>1, <1>2, Appended
<1>4. /\ DOMAIN ts = 1 .. Len(x) + 1 /\ ts[Len(x) + 1] = kind /\ \A k \in 1 .. Len(x) : ts[k] = x[k]
  BY <1>1, Appended
<1>. HIDE DEF ws, ts
<1>5. \A d \in due : d[2] \in Nat /\ d[2] <= Len(x) + 1
  BY DEF Low, IsDue
<1>6. \A k \in DOMAIN ws : k \in 1 .. Len(x) \/ k = Len(x) + 1
  BY <1>1, <1>3
<1>7. \A k \in DOMAIN ws : Available(Slots(f), Had(f, in, b), ts[k], ws[k])
  BY <1>1, <1>3, <1>4, <1>6 DEF Values
<1>8. \A d \in due : \A k \in DOMAIN ws : k < d[2] => Available(Slots(f), in[d[1]], ts[k], ws[k])
  <2> SUFFICES ASSUME NEW d \in due, NEW k \in DOMAIN ws, k < d[2] PROVE Available(Slots(f), in[d[1]], ts[k], ws[k])
    OBVIOUS
  <2>1. k \in 1 .. Len(x)
    BY <1>1, <1>5, <1>6
  <2> QED
    BY <1>1, <1>3, <1>4, <2>1 DEF Values
<1>9. DOMAIN ws = DOMAIN ts
  BY <1>3, <1>4
<1>10. Values(f, b, ws, in, ts, due)
  BY <1>3, <1>7, <1>8, <1>9 DEF Values
<1> QED
  BY <1>10 DEF ws, ts

-----------------------------------------------------------------------------
(* An instruction appended                                                 *)

(* The instruction a piece of work asks for, as AppendNext makes it. *)
Asked(w, taken, dst) ==
  LET plain == Instr(w.op, dst, [k \in DOMAIN w.uses |-> taken[w.uses[k]]])
  IN [plain EXCEPT !.imm = w.imm, !.ty = IF dst = NoValue THEN @ ELSE w.ty]

Destination(w, f) == IF HasResult(w.op, w.ty) THEN FreshValue(f) ELSE NoValue

Asks(w, taken, dst, n, args) ==
  /\ n \in Nat /\ args = [k \in DOMAIN w.uses |-> taken[w.uses[k]]]
  /\ ~ IsTerminator(w.op) /\ w.op \notin {"phi", "alloca"} /\ IsSeq(w.uses)
  /\ RequiredArgs([op |-> w.op, args |-> w.uses]) /\ Range(args) \subseteq 1 .. n
  /\ dst \in NoValue .. n /\ (dst = NoValue => w.op \in {"store", "memcpy", "call"})

(* The instruction asked for is one the verifier knows. *)
LEMMA AskedIs ==
  ASSUME NEW w, NEW taken, NEW dst, NEW n, NEW args, Asks(w, taken, dst, n, args)
  PROVE  LET i == Asked(w, taken, dst)
         IN IsInstr(i) /\ i.op = w.op /\ i.dst = dst /\ i.args = args /\ i.to = <<>> /\ IsNumbered(i, n)
<1> DEFINE i == Asked(w, taken, dst)
<1>1. IsInstr(i) /\ i.op = w.op /\ i.dst = dst /\ i.args = args /\ i.to = <<>>
  BY DEF Asks, Asked, Instr, IsInstr, InstrFields, IsTerminator
<1>. HIDE DEF i
<1>2. Len(w.uses) \in Nat /\ DOMAIN w.uses = 1 .. Len(w.uses)
  BY SeqFacts DEF Asks
<1>3. args = [k \in 1 .. Len(w.uses) |-> args[k]]
  BY <1>2 DEF Asks
<1>4. IsSeq(args) /\ Len(args) = Len(w.uses)
  BY <1>2, <1>3, ListIs
<1>5. RequiredArgs(i)
  BY <1>1, <1>4 DEF RequiredArgs, Asks
<1>6. IsNumbered(i, n)
  BY <1>1, <1>4, <1>5 DEF IsNumbered, Asks
<1> QED
  BY <1>1, <1>6 DEF i

(* The instruction is appended and the values are what it leaves. *)
Appends(f, b, vs, w, taken, g, ws) ==
  /\ taken = SubSeq(vs, Len(vs) - w.takes + 1, Len(vs))
  /\ g = [Emit(f, b, Asked(w, taken, Destination(w, f))) EXCEPT
            !.values = IF Destination(w, f) = NoValue THEN @ ELSE Destination(w, f)]
  /\ ws = SubSeq(vs, 1, Len(vs) - w.takes) \o
             [k \in DOMAIN w.leaves |-> IF w.leaves[k] = Result THEN Destination(w, f) ELSE taken[w.leaves[k]]]

(* AppendNext leads from shape to shape. *)
LEMMA LaidAppend ==
  ASSUME NEW f, NEW b, NEW vs, NEW in, NEW at, NEW s, Laid(f, b, vs, in, at, s),
         NEW w, NEW t, AppendStep(w, s, t), NEW taken, NEW g, NEW ws, Appends(f, b, vs, w, taken, g, ws)
  PROVE  Laid(g, b, ws, in, at, t) /\ Plains(g, in) = Plains(f, in) /\ Slots(g) = Slots(f)
<1>0. /\ taken = SubSeq(vs, Len(vs) - w.takes + 1, Len(vs))
      /\ g = [Emit(f, b, Asked(w, taken, Destination(w, f))) EXCEPT
                !.values = IF Destination(w, f) = NoValue THEN @ ELSE Destination(w, f)]
      /\ ws = SubSeq(vs, 1, Len(vs) - w.takes) \o
                 [k \in DOMAIN w.leaves |-> IF w.leaves[k] = Result THEN Destination(w, f) ELSE taken[w.leaves[k]]]
  BY DEF Appends
<1>. USE <1>0
<1>1. PICK x, y, z \in Seq(Kinds) : /\ s.stack = x \o y /\ Low(s.due, Len(x) + 1) /\ Suits(w, y, z)
                                    /\ t = Sh(x \o z, TRUE, s.cases, s.left, s.due)
  BY DEF AppendStep
<1>2. s.open = TRUE
  BY DEF AppendStep
<1>3. IsShape(s) /\ Standing(f, b, in, at, TRUE, s.due) /\ Values(f, b, vs, in, s.stack, s.due)
  BY <1>2 DEF Laid
<1>4. /\ Len(y) = w.takes /\ ~ IsTerminator(w.op) /\ w.op \notin {"phi", "alloca"}
      /\ IsSeq(w.uses) /\ \A k \in DOMAIN w.uses : w.uses[k] \in DOMAIN y /\ y[w.uses[k]] # "none"
      /\ IsSeq(w.leaves) /\ DOMAIN z = DOMAIN w.leaves
      /\ \A k \in DOMAIN w.leaves :
           IF w.leaves[k] = Result THEN z[k] = "none" \/ (z[k] = "value" /\ HasResult(w.op, w.ty))
           ELSE w.leaves[k] \in DOMAIN y /\ z[k] \in {"none", y[w.leaves[k]]}
      /\ RequiredArgs([op |-> w.op, args |-> w.uses])
  BY <1>1 DEF Suits
<1> DEFINE older == SubSeq(vs, 1, Len(vs) - Len(y))
           dst == Destination(w, f)
           args == [k \in DOMAIN w.uses |-> taken[w.uses[k]]]
           i == Asked(w, taken, dst)
           m == IF dst = NoValue THEN f.values ELSE dst
           kept == [k \in DOMAIN w.leaves |-> IF w.leaves[k] = Result THEN dst ELSE taken[w.leaves[k]]]
<1>5. IsSeq(vs) /\ DOMAIN vs = DOMAIN (x \o y)
  BY <1>1, <1>3 DEF Values
<1>6. /\ IsSeq(older) /\ Len(older) = Len(x)
      /\ \A k \in 1 .. Len(x) : older[k] = vs[k] /\ (x \o y)[k] = x[k]
      /\ \A j \in DOMAIN y : /\ Len(x) + j \in DOMAIN vs /\ taken[j] = vs[Len(x) + j]
                             /\ (x \o y)[Len(x) + j] = y[j]
      /\ DOMAIN vs = 1 .. Len(x) + Len(y) /\ DOMAIN taken = DOMAIN y
  <2>1. Apart(vs, x, y, SubSeq(vs, 1, Len(vs) - Len(y)), SubSeq(vs, Len(vs) - Len(y) + 1, Len(vs)))
    BY <1>5, Parted
  <2>2. SubSeq(vs, Len(vs) - Len(y) + 1, Len(vs)) = taken
    BY <1>4
  <2>3. Apart(vs, x, y, older, taken)
    BY <2>1, <2>2
  <2>. HIDE DEF older
  <2> QED
    BY <2>3 DEF Apart
<1>7. ASSUME NEW j \in DOMAIN y PROVE Available(Slots(f), Had(f, in, b), y[j], taken[j])
  BY <1>1, <1>3, <1>6 DEF Values
<1>8. /\ Sound(f, in) /\ b \in DOMAIN f.code
  BY <1>3 DEF Standing, Blocks
<1>9. /\ f.values \in Nat /\ Had(f, in, b) \subseteq 1 .. f.values /\ Slots(f) \subseteq Had(f, in, b)
      /\ IsFunction(f)
  <2>1. /\ f.values \in Nat /\ Had(f, in, b) \subseteq 1 .. f.values /\ IsFunction(f)
    BY <1>8, SoundFacts
  <2>2. Allocas(f.code[EntryBlock]) \subseteq Had(f, in, b)
    BY <1>8, SoundFacts
  <2> QED
    BY <2>1, <2>2 DEF Slots
<1>10. dst = (IF HasResult(w.op, w.ty) THEN f.values + 1 ELSE NoValue)
  BY DEF Destination, FreshValue
<1>11. /\ m \in Nat /\ f.values <= m /\ dst \in NoValue .. m /\ dst \notin 1 .. f.values
       /\ dst = NoValue <=> ~ HasResult(w.op, w.ty)
  <2>1. NoValue = 0
    BY DEF NoValue
  <2>2. m = IF dst = NoValue THEN f.values ELSE dst
    OBVIOUS
  <2>. HIDE DEF dst, m
  <2>3. CASE HasResult(w.op, w.ty)
    BY <1>9, <1>10, <2>1, <2>2, <2>3
  <2>4. CASE ~ HasResult(w.op, w.ty)
    BY <1>9, <1>10, <2>1, <2>2, <2>4
  <2> QED
    BY <2>3, <2>4
<1>12. dst = NoValue => w.op \in {"store", "memcpy", "call"}
  BY <1>11 DEF HasResult
<1>13. Range(args) \subseteq Had(f, in, b)
  <2> SUFFICES ASSUME NEW k \in DOMAIN w.uses PROVE taken[w.uses[k]] \in Had(f, in, b)
    BY DEF Range
  <2>1. w.uses[k] \in DOMAIN y /\ y[w.uses[k]] # "none"
    BY <1>4
  <2>2. y[w.uses[k]] \in Kinds
    BY <2>1
  <2> QED
    BY <1>7, <1>9, <2>1, <2>2 DEF Available, Kinds
<1>14. Range(args) \subseteq 1 .. m
  <2>. HIDE DEF args, m, dst
  <2> QED
    BY <1>9, <1>11, <1>13
<1>15. args = [k \in DOMAIN w.uses |-> taken[w.uses[k]]]
  OBVIOUS
<1>16. g = [Emit(f, b, i) EXCEPT !.values = IF dst = NoValue THEN @ ELSE dst] /\ ws = older \o kept
  BY <1>4
<1>17. DOMAIN g = {"code", "values"} /\ g.values = m /\ g.code = [f.code EXCEPT ![b] = Append(f.code[b], i)]
  <2>1. DOMAIN f = {"code", "values"}
    BY <1>9, FunctionFacts
  <2>. HIDE DEF i, dst
  <2> QED
    BY <1>16, <2>1 DEF Emit
<1>18. DOMAIN kept = DOMAIN w.leaves /\ \A k \in DOMAIN w.leaves : kept[k] = IF w.leaves[k] = Result THEN dst ELSE taken[w.leaves[k]]
  OBVIOUS
<1>. HIDE DEF args, m, dst, kept, older
<1>19. IsInstr(i) /\ i.op = w.op /\ i.dst = dst /\ i.args = args /\ i.to = <<>> /\ IsNumbered(i, m)
  <2>1. Asks(w, taken, dst, m, args)
    BY <1>4, <1>11, <1>12, <1>14, <1>15 DEF Asks
  <2> QED
    BY <2>1, AskedIs DEF i
<1>20. Range(i.to) \subseteq Plains(f, in) \cup DueBlocks(s.due)
  BY <1>19, NothingThere
<1>. HIDE DEF i
<1>21. /\ Standing(g, b, in, at, IF IsTerminator(i.op) THEN FALSE ELSE TRUE, s.due)
       /\ Plains(g, in) = Plains(f, in) /\ Slots(g) = Slots(f)
       /\ Had(g, in, b) = Had(f, in, b) \cup ({i.dst} \ {NoValue})
  <2>1. Puts(f, b, in, at, s.due, m, i, g)
    BY <1>3, <1>4, <1>11, <1>13, <1>17, <1>19, <1>20 DEF Puts
  <2>2. Grew(f, b, in, at, s.due, i, g)
    BY <2>1, StandingGrown
  <2> QED
    BY <2>2 DEF Grew
<1>22. Standing(g, b, in, at, TRUE, s.due) /\ Had(g, in, b) = Had(f, in, b) \cup ({dst} \ {NoValue})
  BY <1>4, <1>19, <1>21
<1>23. IsSeq(kept) /\ DOMAIN kept = DOMAIN z
  <2>1. Len(w.leaves) \in Nat /\ DOMAIN w.leaves = 1 .. Len(w.leaves)
    BY <1>4, SeqFacts
  <2>2. kept = [k \in 1 .. Len(w.leaves) |-> kept[k]]
    BY <2>1 DEF kept
  <2> QED
    BY <1>4, <1>18, <2>1, <2>2, ListIs
<1>24. /\ IsSeq(ws) /\ DOMAIN ws = DOMAIN (x \o z) /\ x \o z \in Seq(Kinds)
       /\ \A k \in 1 .. Len(x) : ws[k] = older[k] /\ (x \o z)[k] = x[k]
       /\ \A k \in DOMAIN ws : k > Len(x) => /\ k - Len(x) \in DOMAIN z
                                            /\ ws[k] = kept[k - Len(x)] /\ (x \o z)[k] = z[k - Len(x)]
  <2>1. PiledUp(x, z, older, kept, ws)
    <3>1. IsSeq(older) /\ Len(older) = Len(x) /\ IsSeq(kept) /\ DOMAIN kept = DOMAIN z
      BY <1>6, <1>23
    <3>2. PiledUp(x, z, older, kept, older \o kept)
      BY <3>1, Repiled
    <3>3. ws = older \o kept
      BY <1>16
    <3> QED
      BY <3>2, <3>3
  <2> QED
    BY <2>1 DEF PiledUp
<1>25. ASSUME NEW k \in DOMAIN z PROVE Available(Slots(g), Had(g, in, b), z[k], kept[k])
  <2>1. CASE w.leaves[k] = Result
    <3>1. kept[k] = dst /\ (z[k] = "none" \/ (z[k] = "value" /\ dst # NoValue))
      BY <1>4, <1>11, <1>18, <2>1
    <3> QED
      BY <1>22, <3>1 DEF Available
  <2>2. CASE w.leaves[k] # Result
    <3> DEFINE j == w.leaves[k]
    <3>1. kept[k] = taken[j] /\ j \in DOMAIN y /\ z[k] \in {"none", y[j]}
      BY <1>4, <1>18, <2>2
    <3>2. Available(Slots(f), Had(f, in, b), y[j], taken[j])
      BY <1>7, <3>1
    <3>3. y[j] \in Kinds
      BY <3>1
    <3>. HIDE DEF j
    <3>4. Available(Slots(f), Had(f, in, b), z[k], taken[j])
      BY <1>9, <3>1, <3>2, <3>3 DEF Available, Kinds
    <3> QED
      BY <1>21, <1>22, <3>1, <3>4, AvailableMore
  <2> QED
    BY <2>1, <2>2
<1>26. Len(x) \in Nat
  OBVIOUS
<1>27. Values(g, b, ws, in, x \o z, s.due)
  <2>1. \A d \in s.due : d[2] \in Nat /\ d[2] <= Len(x) + 1
    BY <1>1, <1>3 DEF Low, IsShape, IsDue
  <2>2. ASSUME NEW k \in DOMAIN ws, k <= Len(x) PROVE k \in DOMAIN vs /\ ws[k] = vs[k] /\ (x \o z)[k] = s.stack[k]
    <3>1. k \in 1 .. Len(x)
      <4>1. DOMAIN ws = 1 .. Len(ws) /\ Len(ws) \in Nat
        BY <1>24, SeqFacts
      <4> QED
        BY <1>26, <2>2, <4>1
    <3> QED
      <4>1. ws[k] = older[k] /\ older[k] = vs[k] /\ (x \o z)[k] = x[k] /\ (x \o y)[k] = x[k]
        BY <1>6, <1>24, <3>1
      <4>2. k \in DOMAIN vs
        BY <1>6, <1>26, <3>1
      <4> QED
        BY <1>1, <4>1, <4>2
  <2>3. \A k \in DOMAIN ws : k > Len(x) => Available(Slots(g), Had(g, in, b), (x \o z)[k], ws[k])
    BY <1>24, <1>25
  <2>4. Slots(f) \subseteq Slots(g) /\ Had(f, in, b) \subseteq Had(g, in, b)
    BY <1>21, <1>22
  <2> QED
    <3>1. Carried(f, b, vs, in, s.stack, s.due, g, b, in, ws, x \o z, s.due, Len(x))
      BY <1>3, <1>24, <1>26, <2>1, <2>2, <2>3, <2>4 DEF Carried
    <3> QED
      BY <3>1, ValuesAfter
<1>28. /\ IsShape(t) /\ t.open = TRUE /\ t.due = s.due /\ t.stack = x \o z
  BY <1>1, <1>3, <1>24 DEF IsShape, Sh
<1> QED
  BY <1>21, <1>22, <1>27, <1>28 DEF Laid
=============================================================================
