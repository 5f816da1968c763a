----------------------------- MODULE CfgProofs -----------------------------
(***************************************************************************)
(* Proofs about ir_analyze_cfg, for every set of blocks, every set of      *)
(* terminators and every number of edits: each analysis, the first and     *)
(* every later one, hands over the reachable blocks in an order and with   *)
(* predecessor arrays that satisfy what dom.c assumes.                     *)
(***************************************************************************)
EXTENDS CfgInv, TLAPS, SequenceTheorems, FiniteSetTheorems

(* Types, one action at a time. *)
LEMMA TypeInit == Init => TypeOK
BY EntryIsBlock, MaxEditsNat DEF Init, TypeOK

LEMMA StackFacts ==
  ASSUME TypeOK
  PROVE  /\ Len(stack) \in Nat
         /\ stack # <<>> => Len(stack) \in 1 .. Len(stack) /\ Top \in Frames
         /\ \A k \in 1 .. Len(stack) : stack[k] \in Frames
         /\ \A k \in 1 .. Len(stack) : stack[k].block \in Blocks /\ stack[k].tried \in Nat
         /\ Pop \in Seq(Frames)
         /\ stack # <<>> => Len(Pop) = Len(stack) - 1
         /\ stack # <<>> => \A k \in 1 .. Len(stack) - 1 : Pop[k] = stack[k]
<1>1. stack \in Seq(Frames)
  BY DEF TypeOK
<1>2. Len(stack) \in Nat /\ \A k \in 1 .. Len(stack) : stack[k] \in Frames
  BY <1>1, ElementOfSeq, LenProperties
<1>3. stack # <<>> => Len(stack) \in 1 .. Len(stack)
  BY <1>1, EmptySeq
<1>4. /\ Pop \in Seq(Frames)
      /\ Len(Pop) = IF 1 <= Len(stack) - 1 THEN Len(stack) - 1 - 1 + 1 ELSE 0
      /\ \A k \in 1 .. Len(stack) - 1 - 1 + 1 : Pop[k] = stack[1 + k - 1]
  <2>1. \A k \in 1 .. Len(stack) - 1 : stack[k] \in Frames
    BY <1>2
  <2>2. QED
    BY <1>2, <2>1, SubSeqProperties DEF Pop
<1>5. stack # <<>> => Top \in Frames
  BY <1>2, <1>3 DEF Top
<1>6. stack # <<>> => Len(Pop) = Len(stack) - 1
  <2>1. \A n \in Nat : n \in 1 .. n =>
          (IF 1 <= n - 1 THEN n - 1 - 1 + 1 ELSE 0) = n - 1
    OBVIOUS
  <2>2. QED
    BY <1>2, <1>3, <1>4, <2>1, Zenon
<1>7. \A k \in 1 .. Len(stack) - 1 : Pop[k] = stack[k]
  BY <1>2, <1>4
<1>8. \A k \in 1 .. Len(stack) : stack[k].block \in Blocks /\ stack[k].tried \in Nat
  BY <1>2 DEF Frames
<1>9. QED
  BY <1>2, <1>3, <1>4, <1>5, <1>6, <1>7, <1>8

LEMMA TypeStep == TypeOK /\ [Next]_vars => TypeOK'
<1> SUFFICES ASSUME TypeOK, [Next]_vars
             PROVE  TypeOK'
  OBVIOUS
<1>0. /\ succ \in [Blocks -> Terminators]
      /\ Terminators \subseteq Seq(Blocks \ {Entry})
      /\ <<>> \in Terminators
  BY TerminatorsTyped, NothingIsReturn DEF TypeOK
<1>1. CASE Reset
  BY <1>1, EntryIsBlock DEF Reset, TypeOK
<1>2. CASE ReturnVisited
  BY <1>2 DEF ReturnVisited, TypeOK
<1>3. CASE Enter
  <2>1. calling \in Blocks /\ [block |-> calling, tried |-> 0] \in Frames
    BY <1>3 DEF Enter, TypeOK, Frames
  <2>2. stack' \in Seq(Frames)
    BY <1>3, <2>1, AppendProperties DEF Enter, TypeOK
  <2>3. QED
    BY <1>3, <2>1, <2>2 DEF Enter, TypeOK
<1>4. CASE CallNext
  <2>1. Top \in Frames /\ Len(stack) \in 1 .. Len(stack)
    BY <1>4, StackFacts DEF CallNext
  <2>2. Top.block \in Blocks /\ Top.tried \in Nat
    BY <2>1 DEF Frames
  <2>3. succ[Top.block] \in Seq(Blocks \ {Entry})
    BY <1>0, <2>2
  <2>4. Top.tried + 1 \in 1 .. Len(succ[Top.block])
    BY <1>4, <2>2, <2>3, LenProperties DEF CallNext
  <2>5. calling' \in Blocks
    BY <1>4, <2>3, <2>4, ElementOfSeq DEF CallNext
  <2>6. [block |-> Top.block, tried |-> Top.tried + 1] \in Frames
    BY <2>2 DEF Frames
  <2>7. stack' = [stack EXCEPT ![Len(stack)] =
                                 [block |-> Top.block, tried |-> Top.tried + 1]]
    <3>1. Len(stack) \in DOMAIN stack
      BY <2>1, LenProperties DEF TypeOK
    <3>2. [Top EXCEPT !.tried = Top.tried + 1] =
            [block |-> Top.block, tried |-> Top.tried + 1]
      BY <2>1 DEF Frames
    <3>3. stack' = [stack EXCEPT ![Len(stack)] = [Top EXCEPT !.tried = Top.tried + 1]]
      BY <1>4, <3>1 DEF CallNext, Top
    <3>4. QED
      BY <3>2, <3>3
  <2>8. stack' \in Seq(Frames)
    BY <2>1, <2>6, <2>7, ExceptSeq DEF TypeOK
  <2>9. QED
    BY <1>4, <2>5, <2>8 DEF CallNext, TypeOK
<1>5. CASE Record
  <2>1. Top.block \in Blocks
    BY <1>5, StackFacts DEF Record, Frames
  <2>2. order' \in Seq(Blocks)
    BY <1>5, <2>1, AppendProperties DEF Record, TypeOK
  <2>3. QED
    BY <1>5, <2>2, StackFacts DEF Record, TypeOK
<1>6. CASE Number
  <2>1. Len(order) \in Nat
    BY LenProperties DEF TypeOK
  <2>2. \A k \in 1 .. Len(order) : order[Len(order) + 1 - k] \in Blocks
    BY <2>1, ElementOfSeq DEF TypeOK
  <2>3. rpo' \in Seq(Blocks)
    BY <1>6, <2>1, <2>2 DEF Number
  <2>4. ASSUME NEW b \in Blocks, \E k \in 1 .. Len(order) : order[k] = b
        PROVE  Len(order) - Position(order, b) \in Int
    BY <2>1, <2>4 DEF Position
  <2>5. index' \in [Blocks -> Int]
    <3> DEFINE n(b) == IF \E k \in 1 .. Len(order) : order[k] = b
                         THEN Len(order) - Position(order, b) ELSE index[b]
    <3>1. \A b \in Blocks : n(b) \in Int
      BY <2>4 DEF TypeOK
    <3>2. index' = [b \in Blocks |-> n(b)]
      BY <1>6 DEF Number
    <3> HIDE DEF n
    <3>3. QED
      BY <3>1, <3>2
  <2>6. QED
    BY <1>6, <2>3, <2>5 DEF Number, TypeOK
<1>7. CASE DropUnreached
  BY <1>7, <1>0 DEF DropUnreached, TypeOK
<1>8. CASE AddPreds
  <2>1. rpo[i] \in Blocks
    BY <1>8, ElementOfSeq, LenProperties DEF AddPreds, TypeOK
  <2>2. preds' \in [Blocks -> Seq(Blocks)]
    BY <1>8, <2>1, AppendProperties DEF AddPreds, TypeOK
  <2>3. QED
    BY <1>8, <2>2 DEF AddPreds, TypeOK
<1>9. CASE EndAnalysis
  BY <1>9 DEF EndAnalysis, TypeOK
<1>10. CASE Edit
  BY <1>10, <1>0, MaxEditsNat DEF Edit, TypeOK
<1>11. CASE UNCHANGED vars
  BY <1>11 DEF vars, TypeOK
<1>12. QED
  BY <1>1, <1>2, <1>3, <1>4, <1>5, <1>6, <1>7, <1>8, <1>9, <1>10, <1>11 DEF Next

-----------------------------------------------------------------------------
(* Reachability along the successors *)

(* The successors of a block are blocks. *)
LEMMA SuccsAreBlocks ==
  ASSUME TypeOK, NEW x \in Blocks
  PROVE  /\ succ[x] \in Seq(Blocks) /\ Len(succ[x]) \in Nat
         /\ \A k \in 1 .. Len(succ[x]) : succ[x][k] \in Blocks
         /\ \A y : IsSuccOf(y, x) => y \in Blocks /\ y # Entry
<1>1. succ[x] \in Seq(Blocks \ {Entry})
  BY TerminatorsTyped DEF TypeOK
<1>2. \A k \in 1 .. Len(succ[x]) : succ[x][k] \in Blocks \ {Entry}
  BY <1>1, ElementOfSeq
<1>3. succ[x] \in Seq(Blocks) /\ Len(succ[x]) \in Nat
  BY <1>1, LenProperties, SeqMonotonic
<1>4. QED
  BY <1>2, <1>3 DEF IsSuccOf

LEMMA ReachesSelf == \A x : Reaches(x, x)
BY DEF Reaches

LEMMA ReachesStep ==
  ASSUME TypeOK, NEW x, NEW y \in Blocks, NEW z \in Blocks,
         Reaches(x, y), IsSuccOf(z, y)
  PROVE  Reaches(x, z)
<1>1. SUFFICES ASSUME NEW S \in SUBSET Blocks, x \in S,
                      ClosedAvoiding(SuccEdges, NULL, S)
               PROVE  z \in S
  BY DEF Reaches
<1>2. y \in S /\ <<y, z>> \in SuccEdges /\ z # NULL
  BY <1>1, NullIsNoBlock DEF Reaches, SuccEdges
<1>3. QED
  BY <1>1, <1>2 DEF ClosedAvoiding

LEMMA EntryReachable == Entry \in Reachable(SuccEdges)
BY EntryIsBlock, NullIsNoBlock DEF Reachable, ReachableAvoiding

LEMMA ReachableStep ==
  ASSUME NEW x \in Reachable(SuccEdges), NEW y \in Blocks, IsSuccOf(y, x)
  PROVE  y \in Reachable(SuccEdges)
<1>1. x \in Blocks /\ <<x, y>> \in SuccEdges /\ y # NULL
  BY NullIsNoBlock DEF Reachable, ReachableAvoiding, SuccEdges
<1>2. SUFFICES ASSUME NEW S \in SUBSET Blocks,
                      Entry # NULL => Entry \in S, ClosedAvoiding(SuccEdges, NULL, S)
               PROVE  y \in S
  BY DEF Reachable, ReachableAvoiding
<1>3. x \in S
  BY <1>2 DEF Reachable, ReachableAvoiding
<1>4. QED
  BY <1>1, <1>2, <1>3 DEF ClosedAvoiding

(* All of it depends on the successors only. *)
LEMMA SameEdges ==
  ASSUME succ' = succ
  PROVE  /\ \A x, y : IsSuccOf(y, x)' <=> IsSuccOf(y, x)
         /\ \A x, y : Reaches(x, y)' <=> Reaches(x, y)
         /\ Reachable(SuccEdges)' = Reachable(SuccEdges)
<1>1. \A x, y : IsSuccOf(y, x)' <=> IsSuccOf(y, x)
  BY DEF IsSuccOf
<1>2. SuccEdges' = SuccEdges
  BY DEF SuccEdges, IsSuccOf
<1>3. QED
  BY <1>1, <1>2 DEF Reaches, Reachable

-----------------------------------------------------------------------------
(* The search *)

SearchInv ==
  /\ MarkInv /\ PathInv /\ TriedInv /\ CallInv /\ OrderInv /\ SoundInv

(* The part of the invariant that is about the search holds vacuously *)
(* outside it, and the rest vacuously inside.                         *)
LEMMA SearchReset ==
  ASSUME TypeOK, IdleInv, Reset
  PROVE  SearchInv'
<1>1. /\ pc' = "search" /\ stack' = <<>> /\ order' = <<>>
      /\ visited' = {} /\ calling' = Entry
  BY DEF Reset, IdleInv, Searching
<1>2. Len(stack') = 0 /\ Len(order') = 0
  BY <1>1, EmptySeq
<1>3. OnStack' = {} /\ Recorded' = {}
  BY <1>2 DEF OnStack, Recorded
<1>4. Entry # NULL
  BY EntryIsBlock, NullIsNoBlock
<1>5. MarkInv' /\ PathInv' /\ TriedInv'
  BY <1>1, <1>2, <1>3 DEF MarkInv, PathInv, TriedInv
<1>6. CallInv' /\ OrderInv' /\ SoundInv'
  BY <1>1, <1>2, <1>4 DEF CallInv, OrderInv, SoundInv
<1>7. QED
  BY <1>5, <1>6 DEF SearchInv

LEMMA SearchReturnVisited ==
  ASSUME TypeOK, TypeOK', SearchInv, ReturnVisited
  PROVE  SearchInv'
<1>1. /\ Searching /\ Searching' /\ calling \in visited /\ calling' = NULL
      /\ UNCHANGED <<succ, visited, stack, order>>
  BY DEF ReturnVisited, Searching
<1>2. OnStack' = OnStack /\ Recorded' = Recorded
  BY <1>1 DEF OnStack, Recorded
<1>3. MarkInv' /\ PathInv'
  BY <1>1, <1>2, SameEdges DEF SearchInv, MarkInv, PathInv
<1>4. TriedInv'
  BY <1>1 DEF SearchInv, TriedInv
<1>5. stack # <<>>
  <2>1. SUFFICES ASSUME stack = <<>>
                 PROVE  FALSE
    OBVIOUS
  <2>2. calling # NULL
    BY DEF ReturnVisited
  <2>3. Len(stack) = 0 /\ order = <<>>
    BY <1>1, <2>1, <2>2, EmptySeq DEF SearchInv, CallInv
  <2>4. Len(order) = 0
    BY <2>3, EmptySeq
  <2>5. visited = {}
    BY <1>1, <2>3, <2>4 DEF SearchInv, MarkInv, OnStack, Recorded
  <2>6. QED
    BY <1>1, <2>5
<1>6. CallInv'
  BY <1>1, <1>5 DEF CallInv
<1>7. OrderInv' /\ SoundInv'
  BY <1>1, SameEdges DEF SearchInv, OrderInv, SoundInv
<1>8. QED
  BY <1>3, <1>4, <1>6, <1>7 DEF SearchInv

LEMMA SearchEnter ==
  ASSUME TypeOK, TypeOK', SearchInv, Enter
  PROVE  SearchInv'
<1> DEFINE n == Len(stack)
           frame == [block |-> calling, tried |-> 0]
<1>1. /\ Searching /\ Searching' /\ calling \notin visited /\ calling' = NULL
      /\ calling \in Blocks /\ calling # NULL
      /\ visited' = visited \cup {calling}
      /\ UNCHANGED <<succ, order>>
  BY DEF Enter, Searching, TypeOK
<1>2. /\ n \in Nat /\ Len(stack') = n + 1
      /\ \A k \in 1 .. n : stack'[k] = stack[k]
      /\ stack'[n + 1] = frame
      /\ \A k \in 1 .. n : stack[k].block \in Blocks /\ stack[k].tried \in Nat
      /\ stack' # <<>>
  <2>1. frame \in Frames /\ stack \in Seq(Frames) /\ stack' = Append(stack, frame)
    BY <1>1 DEF Enter, TypeOK, Frames
  <2>2. QED
    BY <2>1, StackFacts, AppendProperties
<1>3. frame.block = calling /\ frame.tried = 0
  OBVIOUS
<1> HIDE DEF n, frame
<1>4. OnStack' = OnStack \cup {calling}
  BY <1>2, <1>3 DEF OnStack, n
<1>5. Recorded' = Recorded
  BY <1>1 DEF Recorded
<1>6. /\ \A k \in 1 .. n : stack[k].block # calling
      /\ \A k \in 1 .. Len(order) : order[k] # calling
  BY <1>1 DEF SearchInv, MarkInv, OnStack, Recorded, n
<1>7. MarkInv'
  <2>1. visited' = OnStack' \cup Recorded'
    BY <1>1, <1>4, <1>5 DEF SearchInv, MarkInv
  <2>2. \A j, k \in 1 .. n + 1 : stack'[j].block = stack'[k].block => j = k
    BY <1>1, <1>2, <1>3, <1>6 DEF SearchInv, MarkInv, n
  <2>3. \A j \in 1 .. n + 1, k \in 1 .. Len(order) : stack'[j].block # order[k]
    BY <1>1, <1>2, <1>3, <1>6 DEF SearchInv, MarkInv, n
  <2>4. QED
    BY <1>1, <1>2, <2>1, <2>2, <2>3 DEF SearchInv, MarkInv
<1>8. PathInv'
  <2>1. stack'[1].block = Entry
    <3>1. CASE stack = <<>>
      <4>1. n = 0
        BY <3>1, EmptySeq DEF n
      <4>2. QED
        BY <1>1, <1>2, <1>3, <3>1, <4>1 DEF SearchInv, CallInv
    <3>2. CASE stack # <<>>
      <4>1. n >= 1
        BY <1>2, <3>2, StackFacts DEF n
      <4>2. QED
        BY <1>1, <1>2, <3>2, <4>1 DEF SearchInv, PathInv
    <3>3. QED
      BY <3>1, <3>2
  <2>2. n >= 1 => IsSuccOf(calling, stack[n].block)
    BY <1>1, <1>2, StackFacts, EmptySeq DEF SearchInv, CallInv, Top, n
  <2>3. \A k \in 2 .. n + 1 : IsSuccOf(stack'[k].block, stack'[k-1].block)
    BY <1>1, <1>2, <1>3, <2>2 DEF SearchInv, PathInv, n
  <2>4. ASSUME NEW j \in 1 .. n + 1, NEW k \in 1 .. n + 1, j <= k
        PROVE  Reaches(stack'[j].block, stack'[k].block)
    <3>1. CASE k <= n
      <4>1. j \in 1 .. n /\ k \in 1 .. n
        BY <1>2, <2>4, <3>1
      <4>2. QED
        BY <1>1, <1>2, <2>4, <4>1 DEF SearchInv, PathInv, n
    <3>2. CASE j = n + 1
      BY <1>2, <2>4, <3>2, ReachesSelf
    <3>3. CASE k = n + 1 /\ j <= n
      <4>1. j \in 1 .. n /\ n \in 1 .. n
        BY <1>2, <2>4, <3>3
      <4>2. Reaches(stack[j].block, stack[n].block)
        BY <1>1, <1>2, <4>1 DEF SearchInv, PathInv, n
      <4>3. IsSuccOf(calling, stack[n].block)
        BY <2>2, <4>1
      <4>4. Reaches(stack[j].block, calling)
        BY <1>1, <1>2, <4>1, <4>2, <4>3, ReachesStep
      <4>5. QED
        BY <1>2, <1>3, <3>3, <4>1, <4>4
    <3>4. QED
      BY <1>2, <2>4, <3>1, <3>2, <3>3
  <2>5. QED
    BY <1>1, <1>2, <2>1, <2>3, <2>4, SameEdges DEF PathInv
<1>9. TriedInv'
  <2>1. ASSUME NEW k \in 1 .. n
        PROVE  /\ stack[k].tried <= Len(succ[stack[k].block])
               /\ \A t \in 1 .. stack[k].tried : succ[stack[k].block][t] \in visited'
    BY <1>1 DEF SearchInv, TriedInv, n
  <2>2. Len(succ[calling]) >= 0
    BY <1>1, SuccsAreBlocks
  <2>3. QED
    BY <1>1, <1>2, <1>3, <2>1, <2>2 DEF TriedInv
<1>10. CallInv'
  BY <1>1, <1>2 DEF CallInv
<1>11. OrderInv'
  <2>1. \A b \in Blocks : (\E j \in 1 .. n : IsSuccOf(b, stack[j].block))
                            => \E j \in 1 .. n + 1 : IsSuccOf(b, stack'[j].block)
    BY <1>2
  <2>2. \A k \in 1 .. Len(order) : order[k] # Entry
    BY <1>1, EmptySeq DEF SearchInv, OrderInv, CallInv
  <2>3. \A k \in 1 .. Len(order) : order[k] \in Blocks
    BY ElementOfSeq DEF TypeOK
  <2>4. QED
    BY <1>1, <1>2, <2>1, <2>2, <2>3, SameEdges DEF SearchInv, OrderInv, n
<1>12. SoundInv'
  <2>1. calling \in Reachable(SuccEdges)
    <3>1. CASE stack = <<>>
      BY <1>1, <3>1, EntryReachable DEF SearchInv, CallInv
    <3>2. CASE stack # <<>>
      <4>1. Top.block \in visited
        BY <1>1, <3>2, StackFacts DEF SearchInv, MarkInv, OnStack, Top
      <4>2. Top.block \in Reachable(SuccEdges) /\ IsSuccOf(calling, Top.block)
        BY <1>1, <3>2, <4>1 DEF SearchInv, SoundInv, CallInv
      <4>3. QED
        BY <1>1, <4>2, ReachableStep
    <3>3. QED
      BY <3>1, <3>2
  <2>2. QED
    BY <1>1, <2>1, SameEdges DEF SearchInv, SoundInv
<1>13. QED
  BY <1>7, <1>8, <1>9, <1>10, <1>11, <1>12 DEF SearchInv

LEMMA SearchCallNext ==
  ASSUME TypeOK, TypeOK', SearchInv, CallNext
  PROVE  SearchInv'
<1> DEFINE n == Len(stack)
<1>1. /\ Searching /\ Searching' /\ stack # <<>> /\ calling = NULL
      /\ UNCHANGED <<succ, order, visited>>
      /\ calling' = succ[Top.block][Top.tried + 1]
      /\ Top.tried < Len(succ[Top.block])
  BY DEF CallNext, Searching
<1>2. /\ n \in Nat /\ n \in 1 .. n
      /\ \A k \in 1 .. n : stack[k] \in Frames
      /\ \A k \in 1 .. n : stack[k].block \in Blocks /\ stack[k].tried \in Nat
      /\ Top = stack[n]
  BY <1>1, StackFacts DEF Top
<1>3. /\ Len(stack') = n
      /\ \A k \in 1 .. n : stack'[k].block = stack[k].block
      /\ \A k \in 1 .. n - 1 : stack'[k].tried = stack[k].tried
      /\ stack'[n].tried = Top.tried + 1
      /\ stack' # <<>>
  <2>1. stack \in Seq(Frames) /\ DOMAIN stack = 1 .. n
    BY LenProperties DEF TypeOK
  <2>2. stack' = [stack EXCEPT ![n] = [stack[n] EXCEPT !.tried = Top.tried + 1]]
    BY <1>2, <2>1 DEF CallNext
  <2>3. [stack[n] EXCEPT !.tried = Top.tried + 1] \in Frames
    BY <1>2 DEF Frames
  <2>4. /\ Len(stack') = n
        /\ \A k \in 1 .. n : stack'[k] = IF k = n THEN [stack[n] EXCEPT !.tried = Top.tried + 1]
                                                  ELSE stack[k]
    BY <1>2, <2>1, <2>2, <2>3, ExceptSeq
  <2>5. /\ [stack[n] EXCEPT !.tried = Top.tried + 1].block = stack[n].block
        /\ [stack[n] EXCEPT !.tried = Top.tried + 1].tried = Top.tried + 1
    BY <1>2 DEF Frames
  <2>6. stack' # <<>>
    BY <1>2, <2>4, EmptySeq
  <2>7. \A k \in 1 .. n : k # n => stack'[k] = stack[k]
    BY <2>4
  <2>8. stack'[n] = [stack[n] EXCEPT !.tried = Top.tried + 1]
    BY <1>2, <2>4
  <2>9. \A k \in 1 .. n : stack'[k].block = stack[k].block
    BY <2>5, <2>7, <2>8
  <2>10. \A k \in 1 .. n - 1 : stack'[k].tried = stack[k].tried
    <3>1. \A k \in 1 .. n - 1 : k \in 1 .. n /\ k # n
      BY <1>2
    <3>2. QED
      BY <2>7, <3>1
  <2>11. QED
    BY <2>4, <2>5, <2>6, <2>8, <2>9, <2>10
<1> HIDE DEF n
<1>4. OnStack' = OnStack /\ Recorded' = Recorded
  BY <1>1, <1>3 DEF OnStack, Recorded, n
<1>5. MarkInv'
  BY <1>1, <1>3, <1>4 DEF SearchInv, MarkInv, n
<1>6. PathInv'
  <2>1. stack'[1].block = Entry
    BY <1>1, <1>2, <1>3 DEF SearchInv, PathInv, n
  <2>2. \A j, k \in 1 .. n : j <= k => Reaches(stack'[j].block, stack'[k].block)
    BY <1>1, <1>2, <1>3 DEF SearchInv, PathInv, n
  <2>3. \A k \in 2 .. n : IsSuccOf(stack'[k].block, stack'[k-1].block)
    BY <1>1, <1>2, <1>3 DEF SearchInv, PathInv, n
  <2>4. QED
    BY <1>1, <1>3, <2>1, <2>2, <2>3, SameEdges DEF PathInv
<1>7. Top.tried + 1 \in 1 .. Len(succ[Top.block]) /\ IsSuccOf(calling', Top.block)
  BY <1>1, <1>2, SuccsAreBlocks DEF IsSuccOf
<1>8. TriedInv'
  <2>1. ASSUME NEW k \in 1 .. n
        PROVE  /\ stack'[k].tried <= Len(succ[stack'[k].block])
               /\ \A t \in 1 .. stack'[k].tried :
                    LET y == succ[stack'[k].block][t] IN y \in visited \/ y = calling'
    <3>1. /\ stack[k].tried <= Len(succ[stack[k].block])
          /\ \A t \in 1 .. stack[k].tried :
               succ[stack[k].block][t] \in visited \/ succ[stack[k].block][t] = NULL
      BY <1>1 DEF SearchInv, TriedInv, n
    <3>2. \A t \in 1 .. stack[k].tried : succ[stack[k].block][t] \in visited
      BY <1>2, <3>1, SuccsAreBlocks, NullIsNoBlock
    <3>3. CASE k = n
      BY <1>1, <1>2, <1>3, <1>7, <3>2, <3>3
    <3>4. CASE k \in 1 .. n - 1
      BY <1>2, <1>3, <3>1, <3>2, <3>4
    <3>5. QED
      BY <1>2, <3>3, <3>4
  <2>2. QED
    BY <1>1, <1>3, <2>1 DEF TriedInv
<1>9. CallInv'
  <2>1. Top'.block = Top.block
    BY <1>2, <1>3 DEF Top
  <2>2. calling' # NULL
    BY <1>1, <1>2, <1>7, SuccsAreBlocks, NullIsNoBlock
  <2>3. QED
    BY <1>1, <1>3, <1>7, <2>1, <2>2, SameEdges DEF CallInv
<1>10. OrderInv'
  <2>1. \A b \in Blocks : (\E j \in 1 .. n : IsSuccOf(b, stack[j].block))
                            => \E j \in 1 .. n : IsSuccOf(b, stack'[j].block)
    BY <1>3
  <2>2. \A k \in 1 .. Len(order) : order[k] # Entry /\ order[k] \in Blocks
    BY <1>1, ElementOfSeq DEF SearchInv, OrderInv, TypeOK
  <2>3. QED
    BY <1>1, <1>3, <2>1, <2>2, SameEdges DEF SearchInv, OrderInv, n
<1>11. SoundInv'
  BY <1>1, SameEdges DEF SearchInv, SoundInv
<1>12. QED
  BY <1>5, <1>6, <1>8, <1>9, <1>10, <1>11 DEF SearchInv

(* Once all its successors are marked, a block's call may end: each of them *)
(* was recorded before it or is still active, hence leads to it.            *)
LEMMA SearchRecord ==
  ASSUME TypeOK, TypeOK', SearchInv, Record
  PROVE  SearchInv'
<1> DEFINE n == Len(stack)
           m == Len(order)
<1>1. /\ Searching /\ Searching' /\ stack # <<>> /\ calling = NULL /\ calling' = NULL
      /\ UNCHANGED <<succ, visited>>
      /\ order' = Append(order, Top.block)
      /\ stack' = Pop
      /\ Top.tried = Len(succ[Top.block])
  BY DEF Record, Searching
<1>2. /\ n \in Nat /\ n \in 1 .. n /\ n >= 1
      /\ \A k \in 1 .. n : stack[k].block \in Blocks /\ stack[k].tried \in Nat
      /\ Top = stack[n]
      /\ Len(stack') = n - 1
      /\ \A k \in 1 .. n - 1 : stack'[k] = stack[k]
  BY <1>1, StackFacts DEF Top
<1>3. /\ m \in Nat /\ Len(order') = m + 1
      /\ \A k \in 1 .. m : order'[k] = order[k] /\ order[k] \in Blocks
      /\ order'[m + 1] = Top.block
  <2>1. order \in Seq(Blocks) /\ Top.block \in Blocks
    BY <1>2 DEF TypeOK
  <2>2. QED
    BY <1>1, <2>1, AppendProperties, ElementOfSeq, LenProperties
<1>4. stack' = <<>> <=> n = 1
  <2>1. stack' \in Seq(Frames)
    BY DEF TypeOK
  <2>2. QED
    BY <1>2, <2>1, EmptySeq
<1> HIDE DEF n, m
<1>4a. \A k \in 1 .. n - 1 : k \in 1 .. n /\ stack'[k].block = stack[k].block
  BY <1>2
<1>4b. 1 \in 1 .. n
  BY <1>2
<1>5. /\ \A j, k \in 1 .. n : stack[j].block = stack[k].block => j = k
      /\ \A j \in 1 .. n, k \in 1 .. m : stack[j].block # order[k]
      /\ \A j, k \in 1 .. m : order[j] = order[k] => j = k
  BY <1>1 DEF SearchInv, MarkInv, n, m
<1>6. MarkInv'
  <2>1. OnStack = OnStack' \cup {Top.block}
    <3>1. \A k \in 1 .. n : k = n \/ k \in 1 .. n - 1
      BY <1>2
    <3>2. QED
      BY <1>2, <3>1 DEF OnStack, n
  <2>2. Recorded' = Recorded \cup {Top.block}
    BY <1>3 DEF Recorded, m
  <2>3. visited' = OnStack' \cup Recorded'
    BY <1>1, <2>1, <2>2 DEF SearchInv, MarkInv
  <2>4. \A j, k \in 1 .. n - 1 : stack'[j].block = stack'[k].block => j = k
    BY <1>2, <1>5
  <2>5. \A j, k \in 1 .. m + 1 : order'[j] = order'[k] => j = k
    BY <1>2, <1>3, <1>5
  <2>6. \A j \in 1 .. n - 1, k \in 1 .. m + 1 : stack'[j].block # order'[k]
    BY <1>2, <1>3, <1>5
  <2>7. QED
    BY <1>2, <1>3, <2>3, <2>4, <2>5, <2>6 DEF MarkInv
<1>7. PathInv'
  <2>1. n - 1 >= 1 => stack'[1].block = Entry
    <3>1. stack[1].block = Entry
      BY <1>1 DEF SearchInv, PathInv
    <3>2. n - 1 >= 1 => 1 \in 1 .. n - 1
      BY <1>2
    <3>3. QED
      BY <1>4a, <3>1, <3>2
  <2>2. \A j, k \in 1 .. n - 1 : j <= k => Reaches(stack'[j].block, stack'[k].block)
    <3>1. \A j, k \in 1 .. n : j <= k => Reaches(stack[j].block, stack[k].block)
      BY <1>1 DEF SearchInv, PathInv, n
    <3>2. QED
      BY <1>4a, <3>1
  <2>3. \A k \in 2 .. n - 1 : IsSuccOf(stack'[k].block, stack'[k-1].block)
    <3>1. \A k \in 2 .. n : IsSuccOf(stack[k].block, stack[k-1].block)
      BY <1>1 DEF SearchInv, PathInv, n
    <3>2. ASSUME NEW k \in 2 .. n - 1
          PROVE  k \in 2 .. n /\ k \in 1 .. n - 1 /\ k - 1 \in 1 .. n - 1
      BY <1>2
    <3>3. QED
      BY <1>4a, <3>1, <3>2
  <2>4. QED
    BY <1>1, <1>2, <1>4, <2>1, <2>2, <2>3, SameEdges DEF PathInv
<1>8. TriedInv'
  <2>1. \A k \in 1 .. n - 1 :
          /\ stack[k].tried <= Len(succ[stack[k].block])
          /\ \A t \in 1 .. stack[k].tried :
               LET y == succ[stack[k].block][t] IN y \in visited \/ y = NULL
    BY <1>1, <1>2 DEF SearchInv, TriedInv, n
  <2>2. QED
    BY <1>1, <1>2, <2>1 DEF TriedInv
<1>9. stack[1].block = Entry
  BY <1>1 DEF SearchInv, PathInv
<1>10. CallInv'
  <2>1. n = 1 => Entry \in Recorded'
    BY <1>2, <1>3, <1>9 DEF Recorded, m
  <2>2. QED
    BY <1>1, <1>4, <2>1 DEF CallInv
<1>11. ASSUME NEW y \in Blocks, IsSuccOf(y, Top.block)
       PROVE  \/ \E j \in 1 .. m : order[j] = y
              \/ y \in visited /\ Reaches(y, Top.block)
  <2>1. PICK t \in 1 .. Top.tried : succ[Top.block][t] = y
    BY <1>1, <1>11 DEF IsSuccOf
  <2>2. y \in visited
    BY <1>1, <1>2, <1>11, <2>1, NullIsNoBlock DEF SearchInv, TriedInv, n
  <2>3. CASE y \in Recorded
    BY <2>3 DEF Recorded, m
  <2>4. CASE y \in OnStack
    <3>1. PICK j \in 1 .. n : stack[j].block = y
      BY <2>4 DEF OnStack, n
    <3>2. Reaches(stack[j].block, stack[n].block)
      BY <1>1, <1>2, <3>1 DEF SearchInv, PathInv, n
    <3>3. QED
      BY <1>2, <2>2, <3>1, <3>2
  <2>5. QED
    BY <1>1, <2>2, <2>3, <2>4 DEF SearchInv, MarkInv
<1>12. OrderInv'
  <2>1. ASSUME NEW k \in 1 .. m + 1
        PROVE  order'[k] = Entry => k = m + 1 /\ n = 1
    <3>1. CASE k \in 1 .. m
      BY <1>1, <1>3, <3>1 DEF SearchInv, OrderInv, m
    <3>2. CASE k = m + 1
      <4>1. order'[k] = stack[n].block
        BY <1>2, <1>3, <3>2
      <4>2. stack[n].block = stack[1].block => n = 1
        BY <1>2, <1>5, <1>4b
      <4>3. QED
        BY <1>9, <3>2, <4>1, <4>2
    <3>3. QED
      BY <1>3, <3>1, <3>2
  <2>2. ASSUME NEW k \in 1 .. m + 1, order'[k] # Entry
        PROVE  \/ \E j \in 1 .. n - 1 : IsSuccOf(order'[k], stack'[j].block)
               \/ \E j \in k + 1 .. m + 1 : IsSuccOf(order'[k], order'[j])
    <3>1. CASE k \in 1 .. m
      <4>1. \/ \E j \in 1 .. n : IsSuccOf(order[k], stack[j].block)
            \/ \E j \in k + 1 .. m : IsSuccOf(order[k], order[j])
        BY <1>1, <1>3, <2>2, <3>1 DEF SearchInv, OrderInv, m, n
      <4>2. CASE \E j \in k + 1 .. m : IsSuccOf(order[k], order[j])
        <5>1. PICK j \in k + 1 .. m : IsSuccOf(order[k], order[j])
          BY <4>2
        <5>2. j \in 1 .. m /\ j \in k + 1 .. m + 1
          BY <1>3, <3>1
        <5>3. QED
          BY <1>3, <3>1, <5>1, <5>2
      <4>3. CASE \E j \in 1 .. n : IsSuccOf(order[k], stack[j].block)
        <5>1. PICK j \in 1 .. n : IsSuccOf(order[k], stack[j].block)
          BY <4>3
        <5>2. CASE j = n
          BY <1>2, <1>3, <3>1, <5>1, <5>2
        <5>3. CASE j \in 1 .. n - 1
          BY <1>2, <1>3, <3>1, <5>1, <5>3
        <5>4. QED
          BY <1>2, <5>2, <5>3
      <4>4. QED
        BY <4>1, <4>2, <4>3
    <3>2. CASE k = m + 1
      <4>1. n # 1
        BY <1>2, <1>3, <1>9, <2>2, <3>2
      <4>2. n \in 2 .. n /\ n - 1 \in 1 .. n - 1 /\ n - 1 \in 1 .. n
        BY <1>2, <4>1
      <4>3. IsSuccOf(stack[n].block, stack[n-1].block)
        BY <1>1, <4>2 DEF SearchInv, PathInv, n
      <4>4. QED
        BY <1>2, <1>3, <3>2, <4>2, <4>3
    <3>3. QED
      BY <1>3, <3>1, <3>2
  <2>3. ASSUME NEW k \in 1 .. m + 1, NEW y \in Blocks, IsSuccOf(y, order'[k])
        PROVE  \/ \E j \in 1 .. k - 1 : order'[j] = y
               \/ y \in visited /\ Reaches(y, order'[k])
    <3>1. CASE k \in 1 .. m
      <4>1. \/ \E j \in 1 .. k - 1 : order[j] = y
            \/ y \in visited /\ Reaches(y, order[k])
        BY <1>1, <1>3, <2>3, <3>1 DEF SearchInv, OrderInv, m
      <4>2. \A j \in 1 .. k - 1 : order'[j] = order[j]
        BY <1>3, <3>1
      <4>3. QED
        BY <1>3, <3>1, <4>1, <4>2
    <3>2. CASE k = m + 1
      BY <1>3, <1>11, <2>3, <3>2
    <3>3. QED
      BY <1>3, <3>1, <3>2
  <2>4. QED
    BY <1>1, <1>2, <1>3, <1>4, <2>1, <2>2, <2>3, SameEdges DEF OrderInv
<1>13. SoundInv'
  BY <1>1, SameEdges DEF SearchInv, SoundInv
<1>14. QED
  BY <1>6, <1>7, <1>8, <1>10, <1>12, <1>13 DEF SearchInv

-----------------------------------------------------------------------------
(* Numbering, dropping what was not reached, and the reverse edges *)

LEMMA NumberStep ==
  ASSUME TypeOK, TypeOK', CfgInvariant, Number
  PROVE  NumberInv'
<1> DEFINE m == Len(order)
<1>1. /\ Searching /\ calling = NULL /\ stack = <<>> /\ succ' = succ
      /\ rpo' = [k \in 1 .. m |-> order[m + 1 - k]]
      /\ index' = [b \in Blocks |->
                     IF \E k \in 1 .. m : order[k] = b
                       THEN m - Position(order, b) ELSE index[b]]
  BY DEF Number, Searching
<1>2. m \in Nat /\ \A k \in 1 .. m : order[k] \in Blocks
  BY LenProperties, ElementOfSeq DEF TypeOK
<1> HIDE DEF m
<1>3. /\ Len(rpo') = m
      /\ \A k \in 1 .. m : m + 1 - k \in 1 .. m /\ rpo'[k] = order[m + 1 - k]
  BY <1>1, <1>2
<1>4. Len(stack) = 0
  BY <1>1, EmptySeq
<1>5. PICK e \in 1 .. m : order[e] = Entry
  BY <1>1 DEF CfgInvariant, CallInv, Recorded, m
<1>6. e = m
  BY <1>1, <1>5 DEF CfgInvariant, OrderInv, m
<1>7. m >= 1 /\ rpo'[1] = Entry
  BY <1>2, <1>3, <1>5, <1>6
<1>8. \A k \in 1 .. m : Position(order, order[k]) = k
  BY <1>1, <1>2 DEF CfgInvariant, MarkInv, Position, m
<1>9. \A k \in 1 .. m : index'[rpo'[k]] = k - 1
  <2>1. TAKE k \in 1 .. m
  <2>2. m + 1 - k \in 1 .. m /\ rpo'[k] = order[m + 1 - k] /\ rpo'[k] \in Blocks
    BY <1>2, <1>3
  <2>3. index'[rpo'[k]] = m - Position(order, order[m + 1 - k])
    BY <1>1, <2>2
  <2>4. QED
    BY <1>2, <1>8, <2>2, <2>3
<1>10. ASSUME NEW b \in Blocks
       PROVE  (\E k \in 1 .. m : order[k] = b) <=> InRpo(b)'
  <2>1. InRpo(b)' <=> \E k \in 1 .. m : rpo'[k] = b
    BY <1>3 DEF InRpo, Numbers
  <2>2. ASSUME NEW k \in 1 .. m, order[k] = b
        PROVE  \E j \in 1 .. m : rpo'[j] = b
    <3>1. m + 1 - k \in 1 .. m /\ m + 1 - (m + 1 - k) = k
      BY <1>2
    <3>2. rpo'[m + 1 - k] = order[m + 1 - (m + 1 - k)]
      BY <1>3, <3>1
    <3>3. QED
      BY <2>2, <3>1, <3>2
  <2>3. ASSUME NEW k \in 1 .. m, rpo'[k] = b
        PROVE  \E j \in 1 .. m : order[j] = b
    <3>1. m + 1 - k \in 1 .. m /\ order[m + 1 - k] = b
      BY <1>3, <2>3
    <3>2. QED
      BY <3>1
  <2>4. QED
    BY <2>1, <2>2, <2>3
<1>11. \A b \in Blocks : ~ InRpo(b)' => index'[b] = -1
  BY <1>1, <1>10 DEF CfgInvariant, IdleInv
<1>12. ASSUME NEW k \in 2 .. m
       PROVE  \E j \in 1 .. k - 1 : IsSuccOf(rpo'[k], rpo'[j])
  <2> DEFINE q == m + 1 - k
  <2>1. q \in 1 .. m - 1 /\ q \in 1 .. m /\ k \in 1 .. m /\ q # m
    BY <1>2
  <2>2. order[q] # Entry
    BY <1>1, <2>1 DEF CfgInvariant, OrderInv, m
  <2>3. PICK j \in q + 1 .. m : IsSuccOf(order[q], order[j])
    BY <1>1, <1>4, <2>1, <2>2 DEF CfgInvariant, OrderInv, m
  <2>4. /\ m + 1 - j \in 1 .. k - 1
        /\ m + 1 - (m + 1 - j) = j
        /\ m + 1 - j \in 1 .. m
    BY <1>2, <2>1
  <2>5. rpo'[m + 1 - j] = order[j] /\ rpo'[k] = order[q]
    BY <1>3, <2>1, <2>4
  <2>6. QED
    BY <2>3, <2>4, <2>5
<1>13. ASSUME NEW k \in 1 .. m, NEW y \in Blocks, IsSuccOf(y, rpo'[k])
       PROVE  \E j \in 1 .. m : rpo'[j] = y /\ (j > k \/ Reaches(y, rpo'[k]))
  <2> DEFINE q == m + 1 - k
  <2>1. q \in 1 .. m /\ rpo'[k] = order[q]
    BY <1>3
  <2>2. \/ \E j \in 1 .. q - 1 : order[j] = y
        \/ y \in visited /\ Reaches(y, order[q])
    BY <1>1, <1>13, <2>1 DEF CfgInvariant, OrderInv, m
  <2>3. CASE \E j \in 1 .. q - 1 : order[j] = y
    <3>1. PICK j \in 1 .. q - 1 : order[j] = y
      BY <2>3
    <3>2. /\ m + 1 - j \in 1 .. m /\ m + 1 - j > k
          /\ m + 1 - (m + 1 - j) = j
      BY <1>2
    <3>3. QED
      BY <1>3, <3>1, <3>2
  <2>4. CASE y \in visited /\ Reaches(y, order[q])
    <3>1. OnStack = {}
      BY <1>4 DEF OnStack
    <3>2. PICK j \in 1 .. m : order[j] = y
      BY <1>1, <2>4, <3>1 DEF CfgInvariant, MarkInv, Recorded, m
    <3>3. m + 1 - j \in 1 .. m /\ m + 1 - (m + 1 - j) = j
      BY <1>2
    <3>4. QED
      BY <1>3, <2>1, <2>4, <3>2, <3>3
  <2>5. QED
    BY <2>2, <2>3, <2>4
<1>14. \A k \in 1 .. m : rpo'[k] \in Reachable(SuccEdges)
  BY <1>1, <1>3 DEF CfgInvariant, SoundInv, MarkInv, Recorded, m
<1>15. QED
  <2>1. Numbers' = 1 .. m /\ Len(rpo') = m
    BY <1>3 DEF Numbers
  <2>2. \A k \in 2 .. m : \E j \in 1 .. k - 1 : IsSuccOf(rpo[k], rpo[j])'
    BY <1>1, <1>12, SameEdges
  <2>3. \A k \in 1 .. m : \A y \in Blocks : IsSuccOf(y, rpo[k])' =>
          \E j \in 1 .. m : rpo'[j] = y /\ (j > k \/ Reaches(y, rpo[k])')
    BY <1>1, <1>13, SameEdges
  <2>4. \A k \in 1 .. m : rpo'[k] \in Reachable(SuccEdges)'
    BY <1>1, <1>14, SameEdges
  <2>5. QED
    BY <1>7, <1>9, <1>11, <2>1, <2>2, <2>3, <2>4 DEF NumberInv

(* Dropping unreached blocks keeps every edge between reached ones, and a   *)
(* path between reached blocks only crosses reached blocks.                 *)
LEMMA DropStep ==
  ASSUME TypeOK, TypeOK', CfgInvariant, DropUnreached
  PROVE  NumberInv' /\ DropInv'
<1>1. /\ pc = "drop" /\ Numbered /\ rpo' = rpo /\ index' = index
      /\ succ' = [b \in Blocks |-> IF index[b] >= 0 THEN succ[b] ELSE <<>>]
  BY DEF DropUnreached, Numbered
<1>2. Len(rpo) \in Nat /\ \A k \in Numbers : rpo[k] \in Blocks
  BY LenProperties, ElementOfSeq DEF TypeOK, Numbers
<1>3. /\ \A k \in Numbers : index[rpo[k]] >= 0
      /\ \A b \in Blocks : ~ InRpo(b) => ~ (index[b] >= 0)
  BY <1>1, <1>2 DEF CfgInvariant, NumberInv, Numbers
<1>4. /\ \A k \in Numbers : succ'[rpo[k]] = succ[rpo[k]]
      /\ \A b \in Blocks : ~ InRpo(b) => succ'[b] = <<>>
  BY <1>1, <1>2, <1>3
<1> DEFINE R == {b \in Blocks : InRpo(b)}
<1>5. ASSUME NEW x \in R, NEW y
      PROVE  IsSuccOf(y, x)' <=> IsSuccOf(y, x)
  BY <1>4 DEF IsSuccOf, InRpo
<1>5a. \A k \in Numbers : rpo[k] \in R
  BY <1>2 DEF InRpo
<1> HIDE DEF R
<1>7. \A x \in R, y \in Blocks : IsSuccOf(y, x) => y \in R
  BY <1>1 DEF CfgInvariant, NumberInv, InRpo, R
<1>8. ASSUME NEW S \in SUBSET Blocks, ClosedAvoiding(SuccEdges', NULL, S)
      PROVE  ClosedAvoiding(SuccEdges, NULL, S \cap R)
  <2>1. SUFFICES ASSUME NEW x \in S \cap R, NEW y \in Blocks,
                        <<x, y>> \in SuccEdges, y # NULL
                 PROVE  y \in S \cap R
    BY DEF ClosedAvoiding
  <2>2. IsSuccOf(y, x) /\ IsSuccOf(y, x)'
    BY <1>5, <2>1 DEF SuccEdges
  <2>3. <<x, y>> \in SuccEdges'
    BY <2>1, <2>2 DEF SuccEdges
  <2>4. QED
    BY <1>7, <1>8, <2>1, <2>2, <2>3 DEF ClosedAvoiding
<1>9. ASSUME NEW y \in R, NEW x, Reaches(y, x)
      PROVE  Reaches(y, x)'
  <2>1. SUFFICES ASSUME NEW S \in SUBSET Blocks, y \in S,
                        ClosedAvoiding(SuccEdges', NULL, S)
                 PROVE  x \in S
    BY DEF Reaches
  <2>2. x \in S \cap R
    BY <1>8, <1>9, <2>1 DEF Reaches
  <2>3. QED
    BY <2>2
<1>10. Entry \in R
  BY <1>1, EntryIsBlock DEF CfgInvariant, NumberInv, InRpo, Numbers, R
<1>11. ASSUME NEW x \in Reachable(SuccEdges)
       PROVE  x \in Reachable(SuccEdges)'
  <2>1. x \in Blocks
    BY DEF Reachable, ReachableAvoiding
  <2>2. SUFFICES ASSUME NEW S \in SUBSET Blocks, Entry # NULL => Entry \in S,
                        ClosedAvoiding(SuccEdges', NULL, S)
                 PROVE  x \in S
    BY <2>1 DEF Reachable, ReachableAvoiding
  <2>3. ClosedAvoiding(SuccEdges, NULL, S \cap R) /\ (Entry # NULL => Entry \in S \cap R)
    BY <1>8, <1>10, <2>2
  <2>4. QED
    BY <2>3 DEF Reachable, ReachableAvoiding
<1>12. DropInv'
  BY <1>1, <1>4 DEF DropInv, InRpo, Numbers
<1>13. ASSUME NEW k \in Numbers, NEW y \in Blocks, IsSuccOf(y, rpo[k])'
       PROVE  \E j \in Numbers : rpo[j] = y /\ (j > k \/ Reaches(y, rpo[k])')
  <2>1. IsSuccOf(y, rpo[k])
    BY <1>1, <1>5, <1>5a, <1>13
  <2>2. PICK j \in Numbers : rpo[j] = y /\ (j > k \/ Reaches(y, rpo[k]))
    BY <1>1, <2>1 DEF CfgInvariant, NumberInv
  <2>3. y \in R
    BY <1>5a, <2>2
  <2>4. Reaches(y, rpo[k]) => Reaches(y, rpo[k])'
    BY <1>1, <1>9, <2>3
  <2>5. QED
    BY <2>2, <2>4
<1>14. ASSUME NEW k \in 2 .. Len(rpo)
       PROVE  \E j \in 1 .. k - 1 : IsSuccOf(rpo[k], rpo[j])'
  <2>1. PICK j \in 1 .. k - 1 : IsSuccOf(rpo[k], rpo[j])
    BY <1>1 DEF CfgInvariant, NumberInv
  <2>2. j \in Numbers
    BY <1>2 DEF Numbers
  <2>3. IsSuccOf(rpo[k], rpo[j])'
    BY <1>1, <1>5, <1>5a, <2>1, <2>2
  <2>4. QED
    BY <2>3
<1>15. NumberInv'
  BY <1>1, <1>11, <1>13, <1>14 DEF CfgInvariant, NumberInv, Numbers, InRpo
<1>16. QED
  BY <1>12, <1>15

LEMMA AddPredsStep ==
  ASSUME TypeOK, TypeOK', CfgInvariant, AddPreds
  PROVE  PredsInv'
<1> DEFINE r == rpo[i]
<1>1. /\ pc = "edges" /\ pc' = "edges" /\ i' = i + 1 /\ rpo' = rpo /\ succ' = succ
      /\ preds' = [b \in Blocks |-> IF IsSuccOf(b, r) THEN Append(preds[b], r) ELSE preds[b]]
      /\ i \in 1 .. Len(rpo) /\ Len(rpo) \in Nat /\ i \in Nat
  BY LenProperties DEF AddPreds, TypeOK
<1>2. r \in Blocks /\ \A b \in Blocks : preds[b] \in Seq(Blocks)
  BY <1>1, ElementOfSeq DEF TypeOK
<1>3. i' \in 1 .. Len(rpo') + 1
  BY <1>1
<1>4. ASSUME NEW j \in 1 .. i - 1
      PROVE  rpo[j] # r /\ j \in Numbers
  <2>1. j \in Numbers /\ i \in Numbers
    BY <1>1 DEF Numbers
  <2>2. index[rpo[j]] = j - 1 /\ index[r] = i - 1
    BY <1>1, <2>1 DEF CfgInvariant, NumberInv, Numbered
  <2>3. j - 1 # i - 1
    BY <1>1
  <2>4. QED
    BY <2>1, <2>2, <2>3
<1> HIDE DEF r
<1>5. ASSUME NEW b \in Blocks
      PROVE  /\ \A k \in 1 .. Len(preds'[b]) :
                  \E j \in 1 .. i : preds'[b][k] = rpo[j] /\ IsSuccOf(b, rpo[j])
             /\ \A j \in 1 .. i : IsSuccOf(b, rpo[j]) =>
                  \E k \in 1 .. Len(preds'[b]) : preds'[b][k] = rpo[j]
             /\ \A j, k \in 1 .. Len(preds'[b]) : preds'[b][j] = preds'[b][k] => j = k
  <2> DEFINE n == Len(preds[b])
  <2>1. /\ \A k \in 1 .. n :
             \E j \in 1 .. i - 1 : preds[b][k] = rpo[j] /\ IsSuccOf(b, rpo[j])
        /\ \A j \in 1 .. i - 1 : IsSuccOf(b, rpo[j]) =>
             \E k \in 1 .. n : preds[b][k] = rpo[j]
        /\ \A j, k \in 1 .. n : preds[b][j] = preds[b][k] => j = k
    BY <1>1 DEF CfgInvariant, PredsInv
  <2>2. n \in Nat
    BY <1>2, LenProperties
  <2>3. i \in 1 .. i /\ \A j \in 1 .. i : j = i \/ j \in 1 .. i - 1
    BY <1>1
  <2>4. \A j \in 1 .. i - 1 : j \in 1 .. i
    BY <1>1
  <2>5. rpo[i] = r
    BY DEF r
  <2>6. CASE ~ IsSuccOf(b, r)
    <3>1. preds'[b] = preds[b]
      BY <1>1, <2>6
    <3>2. QED
      BY <2>1, <2>3, <2>4, <2>5, <2>6, <3>1
  <2>7. CASE IsSuccOf(b, r)
    <3>1. /\ Len(preds'[b]) = n + 1
          /\ \A k \in 1 .. n : preds'[b][k] = preds[b][k]
          /\ preds'[b][n + 1] = r
      <4>1. preds'[b] = Append(preds[b], r)
        BY <1>1, <2>7
      <4>2. QED
        BY <1>2, <4>1, AppendProperties
    <3> HIDE DEF n
    <3>2. /\ \A k \in 1 .. n + 1 : k = n + 1 \/ k \in 1 .. n
          /\ n + 1 \in 1 .. n + 1 /\ \A k \in 1 .. n : k \in 1 .. n + 1
      BY <2>2
    <3>3. \A k \in 1 .. n : preds[b][k] # r
      BY <1>4, <2>1
    <3>4. \A k \in 1 .. n + 1 :
            \E j \in 1 .. i : preds'[b][k] = rpo[j] /\ IsSuccOf(b, rpo[j])
      BY <2>1, <2>3, <2>4, <2>5, <2>7, <3>1, <3>2
    <3>5. \A j \in 1 .. i : IsSuccOf(b, rpo[j]) =>
            \E k \in 1 .. n + 1 : preds'[b][k] = rpo[j]
      BY <2>1, <2>3, <2>5, <3>1, <3>2
    <3>6. \A j, k \in 1 .. n + 1 : preds'[b][j] = preds'[b][k] => j = k
      BY <2>1, <3>1, <3>2, <3>3
    <3>7. QED
      BY <3>1, <3>4, <3>5, <3>6
  <2>8. QED
    BY <2>6, <2>7
<1>6. i' - 1 = i
  BY <1>1
<1>7. \A b, j : IsSuccOf(b, rpo[j])' <=> IsSuccOf(b, rpo[j])
  BY <1>1, SameEdges
<1>8. 1 .. i' - 1 = 1 .. i
  BY <1>6
<1>9. rpo' = rpo /\ pc' = "edges"
  BY <1>1
<1>10. ASSUME NEW b \in Blocks
       PROVE  \A k \in 1 .. Len(preds'[b]) :
                \E j \in 1 .. i' - 1 : preds'[b][k] = rpo'[j] /\ IsSuccOf(b, rpo[j])'
  BY <1>5, <1>7, <1>8, <1>9
<1>11. ASSUME NEW b \in Blocks, NEW j \in 1 .. i' - 1, IsSuccOf(b, rpo[j])'
       PROVE  \E k \in 1 .. Len(preds'[b]) : preds'[b][k] = rpo'[j]
  <2>1. j \in 1 .. i
    BY <1>8
  <2>2. IsSuccOf(b, rpo[j])
    BY <1>7, <1>11
  <2>3. PICK k \in 1 .. Len(preds'[b]) : preds'[b][k] = rpo[j]
    BY <1>5, <2>1, <2>2
  <2>4. QED
    BY <1>9, <2>3
<1>12. QED
  BY <1>3, <1>5, <1>9, <1>10, <1>11 DEF PredsInv

-----------------------------------------------------------------------------
(* The invariant *)

LEMMA InvariantInit == Init => CfgInvariant
<1> SUFFICES ASSUME Init
             PROVE  CfgInvariant
  OBVIOUS
<1>1. pc = "reset" /\ stack = <<>> /\ calling = NULL
  BY DEF Init
<1>2. QED
  BY <1>1, TypeInit DEF CfgInvariant, MarkInv, PathInv, TriedInv, CallInv, OrderInv,
     SoundInv, NumberInv, DropInv, PredsInv, IdleInv, Searching, Numbered

LEMMA InvariantStep == CfgInvariant /\ [Next]_vars => CfgInvariant'
<1> SUFFICES ASSUME CfgInvariant, [Next]_vars
             PROVE  CfgInvariant'
  OBVIOUS
<1>0. TypeOK /\ TypeOK' /\ SearchInv /\ IdleInv
  BY TypeStep DEF CfgInvariant, SearchInv
<1>1. CASE Reset
  <2>1. pc' = "search" /\ SearchInv'
    BY <1>0, <1>1, SearchReset DEF Reset
  <2>2. NumberInv' /\ DropInv' /\ PredsInv' /\ IdleInv'
    BY <1>1, <2>1 DEF Reset, NumberInv, DropInv, PredsInv, IdleInv, Numbered, Searching
  <2>3. QED
    BY <1>0, <2>1, <2>2 DEF CfgInvariant, SearchInv
<1>2. ASSUME ReturnVisited \/ Enter \/ CallNext \/ Record
      PROVE  CfgInvariant'
  <2>1. SearchInv'
    BY <1>0, <1>2, SearchReturnVisited, SearchEnter, SearchCallNext, SearchRecord
  <2>2. pc = "search" /\ pc' = "search" /\ UNCHANGED <<preds, index>>
    BY <1>2 DEF ReturnVisited, Enter, CallNext, Record
  <2>3. NumberInv' /\ DropInv' /\ PredsInv' /\ IdleInv'
    BY <2>2 DEF CfgInvariant, NumberInv, DropInv, PredsInv, IdleInv, Numbered, Searching
  <2>4. QED
    BY <1>0, <2>1, <2>3 DEF CfgInvariant, SearchInv
<1>3. ASSUME pc' # "search"
      PROVE  SearchInv'
  BY <1>3 DEF SearchInv, MarkInv, PathInv, TriedInv, CallInv, OrderInv, SoundInv, Searching
<1>4. CASE Number
  <2>1. pc = "search" /\ pc' = "drop" /\ stack' = <<>> /\ calling' = NULL /\ preds' = preds
    BY <1>4 DEF Number
  <2>2. DropInv' /\ PredsInv' /\ IdleInv'
    BY <2>1 DEF CfgInvariant, DropInv, PredsInv, IdleInv, Searching
  <2>3. QED
    BY <1>0, <1>3, <1>4, <2>1, <2>2, NumberStep DEF CfgInvariant, SearchInv
<1>5. CASE DropUnreached
  <2>1. /\ pc = "drop" /\ pc' = "edges" /\ i' = 1
        /\ UNCHANGED <<stack, calling, preds, rpo>>
    BY <1>5 DEF DropUnreached
  <2>2. IdleInv'
    BY <1>0, <2>1 DEF IdleInv, Searching
  <2>3. PredsInv'
    <3>1. \A b \in Blocks : preds'[b] = <<>> /\ Len(preds'[b]) = 0
      BY <2>1, EmptySeq DEF CfgInvariant, PredsInv
    <3>2. Len(rpo) \in Nat
      BY <1>0, LenProperties DEF TypeOK
    <3>3. QED
      BY <2>1, <3>1, <3>2 DEF PredsInv
  <2>4. QED
    BY <1>0, <1>3, <1>5, <2>1, <2>2, <2>3, DropStep DEF CfgInvariant, SearchInv
<1>6. CASE AddPreds
  <2>1. /\ pc = "edges" /\ pc' = "edges"
        /\ UNCHANGED <<stack, calling, rpo, index, succ>>
    BY <1>6 DEF AddPreds
  <2>2. IdleInv' /\ DropInv'
    BY <1>0, <2>1 DEF CfgInvariant, IdleInv, Searching, DropInv, InRpo, Numbers
  <2>3. NumberInv'
    BY <2>1, SameEdges DEF CfgInvariant, NumberInv, Numbered, Numbers, InRpo
  <2>4. QED
    BY <1>0, <1>3, <1>6, <2>1, <2>2, <2>3, AddPredsStep DEF CfgInvariant, SearchInv
<1>7. CASE EndAnalysis
  <2>1. /\ pc = "edges" /\ pc' = "done" /\ i > Len(rpo)
        /\ UNCHANGED <<stack, calling, rpo, index, succ, preds, i>>
    BY <1>7 DEF EndAnalysis
  <2>2. IdleInv' /\ DropInv'
    BY <1>0, <2>1 DEF CfgInvariant, IdleInv, Searching, DropInv, InRpo, Numbers
  <2>3. NumberInv'
    BY <2>1, SameEdges DEF CfgInvariant, NumberInv, Numbered, Numbers, InRpo
  <2>4. PredsInv'
    <3>1. i = Len(rpo) + 1
      BY <1>0, <2>1, LenProperties DEF CfgInvariant, PredsInv, TypeOK
    <3>2. QED
      BY <2>1, <3>1, SameEdges DEF CfgInvariant, PredsInv
  <2>5. QED
    BY <1>0, <1>3, <2>1, <2>2, <2>3, <2>4 DEF CfgInvariant, SearchInv
<1>8. CASE Edit
  <2>1. pc = "done" /\ pc' = "reset" /\ UNCHANGED <<stack, calling>>
    BY <1>8 DEF Edit
  <2>2. NumberInv' /\ DropInv' /\ PredsInv' /\ IdleInv'
    BY <1>0, <2>1 DEF NumberInv, DropInv, PredsInv, IdleInv, Numbered, Searching
  <2>3. QED
    BY <1>0, <1>3, <2>1, <2>2 DEF CfgInvariant, SearchInv
<1>9. CASE UNCHANGED vars
  <2>1. UNCHANGED <<succ, visited, preds, index, rpo, pc, calling, stack, order, i>>
    BY <1>9 DEF vars
  <2>2. MarkInv' /\ TriedInv' /\ IdleInv'
    BY <2>1 DEF CfgInvariant, MarkInv, TriedInv, IdleInv, Searching, OnStack, Recorded
  <2>3. PathInv' /\ CallInv'
    BY <2>1, SameEdges DEF CfgInvariant, PathInv, CallInv, Searching, Recorded, Top
  <2>4. OrderInv' /\ SoundInv'
    BY <2>1, SameEdges DEF CfgInvariant, OrderInv, SoundInv, Searching
  <2>5. NumberInv' /\ DropInv'
    BY <2>1, SameEdges DEF CfgInvariant, NumberInv, Numbered, Numbers, InRpo, DropInv
  <2>6. PredsInv'
    BY <2>1, SameEdges DEF CfgInvariant, PredsInv
  <2>7. QED
    BY <1>0, <2>2, <2>3, <2>4, <2>5, <2>6 DEF CfgInvariant
<1>10. QED
  BY <1>1, <1>2, <1>4, <1>5, <1>6, <1>7, <1>8, <1>9 DEF Next

-----------------------------------------------------------------------------
(* The theorems *)

(***************************************************************************)
(* The inductive invariant of ir_analyze_cfg: the active calls form a path *)
(* from the entry and every recorded block hangs below one of them or      *)
(* below a later record, in the first analysis and in every later one.     *)
(***************************************************************************)
THEOREM SearchInvariance == Spec => []CfgInvariant
<1>1. Init => CfgInvariant
  BY InvariantInit
<1>2. CfgInvariant /\ [Next]_vars => CfgInvariant'
  BY InvariantStep
<1>3. QED
  BY <1>1, <1>2, PTL DEF Spec

(* Type correctness of every reachable state, for all functions and edits. *)
THEOREM SearchTyped == Spec => []TypeOK
<1>1. CfgInvariant => TypeOK
  BY DEF CfgInvariant
<1>2. QED
  BY <1>1, SearchInvariance, PTL

(* What the result says, in terms of the variables. *)
LEMMA ResultFacts ==
  ASSUME CfgInvariant, pc = "done"
  PROVE  /\ RpoBlocks(Result) = {b \in Blocks : InRpo(b)}
         /\ Len(rpo) \in Nat /\ \A k \in Numbers : rpo[k] \in Blocks
         /\ \A b \in Blocks : PredSet(Result, b) =
                                {x \in Blocks : InRpo(x) /\ IsSuccOf(b, x)}
<1>1. Len(rpo) \in Nat /\ \A k \in Numbers : rpo[k] \in Blocks
  BY LenProperties, ElementOfSeq DEF CfgInvariant, TypeOK, Numbers
<1>2. RpoBlocks(Result) = {b \in Blocks : InRpo(b)}
  <2>1. RpoBlocks(Result) = {rpo[k + 1] : k \in 0 .. Len(rpo) - 1}
    BY DEF RpoBlocks, Result
  <2>2. \A k \in 0 .. Len(rpo) - 1 : k + 1 \in Numbers
    BY <1>1 DEF Numbers
  <2>3. \A k \in Numbers : k - 1 \in 0 .. Len(rpo) - 1 /\ k - 1 + 1 = k
    BY <1>1 DEF Numbers
  <2>4. QED
    BY <1>1, <2>1, <2>2, <2>3 DEF InRpo
<1>3. ASSUME NEW b \in Blocks
      PROVE  PredSet(Result, b) = {x \in Blocks : InRpo(x) /\ IsSuccOf(b, x)}
  <2>1. PredSet(Result, b) = {preds[b][k] : k \in 1 .. Len(preds[b])}
    BY DEF PredSet, Result
  <2>2. 1 .. i - 1 = Numbers
    BY <1>1 DEF CfgInvariant, PredsInv, Numbers
  <2>3. /\ \A k \in 1 .. Len(preds[b]) :
             \E j \in Numbers : preds[b][k] = rpo[j] /\ IsSuccOf(b, rpo[j])
        /\ \A j \in Numbers : IsSuccOf(b, rpo[j]) =>
             \E k \in 1 .. Len(preds[b]) : preds[b][k] = rpo[j]
    BY <2>2 DEF CfgInvariant, PredsInv
  <2>4. QED
    BY <1>1, <2>1, <2>3 DEF InRpo
<1>4. QED
  BY <1>1, <1>2, <1>3

(***************************************************************************)
(* Whatever the function and however often it was edited before, what      *)
(* ir_analyze_cfg leaves behind satisfies every assumption the dominator   *)
(* pass makes about its graph.                                             *)
(***************************************************************************)
THEOREM EstablishesAnalysed == Spec => []HandsOverAnalysed
<1>1. CfgInvariant => HandsOverAnalysed
  <2> SUFFICES ASSUME CfgInvariant, pc = "done"
               PROVE  Analysed(Result)
    BY DEF HandsOverAnalysed
  <2> DEFINE g == Result
             n == Len(rpo)
  <2>1. /\ g.count = n
        /\ g.rpo = [k \in 0 .. n - 1 |-> rpo[k + 1]]
        /\ g.index = index /\ g.preds = preds
    BY DEF Result
  <2>2. /\ n \in Nat /\ n >= 1 /\ rpo[1] = Entry
        /\ \A k \in Numbers : rpo[k] \in Blocks /\ index[rpo[k]] = k - 1
        /\ \A b \in Blocks : ~ InRpo(b) => index[b] = -1
        /\ index \in [Blocks -> Int] /\ preds \in [Blocks -> Seq(Blocks)]
    BY ResultFacts DEF CfgInvariant, NumberInv, Numbered, TypeOK
  <2>3. RpoBlocks(g) = {b \in Blocks : InRpo(b)}
    BY ResultFacts
  <2>4. \A b \in Blocks : PredSet(g, b) = {x \in Blocks : InRpo(x) /\ IsSuccOf(b, x)}
    BY ResultFacts
  <2> HIDE DEF g, n
  <2>5. \A k \in 0 .. n - 1 : k + 1 \in Numbers /\ g.rpo[k] = rpo[k + 1]
    BY <2>1, <2>2 DEF Numbers, n
  <2>6. /\ g.count \in Nat \ {0}
        /\ g.rpo \in [0 .. g.count - 1 -> Blocks]
        /\ g.rpo[0] = Entry
    BY <2>1, <2>2, <2>5
  <2>7. \A k \in 0 .. g.count - 1 : g.index[g.rpo[k]] = k
    BY <2>1, <2>2, <2>5
  <2>8. \A b \in Blocks \ RpoBlocks(g) : g.index[b] = -1
    BY <2>1, <2>2, <2>3
  <2>9. \A b \in Blocks : PredSet(g, b) \subseteq RpoBlocks(g)
    BY <2>3, <2>4
  <2>10. \A b \in Blocks : PredSet(g, b) # {} => b \in RpoBlocks(g)
    <3>1. \A k \in Numbers : \A y \in Blocks : IsSuccOf(y, rpo[k]) => InRpo(y)
      BY DEF CfgInvariant, NumberInv, Numbered, InRpo
    <3>2. QED
      BY <2>3, <2>4, <3>1 DEF InRpo
  <2>11. ASSUME NEW b \in RpoBlocks(g) \ {Entry}
         PROVE  \E q \in PredSet(g, b) : g.index[q] < g.index[b]
    <3>1. PICK k \in Numbers : rpo[k] = b
      BY <2>3 DEF InRpo
    <3>2. k \in 2 .. n
      BY <2>2, <2>11, <3>1 DEF Numbers, n
    <3>3. PICK j \in 1 .. k - 1 : IsSuccOf(b, rpo[j])
      BY <3>1, <3>2 DEF CfgInvariant, NumberInv, Numbered, n
    <3>4. j \in Numbers /\ j - 1 < k - 1
      BY <2>2, <3>2 DEF Numbers, n
    <3>5. rpo[j] \in PredSet(g, b)
      BY <2>2, <2>3, <2>4, <3>3, <3>4 DEF InRpo
    <3>6. QED
      BY <2>1, <2>2, <3>1, <3>4, <3>5
  <2>12. PredSet(g, Entry) = {}
    <3>1. \A x \in Blocks : ~ IsSuccOf(Entry, x)
      BY SuccsAreBlocks DEF CfgInvariant
    <3>2. QED
      BY <2>4, <3>1, EntryIsBlock
  <2>13. QED
    BY <2>1, <2>2, <2>6, <2>7, <2>8, <2>9, <2>10, <2>11, <2>12 DEF Analysed, g
<1>2. QED
  BY <1>1, SearchInvariance, PTL

(***************************************************************************)
(* The analysis neither invents nor loses a block or an edge: the numbered *)
(* blocks are exactly those control reaches, the predecessor arrays hold   *)
(* exactly the edges that are left, each once.                             *)
(***************************************************************************)
THEOREM GraphExact == Spec => []FindsTheGraph
<1>1. CfgInvariant => FindsTheGraph
  <2> SUFFICES ASSUME CfgInvariant, pc = "done"
               PROVE  /\ RpoBlocks(Result) = Reachable(SuccEdges)
                      /\ Edges(Result) = SuccEdges
                      /\ \A b \in Blocks : \A j, k \in 1 .. Len(preds[b]) :
                           preds[b][j] = preds[b][k] => j = k
    BY DEF FindsTheGraph
  <2> DEFINE R == {b \in Blocks : InRpo(b)}
  <2>1. /\ RpoBlocks(Result) = R
        /\ \A b \in Blocks : PredSet(Result, b) =
                               {x \in Blocks : InRpo(x) /\ IsSuccOf(b, x)}
    BY ResultFacts
  <2>2. R \subseteq Reachable(SuccEdges)
    BY DEF CfgInvariant, NumberInv, Numbered, InRpo
  <2>3. Reachable(SuccEdges) \subseteq R
    <3>1. Entry \in R
      BY EntryIsBlock, ResultFacts DEF CfgInvariant, NumberInv, Numbered, InRpo, Numbers
    <3>2. \A x \in R, y \in Blocks : IsSuccOf(y, x) => y \in R
      BY DEF CfgInvariant, NumberInv, Numbered, InRpo
    <3>3. ClosedAvoiding(SuccEdges, NULL, R)
      BY <3>2 DEF ClosedAvoiding, SuccEdges
    <3>4. QED
      BY <3>1, <3>3 DEF Reachable, ReachableAvoiding
  <2>4. \A x \in Blocks, b \in Blocks : IsSuccOf(b, x) => InRpo(x)
    <3>1. SUFFICES ASSUME NEW x \in Blocks, NEW b \in Blocks, ~ InRpo(x)
                   PROVE  ~ IsSuccOf(b, x)
      OBVIOUS
    <3>2. Len(succ[x]) = 0
      BY <3>1, EmptySeq DEF CfgInvariant, DropInv
    <3>3. QED
      BY <3>2 DEF IsSuccOf
  <2>5. Edges(Result) = SuccEdges
    BY <2>1, <2>4 DEF Edges, SuccEdges
  <2>6. QED
    BY <2>1, <2>2, <2>3, <2>5 DEF CfgInvariant, PredsInv
<1>2. QED
  BY <1>1, SearchInvariance, PTL

(***************************************************************************)
(* An edge from a block to one numbered no later always closes a cycle, in *)
(* every function: the order is a reverse postorder.                       *)
(***************************************************************************)
THEOREM OrderIsReversePostorder == Spec => []BackEdgesCloseCycles
<1>1. CfgInvariant => BackEdgesCloseCycles
  <2> SUFFICES ASSUME CfgInvariant, pc = "done",
                      NEW e \in Edges(Result), index[e[1]] >= index[e[2]]
               PROVE  Reaches(e[2], e[1])
    BY DEF BackEdgesCloseCycles
  <2>1. e[1] \in Blocks /\ e[2] \in Blocks /\ e[1] \in PredSet(Result, e[2])
    BY DEF Edges
  <2>2. InRpo(e[1]) /\ IsSuccOf(e[2], e[1])
    BY <2>1, ResultFacts
  <2>3. PICK k \in Numbers : rpo[k] = e[1]
    BY <2>2 DEF InRpo
  <2>4. PICK j \in Numbers : rpo[j] = e[2] /\ (j > k \/ Reaches(e[2], rpo[k]))
    BY <2>1, <2>2, <2>3 DEF CfgInvariant, NumberInv, Numbered
  <2>5. index[e[1]] = k - 1 /\ index[e[2]] = j - 1
    BY <2>3, <2>4 DEF CfgInvariant, NumberInv, Numbered
  <2>6. ~ (j > k)
    BY <2>5, ResultFacts DEF Numbers
  <2>7. QED
    BY <2>3, <2>4, <2>6
<1>2. QED
  BY <1>1, SearchInvariance, PTL

-----------------------------------------------------------------------------
(* No block stands twice in order, also once the search is over. *)
OrderOnce == \A j, k \in 1 .. Len(order) : order[j] = order[k] => j = k

LEMMA OrderOnceStep ==
  ASSUME CfgInvariant, CfgInvariant', OrderOnce, [Next]_vars
  PROVE  OrderOnce'
<1>1. CASE Record
  <2>1. Searching'
    BY <1>1 DEF Record, Searching
  <2>2. QED
    BY <2>1 DEF CfgInvariant, MarkInv, OrderOnce
<1>2. CASE Reset
  <2>1. Len(order') = 0
    BY <1>2, EmptySeq DEF Reset
  <2>2. QED
    BY <2>1 DEF OrderOnce
<1>3. CASE ~ Record /\ ~ Reset
  <2>1. order' = order
    BY <1>3 DEF Next, vars, ReturnVisited, Enter, CallNext, Number, DropUnreached,
                AddPreds, EndAnalysis, Edit
  <2>2. QED
    BY <2>1 DEF OrderOnce
<1>4. QED
  BY <1>1, <1>2, <1>3

(***************************************************************************)
(* postorder() never writes past the block_count entries order was         *)
(* allocated with, whatever the edges of the function are.                 *)
(***************************************************************************)
THEOREM OrderAlwaysFits == Spec => []OrderFits
<1>1. Init => OrderOnce
  BY EmptySeq DEF Init, OrderOnce
<1>2. CfgInvariant /\ CfgInvariant' /\ OrderOnce /\ [Next]_vars => OrderOnce'
  BY OrderOnceStep
<1>3. ASSUME TypeOK, OrderOnce PROVE OrderFits
  <2> DEFINE D == 1 .. Len(order)
  <2>1. /\ order \in [D -> Blocks] /\ Len(order) \in Nat
        /\ IsFiniteSet(D) /\ Cardinality(D) = Len(order)
    <3>1. order \in Seq(Blocks) /\ Len(order) \in Nat
      BY <1>3, LenProperties DEF TypeOK
    <3>2. order \in [D -> Blocks]
      BY <3>1, LenProperties
    <3>3. IsFiniteSet(D) /\ Cardinality(D) = IF 1 > Len(order) THEN 0 ELSE Len(order) - 1 + 1
      BY <3>1, FS_Interval
    <3>4. QED
      BY <3>1, <3>2, <3>3
  <2>2. Cardinality(Blocks) \in Nat
    BY BlocksFinite, FS_CardinalityType
  <2>3. ~ \E j, k \in D : j # k /\ order[j] = order[k]
    BY <1>3 DEF OrderOnce
  <2>4. ~ Cardinality(Blocks) < Cardinality(D)
    BY <2>1, <2>3, BlocksFinite, FS_PigeonHole, Zenon
  <2>5. QED
    BY <2>1, <2>2, <2>4 DEF OrderFits
<1>4. QED
  BY SearchInvariance, SearchTyped, <1>1, <1>2, <1>3, PTL DEF Spec
=============================================================================
