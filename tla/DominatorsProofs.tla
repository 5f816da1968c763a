-------------------------- MODULE DominatorsProofs --------------------------
(***************************************************************************)
(* Proofs about the dominator pass, for every set of blocks and every      *)
(* analysed graph: the intersection walk never follows a null pointer, and *)
(* the finished idom pointers answer dominance exactly.                    *)
(*                                                                         *)
(* Then, why the sweeps end and what is left when they have: a store to    *)
(* idom only ever moves the parent of a block towards the entry.  The      *)
(* candidate is the lowest block above all the predecessors seen           *)
(* (LowestInv), whatever is above all of them was already above the parent *)
(* stored before (MeetingInv), and this survives the stores to other       *)
(* blocks, because what the sweep has changed since it last saw a block    *)
(* lies before the one it stands on (LagInv).  ir_compute_frontiers then   *)
(* records exactly the dominance frontiers, each member once: FrontierInv  *)
(* says of every moment what has been recorded, for the merge points that  *)
(* are done, and for the one at hand the blocks the runner has passed.     *)
(***************************************************************************)
EXTENDS DominatorsInv, TLAPS, WellFoundedInduction

(* A non-empty set of numbers has a least one. *)
LEMMA Least ==
  ASSUME NEW T \in SUBSET Nat, T # {}
  PROVE  \E m \in T : \A k \in T : m <= k
<1>1. IsWellFoundedOn(OpToRel(<, Nat), Nat)
  BY NatLessThanWellFounded
<1>2. PICK x \in T : \A y \in T : ~ (<<y, x>> \in OpToRel(<, Nat))
  BY <1>1, WFMin
<1>3. \A y \in T : ~ (y < x)
  BY <1>2 DEF OpToRel
<1>4. QED
  BY <1>3

-----------------------------------------------------------------------------
(* Reachability and dominance in a flow graph *)

(* Control reaches the entry unless the entry itself is avoided. *)
LEMMA ReachEntry ==
  ASSUME NEW E, NEW a, a # Entry
  PROVE  Entry \in ReachableAvoiding(E, a)
BY EntryIsBlock DEF ReachableAvoiding

(* Reachability follows every edge that does not enter the avoided block. *)
LEMMA ReachStep ==
  ASSUME NEW E, NEW a, NEW x \in ReachableAvoiding(E, a), NEW y \in Blocks,
         <<x, y>> \in E, y # a
  PROVE  y \in ReachableAvoiding(E, a)
<1>1. x \in Blocks
  BY DEF ReachableAvoiding
<1>2. SUFFICES ASSUME NEW S \in SUBSET Blocks,
                      Entry # a => Entry \in S,
                      ClosedAvoiding(E, a, S)
               PROVE  y \in S
  BY DEF ReachableAvoiding
<1>3. x \in S
  BY <1>2 DEF ReachableAvoiding
<1>4. QED
  BY <1>2, <1>3 DEF ClosedAvoiding

(* Nothing outside a closed set is reachable. *)
LEMMA ReachLeast ==
  ASSUME NEW E, NEW a, NEW S \in SUBSET Blocks,
         Entry # a => Entry \in S, ClosedAvoiding(E, a, S)
  PROVE  ReachableAvoiding(E, a) \subseteq S
BY DEF ReachableAvoiding

(* A dominator of a block other than the block dominates its predecessors. *)
LEMMA PredDominated ==
  ASSUME NEW E, NEW a, NEW q \in Blocks, NEW y \in Blocks,
         <<q, y>> \in E, Dominates(E, a, y), a # y
  PROVE  Dominates(E, a, q)
BY ReachStep DEF Dominates

(* The entry is dominated by itself only. *)
LEMMA EntryDominated ==
  ASSUME NEW E, NEW a, Dominates(E, a, Entry)
  PROVE  a = Entry
BY ReachEntry DEF Dominates

-----------------------------------------------------------------------------
(* Analysed graphs *)

(* rpo and index are inverse to each other on the reachable blocks. *)
LEMMA IndexFacts ==
  ASSUME NEW g, Analysed(g)
  PROVE  /\ Entry \in RpoBlocks(g) /\ g.index[Entry] = 0
         /\ RpoBlocks(g) \subseteq Blocks
         /\ \A x \in RpoBlocks(g) : /\ g.index[x] \in 0 .. g.count - 1
                                    /\ g.rpo[g.index[x]] = x
         /\ \A x \in RpoBlocks(g) \ {Entry} : g.index[x] > 0
<1>1. /\ g.count \in Nat \ {0}
      /\ g.rpo \in [0 .. g.count - 1 -> Blocks] /\ g.rpo[0] = Entry
      /\ \A k \in 0 .. g.count - 1 : g.index[g.rpo[k]] = k
  BY DEF Analysed
<1>2. 0 \in 0 .. g.count - 1
  BY <1>1
<1>3. Entry \in RpoBlocks(g) /\ g.index[Entry] = 0
  BY <1>1, <1>2 DEF RpoBlocks
<1>4. RpoBlocks(g) \subseteq Blocks
  BY <1>1 DEF RpoBlocks
<1>5. ASSUME NEW x \in RpoBlocks(g)
      PROVE  g.index[x] \in 0 .. g.count - 1 /\ g.rpo[g.index[x]] = x
  BY <1>1 DEF RpoBlocks
<1>6. ASSUME NEW x \in RpoBlocks(g) \ {Entry} PROVE g.index[x] > 0
  BY <1>1, <1>5
<1>7. QED
  BY <1>3, <1>4, <1>5, <1>6

(* Every listed predecessor is a reachable block with an edge to here. *)
LEMMA PredFacts ==
  ASSUME NEW g, Analysed(g), NEW y \in Blocks, NEW q \in PredSet(g, y)
  PROVE  /\ q \in RpoBlocks(g) /\ q \in Blocks
         /\ y \in RpoBlocks(g) \ {Entry}
         /\ <<q, y>> \in Edges(g)
<1>1. q \in RpoBlocks(g) /\ q \in Blocks /\ y \in RpoBlocks(g)
  BY IndexFacts DEF Analysed
<1>2. y # Entry
  BY DEF Analysed
<1>3. QED
  BY <1>1, <1>2 DEF Edges

(* A dominator is numbered no later than what it dominates. *)
LEMMA DomOrder ==
  ASSUME NEW g, Analysed(g), NEW a \in RpoBlocks(g), NEW y \in RpoBlocks(g),
         Dominates(Edges(g), a, y)
  PROVE  g.index[a] <= g.index[y]
<1> DEFINE Low == {z \in RpoBlocks(g) :
                     Dominates(Edges(g), a, z) /\ g.index[z] < g.index[a]}
           T == {g.index[z] : z \in Low}
<1>1. SUFFICES ASSUME g.index[y] < g.index[a] PROVE FALSE
  BY IndexFacts
<1>2. T # {} /\ T \in SUBSET Nat
  <2>1. y \in Low
    BY <1>1
  <2>2. \A z \in RpoBlocks(g) : g.index[z] \in Nat
    <3>1. g.count \in Nat
      BY DEF Analysed
    <3>2. QED
      BY <3>1, IndexFacts
  <2>3. QED
    BY <2>1, <2>2
<1>3. PICK m \in T : \A k \in T : m <= k
  BY <1>2, Least
<1>4. PICK z \in Low : g.index[z] = m
  BY <1>3
<1>5. z # a /\ z \in RpoBlocks(g) /\ z \in Blocks
  BY <1>4, IndexFacts
<1>6. z # Entry
  BY <1>4, <1>5, EntryDominated
<1>7. PICK q \in PredSet(g, z) : g.index[q] < g.index[z]
  BY <1>5, <1>6 DEF Analysed
<1>8. Dominates(Edges(g), a, q) /\ q \in RpoBlocks(g)
  BY <1>4, <1>5, <1>7, PredFacts, PredDominated
<1>9. q \in Low
  BY <1>4, <1>5, <1>7, <1>8, IndexFacts
<1>10. g.index[q] \in T
  BY <1>9
<1>11. g.index[q] \in Int /\ g.index[z] \in Int
  BY <1>5, <1>8, IndexFacts
<1>12. QED
  BY <1>3, <1>4, <1>7, <1>10, <1>11

(* What strictly dominates a block dominates each of its predecessors. *)
LEMMA PredKeeps ==
  ASSUME NEW g, Analysed(g), NEW y \in Blocks, NEW q \in PredSet(g, y)
  PROVE  KeepsDominators(g, y, q)
BY PredFacts, PredDominated, IndexFacts DEF KeepsDominators, Dom

-----------------------------------------------------------------------------
(* Walking parent pointers *)

LEMMA AncestorStep ==
  ASSUME NEW f, NEW x \in Blocks, NEW y \in Blocks,
         Ancestor(f, x, y), f[x] # NULL
  PROVE  Ancestor(f, f[x], y)
BY DEF Ancestor, ClosedUnder

LEMMA AncestorTrans ==
  ASSUME NEW f, NEW x, NEW y, NEW z, Ancestor(f, x, y), Ancestor(f, y, z)
  PROVE  Ancestor(f, x, z)
BY DEF Ancestor

(* A proper ancestor of a block is an ancestor of the block's parent. *)
LEMMA AncestorParent ==
  ASSUME NEW f, NEW x \in Blocks, NEW y \in Blocks,
         x # y, Ancestor(f, x, y), f[y] \in Blocks
  PROVE  Ancestor(f, x, f[y])
<1>1. SUFFICES ASSUME NEW S \in SUBSET Blocks, f[y] \in S, ClosedUnder(f, S)
               PROVE  x \in S
  BY DEF Ancestor
<1>2. ClosedUnder(f, S \cup {y})
  BY <1>1 DEF ClosedUnder
<1>3. x \in S \cup {y}
  BY <1>2 DEF Ancestor
<1>4. QED
  BY <1>3

(* Cutting a loop at the root changes no walk. *)
LEMMA AncestorCut ==
  ASSUME NEW f \in [Blocks -> Blocks \cup {NULL}], f[Entry] = Entry,
         NEW x, NEW y, Ancestor(f, x, y)
  PROVE  Ancestor([f EXCEPT ![Entry] = NULL], x, y)
<1> DEFINE h == [f EXCEPT ![Entry] = NULL]
<1>1. \A S \in SUBSET Blocks : ClosedUnder(h, S) => ClosedUnder(f, S)
  BY EntryIsBlock DEF ClosedUnder
<1>2. QED
  BY <1>1 DEF Ancestor

-----------------------------------------------------------------------------
(* The invariant *)

(* The block the sweep stands on and its predecessor array. *)
LEMMA BlockFacts ==
  ASSUME TypeOK, i < graph.count
  PROVE  /\ Block \in Blocks /\ Block \in RpoBlocks(graph)
         /\ graph.index[Block] = i
         /\ PredCount \in Nat
         /\ \A k \in 1 .. PredCount :
              graph.preds[Block][k] \in PredSet(graph, Block)
<1>1. i \in 0 .. graph.count - 1
  BY DEF TypeOK, Analysed
<1>2. Block \in Blocks /\ Block \in RpoBlocks(graph) /\ graph.index[Block] = i
  BY <1>1 DEF TypeOK, Analysed, Block, RpoBlocks
<1>3. graph.preds[Block] \in Seq(Blocks)
  BY <1>2 DEF TypeOK, Analysed
<1>4. QED
  BY <1>2, <1>3 DEF PredCount, PredSet

(* The k-th entry of the current predecessor array is a reachable block. *)
LEMMA PredAt ==
  ASSUME TypeOK, i < graph.count, NEW k \in 1 .. PredCount
  PROVE  /\ graph.preds[Block][k] \in PredSet(graph, Block)
         /\ graph.preds[Block][k] \in RpoBlocks(graph)
         /\ graph.preds[Block][k] \in Blocks
<1>1. Block \in Blocks /\ graph.preds[Block][k] \in PredSet(graph, Block)
  BY BlockFacts
<1>2. QED
  BY <1>1, PredFacts DEF TypeOK

(* While sweeping, what is numbered below i has a dominator. *)
LEMMA ProcessedPrefix ==
  ASSUME SweepInv, Sweeping, NEW q \in RpoBlocks(graph), graph.index[q] < i
  PROVE  idom[q] # NULL
<1>1. Analysed(graph) /\ i \in Int
  BY DEF SweepInv, TypeOK
<1>2. graph.index[q] \in 0 .. i - 1 /\ graph.rpo[graph.index[q]] = q
  BY <1>1, IndexFacts
<1>3. QED
  BY <1>2 DEF SweepInv, PrefixInv

LEMMA InitInv == Init => SweepInv
<1> SUFFICES ASSUME Init PROVE SweepInv
  OBVIOUS
<1>1. Analysed(graph)
  BY GraphsAnalysed DEF Init
<1>2. TypeOK
  BY <1>1, EntryIsBlock, NullIsNoBlock DEF Init, TypeOK, Pcs, Analysed
<1>3. TreeInv
  BY <1>1, IndexFacts DEF Init, TreeInv
<1>4. EntryInv
  BY EntryIsBlock, NullIsNoBlock DEF Init, EntryInv
<1>5. PrefixInv
  BY <1>1, EntryIsBlock, NullIsNoBlock DEF Init, PrefixInv, Analysed
<1>6. QED
  BY <1>2, <1>3, <1>4, <1>5
     DEF Init, SweepInv, FixInv, CandidateInv, MeetInv, SettledInv, ClimbInv, Sweeping

(* The candidate a store is made of: there is one, it is numbered before   *)
(* the block, and every processed predecessor is below it.                 *)
LEMMA StoreFacts ==
  ASSUME SweepInv, StoreIdom
  PROVE  /\ Analysed(graph) /\ graph.count \in Nat /\ i \in Nat \ {0} /\ i < graph.count
         /\ Block \in Blocks /\ Block \in RpoBlocks(graph) \ {Entry}
         /\ graph.index[Block] = i
         /\ newIdom \in Blocks /\ newIdom \in RpoBlocks(graph) /\ idom[newIdom] # NULL
         /\ newIdom # NULL /\ graph.index[newIdom] < i
         /\ KeepsDominators(graph, Block, newIdom)
         /\ \A q \in PredSet(graph, Block) : idom[q] # NULL => Ancestor(idom, newIdom, q)
         /\ idom' = [idom EXCEPT ![Block] = newIdom]
         /\ graph' = graph /\ pc = "preds" /\ pc' = "block" /\ i' = i + 1
<1> USE DEF StoreIdom
<1>1. /\ TypeOK /\ i < graph.count /\ Analysed(graph) /\ i \in 1 .. graph.count
      /\ graph.count \in Nat /\ p \in Nat
  BY DEF SweepInv, CandidateInv, TypeOK, PrefixInv, Sweeping, Analysed
<1>2. /\ Block \in Blocks /\ Block \in RpoBlocks(graph)
      /\ graph.index[Block] = i /\ Block # Entry
  BY <1>1, BlockFacts, IndexFacts
<1>3. PICK q \in PredSet(graph, Block) : graph.index[q] < i
  BY <1>1, <1>2 DEF Analysed
<1>4. PICK k \in 1 .. PredCount : graph.preds[Block][k] = q
  BY <1>3 DEF PredSet, PredCount
<1>5. p > PredCount /\ PredCount \in Nat /\ k \in 1 .. p - 1
  BY <1>1, <1>4, BlockFacts
<1>6. idom[q] # NULL
  <2>1. q \in RpoBlocks(graph)
    BY <1>1, <1>2, <1>3, PredFacts
  <2>2. QED
    BY <1>3, <2>1, ProcessedPrefix DEF Sweeping
<1>7. newIdom # NULL
  BY <1>4, <1>5, <1>6 DEF SweepInv, CandidateInv
<1>8. /\ newIdom \in Blocks /\ idom[newIdom] # NULL
      /\ KeepsDominators(graph, Block, newIdom)
      /\ graph.index[newIdom] < i
      /\ newIdom \in RpoBlocks(graph)
  BY <1>3, <1>4, <1>5, <1>7 DEF SweepInv, CandidateInv, TypeOK, TreeInv
<1>9. ASSUME NEW r \in PredSet(graph, Block), idom[r] # NULL
      PROVE  Ancestor(idom, newIdom, r)
  <2>1. PICK m \in 1 .. PredCount : graph.preds[Block][m] = r
    BY DEF PredSet, PredCount
  <2>2. m \in 1 .. p - 1
    BY <1>1, <1>5
  <2>3. QED
    BY <1>7, <1>9, <2>1, <2>2 DEF SweepInv, CandidateInv
<1>10. idom' = [idom EXCEPT ![Block] = newIdom]
  BY <1>1, <1>2, <1>7 DEF SweepInv, TypeOK
<1>11. QED
  BY <1>1, <1>2, <1>7, <1>8, <1>9, <1>10

(* Storing a dominator that the processed predecessors agree on. *)
LEMMA StoreStep ==
  ASSUME SweepInv, StoreIdom
  PROVE  SweepInv'
<1> USE DEF StoreIdom
<1>1. /\ TypeOK /\ i < graph.count /\ Analysed(graph) /\ i \in 1 .. graph.count
      /\ graph.count \in Nat /\ p \in Nat
  BY DEF SweepInv, CandidateInv, TypeOK, PrefixInv, Sweeping, Analysed
<1>2. /\ Block \in Blocks /\ Block \in RpoBlocks(graph)
      /\ graph.index[Block] = i /\ Block # Entry
  BY StoreFacts
<1>3. newIdom # NULL
  BY StoreFacts
<1>4. /\ newIdom \in Blocks /\ idom[newIdom] # NULL
      /\ KeepsDominators(graph, Block, newIdom)
      /\ graph.index[newIdom] < i
      /\ newIdom \in RpoBlocks(graph)
  BY StoreFacts
<1>5. graph' = graph /\ pc = "preds" /\ pc' = "block" /\ i' = i + 1
  OBVIOUS
<1>6. idom' = [idom EXCEPT ![Block] = newIdom]
  BY StoreFacts
<1>7. TypeOK'
  <2>1. idom' \in [Blocks -> Blocks \cup {NULL}] /\ changed' \in BOOLEAN
    BY <1>1, <1>4, <1>6 DEF TypeOK
  <2>2. QED
    BY <1>1, <2>1 DEF TypeOK, Pcs
<1>8. TreeInv'
  BY <1>1, <1>2, <1>4, <1>5, <1>6 DEF SweepInv, TreeInv, TypeOK
<1>9. EntryInv'
  <2>1. idom'[Entry] = Entry
    BY <1>1, <1>2, <1>5, <1>6, EntryIsBlock DEF SweepInv, EntryInv, Sweeping, TypeOK
  <2>2. \A x \in Blocks : idom'[x] # NULL => idom'[idom'[x]] # NULL
    BY <1>1, <1>2, <1>3, <1>4, <1>5, <1>6 DEF SweepInv, EntryInv, Sweeping, TypeOK
  <2>3. QED
    BY <2>1, <2>2 DEF EntryInv
<1>10. PrefixInv'
  <2>1. \A j \in 0 .. i : graph.rpo[j] \in Blocks
    <3>1. graph.rpo \in [0 .. graph.count - 1 -> Blocks]
      BY <1>1 DEF Analysed
    <3>2. QED
      BY <1>1, <3>1
  <2>2. ASSUME NEW j \in 0 .. i PROVE idom'[graph.rpo[j]] # NULL
    <3>1. CASE graph.rpo[j] = Block
      BY <1>1, <1>2, <1>3, <1>6, <3>1 DEF TypeOK
    <3>2. CASE graph.rpo[j] # Block
      <4>1. j \in 0 .. i - 1
        BY <1>1, <3>2 DEF Block
      <4>2. idom[graph.rpo[j]] # NULL
        BY <4>1 DEF SweepInv, PrefixInv, Sweeping
      <4>3. QED
        BY <1>1, <1>6, <2>1, <3>2, <4>2 DEF TypeOK
    <3>3. QED
      BY <3>1, <3>2
  <2>3. QED
    BY <1>1, <1>5, <2>2 DEF PrefixInv
<1>11. FixInv'
  <2>1. CASE idom[Block] # newIdom
    BY <1>3, <2>1 DEF FixInv
  <2>2. CASE idom[Block] = newIdom
    <3>1. idom' = idom /\ changed' = changed
      BY <2>2
    <3>2. SUFFICES ASSUME ~ changed, NEW j \in 1 .. i,
                          NEW r \in PredSet(graph, graph.rpo[j]),
                          idom[r] # NULL
                   PROVE  Ancestor(idom, idom[graph.rpo[j]], r)
      BY <1>1, <1>5, <3>1 DEF FixInv
    <3>3. CASE j < i
      BY <1>1, <1>5, <3>2, <3>3 DEF SweepInv, FixInv, Sweeping
    <3>4. CASE j = i
      BY <2>2, <3>2, <3>4, StoreFacts DEF Block
    <3>5. QED
      BY <1>1, <3>3, <3>4
  <2>3. QED
    BY <2>1, <2>2
<1>12. QED
  BY <1>5, <1>7, <1>8, <1>9, <1>10, <1>11
     DEF SweepInv, CandidateInv, MeetInv, SettledInv, ClimbInv, Sweeping

(* Accepting a processed predecessor, alone or met with the candidate. *)
LEMMA FirstPredStep ==
  ASSUME SweepInv, FirstPred
  PROVE  SweepInv'
<1> USE DEF FirstPred
<1>1. /\ TypeOK /\ i < graph.count /\ Analysed(graph) /\ p \in Nat \ {0}
      /\ Block \in Blocks /\ p \in 1 .. PredCount
  <2>1. TypeOK /\ i < graph.count /\ Analysed(graph) /\ p \in Nat \ {0}
    BY DEF SweepInv, CandidateInv, TypeOK
  <2>2. QED
    BY <2>1, BlockFacts
<1>2. /\ Pred \in PredSet(graph, Block) /\ Pred \in Blocks
      /\ KeepsDominators(graph, Block, Pred)
  BY <1>1, BlockFacts, PredFacts, PredKeeps DEF Pred
<1>3. TypeOK'
  BY <1>1, <1>2 DEF TypeOK
<1>4. CandidateInv'
  <2>1. ASSUME NEW k \in 1 .. p, k <= PredCount
        PROVE  LET q == graph.preds[Block][k] IN
                 /\ idom[q] # NULL => Ancestor(idom, Pred, q)
                 /\ graph.index[q] < i => graph.index[Pred] < i
    <3>1. CASE k = p
      BY <3>1 DEF Ancestor, Pred
    <3>2. CASE k # p
      <4>1. idom[graph.preds[Block][k]] = NULL
        BY <1>1, <2>1, <3>2 DEF SweepInv, CandidateInv
      <4>2. k \in 1 .. PredCount
        BY <2>1
      <4>3. graph.preds[Block][k] \in RpoBlocks(graph)
        BY <1>1, <4>2, PredAt
      <4>4. ~ (graph.index[graph.preds[Block][k]] < i)
        BY <4>1, <4>3, ProcessedPrefix DEF Sweeping
      <4>5. QED
        BY <4>1, <4>4
    <3>3. QED
      BY <3>1, <3>2
  <2>2. /\ newIdom' = Pred /\ newIdom' # NULL /\ idom' = idom /\ i' = i
        /\ graph' = graph /\ p' = p + 1 /\ idom[Pred] # NULL
    BY <1>2, NullIsNoBlock
  <2>3. Block' = Block /\ PredCount' = PredCount
    BY <2>2 DEF Block, PredCount
  <2>4. ASSUME NEW k \in 1 .. p' - 1, k <= PredCount
        PROVE  k \in 1 .. p
    BY <1>1, <2>2, <2>4
  <2>5. QED
    BY <1>1, <1>2, <2>1, <2>2, <2>3, <2>4 DEF CandidateInv
<1>5. QED
  BY <1>3, <1>4
     DEF SweepInv, TreeInv, EntryInv, PrefixInv, FixInv, MeetInv, SettledInv,
         ClimbInv, Sweeping

LEMMA MeetStep ==
  ASSUME SweepInv, Meet
  PROVE  SweepInv'
<1> USE DEF Meet
<1>1. /\ TypeOK /\ i < graph.count /\ Analysed(graph) /\ p \in Nat \ {0}
      /\ i \in Int /\ fa \in Blocks /\ fa = fb /\ fa # NULL
      /\ Block \in Blocks /\ p \in 1 .. PredCount
  <2>1. /\ TypeOK /\ i < graph.count /\ Analysed(graph) /\ p \in Nat \ {0}
        /\ i \in Int /\ fa \in Blocks /\ p <= PredCount
    BY DEF SweepInv, CandidateInv, MeetInv, TypeOK
  <2>2. QED
    BY <2>1, BlockFacts, NullIsNoBlock
<1>2. /\ newIdom # NULL /\ newIdom \in Blocks
      /\ Ancestor(idom, fa, Pred) /\ Ancestor(idom, fa, newIdom)
      /\ graph.index[fa] <= graph.index[Pred]
      /\ graph.index[fa] <= graph.index[newIdom]
      /\ idom[fa] # NULL /\ KeepsDominators(graph, Block, fa)
  BY <1>1 DEF SweepInv, MeetInv, TypeOK
<1>3. ASSUME NEW k \in 1 .. p, k <= PredCount
      PROVE  LET q == graph.preds[Block][k] IN
               /\ idom[q] # NULL => Ancestor(idom, fa, q)
               /\ graph.index[q] < i => graph.index[fa] < i
  <2>1. \A x \in Blocks : graph.index[x] \in Int
    BY <1>1 DEF Analysed
  <2>2. graph.preds[Block][k] \in Blocks
    <3>1. k \in 1 .. PredCount
      BY <1>3
    <3>2. QED
      BY <1>1, <3>1, PredAt
  <2>3. CASE k = p
    BY <1>1, <1>2, <2>1, <2>2, <2>3 DEF Pred
  <2>4. CASE k # p
    <3>1. LET q == graph.preds[Block][k] IN
            /\ idom[q] # NULL => Ancestor(idom, newIdom, q)
            /\ graph.index[q] < i => graph.index[newIdom] < i
      BY <1>1, <1>2, <1>3, <2>4 DEF SweepInv, CandidateInv
    <3>2. QED
      BY <1>1, <1>2, <2>1, <2>2, <3>1, AncestorTrans
  <2>5. QED
    BY <2>3, <2>4
<1>4. CandidateInv'
  <2>1. /\ newIdom' = fa /\ idom' = idom /\ i' = i
        /\ graph' = graph /\ p' = p + 1
    OBVIOUS
  <2>2. Block' = Block /\ PredCount' = PredCount
    BY <2>1 DEF Block, PredCount
  <2>3. ASSUME NEW k \in 1 .. p' - 1, k <= PredCount
        PROVE  k \in 1 .. p
    BY <1>1, <2>1, <2>3
  <2>4. QED
    BY <1>1, <1>2, <1>3, <2>1, <2>2, <2>3 DEF CandidateInv
<1>5. TypeOK'
  BY <1>1 DEF TypeOK, Pcs
<1>6. QED
  BY <1>4, <1>5
     DEF SweepInv, TreeInv, EntryInv, PrefixInv, FixInv, MeetInv, SettledInv,
         ClimbInv, Sweeping

(* An unprocessed predecessor constrains nothing yet. *)
LEMMA SkipPredStep ==
  ASSUME SweepInv, SkipPred
  PROVE  SweepInv'
<1> USE DEF SkipPred
<1>1. /\ TypeOK /\ i < graph.count /\ Analysed(graph) /\ p \in Nat \ {0}
      /\ Block \in Blocks /\ p \in 1 .. PredCount
  <2>1. TypeOK /\ i < graph.count /\ Analysed(graph) /\ p \in Nat \ {0}
    BY DEF SweepInv, CandidateInv, TypeOK
  <2>2. QED
    BY <2>1, BlockFacts
<1>2. Pred \in RpoBlocks(graph)
  BY <1>1, PredAt DEF Pred
<1>3. ~ (graph.index[Pred] < i)
  BY <1>2, ProcessedPrefix DEF Sweeping
<1>4. /\ newIdom' = newIdom /\ idom' = idom /\ i' = i /\ pc' = pc
      /\ graph' = graph /\ p' = p + 1 /\ Block' = Block /\ PredCount' = PredCount
  BY DEF Block, PredCount
<1>5. ASSUME NEW k \in 1 .. p' - 1, k <= PredCount
      PROVE  k = p \/ k \in 1 .. p - 1
  BY <1>1, <1>4, <1>5
<1>6. CandidateInv'
  <2>1. newIdom = NULL =>
          \A k \in 1 .. p' - 1 : k <= PredCount => idom[graph.preds[Block][k]] = NULL
    BY <1>5 DEF SweepInv, CandidateInv, Pred
  <2>2. newIdom # NULL =>
          \A k \in 1 .. p' - 1 : k <= PredCount =>
            LET q == graph.preds[Block][k] IN
              /\ idom[q] # NULL => Ancestor(idom, newIdom, q)
              /\ graph.index[q] < i => graph.index[newIdom] < i
    BY <1>3, <1>5 DEF SweepInv, CandidateInv, Pred
  <2>3. QED
    BY <1>4, <2>1, <2>2 DEF SweepInv, CandidateInv
<1>7. TypeOK'
  BY <1>1 DEF TypeOK
<1>8. QED
  BY <1>6, <1>7
     DEF SweepInv, TreeInv, EntryInv, PrefixInv, FixInv, MeetInv, SettledInv,
         ClimbInv, Sweeping

LEMMA StartIntersectStep ==
  ASSUME SweepInv, StartIntersect
  PROVE  SweepInv'
<1> USE DEF StartIntersect
<1>1. /\ TypeOK /\ i < graph.count /\ Analysed(graph)
      /\ Block \in Blocks /\ p \in 1 .. PredCount
  <2>1. TypeOK /\ i < graph.count /\ Analysed(graph) /\ p \in Nat \ {0}
    BY DEF SweepInv, CandidateInv, TypeOK
  <2>2. QED
    BY <2>1, BlockFacts
<1>2. /\ Pred \in PredSet(graph, Block) /\ Pred \in Blocks
      /\ KeepsDominators(graph, Block, Pred)
  BY <1>1, PredAt, PredKeeps DEF Pred
<1>3. /\ newIdom \in Blocks /\ idom[newIdom] # NULL
      /\ KeepsDominators(graph, Block, newIdom)
  BY <1>1 DEF SweepInv, CandidateInv, TypeOK
<1>4. /\ Block' = Block /\ PredCount' = PredCount /\ Pred' = Pred
      /\ graph' = graph /\ idom' = idom /\ fa' = Pred /\ fb' = newIdom
      /\ newIdom' = newIdom /\ p' = p
  BY DEF Block, PredCount, Pred
<1>5. /\ Ancestor(idom, Pred, Pred) /\ Ancestor(idom, newIdom, newIdom)
      /\ graph.index[Pred] <= graph.index[Pred]
      /\ graph.index[newIdom] <= graph.index[newIdom]
  BY <1>1, <1>2, <1>3 DEF Ancestor, Analysed
<1>6. MeetInv'
  BY <1>1, <1>2, <1>3, <1>4, <1>5 DEF MeetInv
<1>7. TypeOK'
  BY <1>1, <1>2, <1>3 DEF TypeOK, Pcs
<1>8. CandidateInv'
  BY <1>4 DEF SweepInv, CandidateInv
<1>9. QED
  BY <1>6, <1>7, <1>8
     DEF SweepInv, TreeInv, EntryInv, PrefixInv, FixInv, SettledInv, ClimbInv, Sweeping

(* The finger that moves stands below every dominator it must not lose. *)
LEMMA FingerStep ==
  ASSUME SweepInv, pc = "meet", NEW x \in {fa, fb}, NEW y \in {fa, fb},
         graph.index[x] > graph.index[y]
  PROVE  /\ idom[x] \in Blocks /\ idom[idom[x]] # NULL
         /\ graph.index[idom[x]] < graph.index[x]
         /\ KeepsDominators(graph, Block, idom[x])
<1>1. /\ Analysed(graph) /\ x \in Blocks /\ y \in Blocks
      /\ idom[x] # NULL /\ idom[y] # NULL
      /\ KeepsDominators(graph, Block, x) /\ KeepsDominators(graph, Block, y)
  BY DEF SweepInv, TypeOK, MeetInv
<1>2. /\ x \in RpoBlocks(graph) /\ y \in RpoBlocks(graph)
      /\ idom[x] \in RpoBlocks(graph)
  BY <1>1 DEF SweepInv, TreeInv
<1>3. x # Entry
  BY <1>1, <1>2, IndexFacts
<1>4. /\ graph.index[idom[x]] < graph.index[x]
      /\ KeepsDominators(graph, x, idom[x])
  BY <1>1, <1>3 DEF SweepInv, TreeInv
<1>5. idom[x] \in Blocks /\ idom[idom[x]] # NULL
  BY <1>1, <1>2, IndexFacts DEF SweepInv, EntryInv, Sweeping
<1>6. ASSUME NEW d \in RpoBlocks(graph), Dom(graph, d, Block), d # Block
      PROVE  Dom(graph, d, idom[x])
  <2>1. Dom(graph, d, x) /\ Dom(graph, d, y)
    BY <1>1, <1>6 DEF KeepsDominators
  <2>2. graph.index[d] <= graph.index[y]
    BY <1>1, <1>2, <2>1, DomOrder DEF Dom
  <2>3. d # x
    BY <1>1, <1>2, <2>2, IndexFacts
  <2>4. QED
    BY <1>4, <2>1, <2>3 DEF KeepsDominators
<1>7. QED
  BY <1>4, <1>5, <1>6 DEF KeepsDominators

LEMMA WalkStep ==
  ASSUME SweepInv, WalkA \/ WalkB
  PROVE  SweepInv'
<1>1. /\ TypeOK /\ Analysed(graph) /\ i < graph.count /\ pc = "meet" /\ pc' = pc
      /\ p <= PredCount /\ p \in 1 .. PredCount
  <2>1. /\ TypeOK /\ Analysed(graph) /\ i < graph.count /\ pc = "meet"
        /\ pc' = pc /\ p <= PredCount
    BY DEF SweepInv, TypeOK, MeetInv, CandidateInv, WalkA, WalkB
  <2>2. QED
    BY <2>1, BlockFacts DEF TypeOK
<1>2. /\ graph' = graph /\ idom' = idom /\ newIdom' = newIdom /\ p' = p /\ i' = i
      /\ Block' = Block /\ PredCount' = PredCount /\ Pred' = Pred
  BY DEF WalkA, WalkB, Block, PredCount, Pred
<1>3. /\ fa \in Blocks /\ fb \in Blocks /\ idom[fa] # NULL /\ idom[fb] # NULL
      /\ Pred \in Blocks /\ newIdom \in Blocks
      /\ \A x \in Blocks : graph.index[x] \in Int
  BY <1>1, PredAt DEF SweepInv, TypeOK, MeetInv, Analysed, Pred
<1>4. MeetInv' /\ fa' \in Blocks /\ fb' \in Blocks
  <2>1. CASE WalkA
    <3>1. fa' = idom[fa] /\ fb' = fb /\ graph.index[fa] > graph.index[fb]
      BY <2>1 DEF WalkA
    <3>2. /\ idom[fa] \in Blocks /\ idom[idom[fa]] # NULL
          /\ graph.index[idom[fa]] < graph.index[fa]
          /\ KeepsDominators(graph, Block, idom[fa])
      BY <1>1, <3>1, FingerStep
    <3>3. Ancestor(idom, idom[fa], Pred)
      BY <1>1, <1>3, AncestorStep DEF SweepInv, MeetInv
    <3>4. graph.index[idom[fa]] <= graph.index[Pred]
      BY <1>1, <1>3, <3>2 DEF SweepInv, MeetInv
    <3>5. QED
      BY <1>1, <1>2, <1>3, <3>1, <3>2, <3>3, <3>4 DEF SweepInv, MeetInv
  <2>2. CASE WalkB
    <3>1. fb' = idom[fb] /\ fa' = fa /\ graph.index[fb] > graph.index[fa]
      BY <2>2 DEF WalkB
    <3>2. /\ idom[fb] \in Blocks /\ idom[idom[fb]] # NULL
          /\ graph.index[idom[fb]] < graph.index[fb]
          /\ KeepsDominators(graph, Block, idom[fb])
      BY <1>1, <3>1, FingerStep
    <3>3. Ancestor(idom, idom[fb], newIdom)
      BY <1>1, <1>3, AncestorStep DEF SweepInv, MeetInv
    <3>4. graph.index[idom[fb]] <= graph.index[newIdom]
      BY <1>1, <1>3, <3>2 DEF SweepInv, MeetInv
    <3>5. QED
      BY <1>1, <1>2, <1>3, <3>1, <3>2, <3>3, <3>4 DEF SweepInv, MeetInv
  <2>3. QED
    BY <2>1, <2>2
<1>5. /\ changed' = changed /\ frontier' = frontier /\ runner' = runner
  BY DEF WalkA, WalkB
<1>6. TypeOK'
  BY <1>1, <1>2, <1>4, <1>5 DEF TypeOK
<1>7. CandidateInv'
  BY <1>1, <1>2 DEF SweepInv, CandidateInv
<1>8. QED
  BY <1>1, <1>2, <1>4, <1>5, <1>6, <1>7
     DEF SweepInv, TreeInv, EntryInv, PrefixInv, FixInv, SettledInv, ClimbInv, Sweeping

(* The sweep that changed nothing covered every block. *)
LEMMA FinishStep ==
  ASSUME SweepInv, FinishDominators
  PROVE  SweepInv'
<1> USE DEF FinishDominators
<1>1. /\ TypeOK /\ Analysed(graph) /\ Sweeping /\ i = graph.count
      /\ graph.count \in Nat \ {0} /\ idom[Entry] = Entry
      /\ idom \in [Blocks -> Blocks \cup {NULL}]
  BY DEF SweepInv, TypeOK, PrefixInv, EntryInv, Sweeping, Analysed
<1>2. /\ graph' = graph /\ idom' = [idom EXCEPT ![Entry] = NULL]
      /\ pc' = "merge" /\ i' = 0
  OBVIOUS
<1>3. TypeOK'
  <2>1. idom' \in [Blocks -> Blocks \cup {NULL}]
    BY <1>1, <1>2, EntryIsBlock
  <2>2. i' \in 0 .. graph.count
    BY <1>1, <1>2
  <2>3. QED
    BY <1>1, <1>2, <2>1, <2>2 DEF TypeOK, Pcs
<1>4. \A x \in Blocks : idom'[x] # NULL => x # Entry /\ idom'[x] = idom[x]
  BY <1>1, <1>2
<1>5. TreeInv'
  BY <1>2, <1>4 DEF SweepInv, TreeInv
<1>6. SettledInv'
  <2>1. idom'[Entry] = NULL
    BY <1>1, <1>2, EntryIsBlock
  <2>2. ASSUME NEW x \in RpoBlocks(graph) \ {Entry}
        PROVE  idom'[x] # NULL /\ \A q \in PredSet(graph, x) : Ancestor(idom', idom'[x], q)
    <3>1. /\ x \in Blocks /\ graph.index[x] \in 1 .. i - 1
          /\ graph.rpo[graph.index[x]] = x /\ idom'[x] = idom[x]
      BY <1>1, <1>2, IndexFacts
    <3>2. idom[x] # NULL
      BY <1>1, <3>1, ProcessedPrefix
    <3>3. ASSUME NEW q \in PredSet(graph, x) PROVE Ancestor(idom', idom[x], q)
      <4>1. q \in RpoBlocks(graph) /\ graph.index[q] < i
        <5>1. q \in RpoBlocks(graph)
          BY <1>1, <3>1, PredFacts
        <5>2. graph.index[q] \in 0 .. graph.count - 1
          BY <1>1, <5>1, IndexFacts
        <5>3. QED
          BY <1>1, <5>1, <5>2
      <4>2. idom[q] # NULL
        BY <1>1, <4>1, ProcessedPrefix
      <4>3. Ancestor(idom, idom[x], q)
        BY <1>1, <3>1, <4>2 DEF SweepInv, FixInv
      <4>4. QED
        <5>1. Ancestor([idom EXCEPT ![Entry] = NULL], idom[x], q)
          BY <1>1, <4>3, AncestorCut
        <5>2. QED
          BY <1>2, <5>1
    <3>4. QED
      BY <3>1, <3>2, <3>3
  <2>3. QED
    BY <1>2, <2>1, <2>2 DEF SettledInv
<1>7. QED
  BY <1>2, <1>3, <1>5, <1>6
     DEF SweepInv, EntryInv, PrefixInv, FixInv, CandidateInv, MeetInv, ClimbInv, Sweeping

(* Sweeping starts over, or moves on to the next block. *)
LEMMA SweepStep ==
  ASSUME SweepInv, StartSweep \/ EndSweep \/ NextBlock
  PROVE  SweepInv'
<1>1. /\ TypeOK /\ Analysed(graph) /\ graph.count \in Nat \ {0} /\ Sweeping
      /\ idom[Entry] = Entry /\ graph.rpo[0] = Entry
  BY DEF SweepInv, TypeOK, EntryInv, Analysed, Sweeping, StartSweep, EndSweep, NextBlock
<1>2. /\ graph' = graph /\ idom' = idom /\ Sweeping' /\ Sweeping
      /\ fa' = fa /\ fb' = fb /\ frontier' = frontier /\ runner' = runner
  BY DEF Sweeping, StartSweep, EndSweep, NextBlock
<1>3. TreeInv' /\ EntryInv' /\ SettledInv' /\ ClimbInv' /\ MeetInv'
  BY <1>2 DEF SweepInv, TreeInv, EntryInv, SettledInv, ClimbInv, MeetInv,
              StartSweep, EndSweep, NextBlock
<1>4. CASE StartSweep
  <2>1. i' = 1 /\ changed' = FALSE /\ pc' = "block" /\ p' = p /\ newIdom' = newIdom
    BY <1>4 DEF StartSweep
  <2>2. TypeOK'
    <3>1. i' \in 0 .. graph.count
      BY <1>1, <2>1
    <3>2. QED
      BY <1>1, <1>2, <2>1, <3>1 DEF TypeOK, Pcs
  <2>3. PrefixInv' /\ FixInv' /\ CandidateInv'
    BY <1>1, <1>2, <2>1, EntryIsBlock, NullIsNoBlock
       DEF PrefixInv, FixInv, CandidateInv
  <2>4. QED
    BY <1>3, <2>2, <2>3 DEF SweepInv
<1>5. CASE EndSweep
  BY <1>1, <1>2, <1>3, <1>5
     DEF EndSweep, SweepInv, TypeOK, Pcs, PrefixInv, FixInv, CandidateInv
<1>6. CASE NextBlock
  <2>1. /\ i' = i /\ changed' = changed /\ pc' = "preds" /\ p' = 1
        /\ newIdom' = NULL /\ i < graph.count /\ pc = "block"
    BY <1>6 DEF NextBlock
  <2>2. TypeOK'
    BY <1>1, <1>2, <2>1 DEF TypeOK, Pcs
  <2>3. PrefixInv' /\ FixInv'
    BY <1>1, <1>2, <2>1 DEF SweepInv, PrefixInv, FixInv
  <2>4. CandidateInv'
    BY <1>2, <2>1 DEF CandidateInv
  <2>5. QED
    BY <1>3, <2>2, <2>3, <2>4 DEF SweepInv
<1>7. QED
  BY <1>4, <1>5, <1>6

(* The frontier pass only reads the tree. *)
LEMMA FrontierStep ==
  ASSUME SweepInv,
         NotAMerge \/ StartRunner \/ Climb \/ EndRunner \/ EndMerge \/ Finish
  PROVE  SweepInv'
<1>1. /\ ~ Sweeping /\ ~ Sweeping' /\ graph' = graph /\ idom' = idom
      /\ pc' \notin {"preds", "meet"} /\ newIdom' = newIdom
      /\ fa' = fa /\ fb' = fb /\ changed' = changed
  BY DEF Sweeping, NotAMerge, StartRunner, Climb, EndRunner, EndMerge, Finish
<1>2. /\ TreeInv' /\ EntryInv' /\ PrefixInv' /\ FixInv' /\ CandidateInv'
      /\ MeetInv' /\ SettledInv'
  BY <1>1 DEF SweepInv, TreeInv, EntryInv, PrefixInv, FixInv, CandidateInv,
              MeetInv, SettledInv
<1>3. TypeOK /\ Analysed(graph) /\ graph.count \in Nat /\ i \in 0 .. graph.count
      /\ p \in Nat \ {0}
  BY DEF SweepInv, TypeOK, Analysed
<1>4. /\ pc' \in Pcs /\ i' \in 0 .. graph.count /\ p' \in Nat \ {0} /\ ClimbInv'
  <2>1. CASE StartRunner \/ Finish
    BY <1>1, <1>3, <2>1 DEF StartRunner, Finish, ClimbInv, Pcs
  <2>2. CASE Climb
    BY <1>1, <1>3, <2>2 DEF Climb, SweepInv, TypeOK, ClimbInv, Pcs
  <2>3. CASE NotAMerge \/ EndRunner \/ EndMerge
    BY <1>1, <1>3, <2>3 DEF NotAMerge, EndRunner, EndMerge, ClimbInv, Pcs
  <2>4. QED
    BY <2>1, <2>2, <2>3
<1>5. frontier' \in [Blocks -> Seq(Blocks)] /\ runner' \in Blocks \cup {NULL}
  <2>1. CASE StartRunner
    <3>1. p \in 1 .. PredCount
      BY <1>3, <2>1, BlockFacts DEF StartRunner
    <3>2. Pred \in Blocks
      BY <1>3, <2>1, <3>1, PredAt DEF StartRunner, Pred
    <3>3. QED
      BY <1>3, <2>1, <3>2 DEF StartRunner, TypeOK
  <2>2. CASE Climb
    <3>1. /\ runner \in Blocks /\ Block \in Blocks
          /\ frontier \in [Blocks -> Seq(Blocks)]
          /\ idom \in [Blocks -> Blocks \cup {NULL}]
      BY <1>3, <2>2, BlockFacts DEF Climb, SweepInv, ClimbInv, TypeOK
    <3>2. Append(frontier[runner], Block) \in Seq(Blocks)
      BY <3>1
    <3>3. QED
      BY <2>2, <3>1, <3>2 DEF Climb
  <2>3. CASE NotAMerge \/ EndRunner \/ EndMerge \/ Finish
    BY <1>3, <2>3 DEF NotAMerge, EndRunner, EndMerge, Finish, TypeOK
  <2>4. QED
    BY <2>1, <2>2, <2>3
<1>6. TypeOK'
  BY <1>1, <1>3, <1>4, <1>5 DEF TypeOK
<1>7. QED
  BY <1>2, <1>4, <1>6 DEF SweepInv

LEMMA StutterStep ==
  ASSUME SweepInv, UNCHANGED vars
  PROVE  SweepInv'
BY DEF vars, SweepInv, TypeOK, TreeInv, EntryInv, PrefixInv, FixInv, CandidateInv,
       MeetInv, SettledInv, ClimbInv, Sweeping, Block, Pred, PredCount

THEOREM Invariance == Spec => []SweepInv
<1>1. SweepInv /\ [Next]_vars => SweepInv'
  BY StoreStep, FirstPredStep, MeetStep, SkipPredStep, StartIntersectStep,
     WalkStep, FinishStep, SweepStep, FrontierStep, StutterStep DEF Next
<1>2. QED
  BY InitInv, <1>1, PTL DEF Spec

-----------------------------------------------------------------------------
(***************************************************************************)
(* The sweeping state of the pass stays well-formed: every index is within *)
(* func->rpo, every idom, finger and runner is a block or null.            *)
(***************************************************************************)
THEOREM Typed == Spec => []TypeOK
<1>1. SweepInv => TypeOK
  BY DEF SweepInv
<1>2. QED
  BY Invariance, <1>1, PTL

(***************************************************************************)
(* intersect() in dom.c never dereferences a null finger nor follows the   *)
(* idom of an unprocessed block.                                           *)
(***************************************************************************)
THEOREM NeverNull == Spec => []WalkNeverNull
<1>1. SweepInv => WalkNeverNull
  BY NullIsNoBlock DEF SweepInv, MeetInv, WalkNeverNull
<1>2. QED
  BY Invariance, <1>1, PTL

(* Up the settled tree there are only dominators ... *)
LEMMA AncestorDominates ==
  ASSUME SweepInv, ~ Sweeping, NEW x \in RpoBlocks(graph), NEW y \in RpoBlocks(graph),
         Ancestor(idom, x, y)
  PROVE  Dominates(Edges(graph), x, y)
<1> DEFINE S == {z \in Blocks : ~ Ancestor(idom, x, z)}
<1>1. Analysed(graph) /\ idom \in [Blocks -> Blocks \cup {NULL}] /\ x \in Blocks
  BY IndexFacts DEF SweepInv, TypeOK
<1>2. Entry # x => Entry \in S
  <2>1. idom[Entry] = NULL
    BY DEF SweepInv, SettledInv
  <2>2. ClosedUnder(idom, {Entry})
    BY <2>1 DEF ClosedUnder
  <2>3. QED
    BY <2>2, EntryIsBlock DEF Ancestor
<1>3. ClosedAvoiding(Edges(graph), x, S)
  <2>1. SUFFICES ASSUME NEW q \in S, NEW z \in Blocks,
                        <<q, z>> \in Edges(graph), z # x,
                        Ancestor(idom, x, z)
                 PROVE  FALSE
    BY DEF ClosedAvoiding
  <2>2. q \in PredSet(graph, z)
    BY <2>1 DEF Edges
  <2>3. z \in RpoBlocks(graph) \ {Entry}
    BY <1>1, <2>1, <2>2, PredFacts
  <2>4. idom[z] \in Blocks /\ Ancestor(idom, idom[z], q)
    BY <1>1, <2>2, <2>3 DEF SweepInv, SettledInv
  <2>5. Ancestor(idom, x, idom[z])
    BY <1>1, <2>1, <2>4, AncestorParent
  <2>6. Ancestor(idom, x, q)
    BY <2>4, <2>5, AncestorTrans
  <2>7. QED
    BY <2>1, <2>6
<1>4. ReachableAvoiding(Edges(graph), x) \subseteq S
  BY <1>2, <1>3, ReachLeast
<1>5. QED
  BY <1>4 DEF Dominates

(* ... and every dominator is met. *)
LEMMA DominatorIsAncestor ==
  ASSUME SweepInv, ~ Sweeping, NEW x \in RpoBlocks(graph), NEW y \in RpoBlocks(graph),
         Dominates(Edges(graph), x, y)
  PROVE  Ancestor(idom, x, y)
<1>1. /\ Analysed(graph) /\ idom \in [Blocks -> Blocks \cup {NULL}]
      /\ graph.count \in Nat
  BY DEF SweepInv, TypeOK, Analysed
<1>2. SUFFICES ASSUME NEW S \in SUBSET Blocks, y \in S, ClosedUnder(idom, S)
               PROVE  x \in S
  BY DEF Ancestor
<1> DEFINE Met == {z \in S \cap RpoBlocks(graph) : Dominates(Edges(graph), x, z)}
           T == {graph.index[z] : z \in Met}
<1>3. T \in SUBSET Nat /\ T # {}
  <2>1. y \in Met
    BY <1>2
  <2>2. \A z \in RpoBlocks(graph) : graph.index[z] \in Nat
    BY <1>1, IndexFacts
  <2>3. QED
    BY <2>1, <2>2
<1>4. PICK m \in T : \A k \in T : m <= k
  BY <1>3, Least
<1>5. PICK z \in Met : graph.index[z] = m
  BY <1>4
<1>6. CASE z = x
  BY <1>5, <1>6
<1>7. CASE z # x
  <2>1. z \in Blocks /\ z \in RpoBlocks(graph) /\ z # Entry
    BY <1>1, <1>5, <1>7, IndexFacts, EntryDominated
  <2>2. idom[z] # NULL
    BY <2>1 DEF SweepInv, SettledInv
  <2>3. /\ idom[z] \in RpoBlocks(graph)
        /\ graph.index[idom[z]] < graph.index[z]
        /\ KeepsDominators(graph, z, idom[z])
    BY <2>1, <2>2 DEF SweepInv, TreeInv
  <2>4. idom[z] \in S
    BY <1>2, <1>5, <2>2 DEF ClosedUnder
  <2>5. Dominates(Edges(graph), x, idom[z])
    BY <1>5, <1>7, <2>3 DEF KeepsDominators, Dom
  <2>6. graph.index[idom[z]] \in T
    BY <2>3, <2>4, <2>5
  <2>7. graph.index[idom[z]] \in Int /\ graph.index[z] \in Int
    BY <1>1, <2>1, <2>3, IndexFacts
  <2>8. QED
    BY <1>4, <1>5, <2>3, <2>6, <2>7
<1>8. QED
  BY <1>6, <1>7

(***************************************************************************)
(* When ir_compute_dominators has returned, ir_dominates(x, y) is true     *)
(* exactly of the pairs where every path from the entry to y crosses x.    *)
(***************************************************************************)
THEOREM DominanceExact == Spec => []DominatorsCorrect
<1>1. SweepInv => DominatorsCorrect
  <2>1. SUFFICES ASSUME SweepInv, pc = "done",
                        NEW x \in RpoBlocks(graph), NEW y \in RpoBlocks(graph)
                 PROVE  IrDominates(x, y) <=> Dominates(Edges(graph), x, y)
    BY DEF DominatorsCorrect
  <2>2. ~ Sweeping
    BY <2>1 DEF Sweeping
  <2>3. QED
    BY <2>1, <2>2, AncestorDominates, DominatorIsAncestor DEF IrDominates
<1>2. QED
  BY Invariance, <1>1, PTL

-----------------------------------------------------------------------------
(* Walking parent pointers *)

LEMMA AncestorSelf ==
  ASSUME NEW f, NEW x PROVE Ancestor(f, x, x)
BY DEF Ancestor

(* What is above the parent is above the block. *)
LEMMA AncestorUp ==
  ASSUME NEW f, NEW x, NEW y \in Blocks, f[y] # NULL, Ancestor(f, x, f[y])
  PROVE  Ancestor(f, x, y)
BY DEF Ancestor, ClosedUnder

(* A walk stays where the pointers cannot leave. *)
LEMMA AncestorWithin ==
  ASSUME NEW f, NEW P \in SUBSET Blocks, ClosedUnder(f, P), NEW y \in P,
         NEW x, Ancestor(f, x, y)
  PROVE  x \in P
BY DEF Ancestor

(* Two blocks met on one walk are met one before the other. *)
LEMMA AncestorsCompare ==
  ASSUME NEW f \in [Blocks -> Blocks \cup {NULL}], NEW x \in Blocks, NEW y \in Blocks,
         NEW z \in Blocks, Ancestor(f, x, z), Ancestor(f, y, z)
  PROVE  Ancestor(f, x, y) \/ Ancestor(f, y, x)
<1> DEFINE S == {w \in Blocks : Ancestor(f, x, w) \/ Ancestor(f, w, x)}
<1>1. ASSUME NEW w \in S, f[w] # NULL PROVE f[w] \in S
  <2>1. w \in Blocks /\ f[w] \in Blocks
    BY <1>1
  <2>2. CASE Ancestor(f, w, x)
    BY <1>1, <2>1, <2>2, AncestorStep
  <2>3. CASE Ancestor(f, x, w) /\ x # w
    BY <2>1, <2>3, AncestorParent
  <2>4. CASE x = w
    BY <1>1, <2>1, <2>4, AncestorStep, AncestorSelf
  <2>5. QED
    BY <1>1, <2>2, <2>3, <2>4
<1>2. ClosedUnder(f, S)
  BY <1>1 DEF ClosedUnder
<1>3. z \in S
  OBVIOUS
<1>4. y \in S
  BY <1>2, <1>3, AncestorWithin, Zenon
<1>5. QED
  BY <1>4

(* Walks that stay where f and g agree are the same. *)
LEMMA AncestorAgree ==
  ASSUME NEW f, NEW g, NEW P \in SUBSET Blocks, ClosedUnder(f, P),
         \A w \in P : g[w] = f[w], NEW x, NEW y \in P
  PROVE  Ancestor(f, x, y) <=> Ancestor(g, x, y)
<1>1. ASSUME NEW S \in SUBSET Blocks, y \in S, ClosedUnder(f, S)
      PROVE  y \in S \cap P /\ ClosedUnder(g, S \cap P)
  BY <1>1 DEF ClosedUnder
<1>2. ASSUME NEW S \in SUBSET Blocks, y \in S, ClosedUnder(g, S)
      PROVE  y \in S \cap P /\ ClosedUnder(f, S \cap P)
  BY <1>2 DEF ClosedUnder
<1>3. ASSUME Ancestor(f, x, y) PROVE Ancestor(g, x, y)
  BY <1>2, <1>3 DEF Ancestor
<1>4. ASSUME Ancestor(g, x, y) PROVE Ancestor(f, x, y)
  BY <1>1, <1>4 DEF Ancestor
<1>5. QED
  BY <1>3, <1>4

(* What is met above Low is met whatever the pointers into Low are. *)
LEMMA AncestorAbove ==
  ASSUME NEW f, NEW g, NEW Low \in SUBSET Blocks, ClosedUnder(f, Low),
         \A w \in Blocks \ Low : f[w] = NULL \/ f[w] = g[w] \/ f[w] \in Low,
         NEW x, x \notin Low, NEW y \in Blocks, Ancestor(f, x, y)
  PROVE  Ancestor(g, x, y)
<1>1. SUFFICES ASSUME NEW S \in SUBSET Blocks, y \in S, ClosedUnder(g, S)
               PROVE  x \in S
  BY DEF Ancestor
<1> DEFINE T == S \cup Low
<1>2. ClosedUnder(f, T) /\ T \in SUBSET Blocks /\ y \in T
  BY <1>1 DEF ClosedUnder
<1>3. x \in T
  BY <1>2, AncestorWithin, Zenon
<1>4. QED
  BY <1>3

-----------------------------------------------------------------------------
(* Walking up the tree *)

(* Going up, the numbers go down. *)
LEMMA AncestorOrder ==
  ASSUME SweepInv, NEW x, NEW y \in RpoBlocks(graph), Ancestor(idom, x, y)
  PROVE  /\ x \in RpoBlocks(graph) /\ x \in Blocks
         /\ x # y => graph.index[x] < graph.index[y]
         /\ graph.index[x] <= graph.index[y]
<1> DEFINE S == {y} \cup {z \in RpoBlocks(graph) : graph.index[z] < graph.index[y]}
<1>1. /\ Analysed(graph) /\ graph.count \in Nat
      /\ idom \in [Blocks -> Blocks \cup {NULL}]
  BY DEF SweepInv, TypeOK, Analysed
<1>2. \A z \in RpoBlocks(graph) : z \in Blocks /\ graph.index[z] \in Int
  BY <1>1, IndexFacts
<1>3. idom[Entry] \in {Entry, NULL}
  BY DEF SweepInv, EntryInv, SettledInv
<1>4. ASSUME NEW z \in S, idom[z] # NULL PROVE idom[z] \in S
  <2>1. z \in Blocks /\ z \in RpoBlocks(graph) /\ graph.index[z] <= graph.index[y]
    BY <1>2
  <2>2. CASE z = Entry
    BY <1>3, <1>4, <2>2
  <2>3. CASE z # Entry
    <3>1. idom[z] \in RpoBlocks(graph) /\ graph.index[idom[z]] < graph.index[z]
      BY <1>4, <2>1, <2>3 DEF SweepInv, TreeInv
    <3>2. QED
      BY <1>2, <2>1, <3>1
  <2>4. QED
    BY <2>2, <2>3
<1>5. ClosedUnder(idom, S) /\ S \in SUBSET Blocks /\ y \in S
  BY <1>2, <1>4 DEF ClosedUnder
<1>6. x \in S
  BY <1>5, AncestorWithin, Zenon
<1>7. QED
  BY <1>2, <1>6

(* While sweeping, what is above a processed block is processed. *)
LEMMA AncestorProcessed ==
  ASSUME SweepInv, Sweeping, NEW x, NEW y \in Blocks, idom[y] # NULL,
         Ancestor(idom, x, y)
  PROVE  x \in Blocks /\ idom[x] # NULL
<1> DEFINE S == {z \in Blocks : idom[z] # NULL}
<1>1. ClosedUnder(idom, S)
  BY DEF SweepInv, TypeOK, EntryInv, ClosedUnder
<1>2. x \in S
  BY <1>1, AncestorWithin, Zenon
<1>3. QED
  BY <1>2

(* The blocks numbered before k; no walk leaves them. *)
Before(k) == {w \in RpoBlocks(graph) : graph.index[w] < k}

LEMMA BeforeClosed ==
  ASSUME SweepInv, NEW k \in Int
  PROVE  Before(k) \in SUBSET Blocks /\ ClosedUnder(idom, Before(k))
<1>1. /\ Analysed(graph) /\ graph.count \in Nat
      /\ idom \in [Blocks -> Blocks \cup {NULL}]
  BY DEF SweepInv, TypeOK, Analysed
<1>2. \A z \in RpoBlocks(graph) : z \in Blocks /\ graph.index[z] \in Int
  BY <1>1, IndexFacts
<1>3. ASSUME NEW z \in Before(k), idom[z] # NULL PROVE idom[z] \in Before(k)
  <2>1. z \in Blocks /\ z \in RpoBlocks(graph) /\ graph.index[z] < k
    BY <1>2 DEF Before
  <2>2. Ancestor(idom, idom[z], z)
    BY <1>3, <2>1, AncestorSelf, AncestorStep
  <2>3. idom[z] \in RpoBlocks(graph) /\ graph.index[idom[z]] <= graph.index[z]
    BY <2>1, <2>2, AncestorOrder
  <2>4. QED
    BY <1>2, <2>1, <2>3 DEF Before
<1>4. QED
  BY <1>2, <1>3 DEF Before, ClosedUnder

-----------------------------------------------------------------------------
(* What a store changes: the walks that cross the block at i, from there on *)

LEMMA StoreBefore ==
  ASSUME SweepInv, StoreIdom
  PROVE  /\ Before(i) \in SUBSET Blocks /\ Block \notin Before(i) /\ newIdom \in Before(i)
         /\ ClosedUnder(idom, Before(i)) /\ ClosedUnder(idom', Before(i))
         /\ \A w \in Blocks \ {Block} : idom'[w] = idom[w]
         /\ idom'[Block] = newIdom
         /\ idom[Block] # NULL => idom[Block] \in Before(i)
         /\ idom \in [Blocks -> Blocks \cup {NULL}]
         /\ idom' \in [Blocks -> Blocks \cup {NULL}]
<1>1. idom \in [Blocks -> Blocks \cup {NULL}]
  BY DEF SweepInv, TypeOK
<1>2. /\ \A w \in Blocks \ {Block} : idom'[w] = idom[w]
      /\ idom'[Block] = newIdom
      /\ idom' \in [Blocks -> Blocks \cup {NULL}]
  BY <1>1, StoreFacts
<1>3. i \in Int /\ graph.index[Block] = i
  BY StoreFacts
<1>4. Block \notin Before(i) /\ newIdom \in Before(i)
  BY <1>3, StoreFacts DEF Before
<1>5. Before(i) \in SUBSET Blocks /\ ClosedUnder(idom, Before(i))
  BY <1>3, BeforeClosed
<1>6. ClosedUnder(idom', Before(i))
  BY <1>2, <1>4, <1>5 DEF ClosedUnder
<1>7. idom[Block] # NULL => idom[Block] \in Before(i)
  BY StoreFacts DEF SweepInv, TreeInv, Before
<1>8. QED
  BY <1>1, <1>2, <1>4, <1>5, <1>6, <1>7

(* Walks from before the block are as they were. *)
LEMMA StoreLow ==
  ASSUME SweepInv, StoreIdom, NEW z, NEW x \in Before(i)
  PROVE  Ancestor(idom, z, x) <=> Ancestor(idom', z, x)
BY StoreBefore, AncestorAgree

(* So is what a walk meets from the block on. *)
LEMMA StoreHigh ==
  ASSUME SweepInv, StoreIdom, NEW z, z \notin Before(i), NEW x \in Blocks
  PROVE  Ancestor(idom, z, x) <=> Ancestor(idom', z, x)
<1>1. ASSUME Ancestor(idom, z, x) PROVE Ancestor(idom', z, x)
  BY <1>1, StoreBefore, AncestorAbove
<1>2. ASSUME Ancestor(idom', z, x) PROVE Ancestor(idom, z, x)
  BY <1>2, StoreBefore, AncestorAbove
<1>3. QED
  BY <1>1, <1>2

(* A walk that crosses the block goes on at its new parent. *)
LEMMA StoreBelow ==
  ASSUME SweepInv, StoreIdom, NEW z \in Before(i), NEW x \in Blocks,
         Ancestor(idom, Block, x), Ancestor(idom', z, x)
  PROVE  Ancestor(idom, z, newIdom)
<1>1. /\ z \in Blocks /\ Block \in Blocks /\ newIdom \in Blocks
      /\ Block \notin Before(i) /\ newIdom \in Before(i)
      /\ idom'[Block] = newIdom /\ ClosedUnder(idom', Before(i))
      /\ idom' \in [Blocks -> Blocks \cup {NULL}]
  BY StoreBefore, StoreFacts
<1>2. Ancestor(idom', Block, x)
  BY <1>1, StoreHigh
<1>3. Ancestor(idom', z, Block) \/ Ancestor(idom', Block, z)
  BY <1>1, <1>2, AncestorsCompare
<1>4. ~ Ancestor(idom', Block, z)
  BY <1>1, StoreBefore, AncestorWithin, Zenon
<1>5. Ancestor(idom', z, newIdom)
  BY <1>1, <1>3, <1>4, AncestorParent
<1>6. QED
  BY <1>1, <1>5, StoreLow

(* The new parent is above the old one ... *)
LEMMA StoreClimbs ==
  ASSUME SweepInv, ClimbingInv, StoreIdom, idom[Block] # NULL
  PROVE  Ancestor(idom, newIdom, idom[Block])
<1>1. Sweeping
  BY DEF StoreIdom, Sweeping
<1>2. Block \in RpoBlocks(graph) \ {Entry} /\ newIdom \in Blocks
      /\ AboveAll(newIdom, Block)
  BY StoreFacts DEF AboveAll
<1>3. QED
  BY <1>1, <1>2 DEF ClimbingInv, MeetingInv

(* ... so no processed block gains an ancestor. *)
LEMMA StoreShrinks ==
  ASSUME SweepInv, ClimbingInv, StoreIdom, NEW z, NEW q \in Blocks,
         idom[q] # NULL, Ancestor(idom', z, q)
  PROVE  Ancestor(idom, z, q)
<1>1. Sweeping
  BY DEF StoreIdom, Sweeping
<1>2. SUFFICES ASSUME NEW S \in SUBSET Blocks, q \in S, ClosedUnder(idom, S)
               PROVE  z \in S
  BY DEF Ancestor
<1> DEFINE P == {w \in Blocks : idom[w] # NULL}
           T == S \cap P
<1>3. ClosedUnder(idom, P) /\ idom \in [Blocks -> Blocks \cup {NULL}]
  BY <1>1 DEF SweepInv, TypeOK, EntryInv, ClosedUnder
<1>4. ClosedUnder(idom, T)
  BY <1>2, <1>3 DEF ClosedUnder
<1>5. Block \in T => newIdom \in T
  <2>1. SUFFICES ASSUME Block \in T PROVE newIdom \in T
    OBVIOUS
  <2>2. idom[Block] \in T
    BY <1>4, <2>1 DEF ClosedUnder
  <2>3. Ancestor(idom, newIdom, idom[Block])
    BY <2>1, StoreClimbs
  <2>4. QED
    BY <1>4, <2>2, <2>3, AncestorWithin, Zenon
<1>6. ClosedUnder(idom', T)
  BY <1>4, <1>5, StoreBefore DEF ClosedUnder
<1>7. q \in T /\ T \in SUBSET Blocks
  BY <1>2
<1>8. z \in T
  BY <1>6, <1>7, AncestorWithin, Zenon
<1>9. QED
  BY <1>8

-----------------------------------------------------------------------------
(* The invariant *)

(* Above all predecessors after the store is above them all before it. *)
LEMMA StoreAboveAll ==
  ASSUME SweepInv, ClimbingInv, StoreIdom, NEW z, NEW x \in Blocks, AboveAll(z, x)'
  PROVE  \A q \in PredSet(graph, x) :
           idom[q] # NULL => Ancestor(idom', z, q) /\ Ancestor(idom, z, q)
<1>1. Analysed(graph) /\ graph' = graph /\ newIdom # NULL
  BY StoreFacts
<1>2. ASSUME NEW q \in PredSet(graph, x), idom[q] # NULL
      PROVE  Ancestor(idom', z, q) /\ Ancestor(idom, z, q)
  <2>1. q \in Blocks
    BY <1>1, PredFacts
  <2>2. idom'[q] # NULL
    BY <1>1, <1>2, <2>1, StoreBefore
  <2>3. Ancestor(idom', z, q)
    BY <1>1, <1>2, <2>2 DEF AboveAll
  <2>4. QED
    BY <1>2, <2>1, <2>3, StoreShrinks
<1>3. QED
  BY <1>2

(* The block stored to: what is above all its predecessors is above its    *)
(* new parent, because that is the lowest such block.                      *)
LEMMA MeetingHere ==
  ASSUME SweepInv, ClimbingInv, StoreIdom, NEW z \in Blocks, NEW x, x = Block,
         AboveAll(z, x)'
  PROVE  Ancestor(idom', z, idom'[x])
<1>1. /\ Analysed(graph) /\ Block \in Blocks /\ Block \in RpoBlocks(graph) \ {Entry}
      /\ newIdom # NULL /\ pc = "preds" /\ Sweeping
      /\ newIdom \in Before(i) /\ idom'[Block] = newIdom
      /\ graph.index[Block] = i
  BY StoreFacts, StoreBefore DEF Sweeping
<1>2. \A q \in PredSet(graph, Block) : idom[q] # NULL => Ancestor(idom, z, q)
  BY <1>1, StoreAboveAll
<1>3. ASSUME NEW k \in 1 .. p - 1, k <= PredCount
      PROVE  graph.preds[Block][k] \in PredSet(graph, Block)
  BY <1>3, BlockFacts DEF PredSet, PredCount
<1>4. Ancestor(idom, z, newIdom)
  BY <1>1, <1>2, <1>3 DEF ClimbingInv, LowestInv
<1>5. QED
  BY <1>1, <1>4, StoreLow

(* Another block: either its parent is not below the block stored to, or   *)
(* so are all its earlier predecessors.                                    *)
LEMMA MeetingThere ==
  ASSUME SweepInv, ClimbingInv, StoreIdom, NEW x \in RpoBlocks(graph) \ {Entry},
         x # Block, NEW z \in Blocks, idom[x] # NULL, AboveAll(z, x)'
  PROVE  Ancestor(idom', z, idom[x])
<1>1. /\ Analysed(graph) /\ Block \in Blocks /\ Block \in RpoBlocks(graph)
      /\ newIdom \in Before(i) /\ idom'[Block] = newIdom /\ Block \notin Before(i)
      /\ newIdom # NULL /\ i \in Int /\ graph.index[Block] = i /\ Sweeping
      /\ idom \in [Blocks -> Blocks \cup {NULL}]
  BY StoreFacts, StoreBefore DEF Sweeping
<1>2. x \in Blocks /\ idom[x] \in Blocks
  BY <1>1, IndexFacts
<1>3. AboveAll(z, x)
  BY <1>2, StoreAboveAll DEF AboveAll
<1>4. Ancestor(idom, z, idom[x])
  BY <1>1, <1>3 DEF ClimbingInv, MeetingInv
<1>5. CASE z \notin Before(i)
  BY <1>2, <1>4, <1>5, StoreHigh
<1>6. CASE z \in Before(i) /\ Ancestor(idom, Block, idom[x])
  <2>1. PICK q \in PredSet(graph, x) : graph.index[q] < graph.index[x]
    BY <1>1 DEF Analysed
  <2>2. q \in RpoBlocks(graph) /\ q \in Blocks
    BY <1>1, <1>2, PredFacts
  <2>3. idom[q] # NULL
    BY <1>1, <2>1, <2>2 DEF ClimbingInv, InOrderInv
  <2>4. Ancestor(idom, Block, q)
    BY <1>1, <1>6, <2>1 DEF ClimbingInv, LagInv
  <2>5. Ancestor(idom', z, q)
    BY <1>2, <2>3, StoreAboveAll
  <2>6. Ancestor(idom, z, newIdom)
    BY <1>6, <2>2, <2>4, <2>5, StoreBelow
  <2>7. Ancestor(idom', z, newIdom)
    BY <1>1, <2>6, StoreLow
  <2>8. Ancestor(idom', z, Block)
    BY <1>1, <2>7, AncestorUp
  <2>9. Ancestor(idom', Block, idom[x])
    BY <1>1, <1>2, <1>6, StoreHigh
  <2>10. QED
    BY <2>8, <2>9, AncestorTrans
<1>7. CASE ~ Ancestor(idom, Block, idom[x])
  <2> DEFINE P == {w \in Blocks : Ancestor(idom, w, idom[x])}
  <2>1. ClosedUnder(idom, P)
    BY <1>1, <1>2, AncestorStep DEF ClosedUnder
  <2>2. \A w \in P : idom'[w] = idom[w]
    BY <1>7, StoreBefore
  <2>3. idom[x] \in P
    BY <1>2, AncestorSelf
  <2>4. QED
    BY <1>4, <2>1, <2>2, <2>3, AncestorAgree
<1>8. QED
  BY <1>5, <1>6, <1>7

LEMMA ClimbingStore ==
  ASSUME SweepInv, ClimbingInv, StoreIdom
  PROVE  ClimbingInv'
<1>1. /\ Analysed(graph) /\ Block \in Blocks /\ Block \in RpoBlocks(graph) \ {Entry}
      /\ newIdom \in Before(i) /\ idom'[Block] = newIdom /\ Block \notin Before(i)
      /\ newIdom # NULL /\ i \in Nat /\ graph.index[Block] = i /\ Sweeping
      /\ graph.count \in Nat /\ graph' = graph /\ i' = i + 1 /\ pc' = "block"
      /\ \A w \in Blocks \ {Block} : idom'[w] = idom[w]
  BY StoreFacts, StoreBefore DEF Sweeping
<1>2. \A x \in RpoBlocks(graph) : x \in Blocks /\ graph.index[x] \in Nat
  BY <1>1, IndexFacts
<1>3. InOrderInv'
  <2>1. ASSUME NEW x \in RpoBlocks(graph), NEW y \in RpoBlocks(graph),
               idom'[x] # NULL, graph.index[y] < graph.index[x]
        PROVE  idom'[y] # NULL
    <3>1. CASE y = Block
      BY <1>1, <3>1
    <3>2. CASE y # Block /\ x = Block
      BY <1>1, <1>2, <2>1, <3>2, ProcessedPrefix
    <3>3. CASE y # Block /\ x # Block
      BY <1>1, <1>2, <2>1, <3>3 DEF ClimbingInv, InOrderInv
    <3>4. QED
      BY <3>1, <3>2, <3>3
  <2>2. QED
    BY <1>1, <2>1 DEF InOrderInv
<1>4. MeetingInv'
  <2>1. ASSUME NEW x \in RpoBlocks(graph) \ {Entry}, NEW z \in Blocks,
               idom'[x] # NULL, AboveAll(z, x)'
        PROVE  Ancestor(idom', z, idom'[x])
    <3>1. CASE x = Block
      BY <2>1, <3>1, MeetingHere
    <3>2. CASE x # Block
      BY <1>1, <1>2, <2>1, <3>2, MeetingThere
    <3>3. QED
      BY <3>1, <3>2
  <2>2. QED
    BY <1>1, <2>1 DEF MeetingInv
<1>5. LagInv'
  <2>1. SUFFICES ASSUME NEW x \in RpoBlocks(graph) \ {Entry}, NEW q \in PredSet(graph, x),
                        idom'[x] # NULL, graph.index[q] < graph.index[x]
                 PROVE  /\ graph.index[x] < i + 1 => Ancestor(idom', idom'[x], q)
                        /\ \A y \in RpoBlocks(graph) :
                             graph.index[y] >= i + 1 /\ Ancestor(idom', y, idom'[x])
                               => Ancestor(idom', y, q)
    BY <1>1 DEF LagInv
  <2>2. q \in RpoBlocks(graph) /\ q \in Blocks
    BY <1>1, <1>2, PredFacts
  <2>3. CASE x = Block
    <3>1. q \in Before(i) /\ idom[q] # NULL
      BY <1>1, <2>1, <2>2, <2>3, ProcessedPrefix DEF Before
    <3>2. Ancestor(idom', newIdom, q)
      BY <2>3, <3>1, StoreFacts, StoreLow
    <3>3. ASSUME NEW y \in RpoBlocks(graph), graph.index[y] >= i + 1,
                 Ancestor(idom', y, newIdom)
          PROVE  FALSE
      <4>1. y \in Before(i)
        BY <1>1, <3>3, StoreBefore, AncestorWithin, Zenon
      <4>2. QED
        BY <1>1, <1>2, <3>3, <4>1 DEF Before
    <3>4. QED
      BY <1>1, <2>3, <3>2, <3>3
  <2>4. CASE x # Block
    <3>1. idom'[x] = idom[x] /\ idom[x] # NULL /\ idom[x] \in Blocks
      BY <1>1, <1>2, <2>1, <2>4, StoreBefore
    <3>2. ASSUME graph.index[x] < i + 1 PROVE Ancestor(idom', idom[x], q)
      <4>1. graph.index[x] < i
        <5>1. graph.index[x] # i
          BY <1>1, <1>2, <2>4, IndexFacts
        <5>2. QED
          BY <1>1, <1>2, <3>2, <5>1
      <4>2. Ancestor(idom, idom[x], q)
        BY <1>1, <2>1, <3>1, <4>1 DEF ClimbingInv, LagInv
      <4>3. q \in Before(i)
        BY <1>1, <1>2, <2>1, <2>2, <4>1 DEF Before
      <4>4. QED
        BY <4>2, <4>3, StoreLow
    <3>3. ASSUME NEW y \in RpoBlocks(graph), graph.index[y] >= i + 1,
                 Ancestor(idom', y, idom[x])
          PROVE  Ancestor(idom', y, q)
      <4>1. y \notin Before(i) /\ graph.index[y] >= i
        BY <1>1, <1>2, <3>3 DEF Before
      <4>2. Ancestor(idom, y, idom[x])
        BY <3>1, <3>3, <4>1, StoreHigh
      <4>3. Ancestor(idom, y, q)
        BY <1>1, <2>1, <3>1, <4>1, <4>2 DEF ClimbingInv, LagInv
      <4>4. QED
        BY <2>2, <4>1, <4>3, StoreHigh
    <3>4. QED
      BY <3>1, <3>2, <3>3
  <2>5. QED
    BY <2>3, <2>4
<1>6. LowestInv'
  BY <1>1 DEF LowestInv
<1>7. QED
  BY <1>3, <1>4, <1>5, <1>6 DEF ClimbingInv

(* The other steps of a sweep read the tree. *)
LEMMA TreeUnmoved ==
  ASSUME ClimbingInv, idom' = idom, graph' = graph, i' = i, Sweeping' => Sweeping,
         pc' = "while" => pc = "while"
  PROVE  InOrderInv' /\ MeetingInv' /\ LagInv'
BY DEF ClimbingInv, InOrderInv, MeetingInv, LagInv, AboveAll

LEMMA ClimbingInit == Init => ClimbingInv
<1> SUFFICES ASSUME Init PROVE ClimbingInv
  OBVIOUS
<1>1. Analysed(graph) /\ graph.count \in Nat
  BY GraphsAnalysed DEF Init, Analysed
<1>2. \A x \in RpoBlocks(graph) : x \in Blocks /\ graph.index[x] \in Nat
  BY <1>1, IndexFacts
<1>3. \A x \in Blocks : idom[x] # NULL => x = Entry
  BY DEF Init
<1>4. graph.index[Entry] = 0 /\ i = 1 /\ pc = "while"
  BY <1>1, IndexFacts DEF Init
<1>5. InOrderInv
  <2>1. ASSUME NEW x \in RpoBlocks(graph), NEW y \in RpoBlocks(graph), idom[x] # NULL
        PROVE  ~ graph.index[y] < graph.index[x] /\ graph.index[x] < i
    BY <1>2, <1>3, <1>4, <2>1
  <2>2. QED
    BY <2>1 DEF InOrderInv
<1>6. MeetingInv /\ LagInv /\ LowestInv
  BY <1>2, <1>3, <1>4 DEF MeetingInv, LagInv, LowestInv
<1>7. QED
  BY <1>5, <1>6 DEF ClimbingInv

(* Between two sweeps every processed block agrees with the predecessors   *)
(* numbered before it, so the next sweep may start at the beginning.       *)
LEMMA ClimbingSweep ==
  ASSUME SweepInv, ClimbingInv, StartSweep \/ EndSweep \/ NextBlock
  PROVE  ClimbingInv'
<1>1. /\ idom' = idom /\ graph' = graph /\ Sweeping /\ Analysed(graph)
      /\ graph.count \in Nat
  BY DEF StartSweep, EndSweep, NextBlock, Sweeping, SweepInv, TypeOK, Analysed
<1>2. \A x \in RpoBlocks(graph) : x \in Blocks /\ graph.index[x] \in 0 .. graph.count - 1
  BY <1>1, IndexFacts
<1>3. LowestInv'
  BY DEF StartSweep, EndSweep, NextBlock, LowestInv
<1>4. CASE StartSweep
  <2>1. i' = 1 /\ pc = "while" /\ pc' = "block"
    BY <1>4 DEF StartSweep
  <2>2. InOrderInv' /\ MeetingInv'
    BY <1>1, <2>1 DEF ClimbingInv, InOrderInv, MeetingInv, AboveAll
  <2>3. ASSUME NEW x \in RpoBlocks(graph) \ {Entry}, NEW q \in PredSet(graph, x),
               idom[x] # NULL, graph.index[q] < graph.index[x]
        PROVE  /\ ~ graph.index[x] < 1
               /\ \A y : Ancestor(idom, y, idom[x]) => Ancestor(idom, y, q)
    <3>1. graph.index[x] < i
      BY <1>1, <2>1, <2>3 DEF ClimbingInv, InOrderInv
    <3>2. Ancestor(idom, idom[x], q)
      BY <1>1, <2>3, <3>1 DEF ClimbingInv, LagInv
    <3>3. graph.index[x] > 0 /\ graph.index[x] \in Int
      BY <1>1, <1>2, IndexFacts
    <3>4. QED
      BY <3>2, <3>3, AncestorTrans
  <2>4. LagInv'
    BY <1>1, <2>1, <2>3 DEF LagInv
  <2>5. QED
    BY <1>3, <2>2, <2>4 DEF ClimbingInv
<1>5. CASE EndSweep
  <2>1. i' = i /\ i = graph.count
    BY <1>5 DEF EndSweep
  <2>2. InOrderInv'
    BY <1>1, <1>2, <2>1 DEF ClimbingInv, InOrderInv
  <2>3. MeetingInv' /\ LagInv'
    BY <1>1, <2>1 DEF ClimbingInv, MeetingInv, LagInv, AboveAll
  <2>4. QED
    BY <1>3, <2>2, <2>3 DEF ClimbingInv
<1>6. CASE NextBlock
  BY <1>1, <1>3, <1>6, TreeUnmoved DEF NextBlock, ClimbingInv
<1>7. QED
  BY <1>4, <1>5, <1>6

(* One more predecessor has been seen. *)
LEMMA ClimbingPreds ==
  ASSUME SweepInv, ClimbingInv, SkipPred \/ FirstPred \/ StartIntersect \/ Meet
  PROVE  ClimbingInv'
<1>1. /\ idom' = idom /\ graph' = graph /\ i' = i /\ Sweeping /\ pc' # "while"
      /\ Block' = Block /\ PredCount' = PredCount
  BY DEF SkipPred, FirstPred, StartIntersect, Meet, Sweeping, Block, PredCount
<1>2. InOrderInv' /\ MeetingInv' /\ LagInv'
  BY <1>1, TreeUnmoved
<1>3. /\ p \in Nat \ {0} /\ p <= PredCount /\ p \in 1 .. p
      /\ \A k \in 1 .. p - 1 : k \in 1 .. p
      /\ \A k \in 1 .. p : k = p \/ k \in 1 .. p - 1
  BY DEF SweepInv, TypeOK, MeetInv, SkipPred, FirstPred, StartIntersect, Meet
<1> DEFINE Above(z, k) == k <= PredCount /\ idom[graph.preds[Block][k]] # NULL =>
                            Ancestor(idom, z, graph.preds[Block][k])
<1>4. CASE SkipPred
  <2>1. /\ newIdom' = newIdom /\ p' - 1 = p /\ pc = "preds" /\ pc' = "preds"
    BY <1>3, <1>4 DEF SkipPred
  <2>2. newIdom # NULL =>
          \A z \in Blocks : (\A k \in 1 .. p : Above(z, k)) => Ancestor(idom, z, newIdom)
    BY <1>3, <2>1 DEF ClimbingInv, LowestInv
  <2>3. LowestInv'
    BY <1>1, <2>1, <2>2 DEF LowestInv
  <2>4. QED
    BY <1>2, <2>3 DEF ClimbingInv
<1>5. CASE FirstPred
  <2>1. /\ newIdom' = Pred /\ p' - 1 = p /\ pc' = "preds" /\ idom[Pred] # NULL
    BY <1>3, <1>5 DEF FirstPred
  <2>2. \A z \in Blocks : Above(z, p) => Ancestor(idom, z, Pred)
    BY <1>3, <2>1 DEF Pred
  <2>3. LowestInv'
    BY <1>1, <1>3, <2>1, <2>2 DEF LowestInv
  <2>4. QED
    BY <1>2, <2>3 DEF ClimbingInv
<1>6. CASE StartIntersect
  <2>1. /\ newIdom' = newIdom /\ p' = p /\ pc = "preds" /\ pc' = "meet"
        /\ fa' = Pred /\ fb' = newIdom /\ Pred' = Pred
    BY <1>6 DEF StartIntersect, Pred, Block
  <2>2. LowestInv'
    BY <1>1, <2>1 DEF ClimbingInv, LowestInv
  <2>3. QED
    BY <1>2, <2>2 DEF ClimbingInv
<1>7. CASE Meet
  <2>1. /\ newIdom' = fa /\ p' - 1 = p /\ pc = "meet" /\ pc' = "preds"
        /\ idom[Pred] # NULL /\ newIdom # NULL
    BY <1>3, <1>7 DEF Meet, SweepInv, MeetInv
  <2>2. ASSUME NEW z \in Blocks, \A k \in 1 .. p : Above(z, k)
        PROVE  Ancestor(idom, z, fa)
    <3>1. Ancestor(idom, z, newIdom)
      BY <1>3, <2>1, <2>2 DEF ClimbingInv, LowestInv
    <3>2. Ancestor(idom, z, Pred)
      BY <1>3, <2>1, <2>2 DEF Pred
    <3>3. QED
      BY <2>1, <3>1, <3>2 DEF ClimbingInv, LowestInv
  <2>3. LowestInv'
    BY <1>1, <2>1, <2>2 DEF LowestInv
  <2>4. QED
    BY <1>2, <2>3 DEF ClimbingInv
<1>8. QED
  BY <1>4, <1>5, <1>6, <1>7

(* The finger that moves up stood too low to be above both. *)
LEMMA FingerAbove ==
  ASSUME SweepInv, NEW a \in Blocks, NEW b \in Blocks, idom[a] # NULL, idom[b] # NULL,
         graph.index[a] > graph.index[b],
         NEW z \in Blocks, Ancestor(idom, z, a), Ancestor(idom, z, b)
  PROVE  Ancestor(idom, z, idom[a])
<1>1. /\ a \in RpoBlocks(graph) /\ b \in RpoBlocks(graph) /\ Analysed(graph)
      /\ graph.count \in Nat /\ idom[a] \in Blocks
  BY DEF SweepInv, TreeInv, TypeOK, Analysed
<1>2. graph.index[z] <= graph.index[b] /\ z \in RpoBlocks(graph)
  BY <1>1, AncestorOrder
<1>3. z # a
  BY <1>1, <1>2, IndexFacts
<1>4. QED
  BY <1>1, <1>3, AncestorParent

LEMMA ClimbingWalk ==
  ASSUME SweepInv, ClimbingInv, WalkA \/ WalkB
  PROVE  ClimbingInv'
<1>1. /\ idom' = idom /\ graph' = graph /\ i' = i /\ p' = p /\ newIdom' = newIdom
      /\ pc = "meet" /\ pc' = "meet" /\ Sweeping
      /\ Block' = Block /\ PredCount' = PredCount /\ Pred' = Pred
  BY DEF WalkA, WalkB, Sweeping, Block, PredCount, Pred
<1>2. InOrderInv' /\ MeetingInv' /\ LagInv'
  BY <1>1, TreeUnmoved
<1>3. fa \in Blocks /\ idom[fa] # NULL /\ fb \in Blocks /\ idom[fb] # NULL
  BY <1>1 DEF SweepInv, MeetInv
<1>4. ASSUME NEW z \in Blocks, Ancestor(idom, z, Pred), Ancestor(idom, z, newIdom)
      PROVE  Ancestor(idom, z, fa') /\ Ancestor(idom, z, fb')
  <2>1. Ancestor(idom, z, fa) /\ Ancestor(idom, z, fb)
    BY <1>1, <1>4 DEF ClimbingInv, LowestInv
  <2>2. CASE WalkA
    BY <1>3, <2>1, <2>2, FingerAbove DEF WalkA
  <2>3. CASE WalkB
    BY <1>3, <2>1, <2>3, FingerAbove DEF WalkB
  <2>4. QED
    BY <2>2, <2>3
<1>5. LowestInv'
  BY <1>1, <1>4 DEF ClimbingInv, LowestInv
<1>6. QED
  BY <1>2, <1>5 DEF ClimbingInv

(* The rest of the pass no longer depends on it. *)
LEMMA ClimbingAfter ==
  ASSUME ClimbingInv,
         FinishDominators \/ NotAMerge \/ StartRunner \/ Climb \/ EndRunner
           \/ EndMerge \/ Finish
  PROVE  ClimbingInv'
BY DEF FinishDominators, NotAMerge, StartRunner, Climb, EndRunner, EndMerge, Finish,
       ClimbingInv, InOrderInv, MeetingInv, LagInv, LowestInv, Sweeping

LEMMA ClimbingStutter ==
  ASSUME ClimbingInv, UNCHANGED vars
  PROVE  ClimbingInv'
BY DEF vars, ClimbingInv, InOrderInv, MeetingInv, LagInv, LowestInv, Sweeping, AboveAll,
       Block, Pred, PredCount

THEOREM ClimbingInvariance == Spec => []ClimbingInv
<1>1. SweepInv /\ ClimbingInv /\ [Next]_vars => ClimbingInv'
  BY ClimbingStore, ClimbingSweep, ClimbingPreds, ClimbingWalk, ClimbingAfter,
     ClimbingStutter DEF Next
<1>2. QED
  BY Invariance, ClimbingInit, <1>1, PTL DEF Spec

-----------------------------------------------------------------------------
(***************************************************************************)
(* ir_compute_dominators only ever moves the parent of a block towards the *)
(* entry.                                                                  *)
(***************************************************************************)
THEOREM StoresOnlyClimb == Spec => IdomOnlyClimbs
<1>1. ASSUME SweepInv, ClimbingInv, [Next]_vars,
             NEW x \in Blocks \ {Entry}, idom[x] # NULL, idom'[x] # idom[x]
      PROVE  graph.index[idom'[x]] < graph.index[idom[x]]
  <2>1. CASE StoreIdom
    <3>1. x = Block /\ idom'[x] = newIdom
      BY <1>1, <2>1, StoreBefore
    <3>2. Ancestor(idom, newIdom, idom[x]) /\ newIdom # idom[x]
      BY <1>1, <2>1, <3>1, StoreClimbs
    <3>3. idom[x] \in RpoBlocks(graph)
      BY <1>1 DEF SweepInv, TreeInv
    <3>4. QED
      BY <1>1, <3>1, <3>2, <3>3, AncestorOrder
  <2>2. CASE FinishDominators
    BY <1>1, <2>2 DEF FinishDominators, SweepInv, TypeOK
  <2>3. CASE ~ StoreIdom /\ ~ FinishDominators
    BY <1>1, <2>3
       DEF Next, vars, StartSweep, EndSweep, NextBlock, SkipPred, FirstPred,
           StartIntersect, WalkA, WalkB, Meet, NotAMerge, StartRunner, Climb,
           EndRunner, EndMerge, Finish
  <2>4. QED
    BY <2>1, <2>2, <2>3
<1>2. SweepInv /\ ClimbingInv /\ [Next]_vars =>
        [\A x \in Blocks \ {Entry} :
           idom[x] # NULL /\ idom'[x] # idom[x] =>
             graph.index[idom'[x]] < graph.index[idom[x]]]_vars
  BY <1>1
<1>3. QED
  BY Invariance, ClimbingInvariance, <1>2, PTL DEF Spec, IdomOnlyClimbs

-----------------------------------------------------------------------------
(* Frontiers *)

(* A walk from y begins at y and goes on from its parent. *)
LEMMA AncestorSplit ==
  ASSUME SweepInv, NEW x \in Blocks, NEW y \in RpoBlocks(graph) \ {Entry}, idom[y] # NULL
  PROVE  /\ Ancestor(idom, x, y) <=> x = y \/ Ancestor(idom, x, idom[y])
         /\ ~ Ancestor(idom, y, idom[y])
<1>1. /\ Analysed(graph) /\ graph.count \in Nat
      /\ idom \in [Blocks -> Blocks \cup {NULL}]
  BY DEF SweepInv, TypeOK, Analysed
<1>2. /\ y \in Blocks /\ idom[y] \in RpoBlocks(graph) /\ idom[y] \in Blocks
      /\ graph.index[idom[y]] < graph.index[y]
      /\ graph.index[y] \in Int /\ graph.index[idom[y]] \in Int
  BY <1>1, IndexFacts DEF SweepInv, TreeInv
<1>3. Ancestor(idom, x, y) => x = y \/ Ancestor(idom, x, idom[y])
  BY <1>1, <1>2, AncestorParent
<1>4. x = y \/ Ancestor(idom, x, idom[y]) => Ancestor(idom, x, y)
  BY <1>2, AncestorSelf, AncestorUp
<1>5. ~ Ancestor(idom, y, idom[y])
  BY <1>2, AncestorOrder
<1>6. QED
  BY <1>3, <1>4, <1>5

(* The block at i once the tree is settled: if it has a predecessor it has *)
(* a parent, above each of its predecessors.                               *)
LEMMA MergeFacts ==
  ASSUME SweepInv, ~ Sweeping, i < graph.count, NEW k \in 1 .. PredCount
  PROVE  /\ graph.preds[Block][k] \in PredSet(graph, Block)
         /\ graph.preds[Block][k] \in RpoBlocks(graph)
         /\ graph.preds[Block][k] \in Blocks
         /\ Block \in Blocks /\ Block \in RpoBlocks(graph) \ {Entry}
         /\ idom[Block] # NULL /\ idom[Block] \in RpoBlocks(graph)
         /\ idom[Block] \in Blocks
         /\ Ancestor(idom, idom[Block], graph.preds[Block][k])
<1>1. TypeOK /\ Analysed(graph)
  BY DEF SweepInv, TypeOK
<1>2. /\ graph.preds[Block][k] \in PredSet(graph, Block)
      /\ graph.preds[Block][k] \in RpoBlocks(graph)
      /\ graph.preds[Block][k] \in Blocks /\ Block \in Blocks
  BY <1>1, PredAt, BlockFacts
<1>3. Block \in RpoBlocks(graph) \ {Entry}
  BY <1>1, <1>2, PredFacts
<1>4. idom[Block] # NULL /\ Ancestor(idom, idom[Block], graph.preds[Block][k])
  BY <1>2, <1>3 DEF SweepInv, SettledInv
<1>5. idom[Block] \in RpoBlocks(graph) /\ idom[Block] \in Blocks
  BY <1>1, <1>2, <1>4, IndexFacts DEF SweepInv, TreeInv
<1>6. QED
  BY <1>2, <1>3, <1>4, <1>5

(* The runner stands below the parent of the merge point: it has a parent, *)
(* which is still at or below that.                                        *)
LEMMA RunnerFacts ==
  ASSUME SweepInv, FrontierInv, Climb
  PROVE  /\ runner \in Blocks /\ runner \in RpoBlocks(graph) \ {Entry}
         /\ idom[runner] # NULL /\ idom[runner] \in RpoBlocks(graph)
         /\ idom[runner] \in Blocks
         /\ Ancestor(idom, idom[runner], Pred)
         /\ Ancestor(idom, idom[Block], idom[runner])
         /\ OnWalk(runner, Pred, Block)
<1>1. /\ pc = "run" /\ ~ Sweeping /\ i < graph.count /\ runner # NULL /\ runner # idom[Block]
  BY DEF Climb, Sweeping, SweepInv, ClimbInv
<1>2. /\ p \in 1 .. PredCount /\ Analysed(graph) /\ graph.count \in Nat
      /\ idom \in [Blocks -> Blocks \cup {NULL}]
      /\ runner \in RpoBlocks(graph)
      /\ Ancestor(idom, runner, Pred) /\ Ancestor(idom, idom[Block], runner)
  <2>1. TypeOK
    BY DEF SweepInv
  <2>2. PredCount \in Nat
    BY <1>1, <2>1, BlockFacts
  <2>3. p \in Nat \ {0} /\ p <= PredCount
    BY <1>1, <2>1 DEF FrontierInv, RunnerInv, TypeOK
  <2>4. Analysed(graph) /\ graph.count \in Nat
    BY <2>1 DEF TypeOK, Analysed
  <2>5. QED
    BY <1>1, <2>1, <2>2, <2>3, <2>4 DEF FrontierInv, RunnerInv, TypeOK
<1>3. /\ runner \in Blocks
      /\ idom[Block] \in Blocks /\ idom[Block] \in RpoBlocks(graph) /\ Pred \in Blocks
  BY <1>1, <1>2, MergeFacts, IndexFacts DEF Pred
<1>4. idom[runner] # NULL
  <2>1. SUFFICES ASSUME idom[runner] = NULL PROVE FALSE
    OBVIOUS
  <2> DEFINE S == {runner}
  <2>2. ClosedUnder(idom, S) /\ S \in SUBSET Blocks /\ runner \in S
    BY <1>3, <2>1 DEF ClosedUnder
  <2>3. idom[Block] \in S
    BY <1>2, <2>2, AncestorWithin, Zenon
  <2>4. QED
    BY <1>1, <2>3
<1>5. runner # Entry /\ idom[runner] \in RpoBlocks(graph) /\ idom[runner] \in Blocks
  <2>1. idom[Entry] = NULL
    BY <1>1 DEF SweepInv, SettledInv
  <2>2. QED
    BY <1>2, <1>3, <1>4, <2>1 DEF SweepInv, TreeInv
<1>6. Ancestor(idom, idom[runner], Pred)
  BY <1>2, <1>3, <1>4, AncestorStep
<1>7. Ancestor(idom, idom[Block], idom[runner])
  BY <1>1, <1>2, <1>3, <1>5, AncestorParent
<1>8. ~ Ancestor(idom, runner, idom[Block])
  <2>1. ASSUME Ancestor(idom, runner, idom[Block]) PROVE FALSE
    <3>1. graph.index[runner] < graph.index[idom[Block]]
      BY <1>1, <1>3, <2>1, AncestorOrder
    <3>2. graph.index[idom[Block]] < graph.index[runner]
      BY <1>1, <1>2, AncestorOrder
    <3>3. graph.index[idom[Block]] \in Int /\ graph.index[runner] \in Int
      BY <1>2, <1>3, IndexFacts
    <3>4. QED
      BY <3>1, <3>2, <3>3
  <2>2. QED
    BY <2>1
<1>9. QED
  BY <1>2, <1>3, <1>4, <1>5, <1>6, <1>7, <1>8 DEF OnWalk

-----------------------------------------------------------------------------
(* The invariant *)

LEMMA FrontierInit == Init => FrontierInv
BY DEF Init, FrontierInv, RecordedInv, RunnerInv, Sweeping

(* The sweeps record nothing; their end leaves nothing recorded. *)
LEMMA FrontierSweep ==
  ASSUME SweepInv, FrontierInv,
         StartSweep \/ EndSweep \/ NextBlock \/ SkipPred \/ FirstPred \/ StartIntersect
           \/ WalkA \/ WalkB \/ Meet \/ StoreIdom \/ FinishDominators
  PROVE  FrontierInv'
<1>1. Sweeping /\ frontier' = frontier
  BY DEF StartSweep, EndSweep, NextBlock, SkipPred, FirstPred, StartIntersect,
         WalkA, WalkB, Meet, StoreIdom, FinishDominators, Sweeping
<1>2. \A x \in Blocks : frontier'[x] = <<>>
  BY <1>1 DEF FrontierInv, RecordedInv
<1>3. CASE ~ FinishDominators
  <2>1. Sweeping' /\ pc' \notin {"run", "merge", "done"}
    BY <1>3
       DEF StartSweep, EndSweep, NextBlock, SkipPred, FirstPred, StartIntersect,
           WalkA, WalkB, Meet, StoreIdom, Sweeping
  <2>2. QED
    BY <1>2, <2>1 DEF FrontierInv, RecordedInv, RunnerInv
<1>4. CASE FinishDominators
  <2>1. /\ graph' = graph /\ i' = 0 /\ p' = 1 /\ pc' = "merge" /\ Analysed(graph)
        /\ graph.count \in Nat
    BY <1>4 DEF FinishDominators, SweepInv, TypeOK, Analysed
  <2>2. \A b \in RpoBlocks(graph) : graph.index[b] \in Nat
    BY <2>1, IndexFacts
  <2>3. \A b \in Blocks : ~ Merged(b)'
    BY <2>1, <2>2 DEF Merged
  <2>4. ASSUME NEW x \in Blocks PROVE ~ Passed(x)'
    BY <2>1 DEF Passed
  <2>5. \A x \in Blocks : Members(x)' = {}
    BY <1>2 DEF Members
  <2>6. RecordedInv'
    BY <1>2, <2>1, <2>3, <2>4, <2>5 DEF RecordedInv, Sweeping
  <2>7. QED
    BY <2>1, <2>6 DEF FrontierInv, RunnerInv
<1>5. QED
  BY <1>3, <1>4

(* What every step of the frontier pass leaves alone. *)
LEMMA FrontierFacts ==
  ASSUME SweepInv,
         NotAMerge \/ StartRunner \/ Climb \/ EndRunner \/ EndMerge \/ Finish
  PROVE  /\ ~ Sweeping /\ ~ Sweeping' /\ graph' = graph /\ idom' = idom
         /\ TypeOK /\ Analysed(graph) /\ graph.count \in Nat /\ i \in 0 .. graph.count
         /\ p \in Nat \ {0}
         /\ frontier \in [Blocks -> Seq(Blocks)]
         /\ \A b \in RpoBlocks(graph) : b \in Blocks /\ graph.index[b] \in 0 .. graph.count - 1
<1>1. /\ ~ Sweeping /\ ~ Sweeping' /\ graph' = graph /\ idom' = idom
  BY DEF Sweeping, NotAMerge, StartRunner, Climb, EndRunner, EndMerge, Finish
<1>2. /\ TypeOK /\ Analysed(graph) /\ graph.count \in Nat /\ i \in 0 .. graph.count
      /\ p \in Nat \ {0} /\ frontier \in [Blocks -> Seq(Blocks)]
  BY DEF SweepInv, TypeOK, Analysed
<1>3. QED
  BY <1>1, <1>2, IndexFacts

(* Going on to the next block. *)
LEMMA FrontierNext ==
  ASSUME SweepInv, FrontierInv, NotAMerge \/ EndMerge
  PROVE  FrontierInv'
<1>1. /\ ~ Sweeping /\ graph' = graph /\ idom' = idom /\ TypeOK /\ Analysed(graph)
      /\ graph.count \in Nat /\ i \in 0 .. graph.count /\ p \in Nat \ {0}
      /\ \A b \in RpoBlocks(graph) : b \in Blocks /\ graph.index[b] \in 0 .. graph.count - 1
  BY FrontierFacts
<1>2. /\ pc = "merge" /\ pc' = "merge" /\ i < graph.count /\ i' = i + 1
      /\ frontier' = frontier /\ ~ Sweeping'
  BY DEF NotAMerge, EndMerge, Sweeping
<1>3. /\ Block \in Blocks /\ Block \in RpoBlocks(graph) /\ graph.index[Block] = i
      /\ PredCount \in Nat /\ PredCount = Len(graph.preds[Block])
  BY <1>1, <1>2, BlockFacts DEF PredCount
<1>4. p' = 1
  BY <1>2, <1>3 DEF NotAMerge, EndMerge, FrontierInv, RunnerInv
<1>5. \A b \in Blocks : Merged(b)' <=> Merged(b) \/ (b = Block /\ PredCount >= 2)
  <2>1. \A b \in RpoBlocks(graph) : graph.index[b] = i => b = Block
    BY <1>1, <1>3, IndexFacts
  <2>2. \A b \in RpoBlocks(graph) : graph.index[b] < i' <=> graph.index[b] < i \/ b = Block
    BY <1>1, <1>2, <1>3, <2>1
  <2>3. QED
    BY <1>1, <1>3, <2>2 DEF Merged
<1>6. ASSUME NEW x \in Blocks
      PROVE  /\ ~ Passed(x)'
             /\ Passed(x) <=> /\ PredCount >= 2
                             /\ \E q \in PredSet(graph, Block) : OnWalk(x, q, Block)
  <2>1. ~ Passed(x)'
    BY <1>2, <1>4 DEF Passed
  <2>2. CASE NotAMerge
    <3>1. PredCount < 2 /\ p = 1
      BY <2>2, <1>2, <1>3 DEF NotAMerge, FrontierInv, RunnerInv
    <3>2. ~ Passed(x)
      BY <1>2, <3>1 DEF Passed
    <3>3. QED
      BY <1>3, <2>1, <3>1, <3>2
  <2>3. CASE EndMerge
    <3>1. PredCount >= 2 /\ p > PredCount
      BY <2>3 DEF EndMerge
    <3>2. \A k \in 1 .. p - 1 : k <= PredCount => k \in 1 .. PredCount
      BY <1>1, <1>3
    <3>3. \A k \in 1 .. PredCount : k \in 1 .. p - 1 /\ k <= PredCount
      BY <1>1, <1>3, <3>1
    <3>4. Passed(x) <=> \E k \in 1 .. PredCount : OnWalk(x, graph.preds[Block][k], Block)
      BY <1>2, <3>2, <3>3 DEF Passed
    <3>5. Passed(x) <=> \E q \in PredSet(graph, Block) : OnWalk(x, q, Block)
      BY <1>3, <3>4 DEF PredSet
    <3>6. QED
      BY <2>1, <3>1, <3>5
  <2>4. QED
    BY <2>2, <2>3
<1>7. ~ Merged(Block)
  BY <1>1, <1>3 DEF Merged
<1>8. RecordedInv'
  <2>1. ASSUME NEW x \in Blocks, NEW b \in Blocks
        PROVE  b \in Members(x) <=>
                 Merged(b)' /\ \E q \in PredSet(graph, b) : OnWalk(x, q, b)
    <3>1. b \in Members(x) <=>
            \/ Merged(b) /\ \E q \in PredSet(graph, b) : OnWalk(x, q, b)
            \/ b = Block /\ Passed(x)
      BY <1>1, <1>2 DEF FrontierInv, RecordedInv
    <3>2. CASE b = Block
      BY <1>5, <1>6, <1>7, <3>1, <3>2
    <3>3. CASE b # Block
      BY <1>5, <3>1, <3>3
    <3>4. QED
      BY <3>2, <3>3
  <2>2. \A x \in Blocks : Members(x)' = Members(x)
    BY <1>2 DEF Members
  <2>3. \A x, q, b \in Blocks : OnWalk(x, q, b)' <=> OnWalk(x, q, b)
    BY <1>1 DEF OnWalk
  <2>4. \A b \in Blocks : PredSet(graph, b) \subseteq Blocks
    BY <1>1, PredFacts
  <2>5. QED
    BY <1>1, <1>2, <1>6, <2>1, <2>2, <2>3, <2>4 DEF FrontierInv, RecordedInv
<1>9. QED
  BY <1>2, <1>4, <1>8 DEF FrontierInv, RunnerInv

(* The step of a walk that adds the block at i to what the runner leaves. *)
LEMMA FrontierClimb ==
  ASSUME SweepInv, FrontierInv, Climb
  PROVE  FrontierInv'
<1>1. /\ ~ Sweeping /\ ~ Sweeping' /\ graph' = graph /\ idom' = idom
      /\ frontier \in [Blocks -> Seq(Blocks)]
  BY FrontierFacts
<1>2. /\ pc = "run" /\ pc' = "run" /\ i' = i /\ p' = p /\ i < graph.count
      /\ Block' = Block /\ PredCount' = PredCount /\ Pred' = Pred
      /\ runner' = idom[runner]
  BY <1>1 DEF Climb, SweepInv, ClimbInv, Block, PredCount, Pred
<1>3. /\ runner \in Blocks /\ runner \in RpoBlocks(graph) \ {Entry}
      /\ idom[runner] # NULL /\ idom[runner] \in RpoBlocks(graph)
      /\ Ancestor(idom, idom[runner], Pred)
      /\ Ancestor(idom, idom[Block], idom[runner])
      /\ OnWalk(runner, Pred, Block)
  BY RunnerFacts
<1>4. Block \in Blocks
  BY <1>2, BlockFacts DEF SweepInv
<1>5. RunnerInv'
  BY <1>1, <1>2, <1>3 DEF FrontierInv, RunnerInv
<1>6. ASSUME NEW x \in Blocks PROVE Passed(x)' <=> Passed(x) \/ x = runner
  <2>1. Ancestor(idom, x, runner) <=> x = runner \/ Ancestor(idom, x, idom[runner])
    BY <1>3, AncestorSplit
  <2>2. ~ Ancestor(idom, runner, idom[runner])
    BY <1>3, AncestorSplit
  <2>3. OnWalk(x, Pred, Block) /\ ~ Ancestor(idom, x, idom[runner])
          <=> (OnWalk(x, Pred, Block) /\ ~ Ancestor(idom, x, runner)) \/ x = runner
    BY <1>3, <2>1, <2>2
  <2>4. OnWalk(x, Pred, Block)' <=> OnWalk(x, Pred, Block)
    BY <1>1, <1>2 DEF OnWalk
  <2>5. (\E k \in 1 .. p - 1 : k <= PredCount /\ OnWalk(x, graph.preds[Block][k], Block))'
          <=> \E k \in 1 .. p - 1 : k <= PredCount /\ OnWalk(x, graph.preds[Block][k], Block)
    BY <1>1, <1>2 DEF OnWalk
  <2>6. QED
    BY <1>1, <1>2, <2>3, <2>4, <2>5 DEF Passed
<1>7. ASSUME NEW x \in Blocks
      PROVE  /\ x # runner => frontier'[x] = frontier[x]
             /\ Members(x)' = IF x = runner THEN Members(x) \cup {Block} ELSE Members(x)
             /\ \A j, k \in 1 .. Len(frontier'[x]) : frontier'[x][j] = frontier'[x][k] => j = k
  <2>1. \A j, k \in 1 .. Len(frontier[x]) : frontier[x][j] = frontier[x][k] => j = k
    BY DEF FrontierInv, RecordedInv
  <2>2. CASE \E k \in 1 .. Len(frontier[runner]) : frontier[runner][k] = Block
    BY <2>1, <2>2 DEF Climb, Members
  <2>3. CASE ~ \E k \in 1 .. Len(frontier[runner]) : frontier[runner][k] = Block
    <3>1. frontier' = [frontier EXCEPT ![runner] = Append(frontier[runner], Block)]
      BY <2>3 DEF Climb
    <3>2. CASE x # runner
      <4>1. frontier'[x] = frontier[x]
        BY <1>1, <3>1, <3>2
      <4>2. QED
        BY <2>1, <3>2, <4>1 DEF Members
    <3>3. CASE x = runner
      <4> DEFINE s == frontier[runner]
                 n == Len(s)
      <4>1. /\ s \in Seq(Blocks) /\ n \in Nat /\ frontier'[x] = Append(s, Block)
            /\ Len(Append(s, Block)) = n + 1
            /\ \A k \in 1 .. n : Append(s, Block)[k] = s[k]
            /\ Append(s, Block)[n + 1] = Block
        BY <1>1, <1>3, <1>4, <3>1, <3>3
      <4>2. \A k \in 1 .. n + 1 : k \in 1 .. n \/ k = n + 1
        BY <4>1
      <4>3. \A k \in 1 .. n : k \in 1 .. n + 1 /\ n + 1 \in 1 .. n + 1
        BY <4>1
      <4>4. n + 1 \in 1 .. n + 1
        BY <4>1
      <4>5. Members(x) = {s[k] : k \in 1 .. n}
        BY <3>3 DEF Members
      <4>6. Members(x)' = {Append(s, Block)[k] : k \in 1 .. n + 1}
        BY <4>1 DEF Members
      <4>7. Members(x)' = Members(x) \cup {Block}
        BY <4>1, <4>2, <4>3, <4>4, <4>5, <4>6
      <4>8. ASSUME NEW j \in 1 .. n + 1, NEW k \in 1 .. n + 1,
                   Append(s, Block)[j] = Append(s, Block)[k]
            PROVE  j = k
        BY <2>1, <2>3, <3>3, <4>1, <4>2, <4>8
      <4>9. QED
        BY <3>3, <4>1, <4>7, <4>8
    <3>4. QED
      BY <3>2, <3>3
  <2>4. QED
    BY <2>2, <2>3
<1>8. ASSUME NEW x \in Blocks, NEW b \in Blocks
      PROVE  b \in Members(x)' <=>
               \/ Merged(b) /\ \E q \in PredSet(graph, b) : OnWalk(x, q, b)
               \/ b = Block /\ Passed(x)'
  <2>1. b \in Members(x) <=>
          \/ Merged(b) /\ \E q \in PredSet(graph, b) : OnWalk(x, q, b)
          \/ b = Block /\ Passed(x)
    BY <1>1, <1>2 DEF FrontierInv, RecordedInv
  <2>2. Passed(x)' <=> Passed(x) \/ x = runner
    BY <1>6
  <2>3. b \in Members(x)' <=> b \in Members(x) \/ (b = Block /\ x = runner)
    BY <1>7
  <2>4. QED
    BY <2>1, <2>2, <2>3
<1>9. RecordedInv'
  <2>1. \A b \in Blocks : Merged(b)' <=> Merged(b)
    BY <1>1, <1>2 DEF Merged
  <2>2. \A x, q, b : OnWalk(x, q, b)' <=> OnWalk(x, q, b)
    BY <1>1 DEF OnWalk
  <2>3. QED
    BY <1>1, <1>2, <1>7, <1>8, <2>1, <2>2 DEF RecordedInv
<1>10. QED
  BY <1>5, <1>9 DEF FrontierInv

(* A walk begins having passed nothing and ends having passed all of it. *)
LEMMA FrontierWalk ==
  ASSUME SweepInv, FrontierInv, StartRunner \/ EndRunner
  PROVE  FrontierInv'
<1>1. /\ ~ Sweeping /\ ~ Sweeping' /\ graph' = graph /\ idom' = idom /\ TypeOK
      /\ p \in Nat \ {0}
  BY FrontierFacts
<1>2. /\ i' = i /\ i < graph.count /\ frontier' = frontier
      /\ Block' = Block /\ PredCount' = PredCount
  BY <1>1 DEF StartRunner, EndRunner, SweepInv, ClimbInv, Block, PredCount
<1>3. p <= PredCount /\ PredCount >= 2 /\ PredCount \in Nat /\ p \in 1 .. PredCount
  <2>1. PredCount \in Nat
    BY <1>1, <1>2, BlockFacts
  <2>2. p <= PredCount /\ PredCount >= 2
    BY DEF StartRunner, EndRunner, FrontierInv, RunnerInv
  <2>3. QED
    BY <1>1, <2>1, <2>2
<1>4. /\ Pred \in RpoBlocks(graph) /\ Pred \in Blocks
      /\ idom[Block] \in Blocks /\ Ancestor(idom, idom[Block], Pred)
  BY <1>1, <1>2, <1>3, MergeFacts DEF Pred
<1>5. \A x, q, b : OnWalk(x, q, b)' <=> OnWalk(x, q, b)
  BY <1>1 DEF OnWalk
<1>6. ASSUME NEW x \in Blocks PROVE Passed(x)' <=> Passed(x)
  <2>1. CASE StartRunner
    <3>1. pc = "merge" /\ p' = p /\ runner' = Pred /\ Pred' = Pred
      BY <1>1, <1>2, <2>1 DEF StartRunner, Pred
    <3>2. ~ (OnWalk(x, Pred, Block) /\ ~ Ancestor(idom, x, Pred))
      BY DEF OnWalk
    <3>3. (\E k \in 1 .. p - 1 : k <= PredCount /\ OnWalk(x, graph.preds[Block][k], Block))'
            <=> \E k \in 1 .. p - 1 : k <= PredCount /\ OnWalk(x, graph.preds[Block][k], Block)
      BY <1>1, <1>2, <3>1 DEF OnWalk
    <3>4. (OnWalk(x, Pred, Block) /\ ~ Ancestor(idom, x, runner))'
            <=> OnWalk(x, Pred, Block) /\ ~ Ancestor(idom, x, Pred)
      BY <1>1, <1>2, <3>1 DEF OnWalk
    <3>5. QED
      BY <3>1, <3>2, <3>3, <3>4 DEF Passed
  <2>2. CASE EndRunner
    <3>1. pc = "run" /\ pc' = "merge" /\ p' = p + 1
      BY <2>2 DEF EndRunner
    <3>2. runner = idom[Block]
      <4>1. runner \in Blocks
        BY <1>1, <3>1, IndexFacts DEF FrontierInv, RunnerInv, TypeOK
      <4>2. QED
        BY <2>2, <4>1, NullIsNoBlock DEF EndRunner
    <3>3. Passed(x) <=>
            \/ \E k \in 1 .. p - 1 : k <= PredCount /\ OnWalk(x, graph.preds[Block][k], Block)
            \/ OnWalk(x, graph.preds[Block][p], Block)
      BY <3>1, <3>2 DEF Passed, OnWalk, Pred
    <3>4. Passed(x)' <=>
            \E k \in 1 .. p : k <= PredCount /\ OnWalk(x, graph.preds[Block][k], Block)
      <4>1. p' - 1 = p
        BY <1>1, <3>1
      <4>2. QED
        BY <1>1, <1>2, <3>1, <4>1 DEF Passed, OnWalk
    <3>5. \A k : k \in 1 .. p <=> k \in 1 .. p - 1 \/ k = p
      BY <1>1
    <3>6. QED
      BY <1>3, <3>3, <3>4, <3>5
  <2>3. QED
    BY <2>1, <2>2
<1>7. RecordedInv'
  <2>1. \A b \in Blocks : Merged(b)' <=> Merged(b)
    BY <1>1, <1>2 DEF Merged
  <2>2. \A x \in Blocks : Members(x)' = Members(x)
    BY <1>2 DEF Members
  <2>3. QED
    BY <1>1, <1>2, <1>5, <1>6, <2>1, <2>2 DEF FrontierInv, RecordedInv
<1>8. RunnerInv'
  <2>1. CASE StartRunner
    BY <1>1, <1>2, <1>3, <1>4, <2>1, AncestorSelf DEF StartRunner, RunnerInv, Pred
  <2>2. CASE EndRunner
    BY <1>1, <1>2, <1>3, <2>2 DEF EndRunner, RunnerInv
  <2>3. QED
    BY <2>1, <2>2
<1>9. QED
  BY <1>7, <1>8 DEF FrontierInv

LEMMA FrontierFinish ==
  ASSUME SweepInv, FrontierInv, Finish \/ UNCHANGED vars
  PROVE  FrontierInv'
<1>1. CASE UNCHANGED vars
  BY <1>1 DEF vars, FrontierInv, RecordedInv, RunnerInv, Sweeping, Block, Pred, PredCount,
              Members, Merged, Passed, OnWalk
<1>2. CASE Finish
  <2>1. /\ pc = "merge" /\ pc' = "done" /\ i = graph.count /\ i' = i /\ p' = p /\ graph' = graph
        /\ idom' = idom /\ frontier' = frontier /\ graph.count \in Nat /\ ~ Sweeping /\ ~ Sweeping'
    BY <1>2, FrontierFacts DEF Finish
  <2>2. RunnerInv'
    BY <2>1 DEF FrontierInv, RunnerInv
  <2>3. RecordedInv'
    BY <2>1 DEF FrontierInv, RecordedInv, Members, Merged, OnWalk
  <2>4. QED
    BY <2>2, <2>3 DEF FrontierInv
<1>3. QED
  BY <1>1, <1>2

THEOREM FrontierInvariance == Spec => []FrontierInv
<1>1. SweepInv /\ FrontierInv /\ [Next]_vars => FrontierInv'
  BY FrontierSweep, FrontierNext, FrontierClimb, FrontierWalk, FrontierFinish DEF Next
<1>2. QED
  BY Invariance, FrontierInit, <1>1, PTL DEF Spec

-----------------------------------------------------------------------------
(* The frontiers *)

(* The numbered blocks are the reachable ones. *)
LEMMA NumberedReachable ==
  ASSUME NEW g, Analysed(g)
  PROVE  Reachable(Edges(g)) = RpoBlocks(g)
<1> DEFINE R == Reachable(Edges(g))
           Out == RpoBlocks(g) \ R
           T == {g.index[z] : z \in Out}
<1>1. /\ g.count \in Nat /\ RpoBlocks(g) \in SUBSET Blocks /\ Entry \in RpoBlocks(g)
      /\ \A z \in RpoBlocks(g) : g.index[z] \in Nat
  <2>1. g.count \in Nat
    BY DEF Analysed
  <2>2. QED
    BY <2>1, IndexFacts
<1>2. ClosedAvoiding(Edges(g), NULL, RpoBlocks(g))
  BY PredFacts DEF ClosedAvoiding, Edges
<1>3. R \subseteq RpoBlocks(g)
  BY <1>1, <1>2, ReachLeast DEF Reachable
<1>4. ASSUME Out # {} PROVE FALSE
  <2>1. T \in SUBSET Nat /\ T # {}
    BY <1>1, <1>4
  <2>2. PICK m \in T : \A k \in T : m <= k
    BY <2>1, Least
  <2>3. PICK z \in Out : g.index[z] = m
    BY <2>2
  <2>4. z # Entry /\ z \in Blocks
    BY <1>1, EntryIsBlock, NullIsNoBlock, ReachEntry DEF Reachable
  <2>5. PICK q \in PredSet(g, z) : g.index[q] < g.index[z]
    BY <2>4 DEF Analysed
  <2>6. q \in RpoBlocks(g) /\ <<q, z>> \in Edges(g)
    BY <2>4, PredFacts
  <2>7. q \in R
    <3>1. g.index[q] \in Nat /\ g.index[z] \in Nat
      BY <1>1, <2>6
    <3>2. g.index[q] \notin T
      BY <2>1, <2>2, <2>3, <2>5, <3>1
    <3>3. QED
      BY <2>6, <3>2
  <2>8. z \in R
    BY <2>4, <2>6, <2>7, NullIsNoBlock, ReachStep DEF Reachable
  <2>9. QED
    BY <2>8
<1>5. QED
  BY <1>1, <1>3, <1>4

(* A sole predecessor is crossed on every path. *)
LEMMA SolePredecessor ==
  ASSUME NEW g, Analysed(g), NEW y \in Blocks, NEW q \in PredSet(g, y),
         \A r \in PredSet(g, y) : r = q
  PROVE  q # y /\ Dominates(Edges(g), q, y)
<1>1. q \in Blocks /\ y \in RpoBlocks(g) \ {Entry}
  BY PredFacts
<1>2. q # y
  <2>1. \E r \in PredSet(g, y) : g.index[r] < g.index[y]
    BY <1>1 DEF Analysed
  <2>2. g.index[y] \in Int
    BY <1>1, IndexFacts
  <2>3. QED
    BY <2>1, <2>2
<1> DEFINE S == Blocks \ {y, q}
<1>3. Entry # q => Entry \in S
  BY <1>1, EntryIsBlock
<1>4. ClosedAvoiding(Edges(g), q, S)
  BY DEF ClosedAvoiding, Edges
<1>5. ReachableAvoiding(Edges(g), q) \subseteq S
  BY <1>3, <1>4, ReachLeast
<1>6. QED
  BY <1>2, <1>5 DEF Dominates

(* Once the tree is settled, the merge points whose walks cross x are the  *)
(* dominance frontier of x; blocks with one predecessor are in none.       *)
LEMMA WalksMeetFrontier ==
  ASSUME SweepInv, ~ Sweeping, NEW x \in RpoBlocks(graph), NEW b \in RpoBlocks(graph)
  PROVE  (/\ Len(graph.preds[b]) >= 2
          /\ \E q \in PredSet(graph, b) : OnWalk(x, q, b))
         <=> b \in DominanceFrontier(Edges(graph), x)
<1>1. /\ Analysed(graph) /\ x \in Blocks /\ b \in Blocks
      /\ idom \in [Blocks -> Blocks \cup {NULL}]
      /\ graph.preds[b] \in Seq(Blocks)
  BY IndexFacts DEF SweepInv, TypeOK, Analysed
<1>2. CASE PredSet(graph, b) = {}
  BY <1>1, <1>2 DEF DominanceFrontier, Edges
<1>3. CASE PredSet(graph, b) # {}
  <2>1. b # Entry
    BY <1>1, <1>3, PredFacts
  <2>2. idom[b] # NULL /\ idom[b] \in Blocks /\ idom[b] \in RpoBlocks(graph)
    BY <1>1, <2>1 DEF SweepInv, SettledInv, TreeInv
  <2>3. /\ Ancestor(idom, x, b) <=> x = b \/ Ancestor(idom, x, idom[b])
        /\ ~ Ancestor(idom, b, idom[b])
    BY <1>1, <2>1, <2>2, AncestorSplit
  <2>4. \A z \in RpoBlocks(graph) :
          Ancestor(idom, x, z) <=> Dominates(Edges(graph), x, z)
    BY AncestorDominates, DominatorIsAncestor
  <2>5. StrictlyDominates(Edges(graph), x, b) <=> Ancestor(idom, x, idom[b])
    BY <2>3, <2>4 DEF StrictlyDominates
  <2>6. \A q : q \in PredSet(graph, b) <=>
                q \in RpoBlocks(graph) /\ <<q, b>> \in Edges(graph)
    <3>1. \A q \in PredSet(graph, b) : q \in RpoBlocks(graph) /\ <<q, b>> \in Edges(graph)
      BY <1>1, PredFacts
    <3>2. \A q : <<q, b>> \in Edges(graph) => q \in PredSet(graph, b)
      BY DEF Edges
    <3>3. QED
      BY <3>1, <3>2
  <2>7. b \in DominanceFrontier(Edges(graph), x) <=>
          \E q \in PredSet(graph, b) : OnWalk(x, q, b)
    <3>1. Reachable(Edges(graph)) = RpoBlocks(graph)
      BY <1>1, NumberedReachable
    <3>2. QED
      BY <2>4, <2>5, <2>6, <3>1 DEF DominanceFrontier, OnWalk
  <2>8. ASSUME ~ Len(graph.preds[b]) >= 2, NEW q \in PredSet(graph, b), OnWalk(x, q, b)
        PROVE  FALSE
    <3>1. \A r \in PredSet(graph, b) : r = graph.preds[b][1]
      <4>1. Len(graph.preds[b]) \in Nat
        BY <1>1
      <4>2. \A k \in 1 .. Len(graph.preds[b]) : k = 1
        BY <2>8, <4>1
      <4>3. QED
        BY <4>2 DEF PredSet
    <3>2. \A r \in PredSet(graph, b) : r = q
      BY <3>1
    <3>3. q # b /\ Dominates(Edges(graph), q, b) /\ q \in RpoBlocks(graph) /\ q \in Blocks
      BY <1>1, <3>2, SolePredecessor, PredFacts
    <3>4. Ancestor(idom, q, b)
      BY <3>3, DominatorIsAncestor
    <3>5. Ancestor(idom, q, idom[b])
      BY <1>1, <2>2, <3>3, <3>4, AncestorParent
    <3>6. QED
      BY <2>8, <3>5, AncestorTrans DEF OnWalk
  <2>9. QED
    BY <2>7, <2>8
<1>4. QED
  BY <1>2, <1>3

(***************************************************************************)
(* When ir_compute_frontiers has returned, ir_block.frontier holds the     *)
(* dominance frontier of the block, each member once.                      *)
(***************************************************************************)
THEOREM FrontiersExact == Spec => []FrontiersCorrect
<1>1. SweepInv /\ FrontierInv => FrontiersCorrect
  <2>1. SUFFICES ASSUME SweepInv, FrontierInv, pc = "done", NEW x \in RpoBlocks(graph)
                 PROVE  /\ Members(x) = DominanceFrontier(Edges(graph), x)
                        /\ \A j, k \in 1 .. Len(frontier[x]) :
                             frontier[x][j] = frontier[x][k] => j = k
    BY DEF FrontiersCorrect, Members
  <2>2. /\ ~ Sweeping /\ Analysed(graph) /\ graph.count \in Nat /\ i = graph.count
        /\ frontier \in [Blocks -> Seq(Blocks)]
    BY <2>1 DEF Sweeping, SweepInv, TypeOK, Analysed, FrontierInv, RunnerInv
  <2>3. \A b \in RpoBlocks(graph) : b \in Blocks /\ graph.index[b] < i
    BY <2>2, IndexFacts
  <2>4. x \in Blocks
    BY <2>1, <2>3
  <2>5. \A b \in Blocks :
          b \in Members(x) <=>
            /\ b \in RpoBlocks(graph) /\ Len(graph.preds[b]) >= 2
            /\ \E q \in PredSet(graph, b) : OnWalk(x, q, b)
    BY <2>1, <2>2, <2>3, <2>4 DEF FrontierInv, RecordedInv, Merged
  <2>6. Members(x) \subseteq Blocks
    BY <2>2, <2>4 DEF Members
  <2>7. DominanceFrontier(Edges(graph), x) \subseteq RpoBlocks(graph)
    BY <2>2, NumberedReachable DEF DominanceFrontier
  <2>8. ASSUME NEW b \in RpoBlocks(graph)
        PROVE  b \in Members(x) <=> b \in DominanceFrontier(Edges(graph), x)
    BY <2>1, <2>2, <2>3, <2>5, WalksMeetFrontier
  <2>9. Members(x) = DominanceFrontier(Edges(graph), x)
    BY <2>3, <2>5, <2>6, <2>7, <2>8
  <2>10. QED
    BY <2>1, <2>4, <2>9 DEF FrontierInv, RecordedInv
<1>2. QED
  BY Invariance, FrontierInvariance, <1>1, PTL

(* The invariant the run checks holds in every state, all three layers. *)
THEOREM WholeInvariance == Spec => []IInv
BY Invariance, ClimbingInvariance, FrontierInvariance, PTL DEF IInv
=============================================================================
