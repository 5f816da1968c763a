--------------------------- MODULE DominatorsInv ---------------------------
(***************************************************************************)
(* The inductive invariants behind the correctness of the dominator pass.  *)
(* SweepInv is behind DominatorsCorrect and WalkNeverNull; ClimbingInv, on *)
(* top of it, behind IdomOnlyClimbs, and FrontierInv behind                *)
(* FrontiersCorrect.  The correctness of the tree is invisible until the   *)
(* sweeps settle; what every step preserves instead is (SweepInv)          *)
(*   - locally, that an idom pointer loses no dominator of its block,      *)
(*   - that idom pointers run strictly down the reverse postorder numbers, *)
(*   - and, for a sweep that has changed nothing so far, that the blocks   *)
(*     it has passed already agree with all their predecessors.            *)
(***************************************************************************)
EXTENDS Dominators

Sweeping == pc \in {"while", "block", "preds", "meet"}

Dom(g, x, y) == Dominates(Edges(g), x, y)

(* Whatever strictly dominates x also dominates z. *)
KeepsDominators(g, x, z) ==
  \A y \in RpoBlocks(g) : Dom(g, y, x) /\ y # x => Dom(g, y, z)

(* A null idom means "not processed"; the others form a tree. *)
TreeInv ==
  \A x \in Blocks : idom[x] # NULL =>
    /\ x \in RpoBlocks(graph)
    /\ idom[x] \in RpoBlocks(graph)
    /\ x # Entry =>
         /\ graph.index[idom[x]] < graph.index[x]
         /\ KeepsDominators(graph, x, idom[x])

EntryInv ==
  Sweeping =>
    /\ idom[Entry] = Entry
    /\ \A x \in Blocks : idom[x] # NULL => idom[idom[x]] # NULL

(* The part of the order this sweep has passed is processed. *)
PrefixInv ==
  Sweeping =>
    /\ i \in 1 .. graph.count
    /\ \A j \in 0 .. i - 1 : idom[graph.rpo[j]] # NULL
    /\ pc = "while" /\ ~ changed => i = graph.count

(* A sweep that changed nothing found each block in agreement. *)
FixInv ==
  Sweeping /\ ~ changed =>
    \A j \in 1 .. i - 1 : \A q \in PredSet(graph, graph.rpo[j]) :
      idom[q] # NULL => Ancestor(idom, idom[graph.rpo[j]], q)

(* The candidate is an ancestor of every processed predecessor seen. *)
CandidateInv ==
  pc \in {"preds", "meet"} =>
    /\ i < graph.count
    /\ newIdom = NULL =>
         \A k \in 1 .. p - 1 : k <= PredCount => idom[graph.preds[Block][k]] = NULL
    /\ newIdom # NULL =>
         /\ idom[newIdom] # NULL
         /\ KeepsDominators(graph, Block, newIdom)
         /\ \A k \in 1 .. p - 1 : k <= PredCount =>
              LET q == graph.preds[Block][k] IN
                /\ idom[q] # NULL => Ancestor(idom, newIdom, q)
                /\ graph.index[q] < i => graph.index[newIdom] < i

(* Both fingers stay on processed common-dominator ground. *)
MeetInv ==
  pc = "meet" =>
    /\ p <= PredCount
    /\ idom[Pred] # NULL /\ newIdom # NULL
    /\ fa \in Blocks /\ idom[fa] # NULL
    /\ fb \in Blocks /\ idom[fb] # NULL
    /\ Ancestor(idom, fa, Pred) /\ Ancestor(idom, fb, newIdom)
    /\ graph.index[fa] <= graph.index[Pred]
    /\ graph.index[fb] <= graph.index[newIdom]
    /\ KeepsDominators(graph, Block, fa) /\ KeepsDominators(graph, Block, fb)

(* The settled tree: its root has no parent, every block has an agreed one. *)
SettledInv ==
  ~ Sweeping =>
    /\ idom[Entry] = NULL
    /\ \A x \in RpoBlocks(graph) \ {Entry} :
         /\ idom[x] # NULL
         /\ \A q \in PredSet(graph, x) : Ancestor(idom, idom[x], q)

(* A runner climbs for the merge point at i. *)
ClimbInv == pc = "run" => i < graph.count

(***************************************************************************)
(* Why a store only climbs.  An idom may lag behind its block's            *)
(* predecessors until the sweep comes round, but never below them: what    *)
(* is above all of them is above it.                                       *)
(***************************************************************************)

(* Blocks get their first dominator in order. *)
InOrderInv ==
  Sweeping =>
    \A x, y \in RpoBlocks(graph) :
      /\ idom[x] # NULL /\ graph.index[y] < graph.index[x] => idom[y] # NULL
      /\ pc = "while" /\ idom[x] # NULL => graph.index[x] < i

(* z is above all predecessors of x that have a dominator. *)
AboveAll(z, x) ==
  \A q \in PredSet(graph, x) : idom[q] # NULL => Ancestor(idom, z, q)

MeetingInv ==
  Sweeping =>
    \A x \in RpoBlocks(graph) \ {Entry}, z \in Blocks :
      idom[x] # NULL /\ AboveAll(z, x) => Ancestor(idom, z, idom[x])

(* What the sweep has changed since it last saw x lies before i: from      *)
(* there on x and the predecessors numbered before it agree.               *)
LagInv ==
  Sweeping =>
    \A x \in RpoBlocks(graph) \ {Entry} : \A q \in PredSet(graph, x) :
      idom[x] # NULL /\ graph.index[q] < graph.index[x] =>
        /\ graph.index[x] < i => Ancestor(idom, idom[x], q)
        /\ \A y \in RpoBlocks(graph) :
             graph.index[y] >= i /\ Ancestor(idom, y, idom[x]) => Ancestor(idom, y, q)

(* The candidate is the lowest block above the predecessors seen. *)
LowestInv ==
  /\ pc \in {"preds", "meet"} /\ newIdom # NULL =>
       \A z \in Blocks :
         (\A k \in 1 .. p - 1 :
            k <= PredCount /\ idom[graph.preds[Block][k]] # NULL =>
              Ancestor(idom, z, graph.preds[Block][k]))
         => Ancestor(idom, z, newIdom)
  /\ pc = "meet" =>
       \A z \in Blocks :
         Ancestor(idom, z, Pred) /\ Ancestor(idom, z, newIdom) =>
           Ancestor(idom, z, fa) /\ Ancestor(idom, z, fb)

-----------------------------------------------------------------------------
(* What has been recorded as frontiers *)

(* x is on the walk up from q that stops below the parent of b. *)
OnWalk(x, q, b) == Ancestor(idom, x, q) /\ ~ Ancestor(idom, x, idom[b])

Members(x) == {frontier[x][k] : k \in 1 .. Len(frontier[x])}

(* b is a merge point whose walks are done. *)
Merged(b) == b \in RpoBlocks(graph) /\ graph.index[b] < i /\ Len(graph.preds[b]) >= 2

(* x has been passed on a walk for the merge point at i: one that is done, *)
(* or the one under way.                                                   *)
Passed(x) ==
  \/ \E k \in 1 .. p - 1 : k <= PredCount /\ OnWalk(x, graph.preds[Block][k], Block)
  \/ pc = "run" /\ OnWalk(x, Pred, Block) /\ ~ Ancestor(idom, x, runner)

RecordedInv ==
  \A x \in Blocks :
    /\ Sweeping => frontier[x] = <<>>
    /\ \A j, k \in 1 .. Len(frontier[x]) : frontier[x][j] = frontier[x][k] => j = k
    /\ ~ Sweeping =>
         \A b \in Blocks :
           b \in Members(x) <=>
             \/ Merged(b) /\ \E q \in PredSet(graph, b) : OnWalk(x, q, b)
             \/ i < graph.count /\ b = Block /\ Passed(x)

(* The runner is between the predecessor and the parent, so it meets the   *)
(* parent before the root.                                                 *)
RunnerInv ==
  /\ pc = "run" =>
       /\ p <= PredCount /\ PredCount >= 2
       /\ runner \in RpoBlocks(graph)
       /\ Ancestor(idom, runner, Pred) /\ Ancestor(idom, idom[Block], runner)
  /\ pc \in {"merge", "done"} =>
       p = 1 \/ (pc = "merge" /\ i < graph.count /\ PredCount >= 2)
  /\ pc = "done" => i = graph.count

-----------------------------------------------------------------------------
SweepInv ==
  /\ TypeOK
  /\ TreeInv /\ EntryInv /\ PrefixInv /\ FixInv
  /\ CandidateInv /\ MeetInv /\ SettledInv /\ ClimbInv

ClimbingInv == InOrderInv /\ MeetingInv /\ LagInv /\ LowestInv

FrontierInv == RecordedInv /\ RunnerInv

IInv == SweepInv /\ ClimbingInv /\ FrontierInv
=============================================================================
