----------------------------- MODULE Optimizer -----------------------------
(***************************************************************************)
(* The middle end as main() drives it under --dump-ssa: promotion of every *)
(* function, then src/src/opt/opt.c: inlining once over the program, and   *)
(* for each function rounds of fold, copies, dce, cse, licm, tail calls    *)
(* and control-flow simplification until a round changes nothing.          *)
(*                                                                         *)
(* One action is one rewrite, or one decision of the driver.  A pass walks *)
(* the function with a cursor (at): it takes the next instruction at or    *)
(* after it that it can rewrite, and it reads the analyses as they were    *)
(* when they were last refreshed (an).                                     *)
(***************************************************************************)
EXTENDS SsaBuild, Fold, Dce, Cse, Licm, Inline

CONSTANTS
  Levels,      \* the -O levels tried
  MaxRounds    \* OPT_MAX_ROUNDS

ASSUME BoundsAssumption == MaxRounds \in Nat \ {0} /\ Growth \in Nat

VARIABLES
  orig,     \* the program as it was lowered
  level,    \* the -O level
  round,    \* rounds of opt_run so far
  changed,  \* this round has changed something
  moved,    \* this walk of a repeated pass has changed something
  at,       \* the cursor of the pass
  work,     \* blocks (cse) or loop headers (licm) still to visit
  budget    \* instructions opt_inline may still add to this caller

optVars == <<round, changed, moved, at, work, budget>>
vars == <<prog, cur, an, pc, ssaVars, orig, level, optVars>>

Top == <<EntryBlock, 1>>

Init ==
  /\ SsaInit
  /\ orig = prog
  /\ level \in Levels
  /\ round = 0 /\ changed = FALSE /\ moved = FALSE
  /\ at = Top /\ work = <<>> /\ budget = 0

BuildSsa == SsaNext /\ UNCHANGED <<orig, level, optVars>>

FromCursor(S) == {s \in S : ~ IsBefore(s, at)}

(* Slip: only the edges are derived again. *)
RefreshEdges(f) == an' = WithCfg(an, f)

(* refresh() *)
Refresh(f) == an' = Analyses(f)
RefreshFn  == Replace(DropUnreachable(fn)) /\ Refresh(DropUnreachable(fn))

(* main() analyses what promotion built before it goes on. *)
FinishSsa ==
  /\ pc = "built"
  /\ RefreshFn
  /\ IF cur < Len(prog)
       THEN cur' = cur + 1 /\ pc' = "analyse"
       ELSE cur' = 1 /\ pc' = IF level = 0 THEN "done" ELSE "callers"
  /\ UNCHANGED <<ssaVars, orig, level, optVars>>

-----------------------------------------------------------------------------
(* opt_inline *)

StartCaller ==
  /\ pc = "callers"
  /\ budget' = IF level < 2 THEN 0 ELSE InstrCount(fn) * (Growth - 1)
  /\ pc' = "inline"
  /\ UNCHANGED <<prog, cur, an, ssaVars, orig, level, round, changed, moved, at, work>>

(* Each sweep begins with ir_analyze_cfg of the caller. *)
Swept == [prog EXCEPT ![cur] = DropUnreachable(@)]

NextSite == FirstOf(InlineSites(Swept, cur, budget))

NextCallee == CHOOSE c \in CalleeOf(Swept, Swept[cur], InstrAt(Swept[cur], NextSite)) : TRUE

InlineNext ==
  /\ pc = "inline" /\ budget > 0
  /\ InlineSites(Swept, cur, budget) # {}
  /\ Replace(InlineAt(Swept[cur], NextSite, prog[NextCallee]))
  /\ budget' = budget - Added(prog[NextCallee])
  /\ UNCHANGED <<cur, an, pc, ssaVars, orig, level, round, changed, moved, at, work>>

EndInline ==
  /\ pc = "inline"
  /\ budget > 0 => InlineSites(Swept, cur, budget) = {}
  /\ Replace(IF budget > 0 THEN Swept[cur] ELSE fn)
  /\ IF cur < Len(prog) THEN cur' = cur + 1 /\ pc' = "callers"
                        ELSE cur' = 1 /\ pc' = "round"
  /\ round' = 0
  /\ UNCHANGED <<an, ssaVars, orig, level, changed, moved, at, work, budget>>

-----------------------------------------------------------------------------
(* opt_run *)

StartRound ==
  /\ pc = "round"
  /\ RefreshFn
  /\ round' = round + 1 /\ changed' = FALSE
  /\ at' = Top
  /\ pc' = "fold"
  /\ UNCHANGED <<cur, ssaVars, orig, level, moved, work, budget>>

FoldSites == {s \in Sites(fn) : s[1] \in an.reach /\ FoldAt(fn, s) # {}}

FoldNext ==
  /\ pc = "fold" /\ FromCursor(FoldSites) # {}
  /\ LET s == FirstOf(FromCursor(FoldSites)) IN
       \E f \in FoldAt(fn, s) :
         /\ Replace(f)
         /\ at' = <<s[1], s[2] + 1 + Len(f.code[s[1]]) - Len(fn.code[s[1]])>>
  /\ changed' = TRUE
  /\ UNCHANGED <<cur, an, pc, ssaVars, orig, level, round, moved, work, budget>>

EndFold ==
  /\ pc = "fold" /\ FromCursor(FoldSites) = {}
  /\ at' = Top /\ moved' = FALSE
  /\ pc' = "copies"
  /\ UNCHANGED <<prog, cur, an, ssaVars, orig, level, round, changed, work, budget>>

PropagateNext ==
  /\ pc = "copies" /\ FromCursor(CopySites(fn, an)) # {}
  /\ LET s == FirstOf(FromCursor(CopySites(fn, an))) IN
       /\ Replace(PropagateAt(fn, s))
       /\ at' = s
  /\ changed' = TRUE /\ moved' = TRUE
  /\ UNCHANGED <<cur, an, pc, ssaVars, orig, level, round, work, budget>>

EndCopies ==
  /\ pc = "copies" /\ FromCursor(CopySites(fn, an)) = {}
  /\ at' = Top /\ moved' = FALSE
  /\ pc' = IF moved THEN "copies" ELSE "dce"
  /\ UNCHANGED <<prog, cur, an, ssaVars, orig, level, round, changed, work, budget>>

SweepDead ==
  /\ pc = "dce" /\ DeadSites(fn, an) # {}
  /\ Replace(Sweep(fn, an))
  /\ changed' = TRUE
  /\ UNCHANGED <<cur, an, pc, ssaVars, orig, level, round, moved, at, work, budget>>

EndDce ==
  /\ pc = "dce" /\ DeadSites(fn, an) = {}
  /\ RefreshFn
  /\ work' = <<EntryBlock>>
  /\ pc' = IF level >= 2 THEN "cse" ELSE "tail"
  /\ UNCHANGED <<cur, ssaVars, orig, level, round, changed, moved, at, budget>>

(* opt_cse: the visit has reached instruction at[2] of block Head(work). *)
SharedSites ==
  {s \in Sites(fn) : s[1] = Head(work) /\ s[2] >= at[2] /\ Matches(fn, an, s) # {}}

ShareNext ==
  /\ pc = "cse" /\ work # <<>> /\ SharedSites # {}
  /\ Replace(ShareAt(fn, an, FirstOf(SharedSites)))
  /\ at' = FirstOf(SharedSites)
  /\ changed' = TRUE
  /\ UNCHANGED <<cur, an, pc, ssaVars, orig, level, round, moved, work, budget>>

VisitChildren ==
  /\ pc = "cse" /\ work # <<>> /\ SharedSites = {}
  /\ work' = Children(an, Head(work)) \o Tail(work)
  /\ at' = Top
  /\ UNCHANGED <<prog, cur, an, pc, ssaVars, orig, level, round, changed, moved, budget>>

EndCse ==
  /\ pc = "cse" /\ work = <<>>
  /\ RefreshFn
  /\ IF level >= 3
       THEN /\ pc' = "licm"
            /\ work' = Ascending({b \in BlocksOf(fn) : IsLoopHeader(an', b)}, Len(fn.code))
       ELSE pc' = "tail" /\ work' = <<>>
  /\ moved' = FALSE
  /\ UNCHANGED <<cur, ssaVars, orig, level, round, changed, at, budget>>

(* opt_licm: the loop of header Head(work), walked until nothing moves. *)
Hoistable ==
  IF HasTarget(fn, an, Head(work)) THEN InvariantSites(fn, an, Head(work)) ELSE {}

HoistNext ==
  /\ pc = "licm" /\ work # <<>> /\ FromCursor(Hoistable) # {}
  /\ LET s == FirstOf(FromCursor(Hoistable)) IN
       /\ Replace(HoistAt(fn, an, Head(work), s))
       /\ at' = s
  /\ changed' = TRUE /\ moved' = TRUE
  /\ UNCHANGED <<cur, an, pc, ssaVars, orig, level, round, work, budget>>

EndLoop ==
  /\ pc = "licm" /\ work # <<>> /\ FromCursor(Hoistable) = {}
  /\ at' = Top /\ moved' = FALSE
  /\ work' = IF moved THEN work ELSE Tail(work)
  /\ UNCHANGED <<prog, cur, an, pc, ssaVars, orig, level, round, changed, budget>>

EndLicm ==
  /\ pc = "licm" /\ work = <<>>
  /\ RefreshFn
  /\ pc' = "tail"
  /\ UNCHANGED <<cur, ssaVars, orig, level, optVars>>

LoopTailCalls ==
  /\ pc = "tail" /\ CanLoop(fn, an, cur)
  /\ Replace(LoopInsteadOfCalls(fn, an, cur))
  /\ changed' = TRUE
  /\ pc' = "straighten"
  /\ UNCHANGED <<cur, an, ssaVars, orig, level, round, moved, at, work, budget>>

NoTailCalls ==
  /\ pc = "tail" /\ ~ CanLoop(fn, an, cur)
  /\ pc' = "straighten"
  /\ UNCHANGED <<prog, cur, an, ssaVars, orig, level, optVars>>

(* opt_simplify_cfg.  Blocks that stopped being reachable are a change. *)
Rederive(f, edited) ==
  LET g   == DropUnreachable(f)
      cfg == WithCfg(an, g)
  IN /\ Replace(FixPhis(g, cfg))
     /\ an' = cfg
     /\ changed' = (changed \/ edited \/ Cardinality(cfg.reach) < Cardinality(an.reach))

StraightenBranches ==
  /\ pc = "straighten"
  /\ Rederive(Straighten(fn, an), StraightSites(fn, an) # {})
  /\ pc' = "merge"
  /\ UNCHANGED <<cur, ssaVars, orig, level, round, moved, at, work, budget>>

MergeNext ==
  /\ pc = "merge"
  /\ \E b \in MergeSites(fn, an) : \E c \in MergeTargets(fn, an, b) :
       /\ \A y \in MergeSites(fn, an) : b <= y
       /\ Replace(Absorb(fn, b, c))
       /\ an' = [an EXCEPT !.reach = @ \ {c}]
  /\ changed' = TRUE
  /\ UNCHANGED <<cur, pc, ssaVars, orig, level, round, moved, at, work, budget>>

EndMerge ==
  /\ pc = "merge" /\ MergeSites(fn, an) = {}
  /\ Rederive(fn, FALSE)
  /\ pc' = "check"
  /\ UNCHANGED <<cur, ssaVars, orig, level, round, moved, at, work, budget>>

(* The verifier runs on current analyses; a function it rejects is left    *)
(* alone, and so is one the round did not change.                          *)
CheckRound ==
  /\ pc = "check"
  /\ RefreshFn
  /\ pc' = IF Verifies(fn, Analyses(fn)) /\ changed /\ round < MaxRounds
             THEN "round" ELSE "next"
  /\ UNCHANGED <<cur, ssaVars, orig, level, optVars>>

NextFunction ==
  /\ pc = "next"
  /\ round' = 0
  /\ IF cur < Len(prog) THEN cur' = cur + 1 /\ pc' = "round"
                        ELSE cur' = cur /\ pc' = "done"
  /\ UNCHANGED <<prog, an, ssaVars, orig, level, changed, moved, at, work, budget>>

Terminating == pc = "done" /\ UNCHANGED vars

Next ==
  \/ BuildSsa \/ FinishSsa
  \/ StartCaller \/ InlineNext \/ EndInline
  \/ StartRound
  \/ FoldNext \/ EndFold \/ PropagateNext \/ EndCopies \/ SweepDead \/ EndDce
  \/ ShareNext \/ VisitChildren \/ EndCse
  \/ HoistNext \/ EndLoop \/ EndLicm
  \/ LoopTailCalls \/ NoTailCalls
  \/ StraightenBranches \/ MergeNext \/ EndMerge
  \/ CheckRound \/ NextFunction
  \/ Terminating

(* One thread compiles: it takes step after step until it is done.  (Some  *)
(* step is always possible, which the runs check as the absence of         *)
(* deadlock, so this is weak fairness of Next.)                            *)
KeepsRunning == []<><<Next>>_vars \/ <>[](pc = "done")

Spec == Init /\ [][Next]_vars /\ KeepsRunning

-----------------------------------------------------------------------------
Pcs == {"analyse", "promote", "place", "rename", "built", "callers", "inline", "round",
        "fold", "copies", "dce", "cse", "licm", "tail", "straighten", "merge", "check",
        "next", "done"}

(***************************************************************************)
(* Whatever a pass has left half done, every function keeps the shape all  *)
(* the walks rely on: nothing runs on past the instruction that ends a     *)
(* block, and no instruction goes to a block that is not there.  The slots *)
(* whose allocas promotion removes are values, not the NoValue that is the *)
(* result of everything that ends a block.                                 *)
(***************************************************************************)
Promoting == pc \in {"analyse", "promote", "place", "rename", "built"}

Unpromoted(k) == cur < k \/ (cur = k /\ pc \in {"analyse", "promote"})

WellShaped ==
  /\ IsSeq(prog) /\ cur \in DOMAIN prog
  /\ \A k \in DOMAIN prog : IsFunction(prog[k])
  /\ Promoting => \A k \in DOMAIN prog : Unpromoted(k) => SlotsNamed(prog[k])
  /\ pc \in {"place", "rename"} => IsSeq(slots) /\ NoValue \notin Range(slots)

(***************************************************************************)
(* Every value has one definition, and every instruction as many operands  *)
(* as its kind takes, which are values of the function: in all functions,  *)
(* reached by control or not, from the moment they are analysed first.     *)
(***************************************************************************)
Unanalysed(k) == Promoting /\ (cur < k \/ (cur = k /\ pc = "analyse"))

AllNumbered ==
  \A k \in DOMAIN prog : Numbered(IF Unanalysed(k) THEN DropUnreachable(prog[k]) ELSE prog[k])

(* What the renaming walk has noted are values too.                        *)
TablesHoldValues ==
  pc \in {"place", "rename"} =>
    LET values == 1 .. fn.values
    IN /\ stack \in [DOMAIN slots -> Seq(values)]
       /\ zero \in [DOMAIN slots -> {NoValue} \cup values]
       /\ DOMAIN repl \subseteq values /\ repl \in [DOMAIN repl -> {NoValue} \cup values]
       /\ IsSeq(phiOf) /\ Len(phiOf) <= Len(slots) /\ (pc = "rename" => Len(phiOf) = Len(slots))
       /\ \A j \in DOMAIN phiOf : phiOf[j] \in [BlocksOf(fn) -> {NoValue} \cup values]
       /\ path \in Seq([b : BlocksOf(fn), filled : BOOLEAN, todo : Seq(BlocksOf(fn)),
                        pushed : [DOMAIN slots -> Nat]])

TypeOK ==
  /\ pc \in Pcs
  /\ WellShaped
  /\ AllNumbered
  /\ TablesHoldValues
  /\ level \in Levels
  /\ round \in 0 .. MaxRounds
  /\ changed \in BOOLEAN /\ moved \in BOOLEAN
  /\ Range(work) \subseteq BlocksOf(fn)
  /\ budget \in Int

Building == pc \in {"place", "rename"}

(***************************************************************************)
(* Not only at round boundaries: every single rewrite of every pass leaves *)
(* IR that ir_verify accepts -- each use dominated by its one definition,  *)
(* each phi with one argument per incoming edge.  Only promotion, between  *)
(* placing its first phi and applying its replacements, does not.          *)
(***************************************************************************)
EveryRewriteVerifies == ~ Building => Verifies(fn, Analyses(fn))

(***************************************************************************)
(* "A stale dominator tree is a wrong answer" (opt.c:41): what a pass      *)
(* reads is what the analyses would say of the function as it is now,      *)
(* after all the rewrites since they were last run.                        *)
(***************************************************************************)
AnalysesCurrent ==
  pc \in {"promote", "place", "rename", "fold", "copies", "dce", "cse", "licm", "tail"} =>
    an = Analyses(fn)

(***************************************************************************)
(* The passes do not undo each other: a function is given up at a round    *)
(* that changed nothing, not because OPT_MAX_ROUNDS ran out.               *)
(***************************************************************************)
RoundsSettle == pc = "next" => ~ changed

(***************************************************************************)
(* "A caller may not grow without bound, however many small callees it     *)
(* has": every inlining pays for what it copies out of a budget that does  *)
(* not go negative.  What it adds beyond that, the phi of the result and   *)
(* the zeros of bare returns, is never more than twice what it paid.       *)
(***************************************************************************)
InliningIsPaidFor ==
  [][pc = "inline" /\ pc' = "inline" =>
       /\ 0 <= budget' /\ budget' < budget
       /\ InstrCount(fn') <= InstrCount(fn) + 3 * (budget - budget')]_vars

(* What opt.c:33 says of the cap: the IR is valid at every round boundary. *)
ValidAtRoundBoundary ==
  pc \in {"round", "next", "done"} => Verifies(fn, Analyses(fn))

(* Every fixed point inside a pass, and the compilation, is reached. *)
CompilationEnds == <>(pc = "done")
=============================================================================
