# A TLA+ model of the Donkey C compiler

Donkey is a C compiler of about 15,700 lines of C. It is one process with one
thread. What makes it hard is not concurrency but long sequences of small edits
to one mutable structure: passes that read analyses computed before the edits,
walks that only some property of the graph ends, recursion over trees whose
nodes are written on while they are walked, and bookkeeping that must survive
every order in which a program can mention things. This project models the
preprocessor, the semantic analysis, the code generator, the lowering to IR and
the whole middle end, checks them with TLC, and proves seven parts with TLAPS:
the two graph analyses the optimiser rests on, that the optimiser never reads
them stale, that it keeps single assignment, that lowering hands it functions
the verifier accepts, the scope table the front end rests on, and the activations,
marks and limits of the preprocessor.

All paths below are relative to the repository (`src/ir/dom.c` and so on).
`PROJECT.json` maps each definition to the lines it stands for.

## 1. The system

```
 file -> preprocess -> lexer/parser -> semantic analysis -> codegen -> assembly
                                            |
                                            +-> lower -> cfg, dom -> ssa -> opt -> dump
```

Without `--dump-ir`/`--dump-ssa` the back end works on the syntax tree; with
them `main.c:136-189` lowers each function to IR, analyses it, builds SSA,
analyses it again, optimises the program and prints it.

| Component | State it keeps | Operations | Interacts through | What makes it correct | Status |
|---|---|---|---|---|---|
| preprocessor (`src/frontend/preprocess.c`, `pp_*.c`) | singleton `pp`: macro table with `expanding` marks, files read once, include depth; per file a stack of groups | directives, macro expansion, `#if` evaluation, inclusion | the lexer; recursion between `pp_expand_range` and `substitute`, and of `pp_process_tokens` for files | output is what C says; a group selects one branch; marks follow active calls; ends | modelled |
| lexer, parser (`src/frontend/lexer.c`, `parser*.c`) | token cursor; typedef names | recursive descent | token list in, tree out; asks `symbol.c` whether a name is a type | grammar | not modelled: a walk over the tokens whose only state is its position |
| semantic analysis (`src/analysis/`) | table of locals with scope depths, frame offset and size, top-level symbols, loop nesting, error count, types on nodes | declare, look up, enter and leave scopes, type, convert | two passes over the tree fill and empty the same table; writes symbols, slots, types and casts on the tree | each name has its innermost declaration; objects in scope share no byte; wrong units, and only those, are rejected | partly; scope table proved |
| lowering (`src/ir/lower.c`) | insertion point, loop stack, slots, label and case blocks, indices written on case nodes | one function per kind of node | reads the tree, appends IR | verifier accepts it; behaves as the source | partly; acceptance proved |
| IR (`src/ir/ir.c`) | linked lists of blocks, instructions; value counter | append, insert, move, remove, replace uses | every pass edits it | lists and uses stay consistent | modelled |
| control-flow analysis (`src/ir/cfg.c`) | per block mark, number, predecessor array; `order` | depth-first search, drop unreachable, enter edges | re-run by every pass that changes edges | reverse postorder and exact predecessors, after any edits | modelled, proved |
| dominators (`src/ir/dom.c`) | `idom` pointers, frontiers | sweeps to a fixed point, frontier walks | reads what cfg.c left; read by ssa, cse, licm | exactly dominance, never a null pointer | modelled, proved |
| verifier (`src/ir/verify.c`) | none | checks of a function | run after passes | rejects ill-formed IR | modelled |
| SSA construction (`src/ir/ssa.c`) | definition stacks, replacement table | promote slots, place phis, rename | dominator tree, frontiers | behaviour and validity kept | modelled |
| optimiser (`src/opt/*.c`) | change flags, cursor, budget | fold, copies, dce, cse, licm, tail calls, simplify, inline | IR and analyses, refreshed between passes | each rewrite keeps validity and behaviour, analyses are current when read; ends | modelled (folding: integers only); currency proved |
| IR dump, generic dumps (`src/ir/irdump.c`, `src/support/dump.c`) | none | formatting | stdout | - | not modelled: formatting |
| code generator (`src/backend/`) | label counter, break and continue targets, case numbers written on nodes, which of `%rax`, `%rcx` and the stack holds what | emit assembly per node | tree in, text out; relies on slots and casts of the analysis | the code does what the source says; calls aligned | partly |
| diagnostics (`src/support/diag.c`) | error and warning counts | report, cap | every phase asks whether errors happened | compilation fails iff an error was reported | not modelled: formatting; the count itself is `errors` of `Resolve`, and ends `Compile` in `rejected` |
| command line, files, memory (`src/support/cli.c`, `file.c`, `mem.c`) | options | parsing, I/O | - | - | not modelled: I/O and allocation |

Hard behaviours, each listed with its line in `PROJECT.json` under `hazards`:

- **Stale state.** An analysis runs on a function it numbered before
  (`cfg.c:53`); passes read dominators of the graph before the last edit
  (`opt.c:65`); renaming uses a value that is itself being replaced
  (`ssa.c:253`); macro marks outlive or precede the calls they stand for
  (`pp_macro.c:356`); one table serves every scope and both passes over them,
  and the frame is rewound to what a scan of it finds (`sema_scope.c:349`,
  `358`).
- **Order.** `intersect` follows pointers its own sweep is rewriting
  (`dom.c:35`); definition stacks must be as the parent left them for every
  sibling (`ssa.c:291`); a `goto` may precede its label (`lower.c:236`); an
  operand that branches moves the insertion point (`lower.c:114`); labels come
  from one counter while cases are found again through numbers on the tree
  (`codegen_stmt.c:325`); operands wait on the machine stack while others are
  computed (`codegen_expr.c:464`).
- **Termination.** Recursion along cycles (`cfg.c:42`), rounds that undo each
  other (`opt.c:61`), hoisting to a fixed point (`licm.c:100`), copies that
  bring in more calls (`inline.c:366`), macros and headers that mention
  themselves (`pp_macro.c:378`, `pp_include.c:112`).
- **Boundaries.** 64-bit host arithmetic for narrower targets (`fold.c:62`),
  `cases[256]` (`lower.c:921`), arrays filled without a check (`cfg.c:64`),
  conversions that show only where the width or the sign of the operands makes
  a difference (`sema_type.c:21`), stores wider than the object (`codegen.c:199`).

## 2. Modules

### Graphs and analyses

- `FlowGraph` defines reachability, dominance and dominance frontiers as least
  closed sets. It is no algorithm of the compiler; it is what the algorithms
  are judged by. It also states the contract between `cfg.c` and `dom.c`
  (`Analysed`).
- `Cfg` is `ir_analyze_cfg`: `postorder` as an explicit stack of active calls
  (`stack`, `calling`), marks (`visited`), `order`, then numbering, dropping
  unreachable blocks and entering edges. When an analysis is done, blocks may be
  edited (any block may get any other end, at most `MaxEdits` times in the run)
  and it runs again, as `opt_run` does. `CfgInv` is the inductive invariant,
  `CfgProofs` the theorems.
- `Dominators` is `ir_compute_dominators` (one action per block, predecessor and
  step of `intersect`) and `ir_compute_frontiers`. It starts from any `Analysed`
  graph. `DominatorsInv` is its inductive invariant in three layers,
  `DominatorsProofs` the theorems about the sweeps, their climbing and the
  frontiers.

### Middle end

- `Ir` is a function as a value (`[code, values]`; a block is its sequence of
  instructions), with the edits of `ir.c`, the verifier (`Verifies`) and the
  analyses as operators (`Analyses`). That the operators are what the stepwise
  algorithms compute is what `Cfg` and `Dominators` show. `IsFunction` is the shape
  every walk over the lists relies on. `Lists` has the two operators on sequences
  the library lacks, as recursive functions. `IrProofs` proves what the other
  proofs need of sequences of anything, and what each kind of edit does to the shape
  of a function, to its edges and to the values it defines.
- `SsaBuild` is `ssa.c`, the renaming walk one instruction at a time. `Fold`
  with `Arithmetic` (integers of a width), `Dce`, `Cse`, `Licm`, `Simplify`,
  `Tailcall` and `Inline` each give the rewrites of one pass.
- `Optimizer` composes them as `main.c` and `opt.c` do: promotion of every
  function, inlining over the program, then rounds per function. One action is
  one rewrite or one decision of the driver. `an` holds the analyses as they were when last refreshed, so that a
  stale read is a stale read in the model. `OptimizerProofs` has one lemma per
  pass, one per action, and the theorems, first about shape and analyses and then,
  built the same way on top of them, about single assignment.
- `IrSemantics` runs IR on given arguments: the calls that leave the program,
  what is returned, and traps. It is recursive, so the modules proofs are written
  about do not use it: what is said of the IR when it runs is stated in
  `MCOptimizer` and `MCLower`. `MCOptimizer` also builds functions in the shape
  `lower.c` gives them, for the runs of the passes.

### Lowering

- `Syntax` is the analysed tree, `Lower` is `lower.c`. The C recursion is a work
  list (`todo`) with a value stack (`vals`); one action is one node visited
  or one instruction appended, so the insertion point (`block`) is where the
  code has it at that moment. `LowerWork` proves what each node becomes, as a chain
  of steps from one shape of the state to another, and `LowerProofs` that every
  action follows the chain; the theorems are at its end. `NodesOf` lists the nodes of each
  function's tree, so that `Lower` needs no recursive operator to find them.
- `SourceSemantics` evaluates the same tree directly, without blocks or slots,
  and is the abstract specification: `MCLower` says a finished lowering
  behaves as its source on every input.

### Semantic analysis and code generation

- `Scopes` is block scope as C has it, a stack of scopes each with its names.
  `ScopeTable` is `sema_scope.c`: one list of entries with depths (`locals`), the
  slots given out (`slots`), and the frame (`frame_offset`, `frame_max`).
  `Stack == INSTANCE Scopes WITH scopes <- ...` groups the entries by depth;
  `StackOfScopes` says that the table implements the stack. `ScopeTableProofs`
  holds the theorems.
- `Resolve` is the first pass (`sema_resolve.c`): the top-level table, then one
  action per node visited, with the C recursion as the work list `todo`. `Typing`
  is the second (`sema_type.c`, `type.c`), which fills and empties the same
  table again, gives every expression its type and puts the conversions into the
  tree.
- `CodeGen` is `codegen*.c`: again a work list, one action per node visited,
  each appending instructions to `code`; `statics` is the data section.
  `Assembly`, external to the sources, runs the instructions the generator uses:
  bytes of `ByteBits` bits, flags, the stack, and the System V convention at calls
  that leave the program.
- `Compile` is the order of the phases in `main.c` over one translation unit
  (`phase`: `collect`, `resolve`, `type`, `data`, `generate`, then `done`, or
  `rejected` as soon as a pass has reported an error, or `unsupported` where the
  generator reports that it cannot). A source is a unit as C understands it, with
  every name bound, every expression typed and every conversion spelled out;
  `Parsed` takes all that away, and the passes have to find it again. The types the
  checker has no way to say are listed in `TypeLost`: a struct, or a pointer to one,
  that is come to otherwise than by a name, `*` and `[]` (`sema_type.c` passes on a
  base type and stars, not a tag), `sizeof`, and the difference of pointers. Of these
  only the stars are compared; section 5 says what becomes of them.
  `WellFormed` states C's constraints on the tree, `MeaningOf` evaluates the source
  with `SourceSemantics`, `Ran` runs the assembly.

### Preprocessor

- `Preprocess` keeps the active calls of `pp_process_tokens` in `reading` (file,
  position, groups, `active`) and those of `pp_expand_range` and `substitute`
  in `calls`; `macros`, `expanding` and `once` are the fields of `pp`. One
  action is one directive, one line, or one token of an expansion. Tokens are
  a kind, a sequence of pieces (so `##` can join them) and a place on the line.
- `PpCondition` is the precedence climbing of `pp_cond.c`; a configuration
  passes it to `Preprocess` as `Evaluate`, because its recursive operators must
  not be reachable from a module that proofs are written about.
  `PreprocessProofs` holds the inductive invariant and the theorems.
- `CPreprocessing` is C: sources as trees, conditions as expression trees, and
  macro replacement by hide sets. It also prints trees as token lines.
  `MCPreprocess` compares the two, and defines by counting alone which lines a
  sequence of conditional directives selects.

Every module has its `MC` module and `.cfg` where it is run. A definition under
a comment that begins "Slip:" is a variant of the one after it with a plausible
mistake; no specification uses it. `PROJECT.json` pairs each property with such
a variant, under which it fails.

## 3. What the runs check

| Run | Instance | Shows |
|---|---|---|
| `analysis` | every function of 4 blocks (return, jump, branch), analysed, one block edited, analysed again | the search ends (`AnalysisEnds`), never overfills `order` (`OrderFits`), and leaves reverse postorder and exact predecessors with nothing left over (`HandsOverAnalysed`, `FindsTheGraph`, `BackEdgesCloseCycles`); `CfgInvariant` is inductive material for the proofs |
| `dominators` | every analysed graph of 3 or 4 blocks | `intersect` never follows null (`WalkNeverNull`), the sweeps end (`Terminates`), each store only climbs (`IdomOnlyClimbs`), the result is dominance and its frontiers (`DominatorsCorrect`, `FrontiersCorrect`) |
| `optimise` | single functions: branches, loops, nested loops, two-entry loops, dead code, tail calls; programs of two functions that call each other; -O1 to -O3 | every rewrite leaves IR the verifier accepts (`EveryRewriteVerifies`) that does the same (`EveryRewritePreserves`); analyses are current when read (`AnalysesCurrent`); rounds settle before the cap (`RoundsSettle`), every copied body is charged to the budget (`InliningIsPaidFor`) and compilation ends (`CompilationEnds`) |
| `fold` | every operator over parameters and boundary constants of int, uint (3 bits), long, ulong (5 bits), followed by a comparison or cast | folding agrees with not folding (`FoldingAgrees`) and never removes a trap (`DivisionStillTraps`) |
| `lower` | 18 expressions, objects in memory, calls, 9 programs of jumps, and 5 kinds of loop or switch inside 5 others with 7 ways out | the insertion point never enters a finished block (`InsertionMovesOn`), the verifier accepts the result (`LoweredVerifies`), and running it is running the source (`LoweredMeansSource`) |
| `preprocess` | every sequence of up to 5 conditional directives and text lines; every kind of macro; every pair of `#if` operators; headers with and without guards that include each other | groups select the first branch that holds or are diagnosed (`GroupsSelectOneBranch`), marks follow active calls (`MarksFollowCalls`), the output is C's (`PreprocessesAsC`), and it ends (`PreprocessingEnds`) |
| `compile` | 236 units: locals of 6 types around and in blocks, 5 kinds of loop or switch inside each other with 3 ways out, jumps, every expression form, conversions between integer types of every width and sign, objects in memory, calls with 1, 6, 7 and 8 arguments, structs as arguments and results, function pointers, recursion, globals; units that break one rule each, or nearly; units the generator gives up on | the passes rebuild what C understands, the types of `TypeLost` excepted (`AnnotatedAsC`), reject exactly what breaks a rule (`Diagnosed`), keep locals apart (`LocalsDisjoint`), and the table is a stack of scopes (`StackOfScopes`); the assembly does what the source says on every input (`CodeMeansSource`) and calls with the stack aligned (`CallsAligned`) |
| `fold_shift`, `tail_phis`, `lower_gaps`, `preprocess_macros`, `frame_overlap` | | violations, section 5 |

Bounds, and why they are enough:

- `MaxBlocks = 4`: the smallest size with irreducible loops, a merge of three,
  a self loop beside a branch, and unreachable blocks that lead into reachable
  ones. The theorems do not depend on it. `MaxEdits = 1`: the second analysis
  starts from what the first left; a third starts from the same kind of state.
- `Width`, `HostWidth`: a few bits. Every rule of `fold.c` turns on zero, one,
  minus one, the smallest and largest number and powers of two, which all exist
  at 3 bits; the host must only be at least as wide as every type.
- `MaxRounds = 6` and `MaxInline`, `Growth` are `opt.c`'s and `inline.c`'s
  limits made small enough to be reached (`Growth`) or, for rounds, left above what
  the programs need, so that `RoundsSettle` means the passes settled by
  themselves. `Levels` is the -O levels tried.
- `Doublings`: runs of IR are followed for 2^`Doublings` steps, and `Fuel`
  bounds repetitions in the source. The loops of the programs end within both;
  a run that does not is compared only as far as it got.
- `MaxCases = 4` (256 in the code) is above the cases of one switch of the
  programs. `MaxGroups = 2` (64) and `MaxIncludes = 3` (64) are reached.
  `MaxLines = 5` is the shortest that nests a group in a skipped one with a
  branch after it. `LongBits = 16` bits of a `long` in `#if`.

- In `compile`, `ByteBits = 3` makes a `char` 3 bits, a `short` 6, an `int` 12 and a
  `long` or a pointer 24: four widths that all differ, every one with its
  boundary values, and sizes in bytes as the code has them. `StackBytes = 480`
  holds the deepest nest of calls of the units; running out would end a run as a
  fault, which agrees with no source. `Fuel = 20` and `Doublings = 11` (2048 instructions) are above what any
  unit needs. Scopes nest only a few deep in the units: leaving one looks at the
  entries of its depth and at those that remain, and the theorems of section 4
  do not depend on the depth.

`CallsAligned` compares only units in which no call is made while an operand
waits on the stack (`CallsFirst`); with one waiting the code does call
misaligned, see section 5. `LocalsDisjoint` is about locals; with parameters
included it is the property `frame_overlap` refutes.

Fairness. Each specification that claims termination assumes weak fairness of
its next step only: the compiler is one thread, and between two steps nothing
is waited for. No choice inside a step is assumed fair. `Compile` claims safety
only and states no fairness.

Deadlock is not checked in `analysis`, `dominators` and `fold`, which really
stop; the other specifications have an explicit final stutter.

## 4. What is proved

**Assumptions.** `CfgProofs` and `DominatorsProofs` hold for every set of blocks and every
function, with the assumptions the modules name: the entry is a block and
`NULL` is none (`FlowGraph`); a terminator leads to each of its targets once,
as `ir_successors` lists them, and never back to the entry, which
`verify.c` checks (`TerminatorsTyped` in `Cfg`); and `Dominators` is given
graphs that are `Analysed`, which is what `EstablishesAnalysed` proves of `Cfg`.

**cfg.c.** The promise is about the finished order; what each call and return
preserves is about the calls still active. `CfgInvariant` says that active calls
form a path from the entry; that every recorded block hangs below an active call
or a block recorded later; and that everything a recorded block leads to was
recorded before it, or was active then and so leads back to it. Reversed, these
become: every numbered block but the entry has a predecessor with a smaller
number, and an edge against the numbering closes a cycle. From
`SearchInvariance` follow `SearchTyped`, `GraphExact`, `OrderIsReversePostorder`
and `EstablishesAnalysed`, which is precisely what `Dominators` assumes of its
graph: the two components are joined by a proof. That `order` never holds more
blocks than there are (`OrderAlwaysFits`) needs the set of blocks to be finite
(`BlocksFinite`): every call marks a block no other call has marked.

**dom.c.** The tree is right only when a sweep changes nothing, so the result
itself is not inductive. `SweepInv` says instead that a pointer never loses a
dominator of its block (`KeepsDominators`), that pointers run strictly down the
numbering, that a candidate is an ancestor of every processed predecessor seen
so far, and that a sweep which has changed nothing agrees with all predecessors
of the blocks it passed. When it settles, every block's parent is an ancestor
of each of its predecessors, so a path that avoids it cannot exist
(`DominanceExact`); and no pointer followed is null (`NeverNull`).

That a store only moves a parent towards the entry (`StoresOnlyClimb`), which is
what bounds the number of sweeps, needs a second layer, `ClimbingInv`. The
candidate is not just above the predecessors seen but the lowest block that is
(`LowestInv`); whatever is above all predecessors of a block is above its parent
(`MeetingInv`), so the candidate is above the old parent. To keep that while
*other* blocks are stored to, `LagInv` says what a sweep may have changed since it
last saw a block: nothing numbered from the current position on.

`FrontierInv`, the third layer, says at every moment what has been recorded: the
walks of the merge points that are done and, for the one at hand, the blocks the
runner has passed, each once. At the end this is the dominance frontier
(`FrontiersExact`). `IInv` is the three layers together (`WholeInvariance`).

**The optimiser's analyses.** `opt.c:38` asks for analyses at the start of a round
and between passes, and in between every pass edits the function they were made
of. `AnalysesStayCurrent` says that what a pass reads is nevertheless what the
analyses would say of the function as it is: during promotion, and in fold,
copies, dce, cse, licm and the search for tail calls. The analyses look at the
edges and at nothing else (`SameAnalyses`), so it is enough that these passes move
none. But that is only so because of the shape of what they edit: an instruction
that ends a block is its last, defines nothing and so is never dead, never
shared, never a copy and never hoisted; nothing else names a block. So the
inductive invariant `OptInv` (`OptInvariance`) has `WellShaped` beside
`AnalysesCurrent`, and `WellShaped` must hold through the passes that *do* move edges
as well, on functions whose analyses are stale: inlining a function into
another (`CallInlined`), tail calls (`CallsLooped`), straightening and merging
(`Straightened`, `Absorbed`), and dropping blocks (`DroppedUnreachable`).
Promotion adds one part: the slots whose allocas it removes at the end are
values (`SlotsNamed`), because a terminator's result is no value and would
otherwise go with them. Assumed is only what lowering hands over
(`ProgramsLowered` in `SsaBuild`: every program is `AsLowered`, defined in `Ir`): a non-empty sequence of functions of this shape,
whose entry allocas define values and whose reached blocks define each value
once and take as many operands as their kind asks for (`Numbered`; only a store, a
copy of memory, a call or a terminator may have no result). TLC evaluates it on every program of the
runs, and `LoweringFeedsOptimizer` (below) proves it of what `Lower` returns.
Levels, `MaxRounds`, `MaxInline`, `Growth` and the widths of types are arbitrary
(`BoundsAssumption`: at least one round, and a growth that is a number).

`PassesReadDominance` says what that is worth: the table of analyses a pass of the
rounds reads tells reachability and dominance of the function as it is then. It
joins `AnalysesStayCurrent` with the definitions the other two components are
proved against: `AnalysesTell` (`IrProofs`) proves that the table `Ir` computes of a
list of blocks holds exactly the reachable, dominated and merging blocks of
`FlowGraph`, which `GraphExact`, `DominanceExact` and `FrontiersExact` prove `cfg.c` and
`dom.c` to compute by their walks and sweeps.

**Single assignment.** `ValuesDefinedOnce` is `TypeOK` of `Optimizer` for every program, level
and limit: at every step, in every function, whether control reaches it or not, no
value has two definitions, every operand is a value the function has, and every
instruction takes as many as its kind does. Nothing in the code enforces it; each
pass makes, moves and copies instructions, and it is up to the pass that the values
it numbers are new and that what it copies it also removes. The invariant
(`NumInv`, `NumInvariance`) has five parts beside the flags and counters.
`OptInv` is needed because a copy or a cut is only right on a function of that shape,
and because `cse` keeps the first of two definitions only if the tree is the
current one. `AllNumbered` asks single assignment of *all* functions, since inlining reads
others than the one it edits, and from the moment a function is analysed first,
since what lowering leaves in unreached blocks may break it. `TablesHoldValues` says
what renaming may have noted between its steps: values of the function on every
definition stack and in `undefined` and `replacement`, phis for at most the slots there
are, and activations that only name blocks. Without it neither the operand a phi
gets nor what a removed load resolves to is known to be a value. `Visits` says
that the blocks and loop headers still to be visited are blocks, `Rounds` that a
round only begins below `MaxRounds`.

The argument goes list by list. A function is single-assignment if each block
defines nothing twice and blocks define disjoint sets (`Fine`, `Defs`,
`NumberedOf`), so there is one lemma for each way the code makes a list from
others: taking out, putting in, cutting, joining, thinning, gathering. New values are
told apart by ranges: a phi by its rank among the blocks that get one
(`PhisNumbered`), a zero by its place among the slots that lack one (`ZerosFine`),
an inlined body by the layers of `Layers`: the caller's own values, the callee's moved up by
`values`, one zero per bare return, and the phi of the result on top
(`CopyKeepsNumbers`). A tail call is rewritten only once its arguments are known
to be as many as the parameters that become phis (`LoopsKeepNumbers`).

**lower.c.** `LowerProofs` holds for every set of trees that are as the analysis leaves
them (`SourcesAnalysed` in `Lower`, which TLC evaluates on the trees of the run):
operands that must have a value have one, operators are the language's, a name labels
one statement of a function, a `goto` names one of them, a case label is one
node of the tree and belongs to a switch, and a switch has one default at most. Three
of these leave out programs the compiler goes on with: a `goto` to a label that does
not exist (the analysis does not ask), void arms of `?:` (`lower.c:384`) and more
cases than `case_blocks` has room for (`lower.c:921`); section 5 says what becomes of
them. `TreesFinite` says that what labels and cases a statement holds is found by
walking it, which is true of a tree and cannot be derived of one here, where
induction over data is out of reach. Nothing is assumed of types but which are void.

Three things can go wrong, and each is a theorem. The insertion point may be moved
while its block is open, or to a block something was put into before
(`InsertionAlwaysMovesOn`): a jump that ends an unfinished block and a block that
is opened are emitted by different functions, in any nesting of operands, loops,
switches and labels, and `jump_to` says nothing when the block is finished. A block
may be left without an end, or an operand used where it was not computed on every path
(`LoweredAlwaysVerifies`): operands wait in C variables while others, which may branch,
are lowered. And a table of `ctx` may name a block or a slot of another function
(`LowerTyped`).

None is inductive: whether the insertion point may move depends on all the work that is
still to be done. The invariant therefore speaks of that work. A *shape* (`Sh`) is what
matters of a state to what follows: whether the block control is in is open, of which
kind each waiting value is (a value, a slot, or nothing), which labels and cases are
still to be come to, which blocks are to be opened later, each with a level (the waiting
values below it are at hand on entry to the block), and how far the cases of a switch
are collected or tested. Each piece of work is a `Step` between shapes, and a list of
work is a `Chain` when its steps fit. `LowerWork` shows, form by form, that the work a
node becomes is a chain from the shape before the node to the shape behind
it (`ShortCircuitWork`, `ForWork`, `SwitchBodyWork`, ...). `Laid` then says what it is for
the function under construction to be at a shape: the block control is in is open or
finished as the shape says, every other block is finished unless something is
yet to be put into it, in which case it is empty, and values are at hand where they
will be asked for. What a block may use on entry is given by a table `in` of which only
one thing is required: along every edge, what the target has on entry the source has
at its end (`Sound`). That is weaker than dominance and can be kept block by block;
that it implies dominance once all blocks are finished is `SoundVerifies`, from the
definitions of `FlowGraph`. `Under` adds the tables of `ctx`, the cases of a switch, and
that the work that is left is a chain from the present shape to the one in which
nothing is left. So every action has one lemma, that it leads on (`Onward`), and when the
work list is empty, so is everything else.

The proof changed the model in one place: two arms of the `CASE` in `Initialised` could
both hold when a declaration has no initialiser, which TLC resolves by order and a
proof may not; they exclude each other now, as the early returns of `lower.c:694-760` do.

`LoweringFeedsOptimizer` joins lowering to the middle end as `EstablishesAnalysed` joins
`cfg.c` to `dom.c`: a finished program is `AsLowered`, the one thing the theorems about
the optimiser assume.

**The preprocessor.** `PreprocessProofs` holds for every set of sources whose
tokens have a kind and whose main file exists (`SourcesLexed`), any predefined
macros (`PredefinedNamed`), any limits in `Nat` (`LimitsNat`) and any evaluator of
`#if`. That a macro is marked exactly while it is being replaced
(`MarksAreActive`) is not inductive, because it says nothing of the calls between:
`PInv` (`ActivationsNest`) says of each activation what it was called for. Only the
outermost one works on a line of the file; every other one expands an argument or
rescans a replacement for the call below it (`CallsInv`); so directives, which
define and undefine macros, never run while anything is marked. `FilesInv` bounds
the file and group stacks and keeps positions in their files, and `GroupPending`
carries, through the expansion of the line of an `#if` or `#elif`, that there is
room for its group or a group to decide, which was tested before the expansion
began. `StacksStayInBounds` follows.

**sema_scope.c.** `ScopeTableProofs` holds for every set of declarations, with
sizes in `Nat` and alignments of 1, 2, 4 or 8 (`DeclarationsAssumption`), and for
every order of declaring, entering and leaving in which each declaration is met
once: the first pass. That locals in scope are disjoint (`LocalsKeptApart`) is not
inductive: leaving a scope rewinds the frame to the deepest local that stays, and
a new local is only safe below that if it is below *all* locals that stay. So
`TableInvariant` says the locals are stacked: a later one lies below every earlier
one and none lower than the frame offset (`Stacked`). Beside it stand what makes a suffix of the
list a scope (`Nested`: depths never fall along the list; `NamesUnique`: a scope
declares a name once) and `FrameCovers`, proved as `FrameReserved`: no slot ever
given out lies outside the frame the prologue reserves. The same invariant shows that the list
with depths implements a stack of scopes (`TableIsAStack`, a refinement of
`Scopes`: each operation of the code is one of the stack or a stutter), and that
`sema_find_local`, which only looks for the newest entry, returns the
declaration of the innermost scope that has the name (`LookupFindsInnermost`).

Only model-checked: that tokens keep a known kind (`TypeOK` of `Preprocess`, where
`defined` is resolved by a recursive function) and what the preprocessor puts
out; the second pass over the scope table (checked in `compile`), `AnnotatedAsC`,
`Diagnosed`, `CodeMeansSource`, `CallsAligned`; that lowered code behaves as its source
(`LoweredMeansSource`) and that folding does (`FoldingAgrees`, `DivisionStillTraps`); and of the optimiser that
each rewrite keeps dominance of definitions over uses and behaviour
(`EveryRewriteVerifies`, `EveryRewritePreserves`),
that rounds settle and that copies are paid for. Liveness (`Terminates`,
`AnalysisEnds`, `CompilationEnds`, `PreprocessingEnds`) rests on fairness and
ENABLED, which are out of the prover's reach, as are induction over data and
recursive operators: `IrSemantics`, `SourceSemantics`, `Compile` with the modules it
is built from, `PpCondition` and `CPreprocessing` are only evaluated.

## 5. Where the code and its documentation disagree

Each of these is a run in which TLC finds the property violated, and each was
seen in a build of the compiler as well.

- `fold_shift`: `fold.c:130` computes `ur >> right` for an unsigned right shift
  of constants, the count shifted by itself.
- `tail_phis`: `tailcall.c:135` splits the entry but leaves phis naming it; the
  verifier rejects the round. A tail call in the entry block itself
  (`tailcall.c:247`) fails the same way.
- `lower_gaps`: elements a brace initialiser omits are never zeroed
  (`lower.c:704`; the code generator does zero them).
- `preprocess_macros`: an object-like macro that stands for a function-like one
  is not called with the parenthesis after it; `inc(inc(1))` leaves the inner
  call; the left operand of `##` is expanded; a name once skipped is replaced
  when scanned again (`pp_macro.c:283`, `356-359`).

- `frame_overlap`: leaving a block rewinds the frame past the parameters spilled
  into it (`sema_scope.c:362`), although the comment above says it is rewound to what
  is still live: `int f(int n) { { int a = 1; } int b = 2; return n; }` returns 2.

Seen in a build and outside the programs of the runs.

Middle end and preprocessor: `inline.c:390` skips only a callee that is its
caller, so recursion through another function is inlined although
`inline.c:29-33` says recursion is left alone; `fold.c:353` folds a cast
to double as an integer; `LLONG_MIN / -1` traps the compiler (`fold.c:107`);
void conditionals store a value that does not exist (`lower.c:384`); a compound
literal's initialiser is never lowered (`lower.c:530`); the 257th case of a
switch is misplaced (`lower.c:921`); the line after a bare `#` is swallowed and
a macro call ends at the end of its line (`preprocess.c:88`, `174`); `&&`, `||`
and `?:` in `#if` evaluate all operands (`pp_cond.c:170`); `#pragma once`
compares spelled paths (`pp_include.c:36`); lowering a function name used as a value
loads from the function (`lower.c:516-605`); `sizeof` in IR has the size of its own
result type (`lower.c:632`).

Code generator: a call made while operands are pushed has `%rsp` misaligned
(`codegen_expr.c:464`); a struct of two eightbytes before the sixth parameter
indexes past the argument registers; an `int` added to a pointer is not
sign-extended; arithmetic on `long` is done in 32 bits and conditions look at
the low 32 bits; assigning a float stores what `%rax` held; `struct S t = s;`
zeroes `t`; `p++` on a pointer to a struct steps by 4; a 12-byte struct result is
stored as two whole eightbytes, over its neighbour (against the comment at
`codegen.c:199-203`); structs and two-dimensional arrays at file scope get too little
storage and designators of global arrays are ignored. Struct globals with
braces, scalar compound literals used as values and struct assignment from
`?:` end in an internal error, and `return;` in a function returning a pointer
crashes the compiler.

Semantic analysis: a call, an assignment, an address or the name of a function that
has to do with a struct loses the tag and is typed as an int or a pointer to one
(`sema_type.c:319`), although the comment at `sema_type.c:446` says that every
expression carries a resolved type; so a call returning a struct of two eightbytes fills
one slot when it is passed on as an argument, and the code written for that
(`codegen_expr.c:785-793`) is never reached. `sizeof` is an unsigned int and the
difference of two pointers an int. These are the types `AnnotatedAsC` leaves out.
A switch counts as a loop (`sema_resolve.c:260`), for `continue` as much as for `break`, so
`continue` in a switch outside any loop is accepted and leaves the switch
(`codegen_stmt.c:343`), although `README.md:343` says such a unit is rejected. A `goto`
to an undefined label, `sizeof` of an undeclared name and `a.x` on an array of structs are
accepted; `p == q`, `p && 1`, `p = c ? p : q`, `&add` of a function, `*a` on an array,
`return 0` from a function returning a pointer and `&(struct S){...}` are rejected; an
array member of a struct is not an array any more when it is named.

## 6. What is left out

Floating types and strings everywhere; variadic functions, enums, warnings
and `-Werror` in the semantic analysis; the limits on globals and their elements
(256) in the code generator; compound literals and void conditionals in lowering;
pointer surgery of the IR lists (they are sequences); the text of diagnostics,
source locations and dumps; character-level scanning and the parsing of `-D`
in the preprocessor; pasting two tokens that do not make one name or number (two
punctuators stay two tokens, where `pp_macro.c:140` joins their text); and in `#if`
character constants and octal and hexadecimal numbers (`pp_cond.c` reads numbers with
`strtol` in base 0; a number is its value here). In `fold` the lowest number of the
widest signed type is not divided by -1 (`TrapsOnHost`): the program has no meaning,
and the compiler traps. A slot of `Lower` has the type of an address, whatever it is
the slot of; in the functions the optimiser is run on it says whether a pointer is
kept there, which is the type of the phis and zeros promotion makes (`SlotType`).
The lexer and the parser are not modelled: nothing they keep outlives the token
or the production at hand but the list of typedef names, which the trees of
`Compile` come without. The other components are in the table of section 1
with the reason.

## 7. Plan

Done, in this order: graphs and analyses with their proofs; the middle end;
lowering; the preprocessor; scopes, with their proofs; both semantic passes and
the code generator, composed in `Compile`.

Proofs, as section 4 has them: the analyses, the scope table and the preprocessor;
then shape, analyses and single assignment of the middle end; last, lowering.

Left, in the order of what it would say of the compiler:

1. That definitions keep dominating their uses through the passes
   (`EveryRewriteVerifies`), for which single assignment and current analyses are at
   hand. It fails for tail calls next to phis (`tail_phis`), so which tail calls a
   program may have would have to be stated first.
2. That inlining stays in its budget (`InliningIsPaidFor`), which needs a sum over
   the functions of a program.
3. The second pass over the scope table, where a declaration met again keeps its slot.
4. Refinement: `Cfg` followed by `Dominators` implements the one-step
   `Analyses` of `Ir`. The definitions agree (`AnalysesTell`); what is missing is the
   composition as one specification.
5. Typedef names of the parser against the scopes they belong to.
6. Floating values and strings in `Typing`, `CodeGen` and `Lower`.
