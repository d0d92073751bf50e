# TLA+ models of the ZCC compiler and its runtime parts

ZCC is a self-hosting C compiler with an SSA-style IR, several optimiser passes,
two register allocators and x86-64 emitters of its own.  The repository also
holds concurrent and bare-metal programs built around it.  This directory models
the parts in which control decides correctness: the two allocators and the
machine code they lead to, the default pass pipeline with the dominance analysis
it relies on, a two-task kernel with an interrupt-driven UART, a thread pool,
and the ledger of the Nexus supervisor.  Every definition is translated from the
source named in `PROJECT.json` ("map").

Paths below are relative to the root of the repository.

## 1. Inventory

| Component | Source | State it keeps | Operations | What makes it hard | What makes it correct |
|---|---|---|---|---|---|
| Front end: preprocessor, lexer, parser, types | `part0_pp.c` to `part3.c` | macro tables, tokens, AST | one pass over text | C semantics | differential tests against GCC |
| AST code generator, IR emitter | `part4.c`, `part5_ir_emit.c`, `ir.c` | IR module | one node list per function | breadth | the IR computes what the AST means |
| Dominance analysis | `ir_dominance.c` | blocks, edges, dominator sets, tree | one pass of five loops | fixed-size tables, blocks cut at labels | the tree is the dominance relation of the paths |
| IR pass manager | `ir_pass_manager.c` | node list, CFG of the last function, value table, copy and constant maps | DCE, value numbering, copy propagation and others, repeated | analyses kept across passes that free nodes, scopes, aliases | every store, condition and result keeps its value |
| SSA construction | `ir_ssa.c` | phi nodes, stacks of names | insert, rename, remove | - | - |
| Register allocator | `regalloc.c` | intervals, graph, degrees, stack, colours | five loops | hand-kept degrees, optimistic colouring, dead coalescing | no two live temporaries share a register |
| Lowering | `ir_to_x86.c` | frame offsets, argument counters | one case per IR operation | scratch registers that are also allocatable, calls, loops | each operand read is the last definition |
| SSA path | `compiler_passes.c` | blocks of instructions, `def_seq`, `last_use`, `first_use`, `phys_reg` | lowering from the AST, passes, liveness, colouring, linear scan, emission | textual positions against loops, parallel copies on edges, scratch `r11`, saved registers popped over results | what shares a register is never live together, and each read finds the last definition |
| Experimental optimiser | `src/opt/` | an IR of its own | CFG simplification, pointer SSA, inlining, unrolling | fixed point with an iteration limit | folding agrees with execution |
| Object writers, linker | `src/zld.c`, `src/elf_emit.c`, `src/win64_pe_emit.c` | sections, symbols | write formats | layout | loads and runs |
| zkernel | `src/zkernel/` | receive ring, task table | interrupt handler, getc, yield | interrupt between any two accesses, busy waits, cooperative scheduling | accepted bytes come out once and in order |
| Parallel dispatcher | `src/quantum/zcc_parallel_dispatcher.c` | worker contexts with mutex and conditions | create, predict, destroy, worker loop | lost and spurious wake-ups, remainders, buffer lifetime | each item once, call returns, buffers free after it |
| Speculative DMA ring | `src/quantum/zcc_speculative_dma_ring.c` | ring, counters | push, verify | rejected drafts | accepted tokens are a prefix of the truth |
| ChronoSpec | `src/concurrency/chrono_spec.c` | epoch, slots | begin, write, commit, advance | validation against flush | serialisable commits |
| Nexus ledger | `nexus/` | JSONL hash chain, checkpoint files | append, save, load, verify, supervise, replay | crash between writes, torn tail, threads | frames never name a missing checkpoint |
| Demonstration kernel | `kernel/kmain.c` | page bitmap, page tables | allocate, map, scheduler | exhaustion | no page handed out twice |
| EVM lifter, other back ends, orchestration scripts, demos | `evm_lifter.c`, `part6_*.c`, `part7_rust.c`, Python | - | - | - | - |

How they interact.  The driver (`part5.c`) runs the front end.  With `--ir` it
emits one node list per function, runs the pass manager over the list in a
fixed order, and calls `ir_module_lower_x86`, which for each function calls
`ra_run` once and then walks the nodes, asking `ra_get` for the register of each
operand.  The allocator and the lowering share the register numbering of
`regalloc.h` and the array `used[]`; nothing checks that they agree on which
registers are free.  The pass manager keeps the control-flow graph of the
dominance pass in a static variable, with pointers into a list whose nodes later
passes free.

Without `--ir`, `part4.c` sends the functions whose names `ir_whitelisted` lists
(line 5996), if `is_ir_eligible` accepts them, to `zcc_run_passes_emit_body_pgo`
of `compiler_passes.c` (call at line 6447): the SSA path lowers the AST to
blocks of its own, optimises them, allocates registers and emits the body, all
in one call.  Every other function is emitted straight from the AST.

In zkernel the handler and task 1 share only the ring; both tasks share the
scheduler's two-entry table.  The dispatcher's client and workers share one
static array of contexts, each behind its own mutex.  The writers of the ledger
share one object and its lock; a frame names a checkpoint file that must have
been renamed into place before.

The hazards of this code, each at its line, are listed in `PROJECT.json`.

## 2. Modules

| Module | Models | Kind |
|---|---|---|
| `IRCode` | the node list of `ir.h` as allocator and lowering read it; live intervals, interference | operators |
| `RegAlloc` | `regalloc.c`: build, coalesce, simplify and spill, select, assign | state machine, extends `IRCode` |
| `LoweredExec` | the emitted code of one function executing with the registers `RegAlloc` assigned | state machine, composes the allocator with execution |
| `Dominance` | `ir_dominance.c`: blocks, edges, dominator sets, tree | state machine |
| `PassPipeline` | `ir_pass_manager.c`: the default pipeline behind the dominance pass, then the lists before and after executing side by side | state machine, composes `Dominance` with the passes |
| `SsaRegAlloc` | `compiler_passes.c`: numbering, liveness, colouring, linear scan, and the emitted code executing | state machine |
| `RxQueue` | what the receive ring promises: a bounded FIFO queue that drops when full | abstract specification |
| `Zkernel` | `uart.c`, `sched.c`, `main.c` on one core with interrupts | state machine, refines `RxQueue` |
| `AppendOnlyLog` | what the ledger promises of the frames whose append returned | abstract specification |
| `Dispatcher` | the thread pool and one client | state machine |
| `NexusLedger` | `nexus/ledger.py` with the writers of `nexus/`, short writes and crashes | state machine, refines `AppendOnlyLog` |
| `RegAllocProofs`, `LoweredExecProofs`, `DominanceProofs`, `PassPipelineProofs`, `SsaRegAllocProofs`, `ZkernelProofs`, `DispatcherProofs`, `NexusLedgerProofs` | theorems about the module each is named after | proofs |
| `MC*` | small instances for TLC | model values, bounded programs |

Definitions whose name has a suffix after an underscore (`GvnLeave_KeepEntries`)
are mutants: the same step with a plausible bug.  They are used by no
specification and serve to show that each property notices such a bug.

### IRCode and RegAlloc

A function body is a sequence of nodes; a temporary is the rank of its name.
`Refs` is the set of positions `build_intervals` records, so the interval is its
least and greatest element.  One action per loop iteration of
`chaitin_briggs`: `ScanCopy` looks at one node for coalescing, `Simplify`
removes one node of low degree, `PushSpillCandidate` one of high degree,
`Select` colours one, `Assign` writes all of `assigned` and `used`.  The
arrays `adj`, `degree`, `removed`, `alias`, `stack`, `color` are variables of
those names; as in the code, `removed` is cleared before select and then means
"coloured", and simplify compares with the integer class's K for both classes.
The spill heuristic's floating-point cost becomes a free choice among the
remaining nodes: the properties hold for every choice.

### LoweredExec

After `RegAlloc` is done the same state continues as an execution.  A value is
the number of the definition that made it.  `val` says what each temporary
should hold by the meaning of the IR, `reg` and `slot` what the registers and
stack slots hold; `wrong` is the set of operands the last node read wrongly.
`Operands`, `LoadedInto` and `Scratch` give for every group of operations the
order of the operand reads, the allocatable registers they are loaded into and
the registers the emitted instructions overwrite.  `Home` is where a temporary
lives, and `Loader` finds the operand that was loaded over the home of a later
one: with three operands at most, an operand can be loaded over twice in a row.
`Call` lets the callee change any subset of the caller-saved registers in use,
as the System V ABI allows.  A branch goes either way; `IR_RET` is a branch to
`Len(code) + 1`, where `Return` runs the epilogue.

### Dominance

One action per iteration of each loop of the pass, in the order the code runs
them: `Split`, `Wire`, `SweepBlock` and `EndSweep` until nothing changes,
`ExtractIdom`, `Number`.  The bit sets are sets of blocks, the recursion of
`dom_preorder` is the stack `todo`, and the arrays of limited length
(`MaxBlocks`, `MaxPreds`, `MaxChildren`) drop what the code drops.  Blocks and
nodes count from 1.

The properties compare the result with the node list itself.  `Jumps` is where
control goes from a node when the list is executed.  The graph knows less: a
block starts at a label only and has the edges of its last node only, while
`part4.c` puts no label behind the `br_if` of `if` (line 5318), `while` (5388),
`for` (5458), `?:` (3799) and `&&` (3222).  Nearly every conditional of a C
program therefore has a branch in the middle of a block.  `Flow` is what the
graph accounts for: a branch inside a block is passed over, and a block that no
block ends with a jump to is an *entry* of the graph (`Entries`), which the pass
gives no predecessor and no dominator but itself.

* When the branch inside a block leads to such an entry, nothing goes wrong: the
  exit of a `while` or `for`, the else block and the second arm of `?:` are
  entries, and no other block is taken to dominate them.  They only lose
  redundancies; the tree does not contain them and value numbering does not walk
  them.
* When it leads to a block that has another predecessor, the branch is *hidden*:
  the statement guarded by an `if` without `else` stands in the block of the
  branch and is taken to dominate what follows, and so is the rest of a loop body
  behind the test when a `break` leads to the exit as well.

`DefinitionsVisible` speaks of all executions that take no hidden branch
(`ReachAvoiding`), for all lists; the run `passes_if` shows what happens on one
that does.  `AllDominatorsFound`, `IdomIsClosest` and `OrderFollowsTree` speak of
the graph as it is built (`RootedBlocks`): of an entry other than the first block
they claim nothing but that.

### PassPipeline

The node list is kept with its links: `next` is the link of each node (0 is the
head of the function), `freed` the nodes that dead code elimination has freed.
The graph of the dominance pass points to nodes, as in the code, so that a pass
may meet a block whose first or last node is gone.  The passes run in the order
of the default pipeline: dominance, dead code elimination, value numbering, copy
and constant propagation, dead code elimination; each action is one node of one
sweep.  Value numbering walks the dominator tree (`walk` is the recursion of
`gvn_walk_domtree`) with a table whose entries leave with their scope; the hash
table is the sequence of its insertions, since `gvn_scope_pop` removes entries in
the reverse order and so never cuts a probe chain.  `cong` holds the
congruences, which are looked up sixteen links deep.  All tables are limited as
in the code (`MaxEntries`, `MaxCongs`, `MaxCopies`, `MaxConsts`): what is new is
left out when there is no room, and `full` records that the value table has been
full.  When the function is not the last of the module (`owner`), or the graph
could not be built, the pass scans the list and empties the table at each label.
After the last pass the list that was handed in and the list that remains are
executed in lockstep, along the branches that the source really takes: both load
the same values and get the same results of calls, and `EffectsAgree` compares
what each store, argument, condition and return reads.  `strayed` records that a
hidden branch was taken; `SameEffects` is `EffectsAgree` on the executions
without one.

`Uses`, `Pure` and `SideEffect` are the predicates of the code over a small set
of operations: a pure one of one operand, one of two (`sub`) and a commutative one
(`add`), each with its type and immediate; a load, a constant, a copy, a store
(which also reads its address), an argument and a call, branches and labels.  A
third operand in `label` belongs to the fused operations only, which FMA fusion
makes (`ir_pass_manager.c`, lines 1431 and 1462) and the default pipeline does not
run.

### SsaRegAlloc

An instruction has a position (its place in the breadth-first order of the
blocks), the registers it reads as liveness records them, for a phi the register
it takes from each predecessor, for a branch its successors.  `Number`,
`KeepForPhi`, `KeepForLoops` and `Widen` are the four loops of liveness, `Visit`
and `Color` one iteration of the maximum cardinality search and of the colouring,
`ScanNext` one interval of the linear scan that runs when there are more virtual
registers than `MaxVregs` or a colour is missing.  The code's choice of a
victim is deterministic up to the order of equal intervals; `Victims` is that
set.

Then the emitted code runs.  `mem` holds the physical registers and, behind them,
one stack slot for each virtual register; a `Jump` pushes every phi source of the
edge and pops them from the last phi to the first; a `Call` saves the
caller-saved registers whose interval spans it and pops them after its result has
been stored; a float "!=" computes its parity in `r11`.  Two history variables
say what the allocator cannot know: `left` are the registers whose interval
execution has left (or never entered) since their last definition, `hit` those
that were overwritten inside it.  The peephole that drops a copy of a register to
itself has no action: the intervals of a copy's two ends always meet, so that
they never have one register.

`WellFormed` says what the passes hand over: blocks in one piece, phis in front,
one terminator behind, one definition of each register, in front of its uses but
those of phis.

### Zkernel and RxQueue

The core executes one access of shared state per step, at `pc`; while `isr` is
true it executes the handler instead, which therefore runs between any two
accesses of `uart_getc` and to its end.  Bytes arrive at any time into a
hardware FIFO that overruns.  `sched_yield` stores where the running task
resumes in `sp` and continues at the other task's `sp`.  `switch_context` is
assembly that is not in the repository and is modelled as exactly that.
`uart_puts` of a fixed text is one step that may have to wait for the
transmitter.

The refinement mapping to `RxQueue` reads the queue out of the ring's slots
between the indices; the byte in `uart_getc`'s hands counts as taken from the
moment the tail moves.

### Dispatcher

One client creates a pool, submits batches of any size up to the bound, waits at
the barrier and destroys the pool; creation starts over with the same static
contexts.  A step is one critical section: only a computing worker holds its
mutex from one step to the next.  `worker[w]` says where the thread is;
`pthread_cond_signal` moves a waiting thread to the point where it relocks and
is lost on any other.  Both condition waits may return spuriously.

### NexusLedger

The file is a sequence of parts of records, three a record: two halves of the
text and the newline.  A thread saves a checkpoint (`Begin`, `Replace`,
`SyncDir`), then appends under the lock (`ReadTail` or `Refuse`, `Write` as often
as it takes, `Sync`); `SaveFails` and `WriteFails` are exceptions.  `Kill` ends
the process, `PowerLoss` also cuts the file anywhere behind its last fsync and
undoes any of the renames that are not durable.  It is assumed that the fsync of
a new file makes its own name durable, since the code never syncs the directory
of the ledger, and that no two records have one hash.

The refinement mapping to `AppendOnlyLog` takes the frames whose append returned;
the place of a frame is the position where its first part is found in the file.
The log says nothing of whether a place can still be read: a frame joined to a
damaged record has its place and is lost to readers, which is what
`AckedReadable` and `nexus_joined` are about.

## 3. Runs

| Run | Instance | Question |
|---|---|---|
| `mc_regalloc` | all lists of 5 nodes, 4 temporaries (one float), K = 2 | is the colouring sound, does it spill only when it must, does coalescing ever happen |
| `mc_lowered` | all lists of 5 nodes, 3 temporaries, each class; K = 3 and 2, 1 callee-saved | which reads can go wrong when the code runs |
| `mc_dominance` | all functions of 4 blocks that each end in a branch, a conditional branch, a return or nothing; all of 3 blocks that may also have a conditional branch in their middle; one of 5 | is the tree the dominance relation of the paths that the graph accounts for, does the iteration end |
| `mc_passes` | the lists of straight code, `if`, `if`-`else`, `while`, `for`, `do`, two early returns, a label behind a branch, a `goto` into a loop, `?:` and a call, filled with redundant, copied, constant and dead computations; one of 5 blocks | do the passes keep what a function does, do they miss anything, do they end |
| `passes_if` | the list of `if (c) *b = -a; *b = -a;` | do the passes keep what this function does |
| `gvn_stale` | a loop behind a block that ends in a dead load | is a match in the value table a true redundancy |
| `mc_ssa` | seven forms of control flow with every choice of operands, 6 virtual and 2 physical registers | what shares a register, and which reads can go wrong |
| `ssa_loop` | a Fibonacci loop, 13 virtual registers and the real 7 physical ones | does a phi source keep its register until the edge copies it |
| `mc_zkernel` | ring of 3, hardware FIFO of 2, 6 bytes | is the ring a queue, is every accepted byte echoed, do both tasks run |
| `mc_dispatcher` | 3 workers, up to 5 items, 2 batches, 2 pools | is each item evaluated once, are buffers released, does every call return |
| `mc_nexus` | 2 threads, 3 frames, 1 crash | what can damage the chain, what survives |
| `nexus_joined` | the same | is a frame whose append returned always readable |

Why the bounds are enough.

* Allocator: with two colours and four temporaries every mix of low and high
  degree occurs, spill candidates both find and miss a colour, and both classes
  are non-empty.
* Execution: three temporaries over two or three registers force sharing; a
  callee-saved register, `r10` and `r11` are all assigned; five nodes leave room
  for a definition, a disturbance (call, scratch write, back edge, partial load)
  and a use.  `MaxClock` ends loops after each has gone round at least once.
* Dominance: four blocks hold nested and irreducible loops, joins, unreachable
  code and unreachable loops; three blocks with a branch in their middle hold the
  emitted `if`, `if`-`else`, `while` and `?:`, hidden branches and entries of the
  graph.  The limit of 4 blocks is exceeded by one list.  There is room for every
  edge and every child: no run cuts a list off at 32 predecessors or children, so
  that a dropped 33rd predecessor is seen by no run; the theorems say which limits
  suffice.
* Passes: the shapes are the lists of `part4.c` with their `br_if` in the middle of
  a block, as they are emitted, and values meet on joins, around back edges and
  behind branches that skip them.  Seven temporaries give redundancies inside a
  block, across dominating blocks, with exchanged operands, through copies and
  through congruences of congruences, and dead chains that take several sweeps.
  With 4 rows, 2 congruences, 2 aliases and 1 constant each table is full in some
  functions and not in others.  A fifth block makes the analysis fail and the
  fallback run.  Blocks whose last node is dead are kept out of this run: the walk
  leaves its block there, as `gvn_stale` shows.
* SSA path: a straight line with an `alloca`, a nested conditional whose merge is
  numbered before one of its arms, a loop with its exit behind and in front of
  its body, a nested loop, and loop variables that shift into each other; with
  two registers, one of them `r11`, both the colouring and the linear scan run
  (`MaxVregs` is 5 for 6 registers), intervals are evicted and refused, and calls
  and float comparisons hit live registers.  `MaxClock` lets each loop go round
  twice.  `while` and `for` give the test and the body blocks of their own; a
  `goto` back to its own label makes a block that branches to itself, and one
  form of the instance is that.
* zkernel: a ring of 3 fills, empties and wraps with 6 bytes.
* Dispatcher: five items over three workers give 0, 1 and 2 remaining items and
  batches smaller than the pool; the second batch and the second pool meet the
  leftovers of the first.
* Ledger: three frames make a record before, one torn by and one behind a crash;
  a fork of the chain needs two threads.

Deadlock is checked for the kernel and the dispatcher, where only an idle client
without a pool may stop; the allocators, the executed functions and the passes
end, and the ledger's threads may stop for good between calls.

What the passing runs show:

* `NoInterference`: no node position is inside the intervals of two temporaries
  with one register.  `SimplifiedNeverSpills` and `NoSpillUnderPressure`: only
  spill candidates can lose their register, and none does as long as no position
  has more than K intervals of a class.  `CoalescingNeverFires`: the coalescing
  loop is dead code, because the copy itself makes its ends interfere.
* `LoweredExec!MisreadsExplained`: in every execution a node reads the last
  definition of each operand, except a temporary that crossed a back edge, one
  whose register a callee or a scratch write hit, one overwritten by the node's
  own operand loads, and the target of an indirect call.  `CalleeSavedRestored`:
  the caller finds its callee-saved registers whatever path was taken.
* `DefinitionsVisible`: the nodes from which a value may be reused have executed
  on every path without a hidden branch.  `AllDominatorsFound`: no block is missed
  that lies on every path of the graph from its entries.  `IdomIsClosest`,
  `OrderFollowsTree`, `Terminates`: the tree and its numbering agree with the
  sets, and the iteration stops.
* `SameEffects`: on every execution of every function of the instance that takes no
  hidden branch, which of the constructs above only an `if` without `else` has,
  whatever the tree or the fallback found redundant and
  however often copies were forwarded, each store, argument, condition and
  returned value is the one of the original list.  `AvailableOnAllPaths`: what is
  in the value table has been computed on every path without a hidden branch.
  `OwnBlockOnly`: no walk leaves its block.  `NoRedundancyLeft`: unless the value
  table was full, one walk finds every redundancy between a node and one that
  dominates it, among the blocks that the first one dominates; what follows a
  `while` or `for` is not among them.  `PipelineEnds`: the sweeps that repeat until
  nothing changes come to an end.
* `IntervalsApart`: by colouring or by linear scan, with eviction, two virtual
  registers of one physical register have no position in common.
  `SsaRegAlloc!MisreadsExplained`: a read of the emitted code finds the last
  definition, except where the code writes a register in use (a float "!=" in
  `r11`, a call's result under the register popped behind it, two phis in one
  place), except for a loop phi that another phi of the loop takes over, and
  except inside a block that branches to itself: the search for a predecessor
  behind the block starts at the next one (line 7828), so that such a block is no
  loop header, and a value from before it whose last position is in it gives its
  register away while the loop still goes round.
* `ImplementsQueue`, `AvailableMeansGot`, `AcceptedIsEchoed`, `BothTasksRun`: the
  ring is a queue of `RingSize - 1` bytes under any interleaving; the answer of
  `uart_char_available` cannot be invalidated; nothing accepted is lost or
  stuck.
* `BatchComplete`, `BuffersReleased`, `BatchReturns`, `DestroyReturns`: each item
  is evaluated once, by one worker, before the call returns, and every call
  returns although wake-ups may be spurious.
* `OnlyTailBad`, `VerifyFailsOnTailOnly`: whatever is interrupted, only the last
  line can be damaged, and `verify` complains of nothing else.
  `CheckpointFirst`: no readable frame names a checkpoint that is gone, unless
  the directory's fsync, which is best effort, was not done.  `AckedReadable`: a
  frame whose append returned stays readable, except when it was joined to a
  record without newline.  `ImplementsLog`: these frames are an append-only log;
  each is behind all that returned before it, and no later step moves it or
  changes what it refers to.  `CallsReturn`: no exception leaves the lock taken.

The violation runs each show a statement of the repository that the code does
not keep; `PROJECT.json` ("findings") quotes it.

* `passes_if`: a branch without a label behind it does not end its block, although
  the comment says so.  In an `if` without `else` the guarded statement counts as
  one that always executes; value numbering replaces the computation behind the
  `if` by the one in it, and when the branch is taken the store behind reads a
  temporary that nothing has defined.
* `gvn_stale`: dead code elimination frees the node that the control-flow graph
  remembers as the last of its block; the walk of value numbering does not stop
  there, reaches the nodes of later blocks in the wrong scope, and when it meets
  them again finds each redundant with itself.
* `ssa_loop`: a loop phi that another phi takes over along the back edge
  (`a = b; b = ...`) is dead for the allocator before the edge copies it, and its
  register already holds another value.
* `nexus_joined`: a record that lost only its newline passes as an intact tail,
  and the next frame, whose append returns, is joined to it and lost; every later
  append is refused.

Met while modelling, and not runs of their own:

* `ir.h` line 47 documents `IR_BR_IF` as "if src1 != 0, jump" while
  `ir_to_x86.c` line 1050 emits `je`, a jump when it is zero; the models let a
  branch go either way.
* `regalloc.h` lines 18 to 21 still describe a linear scan; the code colours a
  graph.
* `regalloc.h` calls `r10` and `r11` "safe within fn" (line 16) and "no push/pop
  needed" (line 43), but `ir_to_x86.c` saves neither around a call (line 1112).
  Loop-carried temporaries have textual intervals (`regalloc.c` line 247), and the
  label operand of an indirect call does not extend the interval of the function
  pointer (`regalloc.c` line 270 against `ir_to_x86.c` line 1115).  All three are
  exceptions that `LoweredExec!MisreadsExplained` names, and the execution takes
  each of them.
* A call with a 16-byte result stores its second half at `off + 8`
  (`ir_to_x86.c` line 1127) of a slot that pass 1 may have created with 8 bytes.
* Blocks of an unreachable loop keep full dominator sets and become each other's
  immediate dominator, a cycle that `dom_dominates` has no end on; `Chain` stands
  for the blocks it meets.
* `dom_add_edge` (`ir_dominance.c` line 75) drops the 33rd predecessor of a block
  while a function may have 512 blocks: a dropped edge can only make dominator
  sets larger.  The theorems of `DominanceProofs` assume that it does not happen, and
  no run is large enough to show it.
* In front of the modelled allocator, copy propagation on the SSA path
  (`zcc_ir_opt_passes.h`) does not rewrite the registers in `call_args`; the path
  compiles `x * -1` as `x` when the constant was folded, and loses the bodies of
  some do-while loops; these passes and the lowering are not modelled.
* The search order of the SSA path is coloured from its end, and the comment at
  `compiler_passes.c` line 8084 calls a missing colour a clique too large; with
  this order a colour may be missing without one.  It costs registers only: linear
  scan takes over.
* On the SSA path an indirect call through a parameter emits a call of a symbol
  with the parameter's name, and one through a member or a dereference loads its
  target from the slot of virtual register 0, which nothing defines
  (`compiler_passes.c` line 9418); liveness does not count the target as a use
  either.  `Call` of the model is a direct call.

## 4. Fairness

`Zkernel!FairSpec`: weak fairness of the handler's steps once it runs, of the
running task, and of the transmitter.  The core never halts between
instructions and the PL011 drains its FIFO whatever the program does.  Neither
arrivals nor interrupts are promised: `uart_init` enables only the level
interrupt, so a byte may stay in the hardware.

`MCDispatcher!MCSpec`: weak fairness of each worker and of the client inside a
call, that is, a scheduler that runs every runnable thread.  No further call and
no spurious wake-up is promised.

`Dominance!Spec` and `PassPipeline!PipeSpec`: weak fairness of the pass, which is
a loop in one thread that nothing suspends.

`NexusLedger!Spec`: weak fairness of each thread inside a call and strong
fairness of taking the lock, that is, a lock that is handed on; the code has one
lock and holds it only for one append.  No further call is promised.

The two allocators and the executed functions have safety properties only.

## 5. Proofs

TLC checks the instances above; the following hold for every value of the
constants that satisfies the named assumptions of the modules.  TLC evaluates
those assumptions in every run.  Each proof module starts with the inductive
invariant or builds up to it, has one lemma per action or group of actions, and
ends with the theorems.

**RegAllocProofs**, for every program, every finite set of temporaries and every
number of colours (`TempAssumption`, `RegAllocAssumption`: temporaries are
natural numbers, finitely many, there is at least one colour, the markers are
not colours or registers): `TypeCorrect`, `Coloring` (`NoInterference`),
`CoalescingIsDead` (`CoalescingNeverFires`), `Optimism` (`SimplifiedNeverSpills`,
assuming `GprK <= FloatK`) and `NoNeedlessSpill` (`NoSpillUnderPressure`,
assuming `FloatK = GprK`).

Soundness of the colouring is not inductive: at the end it speaks of intervals,
while the steps that make it true compare colours along edges.  `IInv` adds what
lies between: until the end the graph is exactly the interference relation of
the code (`GraphInv`), adjacent nodes never have one colour and colours appear
only on removed nodes during select (`ColorInv`), and assignment copies colours
(`AssignInv`).  `GraphInv` in turn needs that coalescing never changes the
graph, so `CoalescingNeverFires` is part of the invariant: by `GraphInv` the
two ends of a copy are adjacent (`CopyEndsNotMergeable`), so no merge is
possible.  `Optimism` needs the degrees: during simplify the degree of a
remaining node is the number of its remaining neighbours; a node pushed with
degree below K has fewer than K neighbours above it on the stack
(`OptimismInv`); these are the only coloured ones when it is popped, so a colour
is free (`FreeColor`, a cardinality argument).  `NoNeedlessSpill` adds that some
remaining node always has low degree when no position has more than K intervals:
of the remaining intervals of a class, all that meet the one ending first contain
its last position (`PeakInv`).  The assumptions on the two K are real: simplify
compares the degree of a float temporary with the integer class's K, and both
are 7 in `regalloc_config.h`.

**LoweredExecProofs**, for every program whose branches have their labels
(`BranchAssumption`): `ExecTyped`, `CallerFindsItsRegisters`
(`CalleeSavedRestored`) and `ReadsAreRight` (`MisreadsExplained`).  `EInv` carries
`IInv` through the execution and adds `RunInv`: a temporary that was neither
scratched nor carried around a loop, and whose interval is not over, has its
value at its home.  A definition can disturb it only by sharing the register
inside the interval, which `NoInterference` excludes; so the theorem composes
the soundness of the colouring with the execution.

**DominanceProofs**, for every list whose labels are distinct (`LabelsDistinct`),
branches inside blocks included, and when the predecessor lists have room
(`PredecessorsFit`): `DominanceTyped`, `VisibleMeansExecuted`
(`DefinitionsVisible`), `DominatorsAreFound` (`AllDominatorsFound`),
`IdomIsTheClosest` (`IdomIsClosest`) and, in functions of which no block has more
children in the tree than its list holds (`ChildrenFit`), `OrderIsPreorder`
(`OrderFollowsTree`).  Nothing is assumed of where branches stand: the lists that
`part4.c` emits for `if`, `while`, `for` and `?:` are covered, and what the
theorems say of them is what the graph accounts for (section 2).  The blocks
partition the nodes, and a step of `Flow` either stays in a block, or leaves it
from its last node along an edge of the graph, or leads to an entry (`BlocksInv`,
`FlowFollowsBlocks`).  `ReachAvoiding` and
`Chain` are least closed sets, shown by growth lemmas and by induction over a
least counterexample, since the library's induction rules cannot be used with
this prover.  Once a sweep changed nothing the dominator sets satisfy the
data-flow equations, and a solution of the equations contains only blocks on
every path (soundness); a path may enter the graph at any entry, the set of which
is the entry alone.  `CompleteInv` says that at no time a block that lies on
every path from the entries is removed.  The sets of the dominators of a block are
a chain, so that the one with the largest set is the closest, and `WalkInv` and
`TreeInv` follow the preorder: what is numbered, what is on the stack and what is
still to come partition the tree below the first block.

**PassPipelineProofs**, for every set of functions (`PipelineAssumption`) whose
predecessor lists are not cut off (`PredecessorsFit`): `PipelineTyped`
(`PipeTypeOK`), `WalkStaysInBlock` (`OwnBlockOnly`) and `TableIsAvailable`
(`AvailableOnAllPaths`).  `PInv` carries the invariants of `DominanceProofs`
through the passes, which only read the graph, and adds what became of the source
(`SourceInv`), that a link skips no node still listed, freed nodes' stale links
included (`LinkInv`), the types of the tables (`DataInv`), and that the open
scopes are a path down the dominator tree from the entry, no block twice
(`ScopeInv`, `PathInv`).  The path is inside the dominator sets because these are
transitive.  `RecordInv` then gives each entry of the value table the node that
computed it, in a block of the path, and `SetsAreSound` makes that node execute
first.  Both of the last theorems assume `EndsKept`: a block ends with a node that
dead code elimination keeps.  It is needed: the run `gvn_stale` hands over a
function that ends a block with a dead load, and there the walk leaves its block.
`TableIsAvailable` also assumes distinct labels, as the dominator sets do; branches
may stand inside blocks, and the paths are those without a hidden branch.

`MeaningKept` (`SameEffects`) adds that the function is in the form `SsaForm`: a
temporary that is used has one definition, on every path without a hidden branch
to the use, or is the result of a "?:", whose two copies (`part4.c`, lines 3804 and
3816) meet at a label in front of the uses.  The form leaves out the functions
that use the value of `&&` or `||`: `part4.c` (lines 3222 to 3269) emits no copies
for it, so that behind the labels the result is the temporary of the second
operand, which the short way has not computed.  `SsaForm` is stated of the
finished graph, since it speaks of `Flow`.  `Birth` is the node from which on a temporary may be used, and the theorem holds for every `Birth` that
fits.  The theorem speaks of the executions that take no hidden branch: all of
those of functions made of `if`-`else`, `while`, `for`, `do` and `?:` whose loops
no `break` leaves, and in an `if` without `else` those that enter it.  An
environment *models* a place when every temporary that was born on the way there
and is computed by a pure operation, a constant or a copy has the value of its
definition.  Two operands are alike at a place when all its models give them one
value, and every rewriting is a statement of that kind: each node stands for its
source node (`NodesInv`), the rows of the value table and the entries of both
propagation maps are valid wherever their temporaries may be used (`TablesInv`,
`CopiesInv`), and a congruence was recorded by a node of an open scope
(`LedInv`).  The limits of the tables may have any values.  None of this speaks of
an execution; `RunInv` does, in the last stage: what was executed so far models the
place that comes next, and the two executions agree on every temporary not
deleted.

`NothingMissed` (`NoRedundancyLeft`) is the converse of `TableIsAvailable`: the
table holds nothing but what was computed above, and it holds all of that.
Besides `EndsKept` and `SsaForm` it assumes `ChildrenFit`, since the walk meets
only the children that are recorded, and `Rooted`: there is no loop that nothing
leads to (behind a `return`, say).  It speaks of the blocks that the first one
dominates, as only these are walked: the block behind an emitted `while` or `for`,
an else block and the second arm of a "?:" are entries of the graph and are left
out.  And it speaks of a value table that has never been full.  Congruences
dropped because there are 512 leave no gap in it: an operand without one is looked
up under its own name, and the property compares the operands of two nodes by
name; two names that only a dropped congruence would have shown to be equal are
not counted as equal.
The argument has three invariants.  `FlatInv`: a temporary with one
definition leads to one other at most, which leads nowhere, because operands are
resolved before they are recorded, so that the bound of 16 hops in
`gvn_resolve_leader` is never met.  `HeldInv`: what was computed in an open scope
has a row that a lookup of the same operation and operand finds, whatever
congruences were recorded since the row was made; and a scope that is left takes
along only rows and congruences of its own subtree.  `CleanInv`: no node already
numbered is a twin of one that dominates it.  When a node is numbered, the blocks
that dominate its block are exactly the open scopes (`ChainIsPath`), so `HeldInv`
finds its twin and it becomes a copy; and a block is numbered only when it is not
below a child still to come (`Pending`), which at the end of the walk is nowhere.

**SsaRegAllocProofs**, for every set of well-formed bodies and every number of
registers (`SsaAssumption`, `ProgramAssumption`): `SsaTypeCorrect`, `Apart`
(`IntervalsApart`) and `LossesExplained` (`MisreadsExplained`).  `SInv` follows the phases: what numbering computed (`NumInv`),
that an interval contains the definition and begins there or at a phi
(`IntervalInv`), that an interval with a register is either in `active` or ends
before every interval still waiting, so that expiry and eviction free no register
in use (`ScanInv`), `IntervalsApart`, and during execution that what is neither left nor
hit is at home (`RunInv`).

That what is left is not read is a statement about paths, and has an invariant of
its own, `LInv`.  `LeftInv` says why a register may be left at a position: the
position can be reached without passing the block of the definition (`NotYet`),
or lies behind the interval, or in a block that branches to itself behind the
interval's end (`RoundAgain`).  `StopInv` says what liveness has made of the last
use: it is not in front of any use, and it is the end of the code if a use is in
front of the definition, or if the register is defined before a loop header and
its interval reaches the header.  A step inside a block keeps `LeftInv`
(`LostAhead`); so does a branch (`LostAcross`): the target is either in front of
the definition's block, and then can be reached without it, because in
breadth-first order every block has a predecessor in front of it (`InFront`), or
behind it, and then a branch that leads back makes it a loop header, to which the
interval would have been extended.  A read of a register left in one of these
ways contradicts SSA form (`ReadsDefined`) or is one of the two listed
(`ReadsLost`).  SSA form and breadth-first order are `Strict`, stated without
recursion: block b dominates block u if some set of blocks holds the first block
and every successor but b, and not u.

**ZkernelProofs**, for every ring size above 1, every depth of the hardware FIFO
and any number of bytes: `KernelTypes`, `AvailableIsGot` (`AvailableMeansGot`) and
`RingIsQueue` (`ImplementsQueue`, the refinement of `RxQueue`).  `KInv` adds to
the types that bytes in the FIFO have arrived (`WireInv`), that the slots between
tail and head hold bytes (`HeldInv`), that `c` is the byte under the tail when the
tail is about to advance (`GetcInv`), and which task runs and where the other one
resumes (`SchedInv`), without which a yield could land in the middle of
`uart_getc`.  The refinement rests on two lemmas about the ring's arithmetic:
storing a byte appends to the contents and is possible exactly below
`RingSize - 1` bytes (`Accept`), advancing the tail removes the head (`Release`);
both come down to `x % RingSize` for x below twice the size.  Then `IrqChar` is
`Offer`, `GetcAdvance` is `Take`, and every other step leaves the queue alone.

**DispatcherProofs**, for every number of workers, items, batches and pools
(`DispatcherAssumption`): `PoolTypes`, `BuffersFree` (`BuffersReleased`),
`ChunksApart` (`DisjointChunks`; no run checks it, since chunks that overlap would
evaluate an item twice, which `BatchComplete` excludes) and `BatchIsComplete` (`BatchComplete`).  The
chunks of a batch follow each other from 0 to its size, the last taking the
remainder (`ChunkBounds`, `ChunksDisjoint`, from `DivMod`).  `DInv` adds to the
types which workers can be computing at each step of the client (`WorkInv`),
that a context with work describes the chunk of its worker in the current batch
(`TaskInv`), and that exactly the chunks already finished have been evaluated
(`EvalInv`).

**NexusLedgerProofs**, for every set of threads and any number of frames and
crashes (`LedgerAssumption`): `LedgerTypes`, `DamageIsAtTail` (`OnlyTailBad`),
`ChainUnbroken` (`VerifyFailsOnTailOnly`), `CheckpointBeforeFrame`
(`CheckpointFirst`), `AckedStays` (`AckedReadable`) and `LedgerIsLog`
(`ImplementsLog`, the refinement of `AppendOnlyLog`).  `LInv` adds where in the
file the parts of the record of a thread in a call are (`CallInv`), that every
part belongs to a line (`LinesInv`), that a line's frame follows the frame of the
line before (`ChainInv`), that parents stand in front of their children
(`ParentInv`), where the first part of an acknowledged frame is (`AckInv`) and
that the checkpoint of everything in the file is durable or was excused
(`CkptInv`).  A crash only cuts the file, which the invariant survives because
all of it is stated per position.

For the refinement `OwnInv` adds that a frame still being appended was never
acknowledged and that the file holds no more of it than its thread has just
written.  So its place, when `append_frame` returns, is three parts in front of the
end and behind everything durable (`SyncAppends`), and neither a new parent nor a
new previous hash is ever stored into an acknowledged frame (`EntriesStay`).  A
place does not move because no step touches the durable part of the file
(`DurableStays`, `PlaceStays`): a write adds behind it, a power loss cuts behind
it.

Only model-checked: liveness (`AcceptedIsEchoed`, `BothTasksRun`, `BatchReturns`,
`DestroyReturns`, `Terminates`, `PipelineEnds`, `CallsReturn`) and ENABLED, which
are out of reach of the prover.  Every invariant and every other action or
refinement property of a passing run is the subject of a theorem.

## 6. Not modelled

Data: instruction encodings, arithmetic, types beyond float or not, frame
offsets, message texts.  In the lowering: 256 and 512-bit vector operations and
the AVX-512 peepholes, 16-byte call results, `IR_PHI`, the second operand of a
256-bit store (`ir_to_x86.c`, line 950, read from its slot), the slot reads of a
float operation whose home is no xmm register (lines 1189 to 1199), and the
division by a constant that `ZCC_UPGRADE_DIV` turns on (lines 731 to 736).  In the
pass manager: constant folding and strength reduction, which run before dominance
and replace a node by a node, vector load coalescing, FMA fusion (and with it the
third operand that only fused operations have), float lowering, the warden and
the profile-driven order of passes, and the EVM pipeline.  SSA construction
leaves the list of a C function as it is: its phi nodes hang in front of the
first node of a block, outside the function's list, and renaming concerns
`IR_ALLOCA` slots, which the C front end does not emit.  On the SSA path: the
lowering from the AST and the passes in front of the allocator, an `OP_NOP` at the
head of a block, which leaves the position from which liveness looks at the loop
stale (`compiler_passes.c`, line 7839), and the jumps to the next block that the
emission saves (lines 9531 to 9551).  In the dispatcher: allocation failure, NULL
arguments, the clamp of the thread count, a `pthread_create` that fails, which the
code ignores (line 76) so that the next batch would wait for a worker that does
not exist, and concurrent clients or pools, which the static contexts do not
support.  In the ledger: several processes, tampering, hash collisions.

The speculative DMA ring and ChronoSpec are driven by one thread in this
repository.  The demonstration kernel is device I/O in a straight line.  The
front end, the code generator from the AST and the object writers are sequential
translations of text, which differential tests cover better than a state machine
would.  Whole components without a module, with the reason, are in
`PROJECT.json`.

The modelled code is a small part of the repository by lines.  Most of its lines
are preprocessed copies of the compiler (`zcc_pre.c`, `zcc_zcc_pre.c`,
`zcc_pp_probe.c`, `lcode_pp.c`), amalgamated third-party programs used as test
input (`pp_sqlite.c`, `doom/`), experiments and demos; of the compiler itself,
most lines are the front end and emission.

## 7. Plan

Done: the allocator and the execution of its code, the dominance pass, the
default pipeline, the SSA path's allocator, zkernel, the dispatcher, the ledger,
and the safety theorems above.  Open, in this order:

1. The passes of the SSA path in front of the allocator (slot promotion, LICM,
   value numbering), in the lockstep form of `PassPipeline`.
2. The remaining passes of the manager.
3. `FrameLayout`: `get_or_create_var_sz`, the callee-save area and 16-byte
   results: no two live slots overlap.
4. Replay and the supervisor's rollback target, on top of `AppendOnlyLog`.
