# A specification of the Yatcc26 compiler back half

The repository holds two stages of a teaching compiler for SysY:

- `4/`, an optimiser: LLVM passes (some written here, Mem2Reg after LLVM's own)
  run over a module in a fixed order, or in an order a language model proposes;
- `5/`, a backend: it reads LLVM IR and prints RV64 assembly.

This directory models both in TLA+: the backend from IR to assembly, every pass
of the optimiser that changes a module, and the cache of summaries it keeps on
disk. TLC checks the models on small instances. For programs of any size these
are also proved: the backend from allocation to text (allocation, frame layout,
calls, emission); that the optimiser's passes over whole functions leave a well
formed module at every step and find what their work lists name; that `Mem2Reg`'s
renamer records every edge of a control-flow graph once; and the cache of
summaries.

## Inventory

### Backend (`5/`)

| part | state it keeps | operations | interacts with |
|---|---|---|---|
| driver `main.cpp` | none | read, verify, `emitModule`, write | calls the rest once |
| frame layout, `EmitMIR.cpp` `resetForFunction`, `computeFrameLayoutBase` | `valueVReg_`, `vregSpill_`, `allocaOff_`, `tempVRegs_`, `localBytes_`, save offsets; one object for all functions | reset, place arguments, values, allocas, temporaries, save area | its offsets are read by prologue, epilogue, every spill and every alloca |
| lowering, `EmitMIR.cpp` `emitInst` and its handlers | `insts_`, `tempCursor_`, `edgeId_`, `pendingEdges_` | one handler per IR instruction; phi edge blocks | appends `VInst`s; asks the layout for registers |
| register allocation, `AllocReg.cpp` | `intervals_`, `physMap_`, `forceSpillAll_`; one object for the blocks of a function | `allocate` per block | reads the `VInst`s, hands `physMap()` on |
| assembly emission, `EmitAsm.cpp` | its copy of `physMap_` | print a `VInst`; spill the mapped registers before calls and branches | reads the map and the frame offsets |
| global data, `emitGlobals` | none | print initialisers, constant by constant | before the functions; the code refers to its labels |

`emitFunction` (`EmitMIR.cpp:67-110`) drives them: lay out the frame, print the
prologue and argument spills, then for every block lower its instructions,
allocate, print; then the same for the edge blocks the block's terminator asked
for. There are no threads. What is hard is that three phases must agree, over
any program, about where a value is: the layout gives it a slot, the allocator
may give it a register for a stretch of a block, the emitter moves it between
the two through two scratch registers, and a call, a branch or a return must
find it in the slot. Objects are reused from block to block and from function to
function, so what a reset forgets turns up later; temporaries come from a ring
that wraps; a mistake shows only in some operand combinations.

What makes each part correct:

- layout: slots of one frame do not overlap each other or the save area and are
  aligned, for any function in any order;
- call sequence: nested and recursive calls preserve every activation's
  variables, arguments reach the callee, results the caller, and each return
  goes to its call;
- lowering: what the `VInst`s compute is what the IR computes;
- allocation: two values share a register only if never needed together;
- emission: what the printed lines compute is what the `VInst`s compute;
- global data: what assembles at a global's label is its initialiser.

### Optimiser (`4/`)

| part | state it keeps | what it does | what makes it correct |
|---|---|---|---|
| `main.cpp` | the module; the pass manager's list, to which a pass may add | the pipeline, printing, verifying | the output module means what the input means |
| `Mem2Reg` | `PromoteMem2Reg`: `Allocas`, `NewPhiNodes`, `Visited`, the renamer's work list | allocas to SSA values and phi nodes | reads see the last write on every path; one entry per edge |
| `ConstantPropagation`, `DeadCodeElimination` | the globals stored, loaded | globals that are never stored become constants; stores never loaded are deleted | the conditions cover every access to the global, through GEPs too |
| `ConstantFolding`, `StrengthReduction`, `InstructionCombining`, `CommonSubexpressionElimination` | lists of instructions to erase, the expression table of a block | rewriting within blocks | each rewriting is an equality of 32-bit words, and definitions still come before uses |
| `IfCombine` | `blockToMerge`, one for all functions | branches on constants, merging of blocks | phi nodes fit the remaining edges |
| `ExtractLoopVariable` | the work list of a loop, what has moved | hoists what does not change in a loop | hoisted code has no effect and cannot fault where it did not run |
| `FunctionInlining` | `recursiveFuncs`, `callsToInline` | inlines and deletes small functions | what is deleted is called no more |
| `StaticCallCounter` | none | counts direct calls, prints | an example of an analysis |
| `llm/` | a summary of every pass, in a file that outlives the program | asks a service for summaries and for a pass sequence; takes summaries by file time | a summary describes the sources; an unknown pass name must not be run |

A pass sees a module alone, from function to function, and the passes meet only
in what they leave of it: a phi node placed by `Mem2Reg` loses an edge in
`IfCombine`, a block it merges is a loop's preheader in `ExtractLoopVariable`, an
inlined body brings allocas and calls into a caller that has been through them
all. What is hard within a pass is that it erases and replaces instructions while
it walks over them, and that its lists name things by address. Only `llm/` has a
history: its files are read by later runs, after edits, failures and kills.

The hazards of all of these, at their lines, are in `PROJECT.json`.

## Modules

| module | models | its state and actions in the code |
|---|---|---|
| `MIR` | `VInst` | constructors are `emitMC`, `emitV*`; `Touched` is what `addUsesDefs` reports |
| `IrOperand`, `IrMachine` | the IR (what LLVM says of it, as far as the handlers need it) | runs a function one instruction at a time; phi nodes are read together on entry to a block |
| `Globals` | `emitGlobals`, and the assembler, external | `directives` are the lines printed, `initStack` the constants `emitInit` has still to visit; one action per global and per constant |
| `EmitMIR` | `emitModule`: the globals, then lowering | `tempCursor`, `edgeId`, `insts`, `pending` are the members of the same names; `LowerNext` is one `emitInst`, `EmitBlock` ends a block, `EmitEdge` prints one edge block; `Run` executes the result |
| `VMachine` | the abstract machine of `VInst`s: one register per virtual register | one action per kind of `VInst` |
| `LinearScan` | `LinearScanAllocator` | `start`, `end`, `spilled`, `phys` are `Interval`'s members by register; one action per instruction numbered and per interval visited |
| `EmitAsm` | `emitFunction`'s loop from allocation to text, and the machine that runs the text | `emitMap` is the emitter's `physMap_`; `EmitNext` is one iteration of `emitInsts` |
| `FrameLayout` | `resetForFunction`, `computeFrameLayoutBase` | `off` is the local of that name; one action per slot placed |
| `CallStack` | prologue, `spillIncomingArgs`, call, `emitEpilogue` | machine registers and a byte-addressed memory; `frames` is a history variable, the activations entered and not left; each action is the code between two points where another function may run |
| `Activations` | abstract: a stack of activations with private variables | what `CallStack` promises |
| `Word`, `IrArith` | RV64's and LLVM's arithmetic, with the width a parameter | what the opcodes compute |
| `Folding` | `ConstantFolding`'s rewritings | what takes an instruction's place |
| `BlockPasses` | the six passes that rewrite within blocks, in the pipeline's order | `instToErase`, `exprMap`, `toEraseSet` are the locals of those names, `globals` is `constantValues` or `used_GVs`; one action per instruction visited and per erasure |
| `FlowIr` | LLVM, external: modules of several functions with branches, phi nodes, calls, allocas; dominators, the verifier, replacement of uses; what `main` shows | `Outcome` is what a module does on an argument, `Verifies` is `verifyModule` |
| `Mem2Reg` | the whole promotion | `stage` is the place in `promoteMemoryToRegister`; `allocas`, `num` are `Allocas` and the loop over it, `info` is `AllocaInfo`, `newPhis` is `NewPhiNodes`, `worklist` the renamer's; one action per alloca found, per load or store a shortcut visits, per phi node placed or simplified, per block renamed |
| `ConstantFolding` | that pass over functions with control flow | one action per instruction folded, erasure at the end of a block |
| `IfCombine` | that pass | `blockToMerge`, `instToErase` are the locals; one action per block visited, per branch folded, per block merged |
| `ExtractLoopVariable` | that pass | `worklist`, `nextWorklist`, `changed` are `doLICM`'s; one action per instruction looked at, per round, per loop |
| `FunctionInlining` | that pass | `recursiveFuncs`, `callsToInline`; one action per call inlined or passed over, per function erased |
| `PassSequencePredict` | the summaries, the service's answers | one action per summary used, prompt begun, source read, file opened and file written; `Edit` and `Die` are the world's |
| `FlowPasses` | `main.cpp`'s pipeline over whole functions | `pipeline`, `pass` are the pass manager's; `exitCode` is `main`'s |
| `LinearScan_proofs`, `FrameLayout_proofs`, `CallStack_proofs`, `EmitAsm_proofs` | | the theorems about each, among them that calls implement `Activations` and that the text implements `VMachine`; see Proofs |
| `FlowIr_proofs` | | lemmas about modules: what erasing, replacing, inserting, merging and copying do to a well formed function |
| `FlowPromotion_proofs`, `FlowRewriting_proofs`, `FlowPasses_proofs` | | the invariant of the passes; that `Mem2Reg` keeps it; that `ConstantFolding`, `IfCombine`, `ExtractLoopVariable` do; that the rest does, and the theorems about `FlowPasses` |

How they compose:

    IR function --EmitMIR--> VInsts --LinearScan, EmitAsm--> lines
        |                       |                              |
    IrMachine  <--refines--  VMachine  <--refines--  EmitAsm's machine

    FrameLayout --> CallStack --refines--> Activations

The middle machine is the contract: `EmitMIR` is checked against what the IR
does, `EmitAsm` against what the `VInst`s do. A proof that a compiler is right
usually has this shape, and the two checks do not need each other's bounds.

    module --BlockPasses--> module, with the same Outcome at every step

    FlowPasses = Mem2Reg, ConstantFolding, IfCombine, ExtractLoopVariable,
                 FunctionInlining, PassSequencePredict, one at a time
    module --FlowPasses--> module, with an Outcome the source allows

`EmitAsm` INSTANCEs `LinearScan`, so the allocation it prints with is the
allocator's own. `VMachine` is used twice, as the runner of what `EmitMIR`
produces and as the abstract machine of `EmitAsm`. `FlowPasses` INSTANCEs its six
passes over shared variables (the module, the function at work, the stage, the
next instruction's name); a pass in `pipeline` starts when the one before it has
ended, so the modules that `Mem2Reg` leaves are what `IfCombine` starts from.
What `PassSequencePredict` answers is appended to `pipeline`, as the code adds
passes to the manager that is running it.

### The abstractions made

- A virtual register, a label, a callee are model values. Offsets appear only in
  `FrameLayout` and `CallStack`; elsewhere a slot is named by its register,
  which is what `FramesSound` justifies.
- A call's effect is an event (callee and arguments as the callee will see them)
  and an arbitrary result; every caller-saved register is destroyed.
- `DenseMap` order and unstable `std::sort` are free choices.
- `freeRegs` is a set; the code takes the last, the model any.
- In `BlockPasses` instructions are named by numbers, a new one by the next
  number. A function is a sequence of blocks run in order; what it does is the
  list of values it returns when called twice, starting from the initialisers, so
  that a global left over from the first call matters. A module whose
  definitions do not come first or whose terminators are not last does nothing
  acceptable. Where the source is undefined (a division by zero, an index out of
  bounds) anything will do. `CrashFolding` is the compiler dividing by zero, upon
  which it is `trapped`; `MeaningKept` allows that only for arguments with which
  the source divides by zero too.
- In `FlowIr` a module is a sequence of functions, a function a layout of labels
  and their code. A module's outcome is the external calls `main` makes with
  their arguments, the value it returns and the globals it leaves. A load of
  what was never stored yields `NoWord`, which may become any word; acting on
  one (a branch, an index), a division by zero, an address outside its variable
  are undefined, and a source that is undefined allows anything. A source must
  come to its end within `Fuel` steps. An alloca's memory is keyed by the depth
  of its frame: depths are used again, as stacks are.
- `FlowPasses` asks about meaning where a module is `Settled`: not while phi
  nodes wait for their entries or a branch has just got its successor.
- An instruction's name stands for its address. In one run of the optimiser no
  name is given twice, so one that is held after its instruction has been erased
  names nothing (`WorkIsThere`). `IfCombine`'s new branches have names too.
- Uses of a value and entries of a `DenseMap` are visited in any order.
  `LargeBlockInfo` numbers instructions in order of position, which is what the
  model compares. Blocks of a loop are visited in any order that follows the
  forward edges, as `LoopInfo`'s is; sibling loops in any order.
- In `PassSequencePredict` a source is its number of edits and the time of the
  last one, a summary the versions it was written from. Time never goes
  backwards, and an edit may fall within the clock tick of another event. The two
  file times are compared in one step. A service either answers or throws.
- All values have one width (see below).
- Memory in `CallStack` holds tagged words: a word knows which bytes of which
  value it is, and a load of anything else returns junk.

## Runs

| run | asks | result |
|---|---|---|
| `linear_scan` | can two live values share a register, can a map go stale, is a register lost | holds, scan off and on |
| `emit_asm` | do the printed lines do what the `VInst`s do | holds as shipped |
| `stack_args` | does every argument reach the callee | no: those beyond the registers |
| `emit_mir` | do the `VInst`s do what the IR does, do the globals' directives assemble to their initialisers | holds |
| `phi_swap` | the same, with phi nodes that exchange their values | no |
| `block_passes` | does every step of the block passes keep the module's meaning | holds |
| `store_element0` | the same, for a store to an array's first element | no: dead code elimination deletes it |
| `strength_reduction` | the same, where there is something to reduce | no: the new instruction comes after the terminator |
| `call_stack` | are frames sound, and do calls over them keep activations apart | holds |
| `flow_passes` | does every pass over whole functions keep the module well formed and its meaning, is what its work lists name there, does the renamer record every edge once, does the pipeline end with a module the verifier takes, does a summary describe its sources | holds |
| `hoisted_store` | the meaning, for a store in a loop that may not run | no: it is hoisted |
| `divided_by_zero` | does the pipeline end with a module, for a division by a constant zero that only some arguments run | no: the compiler divides |

The six disagreements are described, with the lines that promise otherwise,
under `findings` in `PROJECT.json`.

### Bounds, and why they are enough

- `linear_scan`: four virtual registers for two physical ones, blocks of up to
  `MaxBlockLen` = 4 instructions chosen to have every operand shape, followed by
  a second block (or an empty and a third). Spilling needs three intervals at
  once; a hand-over followed by an expiry needs four instructions; a stale map
  needs two blocks. Registers and blocks are unbounded in the proofs. The allocator
  is taken both ways: as shipped, where `forceSpillAll_` (`AllocReg.h:47`) sends
  every value to its slot with all registers free, and with the linear scan that
  `5/README.md:79` describes; what is said of spilling is said of the scan.
- `emit_asm`: two virtual registers, all bodies of up to `MaxBody` = 2
  instructions of every class with every aliasing of operands, calls with up to
  `MaxArgs` = 2 arguments, each ending in a branch or return, then a block that
  reads what the first left. Two-bit words whose lower half stands for 32 bits.
  The emitter's state between two instructions is only its map, so longer bodies
  repeat pairs. `stack_args` has three arguments for two argument registers, in
  the place of nine for eight.
- `emit_mir`: words of `Bits` = 4 and the real ring of eight temporaries; each
  instruction form with variable, constant, global and constant-GEP operands, on
  argument values at both ends of the range; then branches, switches and a loop
  with phi nodes. `InitMems` is one memory in which every cell differs. With one
  of the functions, globals of every size and shape: zero, positive and negative
  scalars of one, four and eight bytes, arrays of up to three dimensions with
  zeros, rows of zeros and undefined rows, behind a neighbour of odd size, with
  declarations and nameless globals between. A byte has `ByteBase` = 4 values.
- `call_stack`: every frame of up to an argument, two values and two allocas
  from sizes and alignments that need padding, and a pair of functions that call
  each other and themselves on a stack of `StackBase` = 192 bytes, so three
  frames deep. `TempSlots` = 2 stands for eight. `Int32Limit` = 256 stands for
  2^31 so that allocas overflow it. `Used` names, for a function of a module,
  the slots in which its bodies may write; `Value` the values written there.

- `block_passes`: words of four bits and arguments at both ends of the range;
  three operations in a row with every operand that a rewriting asks for (zero,
  one, negative, the argument, an earlier result, twice the same), in one block
  and over two; loads and stores of scalars and array elements by name and by
  index in both orders. The pipeline runs twice over, with strength reduction
  last, as in `4/main.cpp:94-111`; nothing in this run's modules can be reduced,
  because every reduction is a violation, which `strength_reduction` shows. The
  same holds of stores to an array by its name that are only read by index
  (`store_element0`), and unsigned division of negative constants, folded as
  signed, is left out.

- `flow_passes`: words of four bits, arguments `Inputs` = 0, 1, 3, on which loops
  run zero times, once and several times and both sides of every branch are
  taken; `Fuel` = 60 is more than any source runs. Functions over an argument and
  two variables, with statements that set, copy, increase and exchange them:
  straight lines (the single-store and single-block shortcuts of `Mem2Reg`, in
  and out of order); a branch with either or both sides, and two edges from one
  block to another; a branch on a constant with a block left unreached; a join
  that has a phi node before and an unreached block leading to it; a pointer to a
  variable, which promotion of the pointer makes promotable, and an array; a loop
  with a preheader and without; a loop in a loop; three functions calling each
  other in every order, recursion, functions never called. `MCPipeline` has each
  pass of `4/main.cpp` that `FlowIr` can
  express, and those that one round makes work for a second time. For
  `PassSequencePredict` two passes, answers of up to `MaxNames` = 2 names with
  one of `Strangers` (the name with the space that splitting at commas leaves),
  `MaxEdits` = 1 edit at any time, `MaxRuns` = 2 runs: a summary can be wrong only
  in a run after the edit. Edits, runs and passes are unbounded in the proof.

  What this run keeps out, because the compiler is not right there:

  - a store in a loop that may not run (`hoisted_store`), and a load of a global
    in a loop that comes before a store to it which is hoisted: nothing asks what
    reads the old value first;
  - a division in a loop by what comes from outside: it is hoisted, so that it is
    run where the loop, or its block, is not;
  - a division by a constant zero that is not run (`divided_by_zero`);
  - a branch on a constant one of whose own edges enters a join with phi nodes,
    which keep their entry for an edge that is gone; the verifier rejects those
    modules, so that the optimiser exits with 3.

  What `blockToMerge` names after the blocks were freed is either passed over or
  the compiler's end (`crash`); `Optimised` allows the second.

Runs set CHECK_DEADLOCK FALSE because a compiler run and a compiled function end.

### Fairness

`EmitMIR` and `EmitAsm` assume WF of the whole next-state relation: compiler and
compiled code are sequential and nothing else can hold them up. Their properties
are of safety, and the refinements are of specifications without fairness.

`FlowPasses` assumes WF of `Optimiser`, its own steps: it is one sequential
program, and a request to the service returns or throws. What the world does
(edits, kills, another run) is under no fairness. The liveness property is
`Optimised`: whenever a pass can start, the optimiser later exits with 0, or is
stopped by the world, by a name it does not know (both `dead`) or by freed memory
(`crash`). Nothing else is excused: a compiler `trapped` by a division by zero of
its own violates it, which is what `divided_by_zero` shows. That the
work lists of `Mem2Reg` empty, that its rounds over phi nodes and its promotions
end, and that a loop's instructions stop moving is in it; a mutant whose rounds
do not end violates it.

## Proofs

| theorem | of | argument |
|---|---|---|
| `TypeCorrect`, `SharedRegistersAreSafe`, `AssignmentsAreFresh` | `LinearScan` | `IInv` |
| `ScanSpillsOnlyUnderPressure` | `LinearScan` | `PressureInv` |
| `LayoutTypeCorrect`, `FramesAreSound` | `FrameLayout` | `LayoutInv` |
| `RunningFramesAreSound` | `CallStack` | every action of a running program leaves the layouts alone, so `LayoutInv` carries over |
| `BodiesKeepFramePointer`, `BodiesFindAllocasAligned` | `CallStack` | `MachineInv` |
| `CallsAreActivations` | `CallStack` implements `Activations` | `MachineInv`, step by step |
| `TextIsTheCode` | `EmitAsm`, the compiler | `CompileInv` |
| `EmittedCodeIsFaithful` | `EmitAsm` implements `VMachine` | `RefinementInv`, step by step |
| `ModulesAreWellFormed`, `WorkStaysThere`, `EdgesAreRecordedOnce` | `FlowPasses` | `Inv` |
| `SummariesAreCurrent` | `FlowPasses` | `DiskInv` |

All but `TextIsTheCode` state a property that a run checks. `Inv` holds in every
state of the run `flow_passes`. `CompileInv`, the
conclusion of `TextIsTheCode`, says where the compiler stands and what the text
is then; it is what `EmittedCodeIsFaithful` needs of the compiler.

### What is assumed

The theorems hold for every value of the constants that meets these assumptions,
which TLC evaluates in the runs:

- `NoRegAssumption`: the invalid register is not a register.
- `LinearScanAssumption`: there is a physical register, the invalid one is none
  of them, functions are sequences of blocks; registers are finitely many, physical
  and virtual (an `llvm::Register` is an unsigned int).
- `FrameLayoutAssumption`: programs are sequences of shapes. Alignments
  up to 16 are powers of two.
- `CallStackAssumption`: the stack begins at a multiple of 16, as the ABI has
  it; there is an argument register; a body writes only in slots of its own
  function, and not in one of no bytes.
- `EmitAsmAssumption`: labels occur once in the layout, the entry is a label,
  functions are blocks that end in a jump or a return and branch to labels of the
  function (LLVM's verifier has run); the initial registers are functions from
  registers to words; the argument registers are distinct, there is one, and none
  is `zero`, `sp` or a scratch register.
- `JobsAssumption`: the optimiser reads modules that LLVM can read, with a
  `main` (`WellFormed`: labels and results named once, blocks that end in
  branches to blocks of their function), and `main.cpp`'s list names passes that
  there are.
- `PassNamesAssumption`: so does the list that the service is given.

Three theorems have a hypothesis besides. `CallsAreActivations` supposes that
functions have no more arguments than there are argument registers
(`RegisterArgs`), and the two about `EmitAsm` that calls have no more
(`RegisterArguments`): the code does not pass the others, as the run `stack_args`
shows, so the theorems are false without. The two about `EmitAsm` suppose the
allocator as shipped (`Shipped`: its constructor sets `forceSpillAll_`); emission
after a scan is not a program that can run.

### The arguments

`LinearScan`, sharing. `NoSharedRegister` speaks of the finished map and of
instructions; the scan knows only intervals. `IInv` connects them:

- `Covered`: every instruction numbered so far lies in the interval of each
  register it touches, and every interval is of a register the block touches;
- `ScanInv`: active intervals hold distinct registers, none of them free; what
  has been visited starts no later than what is pending; an interval that left
  the active list with its register ended before anything pending starts;
- `Disjoint`: two intervals with the same register do not overlap;
- `MapInv`: `physMap` is empty until the scan is over, and then names the
  registers the intervals hold.

The step that carries it is `Visit`: an interval that takes a register freed by
expiry starts after its former owner ends, and by the order of visits after the
end of every earlier owner.

`LinearScan`, spilling. `PressureInv` adds that no register is lost (`NoneLost`:
each is free or held by an active interval) and that whatever is spilled was
`Pressed`: at some position of its interval, more intervals meet than there are
registers. When the scan spills, no register is free, so the active
intervals are as many as the registers (a bijection, hence the finiteness), and
what is still active covers the start of the one visited.

`FrameLayout`. `FramesSound` is about finished frames. `InProgress` says the
slots placed so far are apart and lie below `off`, unless an int32 narrowing has
happened in this function, which `overflow` records. `ShapeInv` (in
`FrameLayout_proofs`) says of the same slots which kind and size each has and that
its offset is a multiple of its alignment.

`CallStack`. That a body finds its own frame pointer depends on what every
activation below it has done to memory. `MachineInv` describes the whole stack:

- `Chained`: `frames` is a chain; each frame ends where its caller's begins, the
  first at `StackBase`, and is as long as its function's layout says;
- `SavedIn`: the top two words of every frame are the place to return to (a call
  in its caller, into a slot of the caller) and the caller's frame pointer;
- `Control`: what `sp`, `s0` and `ra` are at every point between two functions.

It is kept because a body writes only in slots of the top frame, which by
`LayoutInv` lie below that frame's two words, a prologue only below the stack
pointer, and an epilogue reads the words a prologue wrote. Alignment follows as
every frame's length is a multiple of 16. The refinement maps `frames` to the
stack of activations, whose variables are what memory holds in the slots
(`ActivationIn`). An activation's variables depend only on the bytes of its own
frame (`ActivationAgrees`), so a body's write changes one variable of
the top activation, and call, prologue and epilogue change those of no other.

`EmitAsm`, compiling. `CompileInv` says that the text is the code of the
instructions compiled so far, in the order of the layout. The emitter's map is
empty throughout, because the allocator empties its own and, as shipped, hands
that on. `EmitAsm_proofs` first computes the code of each kind of instruction,
whatever its operands and number of arguments.

`EmitAsm`, running. `RunInv` says the machine stands at the q-th line of the
code of the k-th instruction of a block, and `Progress` what the first q - 1
lines have left in registers: the words in the slots of the operands reloaded so
far, or the result not yet stored, or those arguments that have been moved. A
line is then a stutter of the abstract machine or, if it is the one that stores,
branches, calls or returns, the whole instruction's step. The abstract registers
are the slots, except between a call and the `sd` that takes up its result, where
the one assigned is `a0`. That operands alias (a result that is its own operand,
one value moved to two arguments) needs no case: operands are reloaded from slots,
and an instruction writes its one slot last.

`FlowPasses`, the module. Every pass edits the module in many small steps, and
comes back at each to what it noted before: a work list, a set of instructions to
erase, phi nodes placed and not yet filled, calls collected. That a block still
ends in a branch after an erasure depends on what the set to erase can hold, so
`Inv` says for every pass what its notes are:

- `ModInv`: the module and its source are well formed;
- `RestInv`: where the passes' shared variables are while others are at work, and
  the renamer's work list names edges of the function;
- `PromoteInv`: what `Mem2Reg` works on are allocas, its pending loads are
  loads, its only store is a store; `PhiInv`: its phi nodes are phi nodes of
  their blocks, of which nothing else comes before, and have no entries before
  the renamer walks; with `EdgesRecordedOnce`, which is inductive with these;
- `ConstantsInv`, `FoldInv`: only arithmetic is erased as folded, and a
  conditional branch that waits for erasure has its successor just before it;
- `HoistInv`, `InlineInv`: what waits to be moved is there and ends no block, what
  waits to be inlined waits once, is there and calls a function of the module.

Most steps are one of a few kinds, which `FlowIr_proofs` treats for any function:
a step that only takes away (`Trims`: erased instructions, replaced operands), one
that inserts before the end of a block, one that puts phi nodes first, one that
adds entries to them, one that splices a sequence into a block. What such a step
keeps (`Follows`) is shown once, and a pass's step need only be shown to be of
its kind. Blocks that become one and callees copied into callers have lemmas of
their own. Recursively defined helpers (`Kept`, `FlattenSeq`) are reasoned about
by least counterexamples: if a statement fails somewhere, it first fails
somewhere, and there its definition contradicts it (`Induct`).

`EdgesRecordedOnce` is about counts: entries in a phi node plus edges times
waiting work items is edges. When the renamer takes an item off, it enters as many
entries as there are edges, in every phi node that is still behind; the new ones
are at the head of their block and all have as many entries as the first, which is
why the loop that stops at the first phi node with another number of operands
(`Mem2Reg.cpp:797`) reaches all of them. A block visited for the first time puts
each successor on the list once, however many edges lead there.

`FlowPasses`, the summaries. `SummariesDescribeSources` speaks of complete summaries, but a
summary becomes one in steps, and an edit may come between any two. `DiskInv`
adds that no file or summary is newer than the clock (`TimesPassed`), so that what
is written now is as new as its sources, and that what has been sent of a source
is its present version unless the pass is in `crossed` (`PromptInv`). No other pass
touches the disk, and `StartPass` and the rest leave it alone; that is the
composition's part of the proof.

### Only model-checked

- `ImplementsIR`, `MeaningKept`, `FlowMeaningKept`: what a lowering, or an
  interpreter, yields for every program. The induction theorems of the library,
  which have an operator for a parameter, cannot be used, and least
  counterexamples, which carry `Kept` and `FlattenSeq`, do not carry a simulation
  between two interpreters of arbitrary programs. What is proved of the passes is
  the form of the module, not its meaning; that phi nodes fit predecessors after
  all passes, and that definitions dominate uses (`Verifies`), is part of
  `FlowMeaningKept` and checked with it.
- `GlobalsAsDeclared`: it compares the fold of all directives with a path through
  nested initialisers, by divisions and products of the dimensions.
- `Optimised`: liveness under fairness is out of the prover's reach.
- `ArgumentsReachCallee` is false, as `stack_args` shows. Where arguments fit in
  registers, `EmittedCodeIsFaithful` has it: a call's event carries its arguments.

## Not modelled

- Two widths of words. The code keeps i32 values in 64-bit registers and lowers
  casts to moves, which `5/README.md:103` warns of. The models have one width.
- The range of 12-bit immediates: constants, frame sizes and offsets are printed
  as they are.
- More than eight temporaries in one instruction (the ring wraps onto itself),
  and switches on a constant with three or more cases.
- Allocation with the scan on, followed by emission: the emitter does not load a
  live-in value that has a register, so this is not a program the code can run
  as shipped.
- Lifetime intrinsics (lowered to nothing), fatal errors, the driver's input and
  output, the text of the assembly.
- Initialisers the front end never makes: structures, pointers, integers of
  another size than one, four and eight bytes (`emitGlobals` prints zeros). The
  loader: functions start with any memory, not with what `Globals` assembles.
- Of the optimiser: `nsw` and `nuw`, the reuse of an address for a new
  instruction; the cleaning of debug intrinsics and `assume`s in `Mem2Reg`, which
  the front end does not produce; functions whose address is taken.
  `StaticCallCounter` counts and prints: in `FlowPasses` it is a pass that ends as
  it starts. The passes within blocks are `BlockPasses`', over straight functions;
  in `FlowPasses` only folding of constants is run again, for the branches.
- Of `llm/`: the text of prompts and answers, the service's sessions (one per
  request, deleted after it), two optimisers at work in one directory.

## Plan

1. (done) the backend: allocation, emission, lowering, layout, calls; the
   optimiser's block passes.
2. (done) `FlowPasses`: the passes over whole functions and their composition,
   with runs for a hoisted store and a division by zero; `PassSequencePredict` over
   several runs.
3. (done) `Globals`: `emitGlobals` against the types' layout, before the functions.
4. Two-width words and the registers' upper halves, and the ring of temporaries
   past its end.
5. Proofs. (done) the frame pointer, the return address and the alignment of
   allocas in `CallStack`; the scan's `ScanSpillsUnderPressure`; `CallStack`
   implements `Activations`, `EmitAsm` implements `VMachine`; in `FlowPasses`, well
   formed modules, work lists and `EdgesRecordedOnce`. Left: dominance of
   definitions over uses; the equalities of words that `Folding` relies on;
   `Globals` with its directives as a recursive function, which
   `GlobalsAsDeclared` waits for.
