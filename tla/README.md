# A formal model of SMDA

SMDA is a recursive disassembler: from a memory dump or an executable it recovers functions,
basic blocks and code references. This directory holds TLA+ modules that model its recovery
engine and backends, the facade around them, its pure algorithms, its candidate queue and its batch
runner, configurations that check them with TLC, and theorems whose proofs TLAPS checks. Paths below
are relative to the repository; `smda/` stands for `src/smda/`.

1. [The system](#1-the-system): components, state, operations, interactions, what is hard
2. [The modules](#2-the-modules) and how they correspond to the code
3. [The runs](#3-the-runs): what each asks, its bounds, the fairness assumed
4. [What the runs found](#4-what-the-runs-found)
5. [The proofs](#5-the-proofs)
6. [What is abstracted and what is not modelled](#6-what-is-abstracted-and-what-is-not-modelled)
7. [Plan](#7-plan)

## 1. The system

### Components

| Component | State it keeps | Operations | Correct when |
| --- | --- | --- | --- |
| Facade, `smda/Disassembler.py` | the backend and its label providers, the timer's start, the collector's switch; all outlive a call | `disassembleFile`, `disassembleUnmappedBuffer`, `disassembleBuffer`; load, dispatch, analyse, build the report, extract strings | what one call leaves never decides what the next reports |
| Loaders, `smda/utility/*FileLoader.py`, `smda/common/BinaryInfo.py` | none | lay a PE, ELF or Mach-O out in memory, name its code areas, undo the layout | every byte at its address, code in code areas |
| Recursive disassembler, `smda/common/RecursiveDisassembler.py` | the passes of `analyzeBuffer()`, the recursion of `analyzeFunction()` | decode a function block by block; undo a function (`_revertStoredFunction`, `_revertGapFunction`, `absorbFunction`); analyse again what was undone | an address has one owner, what was undone is not lost, the passes end |
| Function analysis state, `smda/common/FunctionAnalysisState.py` | block queue as list and set, instructions, bytes, references with two indexes, jump targets, table bytes, collisions | `chooseNextBlock`, `addBlockToQueue`, `endBlock`, `addInstruction`, `addCodeRef`, `removeCodeRef`, `addDataRef`, `getBlocks`, `finalizeAnalysis`, `revertAnalysis` | the redundant pieces agree in whatever order they are used; blocks partition the instructions |
| Result, `smda/DisassemblyResult.py` | `functions`, `instructions`, `ins2fn`, `function_borders`, references, `data_map` | written by finalize and revert only | functions, instructions and `ins2fn` agree |
| x86 backend, `smda/intel/X86Backend.py` | none of its own | one handler per kind of instruction; cuts at padding and landing pads; absorbs a body behind an early return | branches are booked, functions end before padding, declared entries stay |
| ARM backend, `smda/arm/` | the instruction set of every address and the evidence for it, literal pools, conflicts noted and taken | as the x86 backend; undo and decode again in the other instruction set | every function in one set, the one known best; a pool is nobody else's code |
| AArch64 backend, `smda/aarch64/` | candidates of its own discovery | discovery from exception records, calls, pointers and frame setups; gap scan; register tracking | one candidate per function, at its entry |
| Dalvik, `smda/dalvik/` | payload ranges and legal starts of a method, claimed intervals of the file | sweep, walk, blocks; orphan code items | tables are not code, every method accounted for |
| Candidate manager, `smda/common/FunctionCandidateManager.py` with a subclass per backend | candidates with scores and flags, known call references, the gap pointer, declared extents | locate, `addCandidate`, `ensureCandidate`, `updateCandidates`, finish or abort an analysis, next gap candidate | every queued candidate is decided; declared starts are not crowded out |
| Candidate queue, `smda/utility/PriorityQueue.py` (default), `BracketQueue.py` | a lazy heap of items that remember old scores | `add`, `update`, `next` | no candidate hidden, the best one first |
| Tailcall analyzer, `smda/common/TailcallAnalyzer.py` | jumps of all functions, the states of the functions analysed | split a function another one jumps into, analyse both parts | no completed function is lost |
| Analysis budget, `smda/common/analysis_budget.py` | a latched verdict | poll | a spent budget starts nothing new |
| Gap scan, in the managers | gap pointer, gap list, what was offered, retained and failed last | `initGapSearch`, `nextGapCandidate`, `getNextGap`, `noteFailedGapCandidate` | offers no address twice, passes over no gap, ends |
| Table and call analyzers, `smda/intel/JumpTableAnalyzer.py`, `smda/{arm,aarch64}/analyzers.py`, `dataflow.py` | none | find a switch's table, its bound and its cases; track registers | cases and nothing else, values that the code computes |
| Exception tables, `smda/common/EhFrameDecoder.py` | read budgets | extents, landing pads, search table | nothing readable is lost, failing reads are charged |
| Strings, `smda/utility/StringExtractor.py` | a cache | terminated strings, pairs of pointer and length | whole strings, live lengths |
| Reports, `smda/common/Smda*.py`, `Tarjan.py`, `DominatorTree.py`, `BlockLocator.py` | none | graphs, loops, nesting; loading older versions | standard results; nothing stale after loading |
| Synthesis, `smda/synthesis/` | none | a PE, ELF or Mach-O from a report | loading it gives back what the report says |
| Batch processor, `smda/utility/BatchProcessor.py` | two process pools, tasks in flight, report files | submit, wait, yield, shut down; `_analyzeOneFile` in the workers; resume | one summary per file, reports belong to their files, the run ends |
| CIL, label formats, probes, escapers, exporters, command line | mostly data | conversion | - |

### How they interact

A call of the facade loads an input, chooses a backend and runs its `analyzeBuffer()`. Everything in
one analysis runs on one thread, but its calls interleave with each other through shared state.
`analyzeBuffer()` runs the passes: candidates of the queue, deferred sources, the gap scan, the queue
again, late sources, the queue again, tailcalls, the queue once more. Each pass calls
`analyzeFunction()`, which reads and writes the result of all functions while it works, may undo
functions that were finished long ago, and at its end calls itself for what it undid. Candidates
registered during an analysis enter the queue that some later pass drains. The tailcall analyzer
keeps the analysis states of all functions and reverts some of them long after others have decoded
the same addresses. What the loaders, the exception tables and the discovery scans say about the
image enters as candidates, as extents no function may start in, and as reasons not to undo one.

The batch processor is the concurrent part: a parent, a consumer that drives it as a generator, up
to two pools of worker processes, and a directory of reports that outlives the run.

### What is hard

- *Undo after the fact.* Four ways to undo a function (absorb, gap revert, tailcall split, and a
  discarded first decode), each rebuilding what to undo from another source; a fifth on ARM.
- *Redundant state kept in step by hand*: the block queue twice, jump references and jump targets,
  functions and `ins2fn`, heap items and scores.
- *Order.* Whose code shared code is depends on candidate order; tables, pools and payloads may be run
  into before what reads them is decoded; evidence arrives while a function is being decoded.
- *Recursion and progress.* Functions may undo each other.
- *Timeouts* at any poll, also between undoing a function and analysing it again.
- *Reuse.* One instance serves many inputs, and every step may raise.
- *Inference* of bounds, extents, lengths and entries from patterns that nearly always mean it.
- *Worker death, failed writes, crash and resume* in batch mode.

`PROJECT.json` lists each hazard at its line with the properties that watch it. Its map names the source lines of the
state, the actions and the main operators; a helper without an entry translates part of the lines of the definition
that uses it.

## 2. The modules

| Module | Models | Composed by |
| --- | --- | --- |
| `FunctionState` | `FunctionAnalysisState` as a record and pure operators, one per method, block reconstruction included | `Engine` |
| `Engine` | the disassembler, the x86 control-flow rules, the result, the candidate manager, the tailcall pass and the budget | `MCEngine`, `Engine_proofs` |
| `CodeMap` | abstract specification: who owns an address, and which addresses an undone function may leave behind | `MCEngine` (refinement of `Engine`) |
| `SplitHistory` | `Engine` with a record of what the tailcall pass split, and which splits lost what | `MCSplits` |
| `MCEngine`, `MCSplits` | families of images for TLC | the three engine runs |
| `ArmModes`, `Arm` | evidence about the instruction set and the candidate manager; the engine as the ARM backend drives it | `ArmHistory`, `Arm_proofs` |
| `ArmHistory` | `Arm` with a record of the cases its promises except | `MCArm`, `Arm_proofs` |
| `Dalvik` | one DEX file: payload discovery, the walk, blocks, orphans, timeouts | `MCDalvik` |
| `Facade` | one `Disassembler` instance over several calls | `MCFacade`, `Facade_proofs` |
| `CandidateQueue` | the lazy heap and the manager operations that change scores under it | `CandidateQueue_proofs` |
| `ScoredSet` | abstract specification: a set of scored candidates that answers with its best | `CandidateQueue` (refinement) |
| `BatchProcessor` | parent, consumer, pools, workers, report files, crash and resume | `MCBatch`, `BatchProcessor_proofs` |
| `GapScan` | the gap scan of the common and the Intel manager, and the loop of `analyzeBuffer()` around it | `MCGapScan`, `GapScan_proofs` |
| `Mapping` | loaders' layouts, code areas, address queries, the way back to a file | `Algorithms`, `Synthesis` |
| `FunctionGraph`, `Reports` | control flow graphs and what is computed from them; references, loading of older reports | `Algorithms` |
| `IntelTables`, `ArmTables`, `Arm64Tables` | jump tables, bounds, stubs, register tracking of each backend | `Algorithms` |
| `Synthesis`, `SynthesisPe`, `SynthesisMacho` | files rebuilt from reports, loaded back through `Mapping` | `Algorithms` |
| `Strings`, `EhFrames` | string extraction; exception tables of ELF images | `Algorithms` |
| `Declared` | declared extents, starts that wait, admission of candidates and their limit | `Discovery64`, `Discovery86` |
| `Discovery64`, `GapScan64`, `Discovery86` | where AArch64 and x86 functions may start; the AArch64 gap scan | `Algorithms` |
| `Algorithms` | one call of one pure algorithm on one input, and what each promises | `MCAlgorithms`, `MCSynthesis` |
| `FunctionState_proofs`, `Engine_proofs`, `CandidateQueue_proofs`, `BatchProcessor_proofs`, `GapScan_proofs`, `Facade_proofs`, `Dalvik_proofs`, `Arm_proofs` | theorems | - |

Fault operators, marked `\* fault:`, stand before the operator they vary. They are wrong on
purpose; no specification uses them. Each property of a run has one that breaks it, which shows that the
property depends on the code it is about.

### FunctionState and Engine

An image says what decodes at which address: an instruction has a size, one of twelve kinds
(call, register call, five kinds of branch, and plain, zero, nop, padding and landing-pad
instructions) and what it refers to. It also says which candidates the discovery heuristics found,
which have evidence, what precedes an address and what the deferred and late sources name. Init
chooses one image; nothing else is chosen at random except the position of the gap scan and
whether a poll finds the budget spent.

| Code | Model |
| --- | --- |
| local variables of `analyzeFunction()` and its `FunctionAnalysisState` | a frame; the recursion is the stack `frames` |
| the program counter inside `analyzeFunction()` | the frame's `phase` |
| `self.disassembly` | `dis` |
| `self.fc_manager` | `fcm`; its queue is a set, its order `Score` |
| `self.tailcall_analyzer` | `tca` |
| the pass of `analyzeBuffer()` | `pass`, with `work`, `cur` and `gapPtr` for its loops |
| `analysis_timeout` | `timeout` |

An action is one iteration of a loop or one step between two calls: `TakeCandidate`, `Enter`,
`ChooseBlock`, the cuts (`CutAtTable`, `CutAtLandingPad`, `CutAtPadding`), one `Analyze...` action
per kind of instruction, one `Book...` action per branch of the booking condition, `KeepFunction`
and `RejectFunction` for `finalizeAnalysis()`, the restore loops, one action per step of the gap
scan and of `resolveTailcalls()`. A conditional branch that reaches a body behind an early return
has an action of its own, `AnalyzeCondJmpAbsorbing`, which undoes that body's function.

### ArmModes and Arm

AArch32 code is decoded in one of two instruction sets, and what says which (mapping symbols, the
Thumb bit of a pointer or an unwind index, the kind of call, how the bytes around look) differs in
weight. `ArmModes` is that part of the manager: `NoteMode` weighs a statement against the one known
and decides whether a function is to be decoded again. `Arm` is the engine as this backend drives it:
its wrapper of `analyzeFunction()` decodes in the mode known at that moment, undoes what a stronger
statement since made wrong (`Settle`), and queues it again. An image says what an address decodes as in
*each* set. Literal pools become data while paths may run into them; declared entries end the function
before them. `locateCandidates()` is read item by item: `pass` names the source (symbols, entry point,
their candidates, the unwind index three times, call references, data pointers, prologues), `work` holds
what is left of it, the `Read...` actions take the least item and `ReadOn` turns to the next source, so
that a later source meets what the earlier ones stated. The queue and the gap scan are actions too, in
less detail than in `Engine` and `GapScan`.

### SplitHistory and ArmHistory

What the code loses, it loses in cases that no state shows any more when the loss is seen. These two modules add
history variables to every step of `Engine` and `Arm` and change nothing else, so that a property can name its
exceptions: `retaken` are addresses a split took with the state of a gap function that had lost them before,
`refused` functions that were split at a target that then was no function; `taught` are functions told their other
instruction set while under analysis, `worthless` candidates whose turn came while nothing spoke for them, `late`
the words only a second decode found to be loaded, `left` the pools of gap functions that were undone.

### Dalvik

Addresses are code units. `st` is the method being walked: its legal starts and payload ranges, fixed
before the walk by the sweeps `BeginMethod` makes, then its queue, instructions, references and jumps.
`phase` leads from the method table over the scan for orphans to the orphans. An instruction stream may
be offset against another one, payloads may read as code and name payloads of their own. `Expire` may
stop any of it.

### Facade

`phase` is where the current call stands; `disassembler`, `active`, `startTime`, `gc`, `names` and
`pdbInfo` outlive it, as the attributes of the instance do. `made` and `answers` record the calls and
what they returned. `names[p]` is the call whose input provider `p` knows: providers clear themselves
whenever they are run. `pdbInfo` is the call whose PDB the backend remembers. `Raise` may happen at any step; operational exceptions become an error report,
others reach the caller. `Tick` moves the clock at any moment.

### CandidateQueue and ScoredSet

The heap is a bag of items `<<score when pushed, address>>`. `next()` is a loop; each iteration is
one action (`Skip`, `Refresh`, `Take`, `Exhausted`), so the loop's progress can be stated. The
manager's operations are the guard-free calls of the code between two calls of `next()`.
`setIsSymbol()` and its like raise a score and tell nobody: the history variable `raised` records
whom, and the promise excuses exactly those.

`Engine` takes the best candidate by current score. `QueueKeepsPromise` justifies that for
candidates whose score did not rise unannounced.

### BatchProcessor

`phase` is where the generator of `_runPartitions()` stands; "suspended" means the consumer holds
it, which may then resume it or close it. `job` follows each file's future through the worker.
`reports` maps a stem to the set of files whose reports are in that file; the empty set is a file
opened and not written. A worker's death breaks its pool: unfinished futures fail and later
submissions raise. `Crash` stops everything between any two steps; `RunAgain` starts over with what
is on disk.

### GapScan

An action is one way an iteration of `nextGapCandidate()`'s loop ends: it skips (padding, a nop, data,
code, a declared range or landing pad, what it offered last) or offers. `Succeed` and `Fail` are
what `analyzeBuffer()` sees of the analysis, `Continue` is `getNextGap(dont_skip=True)` and the entry
of the next call. An analysis may claim any address that no function of the candidate order owns,
undo functions the scan found, and recognise tables; what an analysis really does is the matter of
`Engine`, whose `NextGap` steps assume of the scan what `OffersAscend` states. Where the code takes a
minimum, the model names the set of the least members, which has at most one.

`visited` (addresses the scan stood at or stepped over as filler or body), `offers` and `refuted`
are history.

### Algorithms

The pure parts run to their end without anything in between, so they are operators, one per function of
the code, and `Algorithms` has one action for each entry point: it takes the input `task` and sets
`answer`. What an algorithm promises is an invariant over the pair. The promise is stated in other
terms than the algorithm: dominance by removing nodes from the graph, tracked registers by running
the code, a bound by every execution that reaches the branch, a rebuilt file by loading it, an
exception table by the records it was encoded from, a string by the literals that were laid out, and
a discovery pass by what the image was put together from (functions, stubs, records, pointers).

Detail follows what those promises can tell apart. A byte of a file is the number of its place
(`Mapping`) or its value (`EhFrames`, `Discovery86`); an instruction is its operation and operands
(`IntelTables`, `ArmTables`, `Arm64Tables`, `Strings`); a hash is what it was computed of (`Reports`).
The clock is a number of polls an image's `patience` allows.

## 3. The runs

Sizes are distinct states with two workers.

| Run | Question | States |
| --- | --- | --- |
| `engine_analysis` | Do code, owners, edges and blocks stay consistent while functions absorb one another, collide, are cut and decoded again? Is what a discarded decode reverted restored, every queued candidate decided? Does the engine implement `CodeMap`? | 784 k |
| `engine_tailcalls` | Does the tailcall pass keep what completed, but for the two cases it is known to lose? | 203 k |
| `engine_budget` | Does a spent budget stop everything, and does the analysis end, with and without it? | 35 k |
| `arm` | Is every function decoded in the instruction set known best, once more and not for ever; do pools, entries and code stay apart? | 261 k |
| `dalvik` | Are tables no code, blocks what was walked, methods and orphans accounted for, and does the run end? | 26 k |
| `facade` | Does anything an earlier call left decide what a later one reports; does every call answer? | 164 k |
| `candidate_queue` | Is the lazy heap a scored set, and does `next()` return? | 535 k |
| `batch_runs` | One summary per file, own reports where stems differ, no more workers than asked for, finished reports untouched, every run ends? | 486 k |
| `gap_scan` | Does the scan end, offer nothing twice and hide no gap, whatever becomes of its candidates and wherever the image lies? | 363 k |
| `algorithms` | Does each pure algorithm keep its promise on every input of its families? | 310 k |
| `dead_worker`, `pdb_names` | one documented statement each, which the code does not keep: section 4 | small |

### What is checked together

A run's property is often a conjunction of promises that only make sense together; each promise is a
definition of its own with its own comment, at the end of the module the run is about.

| Property | Promises |
| --- | --- |
| `Consistent` | types; queue, references and highest instruction of every function state in step (`FramesOk`) |
| `FunctionsAreOwned` | `FunctionsOwnTheirCode`, `EntryIsABlock` |
| `UndoneIsMadeGood` | `OwnersAreFunctions`, `AbsorbedIsNotLost`, `RevertedGapsAreRestored` |
| `EdgesAreBranches` | `BranchEdgesKept`, `JumpRefsAreBranches` |
| `DataStaysApart` | `TablesAreNotCode`, `FunctionsEndBeforePadding` |
| `SplitsKeepCode` | `SplitFunctionsOwnTheirCode`, `CompletedIsCode` |
| `QueueOk` | types, `NoneHidden` |
| `PoolsStayWithinBounds` | types, `WithinWorkers` |
| `ScanIsOrderly`, `NotesAreConsumed` | types and `OffersAscend`; `RefutedPadsKeepTheGap` and `ExtentNeverCarriesOver` |
| `MethodsAreWalkedWhole` | types; targets, payloads, instructions and blocks of a method |
| `MethodsAreSettled` | `OrphansOwnTheirCode`, `MethodsAreAccountedFor`, `ShortRunsAreTimeouts` |
| `AnswersAreTheirOwn` | types; backend, refusal, timeout and names of a report |
| `NothingStaysBehind` | collector, buffer and strings after a call, however it ends |
| `ModesAreSettled` | types, `MetaTellsHowDecoded`, `UndoneIsDecodedAgain`, `UndoneOnce` |
| `PoolsAreApart`, `EntriesAreApart` | `LoadedIsNotCode` and `DataIsSomeones`; `OneOwnerPerByte` and `DeclaredEntriesStayApart` |
| `FilesAreMapped` | sizes, section addresses, code areas, search in them, unmapping, labels |
| `ReportsAreRight` | components, closure, dominators, nesting, block references, references both ways, what loading recomputes and keeps |
| `TablesAreResolved` | bounds, cases and byte tables on x86, ARM and AArch64 |
| `RegistersAreTracked` | tracked registers and constants, register calls, stubs, thunks, stack strings |
| `RebuiltFilesLoad` | code, strings, base, imports, entry and symbols of a rebuilt file |
| `StringsAreWhole` | pairs of pointer and length, literals, terminated strings, cached reads |
| `StartsAreFound` | starts from exception tables, records, calls, pointers and frames; budgets; the AArch64 gap scan |
| `PatternsAreStarts` | x86 prologues, stub chains, exception records, tables of methods, the limit on candidates |

### Images and why they are enough

The families of `MCEngine` hold *every* program that a palette of instructions makes on four to six
addresses. The number of addresses is what the situation needs: two candidates and the code
between them.

- `BranchImages`: seven shapes on four addresses with two candidates, the inner one first. Covers
  collisions, loops, fall-through into another function and both orders of ownership.
- `TableImages`: two dispatches whose tables lie between the code, on five addresses, three
  candidates. Covers running into a table before and after its dispatch is decoded.
- `AbsorbImages`: bodies behind a return, taken by functions that may turn out suspicious.
- `PaddingImages`: returns, nops, alignment runs, landing pads, calls.
- `SourceImages`: functions that only deferred and late sources name, resolved register calls,
  zeros.
- `WideImages`: two-byte instructions, so that bytes, owners and borders differ from instructions.
  Nothing leads into a second byte (section 4 says why).
- `GapImages`: a late function decodes, through a table, into what the gap scan took.
- `InnerCallImages`: functions that call into their own middle, absorbed by the one in front of them or undone for a
  late one, so that code is left behind.
- `TailcallImages`: jumps into functions and into bodies that were undone, and the wide
  images; the last address ends the code.
- `RefusedImages` (`MCSplits`): jumps into a function at code that, decoded for itself, runs into zeros and is refused.
- `RetakenImages` (`MCSplits`): gap functions that a late function takes over before others jump into them.
- `BudgetImages`: little code, every source in use; the budget may run out at every poll.

The order of candidates matters more than their number, so families name which candidate is
first. `PollBlocks = 1` polls at every block, which contains the behaviours of every larger
interval as far as the moment of the timeout goes. `TablesAreNotCode`, `AbsorbedIsNotLost` and the
refinement of `CodeMap` are statements about these families; of the refinement and of `UndoneIsMadeGood` the
exception for code that is left behind (`LeftBehind`) is part of the statement, and the families reach it.

The images of `arm`: `Modes` lets mapping symbols, unwind index, symbols, the entry point, kinds of calls, a pointer and
the look of the bytes contradict each other about a caller and a callee; `Flow` is every way a path of
one function may run or branch towards entries the image may declare; `Pools` puts the word one path
loads where another path runs; `Restored` has a gap function that a later one takes over and gives back. The others are there for the
exceptions: `Taught` has functions that call themselves in the other instruction set, `Unaligned` symbols at which
A32 code is decoded off its boundaries, `Late` a load only the second decode finds, of bytes it has decoded already,
and `Left` a gap function that reads a pool and is undone for another one. `taught`, `late` and `left` are
met by the run; `worthless` is never met by a function that was undone, since what can be undone and is off a word
boundary comes from a symbol, which scores: the exception is stated, and the proof needs it, but no image shows it.

The DEX files of `dalvik` have 26 units or less: payloads behind, ahead of, inside of and across the code
that names them, every branch target in a method, handlers anywhere, and method tables that name a code
item twice, not at all or at an implausible header; `Inward` has methods that call into their own middle.
`MaxPasses = 8` stands for the code's 256 (`_MAX_PAYLOAD_DISCOVERY_PASSES`), which no file of a run
reaches: `MCDalvik` assumes `PassesSuffice`, and section 5 says when that holds. `MaxAttempts = 4` and
`MaxCandidates = 2` are reached.

Two calls (`MaxCalls`) are what a survivor needs to be left and met. `facade` has eight images, of which
some parse, some are foreign, managed or claim another machine than their code is of, every entry point,
six settings and a budget of one tick against a clock of two (`MaxTime`).

The queue needs no module of images: `CandidateQueue.cfg` gives it three addresses, so that one can be hidden by a second while a third answers;
scores 0 to 2, so that one can fall or rise past another and be zero; `MaxItems = 4` leaves room for
a stale item besides one item each.

The corpus of `batch_runs` has four files, three of one name, of which two have the same report stem
(`a/b/x`, `a_b/x`); three are large, so the
large pool fills its limit of two and keeps one waiting, while the small pool has its own. One
worker may die (`MaxDeaths`) and there are two runs (`MaxRuns`), the second a resumed one, also
after a crash.

The images of `gap_scan` have eight bytes and four to a boundary (`Alignment`), so a run of padding
may end on a boundary, off it, or with the image, and two gaps and a function fit between them.
The address mask lies below the image, inside it, at its last byte and above it; code is absent, in
the middle, in two places or at the end. `Window = 5` ends inside most images. An analysis claims up
to three addresses (`MaxBody`), enough to reach over a gap to the code behind it.

The inputs of `algorithms` are some forty families, each a comprehension over the ways its pieces can
vary: all graphs of up to four nodes; sections and segments that are cut, empty, overlap and lie below
the base; every window of the instructions a tracker knows and one it does not; switches in each form a
compiler gives them, with bounds off by one, bounds that exclude what they compare with, and signs extended by
the load or by the add; loads of either width; reports whose functions overrun, precede or miss their
sections; records that are cut, chained, unsorted or lead nowhere; byte streams in which prologues,
stubs and calls touch and overlap. The constants are the code's limits made small, so that each is met
on both sides: a page has four bytes, an aligned start four, a record table four records, an image may
hold one candidate, a clock one poll.

### Fairness

- `Engine`: `WF_vars(Next)`. One thread runs the passes and never waits for anything.
- `Dalvik`: `WF_vars(Work)`. One loop over methods; `Expire`, the timeout, is not obliged to come, so
  `RunEnds` does not lean on it.
- `Facade`: `WF_vars(Work)`: a call that has begun goes on, since the analysis it waits for ends
  (`engine_budget`, `dalvik`). Nobody is obliged to call, the clock to move or a step to raise.
- `CandidateQueue`: `WF_vars(Pop)`. `next()` is a loop; nothing else runs while it does. Nobody is
  obliged to call it.
- `BatchProcessor`: `WF_vars(Parent)`, since the parent is a loop whose `wait()` returns once a
  future is done, and its consumer asks on; `WF_vars(Work(f))`, since a submitted task is started
  and ends: an analysis has a budget (`engine_budget`), and a write returns or raises. No fairness
  for deaths, crashes, abandoning or running again.
- `GapScan`: `WF_vars(Work)`: one loop, and the analyses it asks for end (`engine_budget`). Work
  leaves out `Timeout`, so `ScanEnds` does not lean on the budget.
- `Arm` and `Algorithms` state safety only.

## 4. What the runs found

Two runs show a disagreement with a statement of the repository:

| Run | What the code does | What is documented |
| --- | --- | --- |
| `dead_worker` | After a worker's death the next `submit()` raises outside the `try`; the files left are never reported. | tests/testBatchProcessor.py:189, and the comment at BatchProcessor.py:212-213 |
| `pdb_names` | A PDB given before the analysis is applied by running every provider over it, and each clears its map first, so the binary's own names are gone (RecursiveDisassembler.py:99-108). | smda/common/BinaryInfo.py:37-39: names are merged from "all active label providers" |

The test for dead workers drives the loop with a scripted executor whose futures fail but whose
`submit()` never does, so it cannot meet the case.

Eleven more statements of the repository are not kept by the code. Each stands as a definition beside the
property of a run that excepts it; the run's inputs contain the case, and with the definition as the only invariant of
the run's `.cfg` TLC prints a trace of it:

| Definition | Run | What the code does | What is documented |
| --- | --- | --- | --- |
| `UndoneOwnNothing` | `engine_analysis` | a function that calls into its own middle has code in no block; undoing goes by blocks and leaves its bytes with an owner that is gone (RecursiveDisassembler.py:253) | RecursiveDisassembler.py:251-252, FunctionAnalysisState.py:263 |
| `SplitBecomesPart` | `engine_tailcalls` | a function split at a target that is refused is not analysed again, nor part of another one (TailcallAnalyzer.py:128) | the message at TailcallAnalyzer.py:139 |
| `ReportsAreNotOverwritten` | `batch_runs` | `a/b/x` and `a_b/x` have one stem: one report overwrites the other, or is taken for it on resume (BatchProcessor.py:77) | BatchProcessor.py:75, README.md:139-140 |
| `PdbsAreOfTheirCall` | `facade` | `_pdb_info` is never reset, so the next input of the same backend is named after it (RecursiveDisassembler.py:104) | README.md:75, PdbSymbolProvider.py:89 |
| `ConstantsAreHeld` | `algorithms` | `ldr wN` through a slot is tracked as eight bytes (aarch64/dataflow.py:150) | aarch64/dataflow.py:54-55 |
| `SignsOfAddsCount` | `algorithms` | an unsigned load in front of an add that extends the sign resets it (aarch64/analyzers.py:663) | aarch64/analyzers.py:634-636 |
| `AddressesRunStraight` | `algorithms` | pages survive `blr`, authenticated returns and traps (aarch64/FunctionCandidateManager.py:824) | aarch64/FunctionCandidateManager.py:726-728 |
| `MetaIsHowDecoded` | `arm` | on a retry the outer wrapper writes the older mode over the newer one (ArmDisassembler.py:51) | ArmDisassembler.py:18-20 |
| `StrongestIsDecoded` | `arm` | a statement about a function under analysis changes its candidate only (arm/FunctionCandidateManager.py:418) | arm/FunctionCandidateManager.py:423-424 |
| `PoolsAreTakenBack` | `arm` | a gap function undone for another one leaves its pool marked as data (RecursiveDisassembler.py:238) | ArmDisassembler.py:59 |
| `LoadedIsNeverCode` | `arm` | the second decode may find a load of bytes it has decoded; there is no third (RecursiveDisassembler.py:496) | RecursiveDisassembler.py:389-390 |

What follows was met while modelling as well. The models have it; where a property
would not hold of it, the property says so in its statement.

*The engine.* Code is left behind also where a conditional branch is another function's while its fall-through was
queued (`LeftBehind` has both cases). A reverted gap function stays with the
tailcall analyzer, which reverts it again and takes the addresses from their new owner (`retaken`);
RecursiveDisassembler.py:274-276 names and avoids this for absorbed functions. An instruction is booked
when its *first* byte is free (RecursiveDisassembler.py:432); where instructions overlap, the later booking
takes bytes of another function's instruction, so `FunctionsOwnTheirCode` is a statement about code
in which nothing leads into the middle of an instruction. Block reconstruction follows address order:
an instruction may be in no block, and a block that ends at a table runs on into the block behind it,
so that an instruction is in two (FunctionAnalysisState.py:310).

*The gap scan.* "Previously analysed" starts as address 0, so a scan that begins there skips it before
anything was offered (intel/FunctionCandidateManager.py:309-310). With code areas the tail gap starts at
an address that is code, where no later gap is found (common/FunctionCandidateManager.py:244, documented
as kept). On AArch64 the rest of a gap is abandoned after a candidate that failed in it.

*Batch mode.* A report that was being written when the machine stopped is
taken for finished on resume, as README.md:134 documents (BatchProcessor.py:120). A report that cannot be
written leaves a summary with status "ok" and an error.

*The facade.* A backend name nobody knows, as in `Disassembler(backend="x86")`, pins the backend of the
first input for all later ones; `ReportsNameTheirInput` excepts that.

*ARM.* A conditional branch before a declared start queues that start as a block of its own
(ArmBackend.py:413, 607). A candidate with score zero is popped and never queued
again. A pool may lie on code of a function decoded earlier, so `LoadedIsNotCode` speaks of a function's own loads
only. Gap functions an aborted analysis had undone are
not restored.

*Dalvik.* Several methods may share a `code_offset`, and `ins2fn` then names the last; a payload range
found while reading out of a payload stays; a method that decodes no instruction counts as analysed. Where
a method calls into its own middle, the reference splits a block there without making the callee a block start,
so what runs on from it is in no block (DalvikFunctionAnalysisState.py, `getBlocks`); `InstructionsAreInBlocks`
excepts exactly those instructions, up to the next block start.

*Jump tables.* The x86 bound search keeps a register tied past writers without operands and compares of
its lower part (JumpTableAnalyzer.py:376-381), and takes the last instruction's addend for the table's base
even where it changed the index (260-264; `BoundsHold` excludes that). On ARM a compare that guards nothing
still gives a bound. On AArch64 the bound of an exclusive branch is one too
high (aarch64/analyzers.py:717; `SwitchesOfArm64AreResolved` excepts that entry), a null check between load and `blr` drops the import's
slot, and a store of an unknown value leaves the bytes of a stack string as they were.

*Discovery.* On x86 the bytes marked as data behind a `.plt.sec` stub begin four bytes too early, inside of it
(intel/FunctionCandidateManager.py:913-915); a body behind a landing pad may be seeded besides its
entry; `push rbp; push r15; push r14` within eight bytes behind a short declared function is missed. On AArch64 the
look back through `.eh_frame` extents ends where an extent and the one in front of it are both over
(the comment at common/FunctionCandidateManager.py:627-632 warns of this in its sibling).

*Loaders.* Copying the header of an ELF or Mach-O overwrites code where the image is linked below its
file offsets. PE code areas are rounded to a page and may reach beyond the image. The containing block of
an address is found in two ways that disagree where blocks overlap (`BothWaysAgree` is about those that
do not).

*Reports.* Loading an old report keeps its strongly connected components, loses section names and turns
absent headers and metadata into empty ones; where neither a backend nor bounds are known, the hash
cannot be recomputed and loading raises (`Reports` has this as `Crashed`).

*Strings and exception tables.* Strings of two bytes per character are not extracted. A number next to a
pointer that reaches exactly another reference cuts a terminated string, as does a literal directly in front of
another that nothing refers to. A table that ends behind its section returns before its read is
charged, though the comment says it is (EhFrameDecoder.py:270-283).

*Synthesis.* The section made up for functions that lie in none is rounded to a page and may overlap
others; the run that import slots outside of all data are moved to may take the place of another slot, though
the docstring says that the import table stays intact (PeSynthesizer.py:297-302); slots behind a section's file part are neither written nor moved; a saved header's image base
wins over the report's; a Mach-O header whose sections moved by less than a page breaks the file. The
properties of `Algorithms` name these conditions before they promise anything.

## 5. The proofs

All proofs are checked by TLAPS to the last leaf, for every value of the constants.

**`FunctionState_proofs`** shows, one lemma per method, that a consistent analysis state stays
consistent (`StateOk`: the queue lists each block once and holds what the set holds, jump targets
are exactly the targets of the jump references, the highest start is the maximum of the
instructions).

**`Engine_proofs`** proves `Invariance`, `Spec => []IInv`, from `EngineAssumption` alone: every
address an image names is a number, and kinds with a target have one. `TypeOK` and `FramesOk` are
not inductive: a step may pop a frame and continue the one below, book an instruction the frame
classified before, or analyse again an address some list remembered. `IInv` therefore says of
*every* frame that its state is consistent, that its instructions decode in the image, that an
instruction waiting to be booked decodes, and that a frame waiting for a restored gap function has
that function at the head of its list; of every component of `dis`, `fcm` and `tca` that it has the
fields and the address types the actions rely on; and that the gap candidate exists while the gap
passes judge it. One lemma per group of actions (`DecodeSteps`, `AnalyzeSteps`, `BookSteps`,
`ConcludeSteps`, `DiscoverSteps`, `TailcallSteps`) shows that each keeps it. From it follow:

- `TypeCorrect`: `Spec => []TypeOK`;
- `FramesConsistent`: `Spec => []FramesOk`, and with it `EngineConsistent`;
- `BudgetRespected`: `Spec => StopsAfterTimeout`.

Four more results rest on invariants of their own beside `IInv`:

- `CandidatesDecided`: `Spec => []CandidatesAreDecided`. `QueueSettled` carries the last drain's verdict through
  the passes behind it: none of them starts an analysis that could fill the queue.
- `PadsStay`: `LandingPadsStay`. `ResultChanges` narrows what may remove a function to three actions, and each is
  shown to spare a pad.
- `EdgesKept`: `Spec => []EdgesAreBranches`. `CallEdges` describes every frame: what is booked has its
  taken edge among the frame's references, and the latch that marks a jump is set only while a branch waits to be
  booked. `ResultEdges` is what storing makes of it.
- `CodeIsOwned`: `Spec => [](NoOverlap => FunctionsAreOwned)`. Only the innermost call may be booking, and what it
  has booked is of no stored function (`CallsApart`); storing it, undoing others and nested calls keep the bytes of
  those apart.

The last three assume `~RESOLVE_TAILCALLS`, which is the default (SmdaConfig.py:297): the tailcall pass reverts
states that others have since overtaken (section 4), so with it the statements hold of the checked families only.
`NoOverlap` says that of the instructions the chosen image holds none begins inside another; all families of the run
but `WideImages` are such. Where instructions overlap the code does not promise ownership (section 4).

**`Facade_proofs`** proves `FacadeInvariant`, `Spec => []FInv`, from `FacadeAssumption`: the images, calls
and settings have their fields, there is at least one call, the clock is bounded. What an answer
promises cannot be shown when it is given: it depends on choices made calls ago. `FInv` describes each
survivor: `BackendKept` and `BackendChosen` (the kept backend is the configured one, or the active
architecture's, and once loading is over it is that of the input), `TimerStarted` (the timer that polls read is the one this
call started, and `TypeOK` needs that it is not ahead of the clock), `CollectorKept`, `PdbKnown` (the PDB a
backend remembers is the last it was given, and whatever finished since was its own, without another PDB),
`NamesFollow` (providers know the current input, that PDB or nothing); `Drafted` says what a report
under way already has and `Answered` keeps what was promised of all earlier calls. One lemma per
action shows that each is kept. From it follow the type invariant and both invariants the run checks
(`CallsGetTheirOwnAnswers`, `CallsLeaveNothing`), promise by promise, and the action property
`PinnedBackendStays`. `NamesAreOwn` (`NamesAreOfTheirInput`) covers
instances that remember a PDB: names in a report that are not the call's own are those of a PDB, which was given to
the same backend, by the last call that gave one, with no other backend in between (`StillKnown`).

**`CandidateQueue_proofs`** proves, from `QueueAssumption` (addresses and scores are numbers):

- `QueueInvariant`: `TypeOK` and `NoneHidden` together are inductive;
- `QueueHidesNothing`: `Spec => []NoneHidden`, `QueueTypeCorrect`: `Spec => []TypeOK`, together
  `QueueStaysOk`;
- `QueueKeepsPromise`: `Spec => Promised`, the refinement of `ScoredSet`. The step that matters is
  `FirstIsBest`: an item that comes first and carries its candidate's score beats every resident
  that did not rise unannounced, because each of those has an item at least as high.

**`BatchProcessor_proofs`** proves `BatchInvariant`, `Spec => []BInv`, from `BatchAssumption` (the
corpus is a list of paths, the worker counts and the capacity are numbers), for every corpus, number
of workers, memory answer and crash budget. `TypeOK` alone does not keep two pools apart, so `BInv`
adds `Apart` (a task belongs to one pool, and is pending there or in flight, never both),
`Limited` (no pool analyses more files than its own `max_workers`) and `ToldOnce` (a file pending
or in flight has not been told, one told was told once, and unless the consumer closed the run
every task is one or the other). The arithmetic of the worker split (`ClampTwo`, `ClampThree`, `LargeBounded`, `SmallBounded`)
is isolated in `WorkersShared`: whatever the memory budget answers, two pools that both have files
divide no more workers than were asked for, and a pool alone has no more either. From the invariant follow:

- `BatchTypeCorrect`: `Spec => []TypeOK`;
- `BatchWithinWorkers`: `Spec => []WithinWorkers`, and with types `BatchStaysWithinBounds`;
- `BatchTellsOnce`: `Spec => []OneSummaryEach`;
- `BatchReportsAreOwn`: `Spec => []ReportsAreOwn`, from `WrittenOnce` (a report being written is empty until all of
  it is there, and a job that is done has it), for the files whose stem no other has (`Unshared`);
- `BatchKeepsFinishedReports`: `Spec => FinishedReportsStay` where the runs resume, or there is one. Without it the
  code overwrites by design.

**`GapScan_proofs`** proves `GapScanInvariant`, `Spec => []GInv`, from `GapScanAssumption` (addresses
of an image are numbers, its code lies inside it): for every image, mask, alignment, window and
everything an analysis may claim. `OffersAscend` is not inductive: that the pointer is past what was
offered, or at it while it is judged, has to be carried along (`OffersAreBehind`), as have that a
candidate was no code when offered (`CandidateIsFree`, so that its failure consumes its extent), that
only the address just offered is retained, and where the scan stands after a pad was refuted
(`PadsResumed`). `AdvanceStep` proves once that any move ahead which passes no gap unseen keeps all of
this; the skipping actions are instances. `LeastAhead` is where the competing answers of
`getNextGap()` meet: each is ahead, and the least is behind no gap. From the invariant follow
`ScanAscends`, `ScanOpensGaps`, `ScanKeepsRefutedPads`, `ScanDropsExtents` and `ScanTypeCorrect`, and from
these `ScanStaysOrderly` and `ScanConsumesItsNotes`.

**`Dalvik_proofs`** proves, from `DalvikAssumption` (what is read of a file is well formed: an instruction has a
size, a header lies in the file, tables are lists of numbers):

- `RunHolds`: `Spec => []RunInv`;
- `MethodsSettle`: `Spec => []MethodsAreSettled`, with no further hypothesis;
- `MethodsWalkWhole`: `Spec => []MethodsAreWalkedWhole`, where `PassesSuffice`;
- `FewTablesSuffice`: `FewTables => PassesSuffice`.

Sweeps, passes, the queue of targets and the scan for orphans are loops, which the module states as recursive
functions over the rounds. That they are what their equations say (`LoopExists`) and what they compute
(`SweepFinds`, `LegalIsSound`, `Queued`, `OrphansAreApart`) is shown by induction over the rounds; the induction
itself is derived from the well-foundedness of the numbers (`Induction`, `InductionUpTo`), since the library's
rules over a predicate cannot be instantiated here. `Sound` is what the passes leave: legal starts decode, do not
overlap, follow one another without a hole that is neither table nor undecodable, and lie in no table once a pass
found nothing new. `Orderly` is the walk against it: every instruction walked is a legal start, where one leads is
queued, processed, visited or stands next, and everything walked was led to. `RunInv` adds who owns the units of
code, that every orphan is a code item apart from what is known, and how each method taken was told. When the queue
is empty, `Orderly` becomes closure: all targets are walked (`TargetsAreWalked`), blocks run on (`BlocksRunOn`), and
the smallest instruction in no block leads to a contradiction (`NothingIsLost`).

`PassesSuffice` says that the sweep stopped by itself and not at the limit of passes; a payload found in the very last
pass may lie on legal starts. Each pass that asks for another one has found a new table, so it holds of every file in
which no code item has as many switch and array instructions as there are passes (`FewTablesSuffice`).

**`Arm_proofs`** proves, for every image (its fields are well formed: `ImageOk`, which is also what the run's
images are checked against):

- `TypesHold`: `Spec => []TypeOK`, with no condition;
- `OwnershipHolds`: `[]OneOwnerPerByte`, where `NothingStraddles`;
- `ModesSettleHolds`: `HistorySpec /\ []NothingStraddles => []ModesAreSettled`;
- `PoolsApartHolds`: `HistorySpec /\ []NothingStraddles => []PoolsAreApart`;
- `EntriesApartHolds`: `[]EntriesAreApart`, where `NothingStraddles`, `EntriesAreNotAbsorbed` and
  `BranchesAreBooked`.

The conditions are state predicates at the end of `Arm`, each with what it excludes, and the theorems assume them
of every state of the behaviour. They speak of a step about to be taken, never of the result a property is about.
TLC finds each of them an invariant of all images of the run (261,281 states: put the condition under `INVARIANTS`
in `MCArm.cfg`), so the theorems cover all of these. `NothingStraddles` is a condition of the code: where
instructions overlap, bytes are left with an owner that does not hold them. For the other two no image tried, some
thousand beside those of the run, breaks the condition or the property. Functions that call themselves in the other
instruction set, retries, pools found late and pools left behind are *not* excluded by a condition: the properties
say what holds of them.

`Base` is inductive without conditions: manager, results, calls in progress and items left to read keep their shape,
and nothing is analysed before everything is read. Frame by frame it also says that only the innermost call decodes,
and that no conflict waits while nothing is decoded. The steps are grouped by what they change (discovery; no
analysis; the innermost frame; what a stored or dropped frame does to the results), so that each further invariant is
shown once per group:

- `Owned`: what is decoded at the moment is in no stored function, and the code map is what the functions hold;
- `Remembered`: the history variables hold what the current state shows of their cases, and keep it; `Remembers` is
  the step that makes it so, and `HistoryIsSpec` lets every theorem about `Arm` be used under `HistorySpec`;
- `Modes`: a candidate is in the set stated best of it or is in conflict, the metadata is that of the decode stored
  last, but of functions that were taught, and what once was a function and is none is finished, queued, being decoded
  or worthless. That no function is undone twice follows from the weights: undoing takes a statement at least as
  strong as decoding, after which only the image's own statements weigh more, and those are read before anything is
  analysed;
- `PoolsBooked`: what a stored function loads is in its pool, and in its bytes only if it was found late; the data
  map holds what functions that stand have booked, and beside it only what was left. It rests on `FrameLoads`: what a walk has
  booked loads nothing it does not know as data, and in a second decode it keeps off what the first one read. The
  pools of functions undone together go except where another function's pool has them;
- `EntriesKnown`: what a frame holds or still means to visit is no declared entry but its own, or one that a
  conditional branch of its own lies right before.

### What is only model-checked

Out of the prover's reach:

- liveness (`Terminates`, `NextAnswers`, `RunsEnd`, `ScanEnds`, `RunEnds`, `CallsAreAnswered`);
- `RECURSIVE` operators (`FunctionGraph`), with which the prover loses its main backend.

Not true of every image, so a matter of families (section 4 has the reasons):

- the refinement of `CodeMap`, and `OwnersAreFunctions`: undoing goes by blocks, which need not hold every
  instruction booked, and `LeftBehind` names the code of which that is known;
- `AbsorbedIsNotLost`, `RevertedGapsAreRestored`, `TablesAreNotCode`, `FunctionsEndBeforePadding`, `SplitsKeepCode`;
- `FunctionsAreOwned`, `EdgesAreBranches` and `LandingPadsStay` with the tailcall pass.

That leaves three invariants of `Engine`'s runs without a theorem (`UndoneIsMadeGood`, `DataStaysApart`,
`SplitsKeepCode`, all in the list above) and the eight of `Algorithms`: each is a promise about what one algorithm
computes on one input, by loops and recursion over that input. They are checked over families of inputs instead.

## 6. What is abstracted and what is not modelled

Abstracted inside the modelled components:

- In `Engine`, bytes and operands: an image says what decodes where. The set of kinds is what the handlers
  tell apart. Traps and exiting system calls end a function as a return does. Import slots are not told
  from other targets. The discovery scans are inputs (`candidates`, `callRefs`, `score`, `evidence`); the caps on
  candidates, call references and indirect calls, the alignment floor, language and code-area
  filters are left out, and call references score evenly. `HIGH_ACCURACY` is assumed on, as it is by
  default. The reach limit of the body-behind-return walk is left out: images are smaller than it. The leaf,
  recursion and thunk flags and the data references other than tables, which no control
  flow reads; the optional split of functions at exception-table ends; timeouts that trip inside a candidate
  source while it enumerates.
- In `Engine` the gap scan may stop at any address ahead that is neither code nor data; `GapScan` has
  the arithmetic that chooses, and in turn leaves the analysis of a candidate open. What an undone
  function's second analysis restores is `Engine`'s matter.
- In `GapScan`: hotpatch prologues (they count as code), the early return for languages whose
  candidates are complete, and padding wider than two bytes. Declared ranges do not overlap.
- In `Arm`: Go images, hoisted entries, import stubs and veneers, `.pdata` ranges, register branches and
  jump tables (`ArmTables` has how they are found), the timeout. What a scan recognises as a call or a prologue is
  part of the image, and entries hoisted above a prologue are not looked for.
- In `Dalvik`: opcodes are a kind, a size and whether they may throw; references to strings, fields and
  methods, metadata and the diagnosis of malformed files.
- In `Facade`: an analysis is a time and an outcome; statistics, hashes and versions of a report.
- In `Mapping` and `Synthesis`: headers and tables of a file are one cell per entry; what LIEF parses is given.
- In `IntelTables`, `ArmTables`, `Arm64Tables`: the text of operands; registers keep their width, values do
  not wrap unless a load or an extension narrows them.
- In `Discovery64`, `GapScan64`, `Discovery86`: address masks, negative offsets of tables, and the clock, which
  is asked once per walk where the code asks once per chunk, and not inside a walk for the next gap.
- In `Reports`: a hash is a record of what it was computed from.
- In batch mode: how the memory budget is probed (`Capacity` is its result), walking directories
  (`Corpus` is its result), recycling workers, statuses other than "error" (they count as "ok"), and
  the death of a worker that is idle.

Not modelled: the CIL disassembler (bodies are given by a library and decoded in order); `BracketQueue`; the
control-flow rule of each AArch64 instruction; the Go and `.pdata` scans of ARM; the parsers of symbol
formats and the demanglers; the escapers; the probes of bitness, language and instruction set, which are
statistics over fixed tables; the adapters of IDA and Binary Ninja; the command line, profiling, fuzzing
and the repository's own scripts. None of these keeps state that another part reads, except through what the
models take as input.

## 7. Plan

Done: the engine, its backends in the parts above, the facade, the queue, batch mode, the gap scans, discovery,
tables, synthesis, strings, exception tables and graphs; eight modules of theorems.

Next, in this order:

1. Declared ranges and the split at exception-table ends, in `Engine`.
2. `BracketQueue`, as a second implementation of `ScoredSet`.
3. The AArch64 instruction rules, as a variant of `Engine`'s.
4. `.pdata` and the hoisted entries of ARM, as `Discovery64` has them for AArch64.

Theorems next:

1. `Arm`: which images satisfy `NothingStraddles` and the conditions of `EntriesApartHolds`, stated on the image alone.
2. `Engine`: `FunctionsEndBeforePadding` of images in which no block begins behind padding.
3. `Mapping` and `Strings`: search in code areas and terminated strings, by the induction `Dalvik_proofs` uses.
4. `Engine` and `GapScan` composed: the offers of the one as the gap candidates of the other.
