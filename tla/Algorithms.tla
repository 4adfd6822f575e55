------------------------------ MODULE Algorithms ------------------------------
(***************************************************************************)
(* The pure parts of the program, each called with one input and held      *)
(* against what it promises.                                               *)
(***************************************************************************)
EXTENDS Mapping, FunctionGraph, Reports, IntelTables, Synthesis

Arm32 == INSTANCE ArmTables
Arm64 == INSTANCE Arm64Tables
Pe    == INSTANCE SynthesisPe
Macho == INSTANCE SynthesisMacho

CONSTANTS
    Word,           \* the bytes of a pointer that strings are found by
    MaxSized,       \* the longest string of a given length
    MaxDerefs,      \* how deep pointers to strings are followed
    CacheEntries,   \* how many reads of strings are remembered
    PtrSize, MaxRecords, MaxLsdaBytes, MaxHdrEntries,   \* of exception tables
    CandidateAlignment, HoistWindow, PollInterval, MinCallTargets,   \* of the AArch64 discovery
    MinEntries, SeedEntries, SampleStride, GapRunLimit,
    StartWindow, MaxFunctionSize, MinRun, KnownShare, AlignmentSample,   \* of the x86 discovery
    Tasks           \* a sequence of sets of [kind, ...]: the inputs, tagged by what they are for

ASSUME StringsAssumption ==
    Word \in Nat \ {0} /\ MaxSized \in Nat /\ MaxDerefs \in Nat /\ CacheEntries \in Nat \ {0}

ASSUME EhFramesAssumption ==
    PtrSize \in {4, 8} /\ MaxRecords \in Nat /\ MaxLsdaBytes \in Nat /\ MaxHdrEntries \in Nat

(* A sample has to land in the shortest table that counts.                  *)
ASSUME DiscoveryAssumption ==
    /\ {CandidateAlignment, HoistWindow, PollInterval, SampleStride} \subseteq Nat \ {0}
    /\ {MinCallTargets, MinEntries, SeedEntries, GapRunLimit} \subseteq Nat
    /\ SampleStride <= (MinEntries - SeedEntries) * 8
    /\ {StartWindow, MaxFunctionSize, MinRun, AlignmentSample} \subseteq Nat /\ KnownShare \in 0..100

Str == INSTANCE Strings
Eh  == INSTANCE EhFrames
D64 == INSTANCE GapScan64
D86 == INSTANCE Discovery86

VARIABLES
    task,      \* the input
    answered,  \* whether the algorithm has run
    answer     \* what it said

vars == <<task, answered, answer>>

Init == (\E i \in DOMAIN Tasks : task \in Tasks[i]) /\ answered = FALSE /\ answer = <<>>

Answer(value) ==
    /\ ~answered
    /\ answered' = TRUE /\ answer' = value
    /\ UNCHANGED task

Map    == task.kind = "map"   /\ Answer(MapBinary(task.image))
Find   == task.kind = "area"  /\ Answer(IsInCodeAreas(task.areas, task.base, task.size, task.address))
Unmap  == task.kind = "unmap" /\ Answer(UnmapImage(task.image, task.memory, task.table))
Adjust == task.kind = "label" /\ Answer(AddressAdjustment(task.image, BaseAddress(task.image)))

Components == task.kind = "components" /\ Answer(CalculateScc(task.graph))
Close      == task.kind = "closure" /\ Answer(Closure(task.graph))
Dominate   == task.kind = "dominators" /\ Answer(Dominators(task.graph, task.root))
Nest       == task.kind = "nesting" /\ Answer(NestingDepth(task.graph, task.root))
Report     == task.kind = "function" /\ Answer(FreshBlockRefs(task.function))
Locate     == task.kind = "block" /\ Answer(FindBlock(task.function, task.address))

Refer      == task.kind = "references" /\ Answer(References(task.history))
LoadReport == task.kind = "report" /\ Answer(FromDict(task.saved))

Bound  == task.kind = "bound" /\ Answer(FindJumpTableSize(task.window, IndexKeys(task.jump.dst)))
Switch == task.kind = "switch" /\ Answer(GetJumpTargets(task.image, task.jump, task.window))
Extent == task.kind = "extent" /\ Answer(IndexTableExtent(task.image, task.address, task.bound, task.entries))

ArmTrack  == task.kind = "armTrack" /\ Answer(Arm32!Tracked(task.image, task.window, task.thumb))
ArmBound  == task.kind = "armBound" /\ Answer(Arm32!Bound(task.window, "r1", task.condition))
ArmSwitch == task.kind = "armSwitch" /\ Answer(Arm32!GetJumpTargets(task.image, task.jump, task.window, task.thumb))
ArmCases  == task.kind = "armCases" /\ Answer(Arm32!GetCaseTargets(task.image, task.jump, task.instructions, task.helper))
ArmStub   == task.kind = "armStub" /\ Answer(Arm32!DecodeStub(task.image, task.list, task.thumb))

Track64  == task.kind = "track64" /\ Answer(Arm64!PropagateConstants(task.image, task.window))
Calls64  == task.kind = "calls64" /\ Answer(Arm64!ResolveRegisterCalls(task.image, task.fn, task.calls, task.limit))
Switch64 == task.kind = "switch64" /\ Answer(Arm64!GetJumpTargets(task.image, task.fn, task.jump))
Strings64 == task.kind = "strings64" /\ Answer(Arm64!RecoverStackStrings(task.image, task.window))
Thunk64  == task.kind = "thunk64" /\ Answer(Arm64!WalkGotThunk(task.window))

Length  == task.kind = "length"  /\ Answer(Str!ImmediateLength(task.list, task.index, task.registers))
Extract == task.kind = "strings" /\ Answer(Str!ExtractStrings(task.report))
Reads   == task.kind = "reads"   /\ Answer(Str!ReadAll(task.report, task.reads).results)

Fdes   == task.kind = "fdes" /\ Answer(Eh!DecodeEhFrameFdeRanges(task.data, task.va))
Pads   == task.kind = "pads" /\ Answer(Eh!DecodeEhFrameLandingPads(task.data, task.va, task.memory,
                                                                   task.tableBytes, task.failedBytes))
Header == task.kind = "hdr"  /\ Answer(Eh!DecodeEhFrameHdrStarts(task.image))

Interior == task.kind = "interior" /\ Answer(
    [extent |-> D64!DeclaredExceptionRangeContaining(task.image.extents, task.address),
     fde    |-> D64!DeclaredFdeRangeContaining(task.image.fdes, task.address),
     owner  |-> D64!DeclaredInteriorOwner(task.image, task.borders, task.address)])
Deferred == task.kind = "deferred" /\ Answer(D64!LocateDeferredCandidates(task.image, task.manager))
Candidates == task.kind = "discover" /\ Answer(D64!LocateCandidates(task.image))
Records  == task.kind = "table" /\ Answer(D64!LocateRecordTable(task.raw))
Sweep    == task.kind = "sweep" /\ Answer(D64!NextGapCandidate(task.image, task.known, task.previous, task.pointer))

Candidates86 == task.kind = "discover86" /\ Answer(D86!LocateCandidates(task.image))
Records86    == task.kind = "table86" /\ Answer(D86!LocateRecordTable(task.image))
Methods86    == task.kind = "methods86" /\ Answer(D86!LocatePointerTableCandidates(task.image, task.manager))

(* A report rebuilt to a file, and what its loader then puts in memory. *)
Rebuilt(report) ==
    LET fns == Resolve(report)
    IN  CASE fns = <<>> \/ TooFarApart(fns) -> {}
          [] report.format = "elf"   -> SynthesizeElf(report, fns)
          [] report.format = "pe"    -> Pe!SynthesizePe(report, fns)
          [] report.format = "macho" -> Macho!SynthesizeMacho(report, fns)

ReadBack(content, memory) ==
    IF memory = TooLarge THEN NoData
    ELSE [i \in DOMAIN memory |-> IF memory[i] = Zero THEN Zero ELSE content[memory[i] + 1]]
LoadedFrom(file) == ReadBack(file.content, MapBinary(file.image))

Synthesize ==
    /\ task.kind = "synthesis"
    /\ Answer({[file |-> file, memory |-> LoadedFrom(file)] : file \in Rebuilt(task.report)})

Next ==
    \/ Map \/ Find \/ Unmap \/ Adjust
    \/ Components \/ Close \/ Dominate \/ Nest \/ Report \/ Locate
    \/ Refer \/ LoadReport
    \/ Bound \/ Switch \/ Extent
    \/ ArmTrack \/ ArmBound \/ ArmSwitch \/ ArmCases \/ ArmStub
    \/ Track64 \/ Calls64 \/ Switch64 \/ Strings64 \/ Thunk64
    \/ Length \/ Extract \/ Reads
    \/ Fdes \/ Pads \/ Header
    \/ Interior \/ Deferred \/ Candidates \/ Records \/ Sweep
    \/ Candidates86 \/ Records86 \/ Methods86
    \/ Synthesize

Spec == Init /\ [][Next]_vars

Answered(kind) == answered /\ task.kind = kind

-----------------------------------------------------------------------------
(* Filling a mapping never changes its size, whatever offsets, sizes and    *)
(* truncations the file has: addresses behind a part keep their place.      *)
MappingsKeepTheirSize ==
    Answered("map") /\ answer \notin {NoData, TooLarge} =>
        Len(answer) = IF task.image.format = "pe" THEN PeSize(task.image)
                      ELSE Align(MaxVirtualAddress(task.image) - BaseAddress(task.image), Page)

(* Every byte of a section is mapped at its address: neither the header,    *)
(* nor segments, nor other sections get in its way.                         *)
SectionsAreAtTheirAddress ==
    Answered("map") /\ answer \notin {NoData, TooLarge} =>
        LET image == task.image
            base  == IF image.format = "pe" THEN 0 ELSE BaseAddress(image)
            pe    == image.format = "pe"
        IN  \A s \in ToSet(image.sections) : s.va >= base /\ (pe \/ s.va # 0) =>
                \A address \in s.va..(s.va + Least(s.raw, s.size) - 1) :
                    (/\ Agreed(image, address)
                     /\ LinkedAbove(image) \/ (pe /\ ByteOf(image, s, address) # Zero)
                     /\ pe \/ ~BogusSections(image, base))
                        => answer[address - base + 1] = ByteOf(image, s, address)

(* Every address of a section marked as code lies in a code area.           *)
CodeIsInCodeAreas ==
    Answered("map") =>
        \A s \in Executable(task.image.sections) :
            LET start == SectionArea(task.image, s)[1]
            IN  \A address \in start..(start + s.size - 1) :
                    \E area \in ToSet(GetCodeAreas(task.image)) :
                        area[1] <= address /\ address < area[2]

(* The search finds an address exactly if one of the areas holds it,        *)
(* however they overlap, nest or touch.                                     *)
SearchFindsTheArea ==
    Answered("area") /\ task.areas # {} =>
        (answer <=> \E area \in task.areas : area[1] <= task.address /\ task.address < area[2])

(* A memory image gives back the file it was loaded from, a file is left    *)
(* alone.                                                                   *)
UnmappingRestoresTheFile ==
    Answered("unmap") =>
        IF task.isFile THEN answer = NoData
        ELSE answer # NoData =>
             \A p \in Loads(task.image) : \A k \in 0..(p.file - 1) :
                 answer[p.offset + k + 1] = p.offset + k

(* The labels of a Mach-O are given at the addresses it is mapped to.       *)
LabelsFollowTheMapping ==
    Answered("label") /\ LinkedAbove(task.image) => answer = 0

-----------------------------------------------------------------------------
(* The components are the classes of nodes that reach each other, and each  *)
(* comes before those that lead to it.                                      *)
ComponentsReachEachOther ==
    Answered("components") =>
        LET graph == FixGraph(task.graph)
            together(v, w) == v = w \/ (v \in ReachableFrom(graph, w) /\ w \in ReachableFrom(graph, v))
        IN  /\ UNION ToSet(answer) = DOMAIN graph
            /\ \A i \in DOMAIN answer : \A v \in answer[i] :
                   /\ answer[i] = {w \in DOMAIN graph : together(v, w)}
                   /\ \A j \in (i + 1)..Len(answer) : answer[j] \cap ReachableFrom(graph, v) = {}

(* The closure, put together component by component, is reachability.       *)
ClosureIsReachability ==
    Answered("closure") =>
        \A v \in Nodes(task.graph) : answer[v] = ReachableFrom(FixGraph(task.graph), v)

(* Every node the root reaches has the closest of the nodes no way to it    *)
(* gets around as its dominator.                                            *)
DominatorsAreImmediate ==
    Answered("dominators") =>
        LET graph == FixGraph(task.graph)
        IN  /\ DOMAIN answer = Reached(graph, {task.root}, NoNode) \ {task.root}
            /\ \A n \in DOMAIN answer : IsImmediateDominator(graph, task.root, answer[n], n)

(* The nesting depth is the largest number of decided nodes that a node     *)
(* cannot be reached without.                                               *)
NestingCountsDecisions ==
    Answered("nesting") =>
        LET graph == FixGraph(task.graph)
            reached == Reached(graph, {task.root}, NoNode)
            above(n) == {d \in Significant(task.graph) \cap reached : Dominates(graph, task.root, d, n)}
        IN  answer = IF reached = {task.root} THEN 0 ELSE Max({Cardinality(above(n)) : n \in reached})

(* A report that is saved and loaded has the graph it was saved with: its   *)
(* references, exceptional ones included, are normalized already.           *)
LoadingKeepsTheGraph ==
    Answered("function") => NormalizedBlockRefs(task.function, answer) = answer

(* Where blocks do not overlap the disassembly and the report, which look a *)
(* handler's block up in different ways, agree on the graph; the report     *)
(* only adds the handlers of ranges that guard no block.                    *)
BothWaysAgree ==
    Answered("function") /\ Disjoint(task.function) =>
        LET refs == GetBlockRefs(task.function)
        IN  /\ DOMAIN refs \subseteq DOMAIN answer
            /\ \A n \in DOMAIN answer : answer[n] = IF n \in DOMAIN refs THEN refs[n] ELSE {}

(* The block of an address is found exactly if there is one.                *)
BlocksAreFound ==
    Answered("block") /\ Disjoint(task.function) =>
        LET holding == {b.start : b \in {c \in ToSet(task.function.blocks) :
                                           c.start <= task.address /\ task.address < c.end}}
        IN  IF holding = {} THEN answer = NoNode ELSE holding = {answer}

-----------------------------------------------------------------------------
(* The compact form holds what a set for every address would hold, in both  *)
(* directions.                                                              *)
ReferencesAreMirrored ==
    Answered("references") =>
        LET last(from, to) == {i \in DOMAIN task.history : task.history[i][2] = from /\ task.history[i][3] = to}
            held == {<<s[2], s[3]>> : s \in {t \in ToSet(task.history) :
                        task.history[Max(last(t[2], t[3]))][1] = "add"}}
        IN  \A from, to \in {s[2] : s \in ToSet(task.history)} \cup {s[3] : s \in ToSet(task.history)} :
                /\ to \in Get(answer.from, from) <=> <<from, to>> \in held
                /\ from \in Get(answer.to, to) <=> <<from, to>> \in held

(* Where the image holds all targets, a function is recursive exactly if it *)
(* refers to its own entry, and a leaf exactly if it refers to nothing else.*)
OutRefsTellLeaves ==
    Answered("references") =>
        LET fn   == [offset |-> 1, instructions |-> {1, 2}, low |-> 0, high |-> 9]
            outs == UNION {GetOutRefs(fn, answer)[i] : i \in fn.instructions}
        IN  /\ IsRecursiveFunction(fn, answer) <=> fn.offset \in outs
            /\ IsLeafFunction(fn, answer) <=> outs \subseteq {fn.offset}

(* No hash of an older algorithm survives loading where it can be computed  *)
(* again.                                                                   *)
HashesAreCurrent ==
    Answered("report") /\ task.saved.bounds /\ task.saved.architecture \in Escapers =>
        answer.hash \in {0, Cardinality(Changes[task.saved.architecture]) + 1}

(* A report that is loaded, saved and loaded again is as it was loaded at   *)
(* first, and one of this version as it was made.                           *)
LoadingIsStable ==
    Answered("report") /\ ~answer.crashed =>
        /\ FromDict(ToDict(task.saved, answer)) = answer
        /\ (/\ task.saved.version = [known |-> TRUE, numbers |-> <<5, 0, 1>>, pre |-> FALSE]
            /\ task.saved.nesting # 0) => answer.hash = task.saved.hash /\ answer.nesting = task.saved.nesting

-----------------------------------------------------------------------------
(* The bound a compare or a mask of the index gives is one: however the     *)
(* window runs, the entry the branch goes through lies below it.  (The last *)
(* instruction may only add to a register that is branched to: what it adds *)
(* to the index of a branch through memory is taken for the table's base.)  *)
BoundsHold ==
    Answered("bound") /\ (IsMem(task.jump.dst) => ~AddsTableBase(Last(task.window))) =>
        LET walk == BoundWalk(task.window, IndexKeys(task.jump.dst))
        IN  walk.bound # 0 \/ walk.mask # 0 =>
                \A env \in FoldLeft(Run, Environments, task.window) :
                    Value(env, task.jump.dst) \in Entry(0)..Entry(49) => Value(env, task.jump.dst) < Entry(answer)

(* A switch, however the compiler put it, leads to its cases and nowhere    *)
(* else, as long as something ends the table; its entries are data, and so  *)
(* is the byte table in front of it.                                        *)
SwitchesAreResolved ==
    Answered("switch") =>
        LET table == {task.table + (k - 1) * task.size : k \in DOMAIN task.cases}
            claimed == {r.to : r \in {s \in answer.refs : s.table /\ s.from = task.jump.at}}
        IN  /\ ToSet(task.cases) \subseteq answer.targets
            /\ table \subseteq claimed
            /\ (task.bounded \/ ~task.open => answer.targets = ToSet(task.cases) /\ claimed = table)
            /\ task.bytes = {[at |-> r.to, length |-> r.size] :
                                r \in {s \in answer.refs : s.table /\ s.from # task.jump.at}}

(* What is booked as the byte table in front of a jump table holds numbers  *)
(* of its cases only, and is no part of the jump table.                     *)
ByteTablesHoldCases ==
    Answered("extent") =>
        \A e \in answer : \A a \in e.at..(e.at + e.length - 1) :
            /\ a \notin Min(task.entries)..(Max(task.entries) + 3)
            /\ task.image.byte[a] < Cardinality(task.entries)

-----------------------------------------------------------------------------
(* What the tracker says a register holds it holds, whatever held before    *)
(* and whichever conditions are met.                                        *)
TrackingHolds ==
    Answered("armTrack") =>
        \A env \in FoldLeft(Arm32!Run, Arm32!Environments, task.window) :
            \A name \in DOMAIN answer.values \ {"ip"} : env[name] = answer.values[name]

EveryCompareGuards(window, condition) ==
    \A k \in {j \in DOMAIN window : window[j].op = "cmp"} :
        LET behind == {j \in (k + 1)..Len(window) : window[j].op = "cmp"}
            until  == Min({Len(window) + 1} \cup behind)
        IN  (behind = {} /\ condition # "al") \/ \E j \in (k + 1)..(until - 1) : window[j].op = "b"

(* Where every compare guards what comes behind it, the bound is one.       *)
ArmBoundsHold ==
    Answered("armBound") /\ answer # 0 /\ EveryCompareGuards(task.window, task.condition) =>
        \A env \in FoldLeft(Arm32!Run, Arm32!Environments, task.window) :
            Arm32!Holds(env, task.condition) => env.r1 < answer

(* A switch leads to its cases, its table ends where they begin, and is     *)
(* data.                                                                    *)
ArmSwitchesAreResolved ==
    Answered("armSwitch") \/ Answered("armCases") =>
        /\ answer.targets = task.cases
        /\ {r.to : r \in answer.refs} = task.slots

(* What linkers put in front of a slot is followed to the slot, or to the   *)
(* target that a veneer computes, and is known again in a report.           *)
StubsAreRecognized ==
    Answered("armStub") =>
        /\ {[slot |-> r.slot, value |-> r.value] : r \in answer} = {[slot |-> task.slot, value |-> {task.value}]}
        /\ Arm32!IsImportStub(task.list)

-----------------------------------------------------------------------------
(* What the AArch64 tracker says a register holds it holds, whatever it     *)
(* held before; behind a load of a w register, which it takes for one of    *)
(* eight bytes, only the low half is held.                                  *)
Environments64 == [x0 : {3, 6}, x1 : {3, 6}, x30 : {0}, sp : {96}, stack : {<<>>}]

Executed(env) == FoldLeft(LAMBDA e, i : Arm64!Do(task.image, e, i), env, task.window)
LoadsNarrow   == \E i \in ToSet(task.window) : i.op = "ldr" /\ i.narrow
ConstantsHold ==
    Answered("track64") =>
        \A env \in Environments64 : \A name \in DOMAIN answer :
            IF LoadsNarrow THEN Arm64!LowHalf(Executed(env)[name]) = Arm64!LowHalf(answer[name])
                           ELSE Executed(env)[name] = answer[name]

(* dataflow.py:51: the tracker drops what it cannot tell, for "a stale one  *)
(* silently yields a wrong call target or jump-table base".                 *)
ConstantsAreHeld ==
    Answered("track64") =>
        \A env \in Environments64 : \A name \in DOMAIN answer : Executed(env)[name] = answer[name]

(* A call through a register leads where the blocks that run before it      *)
(* leave the register, if they run one behind the other, and the slot of an *)
(* import is one that holds it.                                             *)
PathTo(fn, seed) ==   \* from the first block up to the seed, if there is one such path
    LET ordered == SetToSortSeq({b \in fn.blocks : \E i \in b : i.at <= seed},
                                LAMBDA b, c : Min({i.at : i \in b}) < Min({i.at : i \in c}))
        first(b) == Min({i.at : i \in b})
        single(k) == {r.from : r \in {e \in fn.refs : e.to = first(ordered[k])}}
                        = {Max({i.at : i \in ordered[k - 1]})}
        outer   == \A r \in fn.refs : r.to # first(ordered[1])
    IN  IF outer /\ \A k \in 2..Len(ordered) : single(k)
        THEN {Arm64!InOrder({i \in UNION Range(ordered) : i.at < seed})} ELSE {}

RegisterCallsFollowTheirPath ==
    Answered("calls64") =>
        /\ \A f \in answer.imports : \A s \in f.slot : Arm64!Stored(task.image, s) = {f.to}
        /\ \A path \in PathTo(task.fn, task.calls[1].at) :
               LET values == Arm64!Get(Arm64!PropagateConstants(task.image, path), task.calls[1].reg)
               IN  /\ {f.to : f \in {g \in answer.imports : g.from = task.calls[1].at}} = values \cap task.image.imports
                   /\ {v \in values \ task.image.imports : Arm64!Within(task.image, v) /\ v # 0} \subseteq answer.candidates

(* A switch leads to its cases and its table is data, to two exceptions.    *)
(* A load of unsigned bytes or halves hides that the add behind it extends  *)
(* their sign: the cases are those before the first negative entry.  And a  *)
(* bound that excludes the number compared with admits one entry too many.  *)
SignIsInTheAdd == LET list == task.fn.list IN
    /\ \E i \in list : i.op \in {"ldrb", "ldrh"}
    /\ \E i \in list : i.op = "add" /\ i.args[3].form \in Arm64!SignedExtends
BoundIsExclusive == \E i \in task.fn.list : i.op = "b.hs"

ReadAsMeant ==
    LET unread == IF SignIsInTheAdd THEN {k \in DOMAIN task.cases : task.cases[k] < task.anchor} ELSE {}
    IN  Min({Len(task.cases)} \cup {k - 1 : k \in unread})
SwitchesOfArm64AreResolved ==
    Answered("switch64") =>
        LET found == ReadAsMeant
            read  == {[to |-> r.to, size |-> r.size] : r \in answer.refs}
            last  == IF BoundIsExclusive /\ found = Len(task.cases) THEN {task.table + task.size * found} ELSE {}
        IN  /\ {task.cases[k] : k \in 1..found} \subseteq answer.targets
            /\ Cardinality(answer.targets \ {task.cases[k] : k \in 1..found}) <= Cardinality(last)
            /\ {slot.to : slot \in read} \ last = {task.table + task.size * (k - 1) : k \in 1..found}
            /\ {slot.size : slot \in read} \subseteq {task.size}

(* analyzers.py:634: the add "folds the index's sign-extension", so that "a *)
(* signed table can reach this point without any ldrsw/sxtw of its own to   *)
(* mark it".                                                                *)
SignsOfAddsCount ==
    Answered("switch64") /\ SignIsInTheAdd /\ ~BoundIsExclusive => answer.targets = ToSet(task.cases)

(* A string that is reported is on the stack as a whole at some time, where *)
(* all that is stored is known, and the last one stored is reported.        *)
StoresOf(window) == {k \in DOMAIN window : window[k].op \in {"str", "strb", "strh", "stp"}}
OnTheStack(env, text) ==
    \E o \in DOMAIN env.stack : \A k \in DOMAIN text :
        o + k - 1 \in DOMAIN env.stack /\ env.stack[o + k - 1] = text[k]
StackStringsAreOnTheStack ==
    Answered("strings64") =>
        LET start == [x0 |-> 0, x1 |-> 0, x30 |-> 0, sp |-> 96, stack |-> <<>>]
            env[k \in 0..Len(task.window)] == IF k = 0 THEN start ELSE Arm64!Do(task.image, env[k - 1], task.window[k])
            known(k, a) == a.reg \in DOMAIN Arm64!Before(task.image, task.window, k)
            all  == \A k \in StoresOf(task.window) : \A n \in 1..(Len(task.window[k].args) - 1) : known(k, task.window[k].args[n])
            last == Max(StoresOf(task.window))
            value == env[last][task.window[last].args[1].reg]
            word == [n \in 1..4 |-> Arm64!ByteOf(value, n - 1)]
        IN  /\ all => \A s \in answer : \E k \in DOMAIN env : OnTheStack(env[k], s.text)
            /\ (/\ StoresOf(task.window) # {}
                /\ task.window[last].op = "str" /\ known(last, task.window[last].args[1])
                /\ ToSet(word) \subseteq Arm64!Printable)
                   => \E s \in answer : \E n \in 0..(Len(s.text) - 4) : SubSeq(s.text, n + 1, n + 4) = word

(* A thunk leads to the slot it reads, and nothing else is taken for one.   *)
ThunksLeadToTheirSlot == Answered("thunk64") => answer = task.walk

-----------------------------------------------------------------------------
(* What a rebuilt file is loaded as.  A PE with the header of the program   *)
(* has that header's base, not the one the program was analyzed at.         *)
Moved(built) ==
    IF task.report.format = "pe" /\ task.report.header # {}
    THEN built.file.image.base - task.report.base ELSE 0

AtAddress(built, address) ==
    LET at == address + Moved(built) - BaseAddress(built.file.image) + 1
    IN  IF at \in DOMAIN built.memory THEN built.memory[at] ELSE Zero

BytesOf(parts) == UNION {p.at..(p.at + p.size - 1) : p \in ToSet(parts)}

(* The section made up for functions that no section holds begins on a page *)
(* and may reach into others; a Mach-O header whose sections are not the    *)
(* report's moves the segments off their pages, or leaves a section in a    *)
(* segment that does not hold it.  What follows is about files where        *)
(* neither happens, linked like the mapping expects it.                     *)
Disjointed(parts) ==
    \A i, j \in DOMAIN parts : i # j =>
        parts[i].va + parts[i].size <= parts[j].va \/ parts[j].va + parts[j].size <= parts[i].va

Apart(image) ==
    /\ Disjointed(image.sections)
    /\ Disjointed([i \in DOMAIN image.segments |->
                      [va |-> image.segments[i].va, size |-> image.segments[i].memory]])

Described(report) ==
    report.format = "macho" =>
        \A header \in report.header :
            /\ report.sections # <<>>
            /\ Macho!Adjustment(CollectSections(report), Macho!Metas(header)) % Page = 0

Contained(file) ==
    file.image.format = "macho" =>
        \A p \in ToSet(file.segments) : \A s \in ToSet(p.parts) : p.start <= s.start /\ s.end <= p.end

Reloaded ==
    {built \in answer : /\ built.memory # NoData /\ Apart(built.file.image)
                        /\ LinkedAbove(built.file.image)
                        /\ Described(task.report) /\ Contained(built.file)}

(* Sections that are apart in the report stay apart, however far the code   *)
(* at their ends runs.                                                      *)
GrowthStopsAtTheNext ==
    Answered("synthesis") /\ task.report.format # "pe" =>
        \A built \in answer : \A s, t \in ToSet(built.file.sections) :
            (/\ s.start < t.start
             /\ \A part \in {s, t} : \E known \in ToSet(task.report.sections) : known.start = part.start)
                => s.end <= t.start

(* Every byte of a function is back at its address, wherever the sections   *)
(* end, except for what was warned about.                                   *)
CodeIsRebuilt ==
    Answered("synthesis") =>
        \A built \in Reloaded : \A a \in BytesOf(Chunks(Resolve(task.report))) \ built.file.missed :
            AtAddress(built, a) = a

(* A PE's slots, relative to its base, and its data but for what the        *)
(* imports themselves were given.                                           *)
SlotOf(built, i) ==
    i.slot - (IF task.report.header = {} THEN built.file.image.base ELSE task.report.base)

SlotsOf(built, dll) == {SlotOf(built, i) : i \in {j \in task.report.imports : j.dll = dll}}

DataOf(built) ==
    LET run == Max({r.va : r \in ToSet(built.file.sections)})
    IN  {r \in ToSet(built.file.sections) : ~r.exec /\ (r.va # run \/ task.report.imports = {})}

(* Strings that a section of data holds are back, however closely they are *)
(* packed, except between the slots of a PE's imports.                      *)
HeldByData(built, string) ==
    \E s \in ToSet(built.file.sections) :
        /\ ~s.exec /\ ~s.zero /\ \E known \in ToSet(task.report.sections) : known.start = s.start
        /\ s.start <= string.at /\ string.at + string.size <= s.end

HeldByPe(built, string) ==
    LET rva == SlotOf(built, [slot |-> string.at])
    IN  /\ \E r \in DataOf(built) : r.va <= rva /\ rva + string.size <= r.va + Len(r.raw)
        /\ \A i \in task.report.imports :
               LET own == SlotsOf(built, i.dll) IN (rva..(rva + string.size - 1)) \cap (Min(own)..(Max(own) + PointerSize)) = {}

StringsAreBack ==
    Answered("synthesis") =>
        \A built \in Reloaded : \A string \in ToSet(task.report.strings) :
            (IF task.report.format = "pe" THEN HeldByPe(built, string) ELSE HeldByData(built, string)) =>
                \A a \in string.at..(string.at + string.size - 1) : AtAddress(built, a) = a

(* The loader finds the base the report has, if that is on a page and what  *)
(* lies between it and the first content has room for the header.           *)
BaseIsKept ==
    Answered("synthesis") /\ task.report.format # "pe" /\ task.report.base % Page = 0 =>
        \A built \in Reloaded :
            LET image == built.file.image
                room  == Min({s.start : s \in ToSet(built.file.sections)}) - task.report.base
                fits  == CASE task.report.format = "elf" -> room \in HeaderSize..MaxPrologue
                           [] OTHER -> /\ built.file.layout /\ room >= built.file.prologue
                                       /\ image.segments[1].va = task.report.base
            IN  fits => BaseAddress(image) = task.report.base

(* The functions lie in what a loader takes for code, unless the program's  *)
(* own header describes their section as something else.                    *)
RebuiltCodeIsCode ==
    Answered("synthesis") /\ (task.report.format = "pe" => task.report.header = {}) =>
        \A built \in Reloaded : \A fn \in ToSet(Resolve(task.report)) :
            \/ \E area \in ToSet(GetCodeAreas(built.file.image)) : area[1] <= fn.offset /\ fn.offset < area[2]
            \/ task.report.format = "macho" /\ \E s \in ToSet(built.file.sections) : s.kind # "plain" /\ Holds(s, fn.offset)
            \/ task.report.format = "pe" /\ Min({f.offset : f \in ToSet(Resolve(task.report))}) < Page

(* Every import of a PE is found in the slots of its library, under its     *)
(* name: in its own slot if the library's lie in data the file has bytes    *)
(* for, with no other library's between them, and in the run that slots     *)
(* outside of all data are moved to unless the run itself reaches one.      *)
Together(built, dll) ==
    LET own    == SlotsOf(built, dll)
        others == {SlotOf(built, i) : i \in {j \in task.report.imports : j.dll # dll}}
    IN  /\ Max(own) - Min(own) <= MaxPadding
        /\ (Min(own)..Max(own)) \cap others = {}
        /\ \E r \in DataOf(built) : r.va <= Min(own) /\ Max(own) + PointerSize <= r.va + Len(r.raw)

InNoData(built, slot) == \A r \in DataOf(built) : slot < r.va \/ slot + PointerSize > r.va + r.size

Outside(built, dll) ==
    LET run == Max({r.va : r \in ToSet(built.file.sections)})
    IN  /\ \A slot \in SlotsOf(built, dll) : slot >= 0 /\ InNoData(built, slot)
        /\ \A i \in task.report.imports : InNoData(built, SlotOf(built, i)) => SlotOf(built, i) < run

ImportsAreFound ==
    Answered("synthesis") /\ task.report.format = "pe" =>
        \A built \in Reloaded : \A i \in task.report.imports :
            LET found == {a \in UNION {Pe!Walk(built.memory, s.first) : s \in {t \in built.file.symbols : t.dll = i.dll}} :
                              Pe!ReadName(built.memory[a + 1]) = i.name}
            IN  /\ Together(built, i.dll) => SlotOf(built, i) \in found
                /\ Outside(built, i.dll) => found # {}

(* The entry of a Mach-O is the place of its byte in the file, otherwise it *)
(* is an address.                                                           *)
EntryIsKept ==
    Answered("synthesis") =>
        \A built \in Reloaded : \A e \in EntryPoint(task.report) \cap BytesOf(Chunks(Resolve(task.report))) :
            CASE task.report.format = "elf" -> built.file.entry = {e}
              [] task.report.format = "pe" -> built.file.entry = {e + Moved(built) - built.file.image.base}
              [] OTHER -> \A offset \in built.file.entry : built.file.content[offset + 1] = e

(* Every section of a Mach-O's pointers finds the names of its own slots in *)
(* the table it shares with the others.                                     *)
SymbolsAreOfTheirSlots ==
    Answered("synthesis") /\ task.report.format = "macho" =>
        \A built \in answer : \A s \in ToSet(built.file.sections) :
            \A i \in task.report.imports :
                (/\ built.file.symbols # <<>> /\ Macho!IsPointerSection(s, task.report)
                 /\ Holds(s, i.slot)) =>
                    built.file.symbols[s.indirect + ((i.slot - s.start) \div PointerSize) + 1] = i.name

-----------------------------------------------------------------------------
(* The length found next to a pointer is there at some moment: some         *)
(* register or slot holds the pointer and the one paired with it the        *)
(* length, as the instructions leave them.                                  *)
Pointer == -7
LeftBy(list, index) ==
    LET after(values, k) ==
            LET i    == list[k]
                kept == {l \in DOMAIN values : ~Str!Invalidated(l, Str!WrittenLocations(i))}
                put  == IF i.op \in Str!Writing /\ (i.dst.width = "word" \/ \A l \in i.dst.loc : ~Str!IsSlot(l) /\ i.dst.width = "half")
                        THEN i.dst.loc ELSE {}
                got  == CASE k = index -> {Pointer}
                          [] i.op = "mov" /\ i.src.loc = {} -> i.src.value
                          [] i.op = "mov" /\ i.src.width = "word" /\ i.dst.width = "word" ->
                               {values[l] : l \in i.src.loc \cap DOMAIN values}
                          [] OTHER -> {}
                new  == IF got = {} THEN {} ELSE put
            IN  IF Str!ScanBoundary(i) THEN <<>>
                ELSE [l \in (kept \ put) \cup new |-> IF l \in new THEN CHOOSE v \in got : TRUE ELSE values[l]]
        left[k \in 0..Len(list)] == IF k = 0 THEN <<>> ELSE after(left[k - 1], k)
    IN  left

PairedLengthsAreLive ==
    Answered("length") /\ answer # {} /\ task.list[task.index].op # "push" =>
        LET left == LeftBy(task.list, task.index)
        IN  \E k \in task.index..Len(task.list) : \E l \in DOMAIN left[k] :
                /\ left[k][l] = Pointer
                /\ \E n \in Str!LengthLocations(l, task.registers) \cap DOMAIN left[k] : left[k][n] \in answer

(* Literals packed without terminators come out one by one, whether their   *)
(* length is loaded by the code or stored behind a pointer to them.         *)
LiteralsAreWhole ==
    Answered("strings") /\ task.about = "literals" =>
        {[text |-> s.text, from |-> s.from] : s \in answer} = task.expected

(* A terminated string is found whole though an unrelated number is passed  *)
(* along with it, unless that number reaches up to another reference.       *)
TerminatedStringsAreWhole ==
    Answered("strings") /\ task.about = "terminated" =>
        \A e \in task.expected :
            (e.from + e.number \notin Str!ReferencedTargets(task.report)) =>
                \E s \in answer : s.text = e.text /\ s.from = e.from /\ s.at = e.at

(* What is remembered of earlier reads changes no later one.                *)
ReadsAreRepeatable ==
    Answered("reads") => \A k \in DOMAIN answer : answer[k] = Str!Fresh(task.report, task.reads[k])

-----------------------------------------------------------------------------
(* Every function of a readable record is found, with its extent: a record  *)
(* that is not understood hides no other, one that cannot be told from      *)
(* noise ends the table.                                                    *)
FunctionsOfTablesAreFound == Answered("fdes") => answer = task.expected

(* What is taken for a landing pad is one the program declares, inside of   *)
(* the function it is declared for, and none is missed while the budgets    *)
(* last.                                                                    *)
PadsAreDeclared ==
    Answered("pads") =>
        /\ answer.pads \subseteq task.expected
        /\ answer.budget > 0 /\ answer.failures > 0 => answer.pads = task.expected

(* However many records name tables that lead to nothing, what is read for  *)
(* them stays within its budget and one table, and none is read again.      *)
FailedReadsAreBounded ==
    Answered("pads") =>
        LET failed  == {key \in DOMAIN answer.decoded : answer.decoded[key] = {}}
            size(key) == Len(task.memory[key[1]])
            largest == Max({0} \cup {size(key) : key \in failed})
        IN  /\ failed # {} => MapThenSumSet(size, failed) - largest < task.failedBytes
            /\ answer.reads = Cardinality(DOMAIN answer.decoded) + Cardinality(answer.unreadable)

(* The search table of a memory image lists the starts of its functions,    *)
(* whether the image is based where it was linked or elsewhere.             *)
SearchTablesAreRead == Answered("hdr") => answer = task.expected

-----------------------------------------------------------------------------
(* An address in the middle of a declared extent is recognized, whatever    *)
(* extents overlap, and refused if the function there was recovered around  *)
(* it.  Of .eh_frame this holds unless two extents in a row lie within an   *)
(* earlier one: the look back ends there.                                   *)
Strictly(ranges, address) == {r \in ToSet(ranges) : r.start < address /\ address < r.end}
InExtents(ranges, address) ==
    Strictly(ranges, address) \cup {r \in ToSet(ranges) : r.fragment /\ r.start = address /\ address < r.end}
TwoInARow(sorted) ==
    \E i, j \in DOMAIN sorted : i < j /\ j < Len(sorted) /\ sorted[j].end < sorted[i].end /\ sorted[j + 1].end < sorted[i].end
InteriorsAreFound ==
    Answered("interior") =>
        LET extents == InExtents(task.image.extents, task.address)
            fdes    == Strictly(task.image.fdes, task.address)
        IN  /\ (answer.extent = {}) = (extents = {}) /\ answer.extent \subseteq extents
            /\ answer.fde \subseteq fdes
            /\ ~TwoInARow(D64!InOrder(task.image.fdes)) => (answer.fde = {}) = (fdes = {})
            /\ \A o \in answer.owner : task.borders[o][1] <= task.address /\ task.address < task.borders[o][2]

(* A start that had to wait is offered only while nothing has claimed it,   *)
(* all of them are known before the first is analysed, and none is lost     *)
(* but to another function.                                                 *)
DeferredStartsAreUnclaimed ==
    Answered("deferred") =>
        /\ \A o \in ToSet(answer.offered) : o.at \notin o.code /\ ToSet(answer.accepted) \subseteq o.known
        /\ ~D64!Late(task.image, answer) =>
               \A a \in ToSet(answer.accepted) : a \in answer.code \/ \E o \in ToSet(answer.offered) : o.at = a

(* What is reached from an address without a call, up to another.           *)
ReachedFrom(image, start, end) ==
    LET spread(reached) ==
            reached \cup UNION {LET word == D64!WordAt(image, a) IN
                                    (IF word.op \in D64!Jumps \cup D64!Checks THEN {word.to} ELSE {})
                                      \cup (IF D64!EndsFlow(word) THEN {} ELSE {a + 4}) :
                                a \in {r \in reached : start <= r /\ r < end}}
        reached[n \in 0..Len(image.words)] == IF n = 0 THEN {start} ELSE spread(reached[n - 1])
    IN  reached[Len(image.words)]
LeadsInto(image, entry, start) ==
    LET inside == {a \in entry..(start - 4) : (a - entry) % 4 = 0}
    IN  /\ entry < start
        /\ inside \cup {start} \subseteq ReachedFrom(image, entry, start)
        /\ \A a \in inside : D64!WordAt(image, a).op \notin D64!Padding \cup D64!Calls
        /\ \E a \in inside : LET word == D64!WordAt(image, a) IN
               (a + 4 = start /\ ~D64!EndsFlow(word)) \/ (word.op \in D64!Checks \cup {"b.al"} /\ word.to = start)

(* Every exception record that was read has its function among the          *)
(* candidates, at its start or at an entry that leads into it, though the   *)
(* clock may end the search for the calls that would decide; but for the    *)
(* limit on candidates, which nothing exceeds.                              *)
RecordsAreAdmitted ==
    Answered("discover") =>
        /\ answer.hoisted = <<>>
        /\ Cardinality(answer.candidates) <= task.image.cap
        /\ Cardinality(answer.candidates) < task.image.cap => \A r \in ToSet(task.image.directory) :
               LET start == task.image.base + r.begin
               IN  /\ D64!IsAccepted(task.image, r) /\ r.flag # 2 /\ start \in answer.begins
                   /\ D64!WordAt(task.image, start).op \in D64!RecordEntries
                   => \E e \in answer.exceptions : e = start \/ LeadsInto(task.image, e, start)

(* A record's start that is called is the start, and no frame setup makes   *)
(* two functions of one.                                                    *)
CalledStartsStand ==
    Answered("discover") /\ ~D64!Late(task.image, answer) /\ Cardinality(answer.candidates) < task.image.cap =>
        \A r \in ToSet(task.image.directory) :
            LET start == task.image.base + r.begin
            IN  /\ D64!IsAccepted(task.image, r) /\ r.flag # 2 /\ start \in answer.called
                /\ D64!WordAt(task.image, start).op \in D64!RecordEntries
                => start \in answer.exceptions
FramesHaveOneEntry ==
    Answered("discover") =>
        \A first, second \in answer.candidates :
            LET image == task.image
                run   == {D64!WordAt(image, a).op : a \in {x \in first..second : (x - first) % 4 = 0}}
                named == answer.called \cup answer.symbols \cup answer.begins \cup image.language
                           \cup {r.to : r \in answer.refs}
                free  == \/ first = image.base
                         \/ D64!EndsFlow(D64!WordAt(image, first - 4))
                         \/ D64!WordAt(image, first - 4).op \in D64!Padding
            IN  ~(/\ first < second /\ second - first <= 4 * HoistWindow
                  /\ run \subseteq D64!FrameSetups /\ free /\ second \notin named)

InCode(image, a) == a % 4 = 0 /\ D64!InRanges(image.exec, a) /\ D64!Holds(image, a) /\ D64!PassesCodeFilter(image, a)

(* An address counts as made by the code only if it is: from the adrp to    *)
(* its use control runs straight and nothing else writes the register.  But *)
(* calls through registers, returns that authenticate and traps count as    *)
(* straight: what is made across one of them may count and not be real.     *)
Edges64    == {"b", "bl", "br", "ret"} \cup D64!Checks
Unnoticed  == {"blr", "retaa"} \cup D64!Traps
Made(image, range, user, edges) ==
    LET word   == D64!WordAt(image, user)
        writes(a) == D64!WordAt(image, a).op \in {"adrp", "adr", "add", "ldr", "mov"} /\ D64!WordAt(image, a).rd = word.rn
        pages  == {p \in range[1]..(user - 4) :
                      /\ (p - range[1]) % 4 = 0
                      /\ D64!WordAt(image, p).op = "adrp" /\ D64!WordAt(image, p).rd = word.rn
                      /\ \A a \in {x \in (p + 4)..(user - 4) : (x - p) % 4 = 0} :
                             D64!WordAt(image, a).op \notin edges /\ ~writes(a)}
        sums   == {D64!WordAt(image, p).to + word.imm : p \in pages}
    IN  CASE word.op = "adr" -> {word.to} [] word.op = "add" -> sums
          [] word.op = "ldr" -> {image.stored[s] : s \in sums \cap DOMAIN image.stored} [] OTHER -> {}
AllMade(edges) ==
    LET image == task.image
        all(range) == UNION {{[from |-> a, to |-> target] : target \in Made(image, range, a, edges)} :
                                a \in {x \in range[1]..(range[2] - 4) : (x - range[1]) % 4 = 0}}
    IN  {m \in UNION {all(range) : range \in image.exec} : InCode(image, m.to)}
ScansAddresses ==
    Answered("discover") /\ task.image.format = "elf" /\ task.image.sections = <<>> /\ ~D64!Late(task.image, answer)
RefsToAddresses == {r \in answer.refs : D64!WordAt(task.image, r.from).op # "bl"}
AddressesAreMade ==
    ScansAddresses => /\ AllMade(Edges64 \cup Unnoticed) \subseteq RefsToAddresses
                      /\ RefsToAddresses \subseteq AllMade(Edges64)

(* FunctionCandidateManager.py:727: pages are tracked "along straight-line  *)
(* runs, invalidating on writes and clearing at any control-flow edge".     *)
AddressesRunStraight == ScansAddresses => RefsToAddresses = AllMade(Edges64 \cup Unnoticed)

(* Every pointer to a function that a section of pointers holds is followed,*)
(* and none that an import will fill, wherever the section begins or ends.  *)
(* A pair of pointers counts only if the image holds all of it.             *)
PointersAreFollowed ==
    Answered("discover") /\ task.image.sections # <<>> /\ ~D64!Late(task.image, answer) =>
        LET image == task.image
            held(section, slot) == IF image.format = "macho" THEN D64!PointedTo(image, section, slot)
                                   ELSE D64!Slot(image, slot)
            stride(section) == IF image.format = "macho" THEN D64!StrideOf(section) ELSE 8
            inside(s) == image.format = "macho" /\ D64!Holds(image, s + image.adjustment)
            slots(section) == {s \in section.start..(section.start + section.size - stride(section)) :
                                  /\ IF image.format = "macho" THEN (s - section.start) % stride(section) = 0 ELSE s % 8 = 0
                                  /\ inside(s) => D64!Holds(image, s + image.adjustment + stride(section) - 1)}
        IN  {[from |-> r.from, to |-> r.to] : r \in answer.refs} =
                UNION {UNION {{[from |-> s + image.adjustment, to |-> target] : target \in
                                  {x \in held(section, s) : InCode(image, x) /\ ~D64!InRanges(image.stubs, x)}} :
                              s \in slots(section)} : section \in ToSet(image.sections)}

(* The table of exception records in a memory image is found at its first   *)
(* record, however the bytes in front of it read.                           *)
RecordTablesAreFound ==
    Answered("table") =>
        LET raw  == task.raw
            at   == {o \in 0..(4 * Len(raw) - 8) : o % 4 = 0}
            longest == Max({D64!CountRecords(raw, o, Len(raw)) : o \in at})
        IN  IF longest < MinEntries THEN answer.count = 0
            ELSE /\ answer.count = longest
                 /\ D64!CountRecords(raw, answer.offset, Len(raw)) = longest
                 /\ answer.offset < 8 \/ ~D64!Precedes(raw, answer.offset)

(* What the scan of gaps passes over it has a reason to, and what it offers *)
(* nothing speaks against: no function, data or padding, no inside of a     *)
(* recovered function, no landing pad and nothing behind one up to where    *)
(* its function or its run ends.  The rest of a gap is given up with a      *)
(* candidate that failed in it.                                             *)
Unclaimed(image, known, a) ==
    /\ a \notin known.code \cup known.data
    /\ D64!InRanges(image.exec, a) /\ D64!PassesCodeFilter(image, a)
    /\ D64!WordAt(image, a).op \notin D64!Padding \cup D64!Traps \cup {"bti j"}
    /\ \A r \in InExtents(image.extents, a) : ~r.fragment /\ r.start \notin known.functions
    /\ \A f \in Strictly(image.fdes, a) : f.start \notin known.functions \/ D64!InRanges(image.plt, a)
    /\ a \notin image.pads
BehindPad(image, a) ==
    \/ \E f \in ToSet(image.fdes) : \E p \in image.pads : f.start < p /\ p < a /\ a < f.end
    \/ \E p \in task.pointer..(a - 4) :
          /\ p % 4 = 0 /\ D64!WordAt(image, p).op \in D64!LandingPads
          /\ \A x \in (p + 4)..(a - 4) : x % 4 = 0 => D64!WordAt(image, x).op \notin {"ret", "br", "b"} \cup D64!Traps
IntoInterior(image, known, a) ==
    \E b \in a..(a + GapRunLimit - 1) :
        /\ b % 4 = 0 /\ D64!Holds(image, b) /\ D64!WordAt(image, b).op = "b"
        /\ D64!WordAt(image, b).to \in known.code \ (known.starts \cup known.functions)
        /\ \A x \in a..(b - 4) : x % 4 = 0 => D64!WordAt(image, x).op \notin {"ret", "br", "b"}
GapsAreSwept ==
    Answered("sweep") =>
        LET image == task.image
            known == task.known
            end   == image.base + 4 * Len(image.words)
            passed == {a \in task.pointer..((IF answer.offer = {} THEN end ELSE Min(answer.offer)) - 4) : a % 4 = 0}
        IN  /\ answer.over
            /\ \A a \in answer.offer : Unclaimed(image, known, a)
            /\ \A a \in passed : \/ ~Unclaimed(image, known, a) \/ D64!WordAt(image, a).op \in D64!LandingPads
                                 \/ BehindPad(image, a) \/ IntoInterior(image, known, a)
                                 \/ task.previous <= a /\ known.gaps \cap (task.previous + 1)..a = {}

(* The bytes a function opens with make one candidate of it, at its entry:  *)
(* bodies tells for every function of the image where it could be mistaken  *)
(* to start, opens which functions open with such bytes.  Only a call leads *)
(* inside one, and a function behind a short declared one may be missed.    *)
PrologueStartsAreEntries ==
    Answered("discover86") =>
        LET image == task.image
            declared == answer.symbols \cup answer.exceptions \cup {r.to : r \in answer.refs}
            claimed(e) == e \in answer.candidates \/ \E f \in ToSet(image.fdes) : f.start = e
        IN  /\ \A e \in DOMAIN task.bodies : claimed(e) => task.bodies[e] \cap answer.candidates \subseteq {r.to : r \in answer.refs}
            /\ ~D86!Late(image, answer) /\ Cardinality(answer.candidates) < image.cap =>
                   \A e \in task.opens :
                       \/ e \in answer.candidates \/ ~D86!PassesCodeFilter(image, e)
                       \/ \E a \in declared : e - StartWindow <= a /\ a < e

(* Every stub of a chain is a candidate that is known as a stub, nothing    *)
(* else is, and what is declared data between stubs is no stub's first byte.*)
ChainsAreStubs ==
    Answered("discover86") =>
        LET image == task.image
            seen  == {s \in task.stubs : D86!PassesCodeFilter(image, s)}
        IN  /\ answer.stubs \subseteq task.stubs /\ answer.data \cap task.stubs = {}
            /\ ~D86!Late(image, answer) /\ Cardinality(answer.candidates) < image.cap => answer.stubs = seen

(* Where the number of candidates is limited, or time is up, none is there  *)
(* for its bytes alone while a declared start was refused.                  *)
LimitKeepsTheDeclared ==
    Answered("discover86") =>
        LET image == task.image
            ample == [image EXCEPT !.cap = 100, !.patience = 100]
            sure  == {s \in image.symbols : D86!PassesCodeFilter(image, s)}
                       \cup D86!LocateExceptionHandlerCandidates(ample, D86!NoStarts).exceptions
                       \cup D86!LocateReferenceCandidates(ample, D86!NoStarts).candidates
            KeepsThem(declared) == answer.candidates \subseteq declared \cup image.language
                                     \/ declared \subseteq answer.candidates
        IN  KeepsThem(sure)

(* The extents of an exception table, however broken, lead a scan that      *)
(* skips them forward and never out of the image; a table that had to be    *)
(* looked for gives no extents, one of another format nothing at all.       *)
SkippingStaysInside ==
    Answered("discover86") =>
        LET image == task.image
            end   == image.base + D86!Size(image)
        IN  /\ \A a \in image.base..(end - 1) : \A r \in D86!DeclaredExceptionRangeContaining(answer.extents, a) :
                   a < r.end /\ r.end <= end /\ r.end - r.start <= MaxFunctionSize
            /\ image.directory = <<>> /\ image.sections = <<>> => answer.extents = <<>>
            /\ image.directory = <<>> /\ image.format # "pe" /\ image.sections # <<>> =>
                   answer.extents = <<>> /\ answer.exceptions = {}

(* The parts a function was split into are no functions, every other record *)
(* of the table is one, up to the record that ends the table, and where     *)
(* functions may be divided is told by whole records alone.                 *)
PartsAreNotFunctions ==
    Answered("discover86") /\ task.table # <<>> =>
        LET image   == task.image
            start(r) == image.base + r.begin
            whole   == {r \in ToSet(task.table) : ~r.part}
        IN  /\ answer.exceptions \subseteq {start(r) : r \in whole}
            /\ ~D86!Late(image, answer) /\ Cardinality(answer.candidates) < image.cap =>
                   \A r \in whole : D86!PassesCodeFilter(image, start(r)) => start(r) \in answer.exceptions
            /\ answer.ends \subseteq {image.base + r.end : r \in {w \in whole : w.begin < w.end}}
            /\ \A b \in answer.begins : \E e \in answer.ends : b < e

(* The exception table in the bytes of an image is found whole.             *)
UnwindTablesAreFound ==
    Answered("table86") =>
        LET longest == Max({D86!CountRecords(task.image, o, D86!Size(task.image)) : o \in {x \in 0..(D86!Size(task.image) - 12) : x % 4 = 0}})
        IN  IF longest < MinEntries THEN answer.count = 0
            ELSE /\ answer.count = longest
                 /\ D86!CountRecords(task.image, answer.offset, answer.count) = longest

(* What is offered from tables of methods is all that stands in one: the    *)
(* longest run of what points among the functions, long enough, referred to *)
(* and mostly known.  All of it is known before any of it is analysed, and  *)
(* what has become code is passed over.                                     *)
MethodTablesAreRead ==
    Answered("methods86") =>
        LET image == task.image
            m     == task.manager
            count == D86!Size(image) \div 4
            value(k) == D86!Value(image, k)
            spans == {k \in 1..count : Min(m.functions) <= value(k) /\ value(k) <= Max(m.functions) /\ D86!Entry(image, k) \notin m.code}
            around(k) == {j \in spans : \A i \in (Min({j, k}))..(Max({j, k})) : i \in spans}
            read(k) == LET run == around(k)
                       IN  /\ Cardinality(run) >= MinRun /\ {D86!Entry(image, j) : j \in run} \cap m.referenced # {}
                           /\ 100 * Cardinality({j \in run : value(j) \in m.functions}) >= KnownShare * Cardinality(run)
            found == {v \in {value(k) : k \in {j \in spans : read(j)}} : v \notin m.functions \cup m.code /\ D86!PassesCodeFilter(image, v)}
            offered == {o.at : o \in ToSet(answer.offered)}
        IN  /\ offered \subseteq found
            /\ \A o \in ToSet(answer.offered) : ToSet(answer.accepted) \subseteq o.known /\ o.at \notin o.code
            /\ ~D86!Late(image, answer) /\ image.delphi /\ Cardinality(answer.candidates) < image.cap =>
                   found \subseteq offered \cup answer.code

-----------------------------------------------------------------------------
(* What the runs check together.                                            *)

(* Laying a file out, naming its code areas, looking an address up and      *)
(* undoing the layout agree on where every byte is.                         *)
FilesAreMapped ==
    /\ MappingsKeepTheirSize
    /\ SectionsAreAtTheirAddress
    /\ CodeIsInCodeAreas
    /\ SearchFindsTheArea
    /\ UnmappingRestoresTheFile
    /\ LabelsFollowTheMapping

(* What a report says of a function is what its blocks and references make  *)
(* it, and stays so when the report is loaded from any version.             *)
ReportsAreRight ==
    /\ ComponentsReachEachOther
    /\ ClosureIsReachability
    /\ DominatorsAreImmediate
    /\ NestingCountsDecisions
    /\ LoadingKeepsTheGraph
    /\ BothWaysAgree
    /\ BlocksAreFound
    /\ ReferencesAreMirrored
    /\ OutRefsTellLeaves
    /\ HashesAreCurrent
    /\ LoadingIsStable

(* A switch leads to its cases and nowhere else, on each of the             *)
(* architectures: bounds are those of every execution, entries are read as  *)
(* the code reads them; on AArch64 but for an exclusive bound and for signs *)
(* that only the add extends.                                               *)
TablesAreResolved ==
    /\ BoundsHold
    /\ SwitchesAreResolved
    /\ ByteTablesHoldCases
    /\ ArmBoundsHold
    /\ ArmSwitchesAreResolved
    /\ SwitchesOfArm64AreResolved

(* What a register or a stack slot is said to hold, and a call, stub, thunk *)
(* or string taken from it, is what the code computes; of a register loaded *)
(* as w on AArch64, the low half.                                           *)
RegistersAreTracked ==
    /\ TrackingHolds
    /\ StubsAreRecognized
    /\ ConstantsHold
    /\ RegisterCallsFollowTheirPath
    /\ StackStringsAreOnTheStack
    /\ ThunksLeadToTheirSlot

(* A file made from a report loads as what the report says: code, strings,  *)
(* imports, symbols, base and entry do not overwrite each other.            *)
RebuiltFilesLoad ==
    /\ GrowthStopsAtTheNext
    /\ CodeIsRebuilt
    /\ StringsAreBack
    /\ BaseIsKept
    /\ RebuiltCodeIsCode
    /\ ImportsAreFound
    /\ EntryIsKept
    /\ SymbolsAreOfTheirSlots

(* Strings are those of the source: whole, none glued to its neighbour, and *)
(* the same whenever they are read.                                         *)
StringsAreWhole ==
    /\ PairedLengthsAreLive
    /\ LiteralsAreWhole
    /\ TerminatedStringsAreWhole
    /\ ReadsAreRepeatable

(* Functions the exception tables, the calls, the pointers and the frame    *)
(* setups of an image tell of are found at their entries, on budgets that   *)
(* broken records do not use up, and the gap scan agrees with them.         *)
StartsAreFound ==
    /\ FunctionsOfTablesAreFound
    /\ PadsAreDeclared
    /\ FailedReadsAreBounded
    /\ SearchTablesAreRead
    /\ InteriorsAreFound
    /\ DeferredStartsAreUnclaimed
    /\ RecordsAreAdmitted
    /\ CalledStartsStand
    /\ FramesHaveOneEntry
    /\ AddressesAreMade
    /\ PointersAreFollowed
    /\ RecordTablesAreFound
    /\ GapsAreSwept

(* What byte patterns, stubs and tables of an x86 image lead to are its     *)
(* functions: none inside of another, declared starts first, no record      *)
(* trusted beyond the image.                                                *)
PatternsAreStarts ==
    /\ PrologueStartsAreEntries
    /\ ChainsAreStubs
    /\ LimitKeepsTheDeclared
    /\ SkippingStaysInside
    /\ PartsAreNotFunctions
    /\ UnwindTablesAreFound
    /\ MethodTablesAreRead
=============================================================================
