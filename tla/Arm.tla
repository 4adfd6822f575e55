---------------------------------- MODULE Arm ----------------------------------
(***************************************************************************)
(* The recursive disassembler as the AArch32 backend drives it.            *)
(*                                                                         *)
(* Every function is decoded in one instruction set.  What says which one  *)
(* differs in weight and arrives while the analysis runs, so a function    *)
(* decoded in the wrong one is undone and queued again; what it had booked *)
(* meanwhile (bytes, literal pools, candidates) has consequences of its    *)
(* own.  The engine around it is the one module Engine describes; here are *)
(* the steps the backend's classifier, its literal pools and its wrapper   *)
(* of analyzeFunction() add.                                               *)
(*                                                                         *)
(* img is the image:                                                       *)
(*   size, exec       its bytes, and the executable ones ({}: not known)   *)
(*   ins[thumb][a]    what the address decodes as in each instruction set  *)
(*   words            the words the image holds: literals and pointers     *)
(*   relocated        the slots with a relocation ({}: no relocations)     *)
(*   mapping          mapping symbols: "a", "t" or "d" from an address on  *)
(*   dataInCode       addresses a data-in-code record names                *)
(*   thumbRegion      where the bytes around look like Thumb               *)
(*   stubs, container what linker stubs and the file format say            *)
(*   needsDeclaration whether A32 code must be declared to be believed     *)
(*   symbols, entry, exidx   function symbols, entry point, unwind index   *)
(*                                                                         *)
(* Left out: Go images, hoisted entries, import stubs and veneers, pdata   *)
(* ranges, register branches, jump tables, the timeout, and what lies      *)
(* outside the code.  Every block queued here is also a jump target, so    *)
(* the blocks stored hold every instruction booked.                        *)
(***************************************************************************)
EXTENDS ArmModes

CONSTANT Images

Kinds == {"op", "zero", "nop", "trap", "push", "unlink", "ret", "jmp", "cond", "call", "callx",
          "lit", "none"}
Branches == {"jmp", "cond", "call", "callx"}

ImageOk(i) ==
    /\ i.size \in Nat /\ i.exec \subseteq Int /\ i.container \subseteq BOOLEAN
    /\ \A thumb \in BOOLEAN : \A a \in DOMAIN i.ins[thumb] :
          /\ a \in 0..(i.size - 1)
          /\ i.ins[thumb][a].kind \in Kinds \ {"none"}
          /\ i.ins[thumb][a].size \in IF thumb THEN {2, 4} ELSE {4}
          /\ i.ins[thumb][a].target \in Int
    /\ \A slot \in DOMAIN i.words : slot \in Int /\ i.words[slot] \in Int
    /\ \A s \in i.stubs : s.thumb \in BOOLEAN
    /\ i.symbols \in Seq(Int) /\ i.entry \in Seq(Int)
    /\ i.exidx \in Seq([value : Int, opens : SUBSET BOOLEAN])

ASSUME ImagesAssumption == \A i \in Images : ImageOk(i)

VARIABLES
    pass,     \* the pass of locateCandidates() or analyzeBuffer() that runs
    work,     \* what a pass of locateCandidates() has not read yet
    frames,   \* the calls of analyzeFunction() in progress, the last one running
    meta,     \* function_metadata: the instruction set of a function
    pools,    \* _data_bytes: the literal pools a function booked
    gapPtr,   \* gap_pointer
    gaps,     \* where the entries of function_gaps start
    previous, \* previously_analyzed_gap
    cur,      \* the gap candidate under analysis
    history,  \* the instruction set every function was last decoded in
    undone    \* how often a function was undone for its instruction set

vars == <<img, dis, fcm, pass, work, frames, meta, pools, gapPtr, gaps, previous, cur, history, undone>>
results == <<dis, meta, pools, undone>>
scan == <<work, gapPtr, gaps, previous, cur>>

Without(f, S) == [x \in DOMAIN f \ S |-> f[x]]
Functions == DOMAIN dis.functions
Span(addr, size) == addr..(addr + size - 1)
Step(thumb) == IF thumb THEN 2 ELSE 4

-----------------------------------------------------------------------------
(* A call of analyzeFunction(). *)

NewFrame(start, gap, known) ==
    [start |-> start, thumb |-> IsThumb(fcm, start), gap |-> gap,
     queue |-> <<start>>, seen |-> {start}, at |-> NoAddr, prev |-> NoAddr,
     ins |-> {}, bytes |-> {}, current |-> FALSE, blocks |-> 0, zeros |-> 0, sane |-> FALSE,
     data |-> known, repeated |-> known # {}, reverted |-> <<>>, phase |-> "decode"]

Top == frames[Len(frames)]
Decoding == frames # <<>> /\ Top.phase = "decode"
Update(f) == frames' = [frames EXCEPT ![Len(frames)] = f]
Call(f, callee) == frames' = Append([frames EXCEPT ![Len(frames)] = f], callee)

InsAt(f, addr) == At(f.thumb, addr)
Here == InsAt(Top, Top.at)
HereBytes == Span(Top.at, Here.size)
NextAddr(f) == f.at + InsAt(f, f.at).size

AddBlock(f, addr) ==
    IF addr \in f.seen THEN f
    ELSE [f EXCEPT !.queue = Append(@, addr), !.seen = @ \cup {addr}]

EndBlock(f) ==
    [f EXCEPT !.blocks = IF f.current THEN @ + 1 ELSE @, !.current = FALSE,
              !.at = NoAddr, !.prev = NoAddr]

Sane(f) == [f EXCEPT !.sane = TRUE]

(* _cutFunctionBeforeInstruction() *)
Cut(f) == Sane(EndBlock(f))

-----------------------------------------------------------------------------
(* The wrapper: ArmDisassembler.analyzeFunction().                         *)

\* fault: a pool goes with its function, whatever other functions read
OwnPools(p, fns) == UNION {p[fn] : fn \in fns \cap DOMAIN p}

(* What no other function has booked as its own pool.                      *)
OnlyPools(p, fns) ==
    OwnPools(p, fns) \ OwnPools(p, DOMAIN p \ fns)

BytesOf(d, fns) == UNION {d.functions[fn].bytes : fn \in fns}

(* _redecodeInMode()                                                       *)
Redecoded(w, fns) ==
    [dis   |-> [functions |-> Without(w.dis.functions, fns),
                ins2fn |-> Without(w.dis.ins2fn, BytesOf(w.dis, fns)),
                dataMap |-> w.dis.dataMap \ OnlyPools(w.pools, fns)],
     fcm   |-> RequeueInMode(w.fcm, fns),
     meta  |-> Without(w.meta, fns),
     pools |-> Without(w.pools, fns),
     undone |-> [fn \in DOMAIN w.undone \cup fns |->
                    (IF fn \in DOMAIN w.undone THEN w.undone[fn] ELSE 0)
                    + (IF fn \in fns THEN 1 ELSE 0)]]

(* takeModeConflicts(): those that stand in an instruction set not noted.  *)
ToRedecode(d, m, mt) ==
    {fn \in m.conflicts \cap DOMAIN d.functions : mt[fn] # m.modes[fn].thumb}

(* What is done when an analysis of start in this instruction set returns. *)
Wrapped(d, m, start, thumb, data) ==
    LET stored == start \in DOMAIN d.functions
        noted == IF stored THEN With(meta, start, thumb) ELSE meta
        booked == IF stored /\ data # {} THEN With(pools, start, data) ELSE pools
    IN  Redecoded([dis |-> d, fcm |-> [m EXCEPT !.conflicts = {}], meta |-> noted,
                   pools |-> booked, undone |-> undone],
                  ToRedecode(d, m, noted))

Result(w) ==
    /\ dis' = w.dis /\ fcm' = w.fcm /\ meta' = w.meta /\ pools' = w.pools /\ undone' = w.undone

(* An address that is code already is no function.                         *)
Refused(m, start) ==
    Result(Wrapped(dis, Aborted(m, start), start, IsThumb(m, start), {}))

Return(d, m) ==
    /\ frames' = Front(frames)
    /\ Result(Wrapped(d, m, Top.start, Top.thumb, Top.data))

-----------------------------------------------------------------------------
(* Blocks. *)

ChooseBlock ==
    /\ Decoding /\ Top.at = NoAddr /\ Top.queue # <<>>
    /\ Update([Top EXCEPT !.at = Last(Top.queue), !.queue = Front(Top.queue)])
    /\ UNCHANGED <<img, results, fcm, pass, scan, history>>

AtInstruction == Decoding /\ Top.at # NoAddr /\ Here.kind # "none"

LeaveBlock ==
    /\ Decoding /\ Top.at # NoAddr /\ Here.kind = "none"
    /\ Update([Top EXCEPT !.at = NoAddr, !.prev = NoAddr])
    /\ UNCHANGED <<img, results, fcm, pass, scan, history>>

InPool == HereBytes \cap Top.data # {}

CutAtTable ==
    /\ AtInstruction /\ InPool
    /\ Update(Cut(Top))
    /\ UNCHANGED <<img, results, fcm, pass, scan, history>>

SecondZero == Here.kind = "zero" /\ Top.zeros = 1

GiveUp ==
    /\ AtInstruction /\ ~InPool /\ SecondZero
    /\ Return(dis, Aborted(fcm, Top.start))
    /\ UNCHANGED <<img, pass, scan, history>>

Classifying == AtInstruction /\ ~InPool /\ ~SecondZero

Counted(f) == IF Here.kind = "zero" THEN [f EXCEPT !.zeros = @ + 1] ELSE f

(* _recordDataRefs(): a literal load books the pool word it reads.  Its    *)
(* value may be a code pointer.                                            *)
PoolRead(f) ==
    IF Here.kind = "lit" /\ Here.target \in Addresses
    THEN [f EXCEPT !.data = @ \cup Span(Here.target, 4)] ELSE f

HoldsAddress(slot) == img.relocated = {} \/ slot \in img.relocated

PointerRead(m) ==
    IF /\ Here.kind = "lit" /\ Here.target \in DOMAIN img.words /\ HoldsAddress(Here.target)
       /\ PassesCodeFilter(Even(img.words[Here.target]))
    THEN AddPointerCandidate(m, img.words[Here.target], Top.at) ELSE m

Seen == PoolRead(Counted(Top))
Noted == PointerRead(fcm)

-----------------------------------------------------------------------------
(* Where the code runs into something else.                                *)

IsKnownFunctionStart(addr) == addr \in Functions \/ addr \in Noted.strong

RunsIntoDeclaredStart ==
    /\ Top.prev # NoAddr /\ Top.at # Top.start
    /\ Top.at \in fcm.declared /\ ~IsCode(Top.at)

EntersOtherInstructionSet ==
    /\ Top.prev # NoAddr /\ Top.at # Top.start
    /\ \E addr \in HereBytes : /\ addr % 2 = 0 /\ addr \in Noted.strong
                               /\ NotedThumb(Noted, addr, Decoded) = {~Top.thumb}

(* Behind an immediate call that takes no condition. *)
BehindCall == Top.prev # NoAddr /\ InsAt(Top, Top.prev).kind \in {"call", "callx"}

IsPadding(thumb, addr) == At(thumb, addr).kind \in {"zero", "nop", "trap"}

(* _callFallthroughFunctionStart() *)
Behind(addr) ==
    LET units == {n \in 1..8 :
            /\ \A k \in 0..(n - 1) : IsPadding(Top.thumb, addr + k * Step(Top.thumb))
            /\ n = 8 \/ ~IsPadding(Top.thumb, addr + n * Step(Top.thumb))}
    IN  {addr + n * Step(Top.thumb) : n \in units}

FallsIntoFunction ==
    \/ IsKnownFunctionStart(Top.at)
    \/ \E cursor \in Behind(Top.at) :
          \/ IsKnownFunctionStart(cursor)
          \/ WordAligned(cursor) /\ At(Top.thumb, cursor).kind = "push"

CallDoesNotReturn ==
    /\ BehindCall
    /\ \/ Top.at \in Seen.data \cup dis.dataMap
       \/ Here.kind \in {"zero", "trap"}
       \/ FallsIntoFunction

CutHere == RunsIntoDeclaredStart \/ EntersOtherInstructionSet \/ CallDoesNotReturn

CutBlock ==
    /\ Classifying /\ CutHere
    /\ Update(Cut(Seen)) /\ fcm' = Noted
    /\ UNCHANGED <<img, results, pass, scan, history>>

-----------------------------------------------------------------------------
(* An instruction: what its kind says, then whether it is booked.          *)

(* _revertGapFunction() *)
GapOwner(addr) ==
    {fn \in {dis.ins2fn[a] : a \in {addr} \cap DOMAIN dis.ins2fn} :
        /\ fn # Top.start /\ fn \in Functions
        /\ fn \in DOMAIN fcm.candidates /\ fcm.candidates[fn].gap}

\* fault: the undone function keeps its bytes
UngappedKeepingBytes(d, fns) == [d EXCEPT !.functions = Without(@, fns)]

Ungapped(d, fns) ==
    [d EXCEPT !.functions = Without(@, fns),
              !.ins2fn = Without(@, BytesOf(d, fns))]

Booked(f) ==
    [f EXCEPT !.ins = @ \cup {f.at}, !.bytes = @ \cup HereBytes, !.current = TRUE]

Followed(f, ends) ==
    IF ends THEN EndBlock(f) ELSE [f EXCEPT !.prev = f.at, !.at = NextAddr(f)]

Book(f, m, ends) ==
    LET gapFunction == IF Top.gap THEN {} ELSE GapOwner(Top.at)
    IN  IF IsCode(Top.at) /\ gapFunction # {}
        THEN LET fn == CHOOSE g \in gapFunction : TRUE
             IN  /\ Update(Followed(Booked([f EXCEPT !.reverted = Append(@, fn)]), ends))
                 /\ dis' = Ungapped(dis, gapFunction)
                 /\ fcm' = Aborted(m, fn)
        ELSE /\ fcm' = m /\ UNCHANGED dis
             /\ IF IsCode(Top.at) \/ Top.at \in dis.dataMap \cup Top.bytes
                THEN Update(EndBlock(f))
                ELSE Update(Followed(Booked(f), ends))

Classify(kinds) ==
    /\ Classifying /\ ~CutHere /\ Here.kind \in kinds
    /\ UNCHANGED <<img, pass, meta, pools, undone, scan, history>>

BookPlain == Classify({"op", "zero", "nop", "push", "unlink", "lit"}) /\ Book(Seen, Noted, FALSE)

BookEnd == Classify({"ret", "trap"}) /\ Book(Sane(Seen), Noted, TRUE)

(* A branch out of the image; the function is refused when it ends.        *)
BookBranchOut ==
    /\ Classify({"jmp", "cond"}) /\ Here.target \notin Addresses
    /\ Book(IF Here.kind = "cond" THEN AddBlock(Seen, NextAddr(Top)) ELSE Seen, Noted, TRUE)

IsPrologueCandidate(m, addr) == addr \in DOMAIN m.candidates /\ HasCommonFunctionStart(m, addr)

LeavesFunction(target) ==
    \/ Top.ins = {} /\ target # NextAddr(Top)
    \/ target < Top.start
    \/ Top.prev # NoAddr /\ InsAt(Top, Top.prev).kind = "unlink"
    \/ IsPrologueCandidate(Noted, target)

(* _analyzeUncondBranch() *)
BookJump ==
    LET target == Here.target
    IN  /\ Classify({"jmp"}) /\ target \in Addresses
        /\ \/ target \in Functions /\ Book(Sane(Seen), Noted, TRUE)
           \/ /\ target \notin Functions /\ target \in Noted.strong
              /\ Book(Sane(Seen), NoteMode(Noted, target, Top.thumb, Decoded), TRUE)
           \/ /\ target \notin Functions \cup Noted.strong
              /\ IF LeavesFunction(target)
                 THEN Book(Sane(Seen), AddTailcallCandidate(Noted, target, Top.thumb), TRUE)
                 ELSE Book(AddBlock(Seen, target), Noted, TRUE)

(* _analyzeCondBranch() *)
BookCond ==
    LET target == Here.target
        queued == AddBlock(Seen, NextAddr(Top))
    IN  /\ Classify({"cond"}) /\ target \in Addresses
        /\ \/ target \in Functions /\ Book(Sane(queued), Noted, TRUE)
           \/ /\ target \notin Functions /\ target # Top.start /\ target \in fcm.declared
              /\ Book(Sane(queued), NoteMode(Noted, target, Top.thumb, Decoded), TRUE)
           \/ /\ target \notin Functions /\ (target = Top.start \/ target \notin fcm.declared)
              /\ Book(AddBlock(queued, target), Noted, TRUE)

(* _isDataAfterCall() *)
DataBehind(f) ==
    LET next == NextAddr(f)
    IN  next \in f.data \cup dis.dataMap \/ (next + 4 <= img.size /\ InsAt(f, next).kind = "none")

BookCallIns ==
    LET called == AddCallCandidate(Noted, Here.target, CalledThumb(Here.kind, Top.thumb), Top.at)
    IN  /\ Classify({"call", "callx"})
        /\ Book(IF DataBehind(Seen) THEN Sane(Seen) ELSE Seen, called, DataBehind(Seen))

-----------------------------------------------------------------------------
(* The end of an analysis. *)

Walked == Decoding /\ Top.at = NoAddr /\ Top.queue = <<>>

(* A path was decoded into a pool before the load that reads it was: once  *)
(* more, with the pool known.                                              *)
RanIntoPool == ~Top.repeated /\ Top.data \cap Top.bytes # {}

Repeat ==
    /\ Walked /\ RanIntoPool
    /\ Call([Top EXCEPT !.phase = "restore"], NewFrame(Top.start, Top.gap, Top.data))
    /\ UNCHANGED <<img, results, fcm, pass, scan, history>>

BranchesOutsideImage ==
    \E a \in Top.ins : InsAt(Top, a).kind \in Branches /\ InsAt(Top, a).target \notin Addresses

(* finalizeAnalysis() of the backend, then of the engine                   *)
Accepted ==
    /\ ~((Top.gap \/ Top.start \notin fcm.declared) /\ BranchesOutsideImage)
    /\ ~(Top.gap /\ ~Top.sane)
    /\ Top.blocks > 0 /\ Top.start \in Top.ins

Stored ==
    [functions |-> With(dis.functions, Top.start, [ins |-> Top.ins, bytes |-> Top.bytes]),
     ins2fn |-> [b \in DOMAIN dis.ins2fn \cup Top.bytes |->
                    IF b \in Top.bytes THEN Top.start ELSE dis.ins2fn[b]],
     dataMap |-> dis.dataMap \cup Top.data]

Concluded(m) == WithoutCalls(Finished(m, Top.start), Top.bytes \ Top.ins)

StoreFunction ==
    /\ Walked /\ ~RanIntoPool /\ Accepted
    /\ Return(Stored, Concluded(fcm))
    /\ history' = With(history, Top.start, Top.thumb)
    /\ UNCHANGED <<img, pass, scan>>

DropFunction ==
    /\ Walked /\ ~RanIntoPool /\ ~Accepted
    /\ Return(dis, Concluded(fcm))
    /\ UNCHANGED <<img, pass, scan, history>>

(* _restoreRevertedGapFunctions(), behind the repeated pass                *)
Restoring == frames # <<>> /\ Top.phase = "restore"
Reverted == Head(Top.reverted)

RestoreNext ==
    /\ Restoring /\ Top.reverted # <<>>
    /\ IF IsCode(Reverted)
       THEN /\ Update([Top EXCEPT !.reverted = Tail(@)])
            /\ UNCHANGED fcm
       ELSE /\ Call([Top EXCEPT !.phase = "restored"], NewFrame(Reverted, TRUE, {}))
            /\ fcm' = Unaborted(fcm, Reverted)
    /\ UNCHANGED <<img, results, pass, scan, history>>

Settle ==
    /\ frames # <<>> /\ Top.phase = "restored"
    /\ Update([Top EXCEPT !.reverted = Tail(@), !.phase = "restore"])
    /\ fcm' = IF Reverted \in Functions THEN fcm ELSE Aborted(fcm, Reverted)
    /\ UNCHANGED <<img, results, pass, scan, history>>

(* The first pass returns behind the second and writes its own record over *)
(* it; the pools are those of the second already.                          *)
RestoreDone ==
    /\ Restoring /\ Top.reverted = <<>>
    /\ frames' = Front(frames)
    /\ Result(Wrapped(dis, fcm, Top.start, Top.thumb, {}))
    /\ UNCHANGED <<img, pass, scan, history>>

-----------------------------------------------------------------------------
(* locateCandidates(): pass by pass, the items of each in order, then the   *)
(* queue is built.                                                         *)

Following ==
    [symbols |-> "entry", entry |-> "candidates", candidates |-> "declared", declared |-> "opened",
     opened |-> "unwound", unwound |-> "references", references |-> "pointers",
     pointers |-> "prologues"]

Items(p) ==
    CASE p = "symbols" -> DOMAIN img.symbols
      [] p = "entry" -> DOMAIN img.entry
      [] p = "candidates" -> DOMAIN SymbolValues
      [] p \in {"declared", "opened", "unwound"} -> DOMAIN img.exidx
      [] p = "references" -> Calls(TRUE) \cup Calls(FALSE)
      [] p = "pointers" -> PointerSlots
      [] p = "prologues" -> Pushes

Reading(p, n) ==
    /\ pass = p /\ \A k \in work : n <= k
    /\ work' = work \ {n}
    /\ UNCHANGED <<img, results, pass, frames, gapPtr, gaps, previous, cur, history>>

ReadSymbol == \E n \in work : Reading("symbols", n) /\ fcm' = StateSymbol(fcm, img.symbols[n])
ReadEntry == \E n \in work : Reading("entry", n) /\ fcm' = StateEntry(fcm, img.entry[n])
ReadCandidate ==
    \E n \in work : Reading("candidates", n) /\ fcm' = AddSymbolCandidate(fcm, SymbolValues[n])
ReadDeclared == \E n \in work : Reading("declared", n) /\ fcm' = DeclareUnwound(fcm, img.exidx[n])
ReadOpened == \E n \in work : Reading("opened", n) /\ fcm' = ReadOpening(fcm, img.exidx[n])
ReadUnwound == \E n \in work : Reading("unwound", n) /\ fcm' = AddUnwound(fcm, img.exidx[n])
ReadCall == \E n \in work : Reading("references", n) /\ fcm' = BookCallAt(fcm, n)
ReadPointer == \E n \in work : Reading("pointers", n) /\ fcm' = BookPointer(fcm, n)
ReadPrologue == \E n \in work : Reading("prologues", n) /\ fcm' = BookPrologue(fcm, n)

ReadOn ==
    /\ pass \in DOMAIN Following /\ work = {}
    /\ pass' = Following[pass] /\ work' = Items(Following[pass])
    /\ UNCHANGED <<img, results, fcm, frames, gapPtr, gaps, previous, cur, history>>

BuildQueue ==
    /\ pass = "prologues" /\ work = {} /\ pass' = "drain"
    /\ fcm' = [fcm EXCEPT !.queue = DOMAIN fcm.candidates]
    /\ UNCHANGED <<img, results, frames, scan, history>>

-----------------------------------------------------------------------------
(* The candidate queue. *)

AfterDrain == [drain |-> "gap", redrain |-> "done"]
Idle == frames = <<>>

Best(c) == \A o \in fcm.queue : \/ Score(fcm, c) > Score(fcm, o)
                                \/ Score(fcm, c) = Score(fcm, o) /\ c <= o

Dequeued(c) == [fcm EXCEPT !.queue = @ \ {c}]
Eligible(c) == ~fcm.candidates[c].finished /\ Score(fcm, c) > 0

TakeCandidate ==
    /\ Idle /\ pass \in DOMAIN AfterDrain
    /\ \E c \in fcm.queue :
          /\ Best(c) /\ Eligible(c)
          /\ IF IsCode(c)
             THEN Refused(Dequeued(c), c) /\ UNCHANGED frames
             ELSE /\ frames' = <<NewFrame(c, FALSE, {})>> /\ fcm' = Dequeued(c)
                  /\ UNCHANGED results
    /\ UNCHANGED <<img, pass, scan, history>>

PassOver ==
    /\ Idle /\ pass \in DOMAIN AfterDrain
    /\ \E c \in fcm.queue : Best(c) /\ ~Eligible(c) /\ fcm' = Dequeued(c)
    /\ UNCHANGED <<img, results, pass, frames, scan, history>>

-----------------------------------------------------------------------------
(* The gap scan.  Its list is a snapshot of when it starts. *)

Code == DOMAIN dis.ins2fn
End == img.size

(* Sections, as the starts and ends of the runs of executable bytes.       *)
Areas ==
    IF img.exec = {} THEN {<<0, End>>}
    ELSE {r \in {<<a, b + 1>> : a, b \in img.exec} :
            /\ r[1]..(r[2] - 1) \subseteq img.exec
            /\ r[1] - 1 \notin img.exec /\ r[2] \notin img.exec}

Within(addr, area) == area[1] < addr /\ addr < area[2]

FunctionGaps ==
    IF Code = {} THEN {}
    ELSE {area[1] : area \in {x \in Areas : Within(Min(Code), x)}}
         \cup (IF \E x \in Areas : Within(Max(Code), x)
               THEN {IF img.exec = {} THEN Max(Code) + 1 ELSE Max(Code)} ELSE {})
         \cup {a + 1 : a \in {c \in Code \ {0, Max(Code)} : c + 1 \notin Code}}

Least(S, otherwise) == IF S = {} THEN otherwise ELSE Min(S)
NextGap == Least({g \in gaps : g > gapPtr}, End)

(* With dont_skip: never past the end of the function at the pointer.      *)
NextGapBehind ==
    IF gapPtr \in Code
    THEN Min({NextGap, Max(dis.functions[dis.ins2fn[gapPtr]].bytes) + 1})
    ELSE NextGap

OpenGaps ==
    /\ Idle /\ pass = "drain" /\ fcm.queue = {}
    /\ pass' = "gap"
    /\ gaps' = FunctionGaps /\ gapPtr' = Least(FunctionGaps, End)
    /\ UNCHANGED <<img, results, fcm, frames, work, previous, cur, history>>

(* The instruction set is asked for where the pointer stands, before it is *)
(* aligned for that instruction set.                                       *)
GapThumb == IsThumb(fcm, gapPtr)
Stride == Step(GapThumb)
Aligned(addr, unit) == addr + ((unit - (addr % unit)) % unit)
GapAddr == Aligned(gapPtr, Stride)

Scanning == Idle /\ pass = "gap" /\ cur = NoAddr
GapsOver == gapPtr \notin Addresses \/ GapAddr + Stride > End
OutsideCode == img.exec # {} /\ GapAddr \notin img.exec
Filler == GapAddr \in dis.dataMap \/ IsMappedData(GapAddr) \/ IsPadding(GapThumb, GapAddr)

MoveTo(addr) ==
    /\ gapPtr' = addr
    /\ UNCHANGED <<img, results, fcm, pass, work, frames, gaps, previous, cur, history>>

(* Behind code, and behind what was offered last and became no function.   *)
Passed == IsCode(GapAddr) \/ previous = GapAddr

SkipPassed ==
    /\ Scanning /\ ~GapsOver /\ Passed
    /\ MoveTo(Least({g \in gaps : g > GapAddr}, End))

SkipOutside ==
    /\ Scanning /\ ~GapsOver /\ ~Passed /\ OutsideCode
    /\ MoveTo(Least({area[1] : area \in {x \in Areas : x[1] > GapAddr}}, End))

SkipFiller ==
    /\ Scanning /\ ~GapsOver /\ ~Passed /\ ~OutsideCode /\ Filler
    /\ MoveTo(GapAddr + Stride)

Offer ==
    /\ Scanning /\ ~GapsOver /\ ~Passed /\ ~OutsideCode /\ ~Filler
    /\ gapPtr' = GapAddr /\ previous' = GapAddr /\ cur' = GapAddr
    /\ LET offered == AddGapCandidate(NoteMode(fcm, GapAddr, GapThumb, Guess), GapAddr)
       IN  /\ fcm' = offered
           /\ frames' = <<[NewFrame(GapAddr, TRUE, {}) EXCEPT !.thumb = IsThumb(offered, GapAddr)]>>
    /\ UNCHANGED <<img, results, pass, work, gaps, history>>

SettleGap ==
    /\ Idle /\ pass = "gap" /\ cur # NoAddr
    /\ fcm' = IF cur \in Functions THEN fcm ELSE Aborted(fcm, cur)
    /\ gapPtr' = NextGapBehind /\ cur' = NoAddr
    /\ UNCHANGED <<img, results, pass, work, frames, gaps, previous, history>>

CloseGaps ==
    /\ Scanning /\ GapsOver /\ pass' = "redrain"
    /\ UNCHANGED <<img, results, fcm, frames, scan, history>>

Finish ==
    /\ Idle /\ pass = "redrain" /\ fcm.queue = {} /\ pass' = "done"
    /\ UNCHANGED <<img, results, fcm, frames, scan, history>>

-----------------------------------------------------------------------------
Init ==
    /\ img \in Images
    /\ dis = [functions |-> <<>>, ins2fn |-> <<>>, dataMap |-> {}]
    /\ fcm = [modes |-> <<>>, conflicts |-> {}, candidates |-> <<>>, queue |-> {},
              strong |-> {}, declared |-> {}, calls |-> <<>>]
    /\ pass = "symbols" /\ work = DOMAIN img.symbols /\ frames = <<>> /\ meta = <<>> /\ pools = <<>> /\ history = <<>> /\ undone = <<>>
    /\ gapPtr = NoAddr /\ gaps = {} /\ previous = NoAddr /\ cur = NoAddr

Discover ==
    \/ ReadSymbol \/ ReadEntry \/ ReadCandidate \/ ReadDeclared \/ ReadOpened \/ ReadUnwound
    \/ ReadCall \/ ReadPointer \/ ReadPrologue \/ ReadOn \/ BuildQueue
Walk == ChooseBlock \/ LeaveBlock \/ CutAtTable \/ GiveUp \/ CutBlock
BookIns == BookPlain \/ BookEnd \/ BookBranchOut \/ BookJump \/ BookCond \/ BookCallIns
Conclude == Repeat \/ StoreFunction \/ DropFunction \/ RestoreNext \/ Settle \/ RestoreDone
Scan == \/ OpenGaps \/ SkipPassed \/ SkipOutside \/ SkipFiller \/ Offer
        \/ SettleGap \/ CloseGaps
Next == Discover \/ TakeCandidate \/ PassOver \/ Walk \/ BookIns \/ Conclude \/ Scan \/ Finish

Spec == Init /\ [][Next]_vars

-----------------------------------------------------------------------------
(* Properties. *)

FrameOk(f) ==
    /\ f.thumb \in BOOLEAN /\ f.gap \in BOOLEAN /\ f.sane \in BOOLEAN /\ f.repeated \in BOOLEAN
    /\ f.phase \in {"decode", "restore", "restored"}
    /\ f.ins \subseteq f.bytes /\ f.zeros \in 0..1

(* The manager, the results and the calls in progress keep their shape.    *)
TypeOK ==
    /\ pass \in DOMAIN Following \cup {"prologues", "drain", "gap", "redrain", "done"}
    /\ \A k \in DOMAIN frames : FrameOk(frames[k])
    /\ DOMAIN meta \subseteq Addresses /\ DOMAIN pools \subseteq DOMAIN history
    /\ fcm.queue \subseteq DOMAIN fcm.candidates
    /\ \A a \in DOMAIN fcm.modes : fcm.modes[a].thumb \in BOOLEAN

(* Undoing and decoding again leave every byte with one function: the code *)
(* map is what the functions hold, whoever was undone for whom.            *)
OneOwnerPerByte ==
    /\ Code = UNION {dis.functions[fn].bytes : fn \in Functions}
    /\ \A fn \in Functions : \A b \in dis.functions[fn].bytes : dis.ins2fn[b] = fn

(* Code that runs or branches into an entry the image states has reached   *)
(* another function.  What a conditional branch right before the entry     *)
(* falls through to is a block of its own, which is not asked.             *)
DeclaredEntriesStayApart ==
    \A fn \in Functions :
        LET own == dis.functions[fn].ins
            isCond(a) == At(history[fn], a).kind = "cond"
        IN  \A a \in (fcm.declared \cap own) \ {fn} :
                \E b \in own : isCond(b) /\ b + At(history[fn], b).size = a

(* No function is undone twice: what a path decodes weighs the same on     *)
(* every path, and among equals the first statement stands, so two         *)
(* functions that call each other in different instruction sets do not     *)
(* keep undoing each other.                                                *)
UndoneOnce == \A fn \in DOMAIN undone : undone[fn] = 1

-----------------------------------------------------------------------------
(* Conditions.  Some of the properties hold where these do; what each one   *)
(* excludes is said beside it.                                              *)

(* An instruction does not begin outside code and end in it.                *)
NothingStraddles ==
    Classifying =>
        /\ ~IsCode(Top.at) => HereBytes \cap Code = {}
        /\ IsCode(Top.at) /\ ~Top.gap =>
              \A fn \in GapOwner(Top.at) : HereBytes \cap Code \subseteq dis.functions[fn].bytes

(* A gap function does not run over an entry, and a conditional branch      *)
(* before an entry is not in what is booked already.                        *)
EntriesAreNotAbsorbed == Classifying /\ Top.at \in fcm.declared => GapOwner(Top.at) = {}

BranchesAreBooked ==
    Classifying /\ Here.kind = "cond" /\ NextAddr(Top) \in fcm.declared =>
        Top.at \in Top.ins \/ ~(IsCode(Top.at) \/ Top.at \in dis.dataMap \cup Top.bytes)

(* No two functions share a byte, and none runs on into an entry that the   *)
(* image declares.                                                          *)
EntriesAreApart ==
    /\ OneOwnerPerByte
    /\ DeclaredEntriesStayApart
=============================================================================
