--------------------------------- MODULE Engine ---------------------------------
(***************************************************************************)
(* The recursive disassembler: smda/common/RecursiveDisassembler.py with   *)
(* the x86 control-flow rules of smda/intel/X86Backend.py, the candidate   *)
(* bookkeeping of smda/common/FunctionCandidateManager.py, the results of  *)
(* smda/DisassemblyResult.py and smda/common/TailcallAnalyzer.py.          *)
(*                                                                         *)
(* analyzeBuffer() runs its passes one after the other; each pass calls    *)
(* analyzeFunction(), which decodes one block after the other and may call *)
(* itself again.  The calls in progress are a stack of frames, the last    *)
(* one running.  An action is one loop iteration of the code: a candidate  *)
(* taken, a block chosen, an instruction classified, an instruction booked.*)
(*                                                                         *)
(* The image is an input.  What decodes where, which candidates the        *)
(* discovery heuristics found and what evidence each has is its content,   *)
(* chosen once in Init.  Addresses are byte addresses.                     *)
(***************************************************************************)
EXTENDS FunctionState

CONSTANTS
    Images,             \* the images analysed
    RESOLVE_TAILCALLS,  \* SmdaConfig.RESOLVE_TAILCALLS
    BudgetLimited,      \* whether the caller's timeout callback can ever trip
    PollBlocks          \* _TIMEOUT_POLL_BLOCKS

(***************************************************************************)
(* ins        what decodes at an address: a partial function               *)
(* extent     the addresses of the mapped image                            *)
(* candidates the function candidates located before analysis              *)
(* callRefs   call sites found by the reference scan, as <<site, target>>  *)
(* score      the part of an address's score its bytes and flags give      *)
(* evidence   candidates with a symbol, record or stub behind them         *)
(* padded     aligned addresses behind padding                             *)
(* pads       addresses that hold an indirect-branch landing pad           *)
(* deferred, late  what the deferred and late candidate sources name       *)
(***************************************************************************)
ImageOk(i) ==
    /\ DOMAIN i.ins \subseteq Nat
    /\ \A a \in DOMAIN i.ins :
          /\ i.ins[a] \in Instruction
          /\ i.ins[a].kind \in {"jmp", "cjmp", "loop", "pad"} => i.ins[a].target \in Nat
    /\ i.extent \subseteq Nat /\ i.candidates \subseteq Nat
    /\ \A r \in i.callRefs : r \in Nat \X Nat
    /\ i.deferred \in Seq(Nat) /\ i.late \in Seq(Nat)

ASSUME EngineAssumption ==
    /\ \A i \in Images : ImageOk(i)
    /\ RESOLVE_TAILCALLS \in BOOLEAN
    /\ BudgetLimited \in BOOLEAN
    /\ PollBlocks \in Nat \ {0}

VARIABLES
    img,      \* the image under analysis
    pass,     \* the pass of analyzeBuffer() that is running
    frames,   \* the calls of analyzeFunction() in progress
    dis,      \* the DisassemblyResult
    fcm,      \* the FunctionCandidateManager
    tca,      \* the TailcallAnalyzer
    work,     \* what is left of the source being walked, as <<position, start>>
    cur,      \* the gap candidate being analysed
    gapPtr,   \* where the gap scan continues
    timeout   \* disassembly.analysis_timeout

vars == <<img, pass, frames, dis, fcm, tca, work, cur, gapPtr, timeout>>

-----------------------------------------------------------------------------
(* DisassemblyResult *)

Without(f, S) == [x \in DOMAIN f \ S |-> f[x]]
Constantly(S, v) == [x \in S |-> v]
Over(f, g) == [x \in DOMAIN f \cup DOMAIN g |-> IF x \in DOMAIN f THEN f[x] ELSE g[x]]
With(g, x, v) == Over(Constantly({x}, v), g)

BytesOf(addrs) == UNION {Bytes(a, img.ins[a].size) : a \in addrs}

IsCode(addr) == addr \in DOMAIN dis.ins2fn

StoredIns(d, fn) == UNION {d.functions[fn][b] : b \in DOMAIN d.functions[fn]}

EmptyResult == [functions |-> <<>>, ins2fn |-> <<>>, instructions |-> {},
                borders |-> <<>>, codeRefs |-> {}, dataMap |-> {}]

\* fault: the function takes everything between its first and its last byte
StoredWholeRange(d, s) ==
    LET bytes == BytesOf(s.ins)
    IN  [functions    |-> With(d.functions, s.start, GetBlocks(s, img.ins)),
         ins2fn       |-> Over(Constantly(Min(bytes)..Max(bytes), s.start), d.ins2fn),
         instructions |-> d.instructions \cup s.ins,
         borders      |-> With(d.borders, s.start, <<Min(bytes), Max(bytes) + 1>>),
         codeRefs     |-> d.codeRefs \cup RefsAfterBlocks(s, img.ins),
         dataMap      |-> d.dataMap \cup s.data]

(* _finalizeRegularAnalysis() *)
Stored(d, s) ==
    LET bytes == BytesOf(s.ins)
    IN  [functions    |-> With(d.functions, s.start, GetBlocks(s, img.ins)),
         ins2fn       |-> Over(Constantly(bytes, s.start), d.ins2fn),
         instructions |-> d.instructions \cup s.ins,
         borders      |-> With(d.borders, s.start, <<Min(bytes), Max(bytes) + 1>>),
         codeRefs     |-> d.codeRefs \cup RefsAfterBlocks(s, img.ins),
         dataMap      |-> d.dataMap \cup s.data]

(* revertAnalysis() of a state holding these instructions and references *)
Reverted(d, fn, ins, refs) ==
    [functions    |-> Without(d.functions, {fn}),
     ins2fn       |-> Without(d.ins2fn, BytesOf(ins)),
     instructions |-> d.instructions \ ins,
     borders      |-> Without(d.borders, {fn}),
     codeRefs     |-> d.codeRefs \ refs,
     dataMap      |-> d.dataMap]

(* _revertStoredFunction(): the state is rebuilt from the stored blocks *)
RevertStored(d, fn, withRefs) ==
    Reverted(d, fn, StoredIns(d, fn),
             IF withRefs THEN {r \in d.codeRefs : r[1] \in StoredIns(d, fn)} ELSE {})

-----------------------------------------------------------------------------
(* FunctionCandidateManager *)

NewCandidate == [finished |-> FALSE, aborted |-> FALSE, gap |-> FALSE,
                 tailcall |-> FALSE, callRefs |-> {}]

Ensured(m, addrs) ==
    [m EXCEPT !.candidates = Over(m.candidates, Constantly(addrs, NewCandidate))]

Score(m, addr) == img.score[addr] + 10 * Cardinality(m.candidates[addr].callRefs)

Aborted(m, addr) ==
    IF addr \in DOMAIN m.candidates
    THEN [m EXCEPT !.candidates[addr].finished = TRUE, !.candidates[addr].aborted = TRUE]
    ELSE m

Unaborted(m, addr) ==
    IF addr \in DOMAIN m.candidates
    THEN [m EXCEPT !.candidates[addr].aborted = FALSE] ELSE m

Finished(m, addr) ==
    IF addr \in DOMAIN m.candidates
    THEN [m EXCEPT !.candidates[addr].finished = TRUE] ELSE m

(* addCandidate() for every address, with the call sites found for it, as  *)
(* <<site, address>>.                                                      *)
AddCandidates(m, addrs, isGap, sites) ==
    LET e == Ensured(m, addrs)
        sitesOf(c) == {r[1] : r \in {x \in sites : x[2] = c}}
    IN  [candidates |-> [c \in DOMAIN e.candidates |->
             IF c \in addrs
             THEN [e.candidates[c] EXCEPT !.gap = isGap, !.callRefs = @ \cup sitesOf(c)]
             ELSE e.candidates[c]],
         offsets     |-> m.offsets,
         queue       |-> m.queue \cup addrs,
         allCallRefs |-> Over([src \in {r[1] : r \in sites} |->
                                  (CHOOSE r \in sites : r[1] = src)[2]], m.allCallRefs)]

(* updateCandidates(): a call inside an instruction of this function is none. *)
UpdateCandidates(m, s) ==
    LET inner == (s.bytes \ s.ins) \cap DOMAIN m.allCallRefs
    IN  [m EXCEPT !.candidates =
            [c \in DOMAIN m.candidates |->
                [m.candidates[c] EXCEPT !.callRefs =
                    @ \ {src \in inner : m.allCallRefs[src] = c}]]]

HasEntryEvidence(addr) ==
    \/ addr \in img.evidence \cup img.pads
    \/ fcm.candidates[addr].callRefs # {}
    \/ fcm.candidates[addr].tailcall

IsEvidencedEntry(addr) ==
    addr \in DOMAIN fcm.candidates => HasEntryEvidence(addr) \/ addr \in img.padded

(* The code from the fall-through runs without a gap, padding or another   *)
(* function up to the body, and ends there in a return.                    *)
IsBodyBehindReturn(addr, start, fallThrough) ==
    /\ start < fallThrough /\ fallThrough < addr
    /\ \E run \in SUBSET (fallThrough .. addr - 1) :
          /\ fallThrough \in run
          /\ run \subseteq DOMAIN img.ins \ DOMAIN dis.functions
          /\ \A a \in run :
                LET next == a + img.ins[a].size
                IN  /\ img.ins[a].kind \notin {"nop", "pad"}
                    /\ \/ next \in run
                       \/ next = addr /\ img.ins[a].kind = "ret"

-----------------------------------------------------------------------------
(* Frames *)

\* fault: the tables found before are forgotten
FrameForgettingTables(start, asGap, tableKnown, table) ==
    [phase |-> "enter", st |-> NewState(start), asGap |-> asGap, tableKnown |-> tableKnown,
     pc |-> start, prev |-> NoAddr, blocks |-> 0,
     todo |-> <<>>, gapReverts |-> <<>>, completed |-> FALSE]

Frame(start, asGap, tableKnown, table) ==
    [phase |-> "enter", st |-> AddTable(NewState(start), table),
     asGap |-> asGap, tableKnown |-> tableKnown,
     pc |-> start, prev |-> NoAddr, blocks |-> 0,
     todo |-> <<>>, gapReverts |-> <<>>, completed |-> FALSE]

Running == frames # <<>>
Top == frames[Len(frames)]
At(phase) == Running /\ Top.phase = phase

Replace(f) == frames' = [frames EXCEPT ![Len(frames)] = f]
Call(f, callee) == frames' = Append([frames EXCEPT ![Len(frames)] = f], callee)
Return == frames' = SubSeq(frames, 1, Len(frames) - 1)

\* fault: what the frame undid is left undone
ConcludingForgetful(f) == [f EXCEPT !.phase = "restoreAbsorbed", !.todo = <<>>]

(* What is left to do for a frame: analyse again what it undid. *)
Concluding(f) == [f EXCEPT !.phase = "restoreAbsorbed", !.todo = f.st.absorbed]

(***************************************************************************)
(* The analysis budget: smda/common/analysis_budget.py.  A poll answers    *)
(* from the latched verdict first, then from the caller's callback.        *)
(***************************************************************************)
Trips    == (timeout \/ BudgetLimited) /\ timeout' = TRUE
\* fault: the verdict given before is not consulted
NotTripsUnlatched == UNCHANGED timeout
NotTrips == ~timeout /\ timeout' = FALSE

-----------------------------------------------------------------------------
(* analyzeFunction(): entry, the block loop, and the ways a block ends     *)
(* without an instruction being classified.                                *)

Enter ==
    /\ At("enter")
    /\ ~IsCode(Top.st.start)
    /\ tca' = [tca EXCEPT !.tmp = {}]
    /\ Replace([Top EXCEPT !.phase = "block"])
    /\ UNCHANGED <<img, pass, dis, fcm, work, cur, gapPtr, timeout>>

(* The start is already code of a function: nothing to analyse. *)
Refuse ==
    /\ At("enter")
    /\ IsCode(Top.st.start)
    /\ tca' = [tca EXCEPT !.tmp = {}]
    /\ fcm' = Aborted(fcm, Top.st.start)
    /\ Return
    /\ UNCHANGED <<img, pass, dis, work, cur, gapPtr, timeout>>

PollDue == (Top.blocks + 1) % PollBlocks = 0

ChooseBlock ==
    /\ At("block")
    /\ Top.st.queued # {}
    /\ IF PollDue THEN NotTrips ELSE UNCHANGED timeout
    /\ Replace([Top EXCEPT !.phase = "decode", !.blocks = Top.blocks + 1,
                           !.st = ChooseNextBlock(Top.st),
                           !.pc = NextQueued(Top.st), !.prev = NoAddr])
    /\ UNCHANGED <<img, pass, dis, fcm, tca, work, cur, gapPtr>>

(* The budget is spent: what was decoded so far is what the function gets. *)
TimeoutInFunction ==
    /\ At("block")
    /\ Top.st.queued # {}
    /\ PollDue
    /\ Trips
    /\ Replace([Top EXCEPT !.phase = "decoded", !.blocks = Top.blocks + 1])
    /\ UNCHANGED <<img, pass, dis, fcm, tca, work, cur, gapPtr>>

NoBlockLeft ==
    /\ At("block")
    /\ Top.st.queued = {}
    /\ Replace([Top EXCEPT !.phase = "decoded"])
    /\ UNCHANGED <<img, pass, dis, fcm, tca, work, cur, gapPtr, timeout>>

Decodable == Top.pc \in DOMAIN img.ins
Here == img.ins[Top.pc]
NextPc == Top.pc + Here.size
PrevIs(kinds) == Top.prev # NoAddr /\ img.ins[Top.prev].kind \in kinds

HitsTable == Top.st.table \cap Bytes(Top.pc, Here.size) # {}
TooSuspicious == Here.kind = "zero" /\ Top.st.suspicious > 0

(* No instruction decodes here: the block is left as it is. *)
RunsOut ==
    /\ At("decode")
    /\ ~Decodable
    /\ Replace([Top EXCEPT !.phase = "block"])
    /\ UNCHANGED <<img, pass, dis, fcm, tca, work, cur, gapPtr, timeout>>

(* A table this function reads is not code, however its bytes decode. *)
CutAtTable ==
    /\ At("decode") /\ Decodable /\ HitsTable
    /\ LET unlinked == IF Top.prev # NoAddr
                       THEN RemoveCodeRef(Top.st, Top.prev, Top.pc) ELSE Top.st
       IN  Replace([Top EXCEPT !.phase = "block",
                        !.st = SetSanelyEnding(EndBlock(SetBlockEnding(unlinked)))])
    /\ UNCHANGED <<img, pass, dis, fcm, tca, work, cur, gapPtr, timeout>>

(* A second all-zero instruction: this is no function. *)
AbortSuspicious ==
    /\ At("decode") /\ Decodable /\ ~HitsTable /\ TooSuspicious
    /\ fcm' = Aborted(fcm, Top.st.start)
    /\ Replace(Concluding([Top EXCEPT !.st.suspicious = Top.st.suspicious + 1]))
    /\ UNCHANGED <<img, pass, dis, tca, work, cur, gapPtr, timeout>>

(* A landing pad reached through padding starts the next function. *)
LandingPadCut ==
    /\ Here.kind = "endbr"
    /\ PrevIs({"nop"})
    /\ Top.pc # Top.st.start
    /\ Top.pc \in img.padded \cap DOMAIN fcm.candidates
    /\ Top.st.maxStart <= Top.pc

(* Padding, or a candidate behind a call, ends the function unless it has  *)
(* booked instructions further on.                                         *)
PaddingCut ==
    /\ Here.kind \in Plain
    /\ Top.prev # NoAddr
    /\ Top.pc # Top.st.start
    /\ PrevIs(Calls) \/ Here.kind = "pad"
    /\ Here.kind = "pad" \/ Top.pc \in DOMAIN fcm.candidates
    /\ Top.st.maxStart <= Top.pc

Classifiable == At("decode") /\ Decodable /\ ~HitsTable /\ ~TooSuspicious

(* The state as analyzeInstruction() receives it. *)
Counted == [Top.st EXCEPT !.reachable = TRUE,
                          !.suspicious = IF Here.kind = "zero" THEN @ + 1 ELSE @]

CutAtLandingPad ==
    /\ Classifiable /\ LandingPadCut
    /\ Replace([Top EXCEPT !.phase = "block",
                           !.st = SetSanelyEnding(EndBlock(SetBlockEnding(Counted)))])
    /\ UNCHANGED <<img, pass, dis, fcm, tca, work, cur, gapPtr, timeout>>

CutAtPadding ==
    /\ Classifiable /\ ~LandingPadCut /\ PaddingCut
    /\ LET unlinked == RemoveCodeRef(Counted, Top.prev, Top.pc)
       IN  Replace([Top EXCEPT !.phase = "block",
                        !.st = SetSanelyEnding(EndBlock(SetBlockEnding(unlinked)))])
    /\ fcm' = IF Here.kind = "pad" THEN AddCandidates(fcm, {Here.target}, TRUE, {}) ELSE fcm
    /\ UNCHANGED <<img, pass, dis, tca, work, cur, gapPtr, timeout>>

-----------------------------------------------------------------------------
(* analyzeInstruction(), one action per kind of instruction                *)

Classified(s) == Replace([Top EXCEPT !.phase = "book", !.st = s])

JumpTo(s, target) ==
    IF target \in img.extent
    THEN AddCodeRef(AddBlockToQueue(s, target), Top.pc, target, TRUE) ELSE s

AnalyzePlain ==
    /\ Classifiable /\ ~LandingPadCut /\ ~PaddingCut
    /\ Here.kind \in Plain
    /\ Classified(Counted)
    /\ UNCHANGED <<img, pass, dis, fcm, tca, work, cur, gapPtr, timeout>>

AnalyzeCall ==
    /\ Classifiable
    /\ Here.kind = "call"
    /\ Classified(IF Here.target \in img.extent
                  THEN AddCodeRef(Counted, Top.pc, Here.target, FALSE) ELSE Counted)
    /\ UNCHANGED <<img, pass, dis, fcm, tca, work, cur, gapPtr, timeout>>

AnalyzeRegisterCall ==
    /\ Classifiable
    /\ Here.kind = "rcall"
    /\ Classified([Counted EXCEPT !.regCalls = Counted.regCalls \cup {Top.pc}])
    /\ UNCHANGED <<img, pass, dis, fcm, tca, work, cur, gapPtr, timeout>>

AnalyzeLoop ==
    /\ Classifiable
    /\ Here.kind = "loop"
    /\ LET taken == AddCodeRef(AddBlockToQueue(Counted, Here.target), Top.pc, Here.target, TRUE)
       IN  Classified(SetBlockEnding(AddBlockToQueue(taken, NextPc)))
    /\ UNCHANGED <<img, pass, dis, fcm, tca, work, cur, gapPtr, timeout>>

AnalyzeReturn ==
    /\ Classifiable
    /\ Here.kind = "ret"
    /\ Classified(JumpTo(EndInstruction(Counted), Here.target))
    /\ UNCHANGED <<img, pass, dis, fcm, tca, work, cur, gapPtr, timeout>>

AnalyzeJmp ==
    /\ Classifiable
    /\ Here.kind = "jmp"
    /\ LET known == CASE Here.target \in DOMAIN dis.functions -> SetSanelyEnding(Counted)
                      [] Here.target \notin DOMAIN dis.functions
                         /\ (Here.target \in fcm.offsets \/ Counted.ins = {}) -> Counted
                      [] OTHER -> AddBlockToQueue(Counted, Here.target)
           linked == AddCodeRef(known, Top.pc, Here.target, TRUE)
       IN  Classified([linked EXCEPT !.reachable = FALSE, !.ending = TRUE])
    /\ tca' = [tca EXCEPT !.tmp = @ \cup {<<Top.pc, Here.target>>}]
    /\ UNCHANGED <<img, pass, dis, fcm, work, cur, gapPtr, timeout>>

CondTaken(s) == SetBlockEnding(AddCodeRef(s, Top.pc, Here.target, TRUE))

(* absorbFunction() undoes a function of the candidate order, never one of *)
(* the gap scan.                                                           *)
Absorbs(addr) ==
    /\ addr \in DOMAIN dis.functions
    /\ ~IsEvidencedEntry(addr)
    /\ IsBodyBehindReturn(addr, Top.st.start, NextPc)
    /\ addr # Top.st.start
    /\ addr \in DOMAIN fcm.candidates
    /\ ~fcm.candidates[addr].gap

AnalyzeCondJmp ==
    /\ Classifiable
    /\ Here.kind = "cjmp"
    /\ ~Absorbs(Here.target)
    /\ LET fall == AddBlockToQueue(Counted, NextPc)
           taken == CASE Here.target \in DOMAIN dis.functions -> SetSanelyEnding(fall)
                      [] /\ Here.target \notin DOMAIN dis.functions
                         /\ Here.target \in fcm.offsets
                         /\ IsEvidencedEntry(Here.target) -> fall
                      [] OTHER -> AddBlockToQueue(fall, Here.target)
       IN  Classified(CondTaken(taken))
    /\ tca' = [tca EXCEPT !.tmp = @ \cup {<<Top.pc, Here.target>>}]
    /\ UNCHANGED <<img, pass, dis, fcm, work, cur, gapPtr, timeout>>

Discard(fns, start) == Without(fns, {i \in DOMAIN fns : fns[i].start = start})

(* The branch reaches a body behind an early return that was analysed      *)
(* first: that function is undone and decoded as part of this one.         *)
AnalyzeCondJmpAbsorbing ==
    /\ Classifiable
    /\ Here.kind = "cjmp"
    /\ Absorbs(Here.target)
    /\ LET fall == AddBlockToQueue(Counted, NextPc)
           undone == [fall EXCEPT !.absorbed = Append(fall.absorbed, Here.target)]
       IN  Classified(CondTaken(AddBlockToQueue(undone, Here.target)))
    /\ dis' = RevertStored(dis, Here.target, TRUE)
    /\ fcm' = Aborted(fcm, Here.target)
    /\ tca' = [tca EXCEPT !.tmp = @ \cup {<<Top.pc, Here.target>>},
                          !.fns = Discard(@, Here.target)]
    /\ UNCHANGED <<img, pass, work, cur, gapPtr, timeout>>

AnalyzeTableJmp ==
    /\ Classifiable
    /\ Here.kind = "jtab"
    /\ Replace([Top EXCEPT !.phase = "dispatch", !.todo = Here.cases,
                           !.st = AddTable(Counted, Here.table)])
    /\ UNCHANGED <<img, pass, dis, fcm, tca, work, cur, gapPtr, timeout>>

DispatchCase ==
    /\ At("dispatch")
    /\ Top.todo # <<>>
    /\ Replace([Top EXCEPT !.todo = Tail(Top.todo), !.st = JumpTo(Top.st, Head(Top.todo))])
    /\ UNCHANGED <<img, pass, dis, fcm, tca, work, cur, gapPtr, timeout>>

Dispatched ==
    /\ At("dispatch")
    /\ Top.todo = <<>>
    /\ Classified([Top.st EXCEPT !.reachable = FALSE, !.ending = TRUE])
    /\ UNCHANGED <<img, pass, dis, fcm, tca, work, cur, gapPtr, timeout>>

-----------------------------------------------------------------------------
(* Booking the classified instruction, unless something owns its address.  *)

Booked(f, s) ==
    IF s.ending
    THEN [f EXCEPT !.phase = "block", !.st = EndBlock(s), !.prev = Top.pc]
    ELSE [f EXCEPT !.phase = "decode", !.st = s, !.prev = Top.pc, !.pc = NextPc]

BookFree ==
    /\ At("book")
    /\ ~IsCode(Top.pc) /\ Top.pc \notin dis.dataMap \cup Top.st.bytes
    /\ Replace(Booked(Top, AddInstruction(Top.st, Top.pc, Here.size)))
    /\ UNCHANGED <<img, pass, dis, fcm, tca, work, cur, gapPtr, timeout>>

BookAgain ==
    /\ At("book")
    /\ ~IsCode(Top.pc) /\ Top.pc \in dis.dataMap \cup Top.st.bytes
    /\ Replace(Booked(Top, SetBlockEnding(Top.st)))
    /\ UNCHANGED <<img, pass, dis, fcm, tca, work, cur, gapPtr, timeout>>

\* fault: landing pads are not respected
RevertsAnyGapFunction ==
    LET owner == dis.ins2fn[Top.pc]
    IN  /\ ~Top.asGap
        /\ owner # Top.st.start
        /\ owner \in DOMAIN fcm.candidates
        /\ fcm.candidates[owner].gap
        /\ owner \in DOMAIN dis.functions

(* The owner is a function of the gap scan, which claimed the address      *)
(* before this function was known, and no landing pad marks its entry.     *)
RevertsGapFunction ==
    LET owner == dis.ins2fn[Top.pc]
    IN  /\ ~Top.asGap
        /\ owner # Top.st.start
        /\ owner \in DOMAIN fcm.candidates
        /\ fcm.candidates[owner].gap
        /\ owner \notin img.pads
        /\ owner \in DOMAIN dis.functions

BookOverGapFunction ==
    /\ At("book")
    /\ IsCode(Top.pc) /\ RevertsGapFunction
    /\ LET owner == dis.ins2fn[Top.pc]
       IN  /\ dis' = RevertStored(dis, owner, FALSE)
           /\ fcm' = Aborted(fcm, owner)
           /\ Replace([Booked(Top, AddInstruction(Top.st, Top.pc, Here.size))
                          EXCEPT !.gapReverts = Append(Top.gapReverts, owner)])
    /\ UNCHANGED <<img, pass, tca, work, cur, gapPtr, timeout>>

BookCollision ==
    /\ At("book")
    /\ IsCode(Top.pc) /\ ~RevertsGapFunction
    /\ Replace(Booked(Top, AddCollision(SetBlockEnding(Top.st), Top.pc)))
    /\ UNCHANGED <<img, pass, dis, fcm, tca, work, cur, gapPtr, timeout>>

-----------------------------------------------------------------------------
(* The end of analyzeFunction().                                           *)

RanIntoTable == ~Top.tableKnown /\ Top.st.table \cap Top.st.bytes # {}

(* A path ran into a table before the dispatch that reads the table was    *)
(* decoded: once more, with the tables known.                              *)
DecodeAgain ==
    /\ At("decoded")
    /\ RanIntoTable
    /\ Call([Top EXCEPT !.phase = "restoreGaps", !.todo = Top.gapReverts],
            Frame(Top.st.start, Top.asGap, TRUE, Top.st.table))
    /\ UNCHANGED <<img, pass, dis, fcm, tca, work, cur, gapPtr, timeout>>

JmpMnemonic == {"jmp", "jtab"}
IsShort(i) == i.kind = "jmp" /\ i.size = 2

(* The two shapes finalizeAnalysis() takes from the gap scan although the  *)
(* decode did not end sanely: a lone jmp, and one block ending in a branch *)
(* or a call.                                                              *)
GapStub(s) ==
    LET lone == Cardinality(s.ins) = 1 /\ \A a \in s.ins : img.ins[a].kind \in JmpMnemonic
    IN  \/ lone /\ \A a \in s.ins : ~IsShort(img.ins[a])
        \/ ~lone /\ s.numBlocks = 1 /\ img.ins[s.lastIns].kind \in JmpMnemonic \cup Calls

Accepts(s, asGap) ==
    /\ asGap => s.sane \/ GapStub(s)
    /\ s.numBlocks > 0 => s.start \in s.ins

(* resolveRegisterCalls(): the calls whose register a preceding            *)
(* instruction of the function loaded, each naming a candidate.            *)
ResolvedCalls(s) ==
    {a \in s.regCalls : /\ img.ins[a].target \in img.extent
                        /\ \E b \in BlockStarts(s) : a \in GetBlocks(s, img.ins)[b]}

WithResolvedCalls(m, calls) ==
    AddCandidates(m, {img.ins[a].target : a \in calls}, FALSE,
                  {<<a, img.ins[a].target>> : a \in calls})

KeepFunction ==
    /\ At("decoded")
    /\ ~RanIntoTable
    /\ Accepts(Top.st, Top.asGap)
    /\ dis' = IF Top.st.numBlocks > 0 THEN Stored(dis, Top.st) ELSE dis
    /\ \E calls \in {ResolvedCalls(Top.st)} : fcm' = WithResolvedCalls(fcm, calls)
    /\ tca' = IF RESOLVE_TAILCALLS
              THEN [jumps |-> tca.jumps \cup tca.tmp, tmp |-> {},
                    fns |-> With(tca.fns, Max(DOMAIN tca.fns \cup {0}) + 1,
                                [start |-> Top.st.start, ins |-> Top.st.ins,
                                 refs |-> RefsAfterBlocks(Top.st, img.ins),
                                 isTailcall |-> FALSE]),
                    calls |-> tca.calls, created |-> tca.created]
              ELSE tca
    /\ Replace(Concluding([Top EXCEPT !.completed = TRUE]))
    /\ UNCHANGED <<img, pass, work, cur, gapPtr, timeout>>

RejectFunction ==
    /\ At("decoded")
    /\ ~RanIntoTable
    /\ ~Accepts(Top.st, Top.asGap)
    /\ Replace(Concluding([Top EXCEPT !.completed = TRUE]))
    /\ UNCHANGED <<img, pass, dis, fcm, tca, work, cur, gapPtr, timeout>>

(* _restoreRevertedGapFunctions() *)
RestoreGapFunction ==
    /\ At("restoreGaps")
    /\ Top.todo # <<>>
    /\ IF IsCode(Head(Top.todo))
       THEN /\ Replace([Top EXCEPT !.todo = Tail(Top.todo)])
            /\ fcm' = fcm
       ELSE /\ Call([Top EXCEPT !.phase = "restoredGap"],
                    Frame(Head(Top.todo), TRUE, FALSE, {}))
            /\ fcm' = Unaborted(fcm, Head(Top.todo))
    /\ UNCHANGED <<img, pass, dis, tca, work, cur, gapPtr, timeout>>

RestoredGapFunction ==
    /\ At("restoredGap")
    /\ fcm' = IF Head(Top.todo) \in DOMAIN dis.functions THEN fcm
              ELSE Aborted(fcm, Head(Top.todo))
    /\ Replace([Top EXCEPT !.phase = "restoreGaps", !.todo = Tail(Top.todo)])
    /\ UNCHANGED <<img, pass, dis, tca, work, cur, gapPtr, timeout>>

GapFunctionsRestored ==
    /\ At("restoreGaps")
    /\ Top.todo = <<>>
    /\ Replace(Concluding(Top))
    /\ UNCHANGED <<img, pass, dis, fcm, tca, work, cur, gapPtr, timeout>>

(* _restoreAbsorbedFunctions() *)
RestoreAbsorbed ==
    /\ At("restoreAbsorbed")
    /\ Top.todo # <<>>
    /\ IF IsCode(Head(Top.todo))
       THEN /\ Replace([Top EXCEPT !.todo = Tail(Top.todo)])
            /\ fcm' = fcm
       ELSE /\ Call([Top EXCEPT !.todo = Tail(Top.todo)],
                    Frame(Head(Top.todo), FALSE, FALSE, {}))
            /\ fcm' = Unaborted(fcm, Head(Top.todo))
    /\ UNCHANGED <<img, pass, dis, tca, work, cur, gapPtr, timeout>>

ReturnFromFunction ==
    /\ At("restoreAbsorbed")
    /\ Top.todo = <<>>
    /\ fcm' = IF Top.completed
              THEN UpdateCandidates(Finished(fcm, Top.st.start), Top.st) ELSE fcm
    /\ Return
    /\ UNCHANGED <<img, pass, dis, tca, work, cur, gapPtr, timeout>>

-----------------------------------------------------------------------------
(* analyzeBuffer(): the passes.                                            *)

AfterDrain == [heuristic |-> "deferredStart", gapDrain |-> "lateStart",
               lateDrain |-> IF RESOLVE_TAILCALLS THEN "tailcallStart" ELSE "finish",
               tailcallDrain |-> "finish"]

Draining == ~Running /\ pass \in DOMAIN AfterDrain

Best(c) == \A o \in fcm.queue : \/ Score(fcm, c) > Score(fcm, o)
                                \/ Score(fcm, c) = Score(fcm, o) /\ c <= o

Eligible(c) == ~fcm.candidates[c].finished /\ Score(fcm, c) # 0

\* fault: the candidate is looked at but not taken
DequeueNothing(c) == fcm' = fcm
Dequeue(c) == fcm' = [fcm EXCEPT !.queue = @ \ {c}]

TakeCandidate ==
    /\ Draining
    /\ \E c \in fcm.queue :
          /\ Best(c)
          /\ Dequeue(c)
          /\ IF Eligible(c)
             THEN NotTrips /\ frames' = <<Frame(c, FALSE, FALSE, {})>>
             ELSE UNCHANGED <<timeout, frames>>
    /\ UNCHANGED <<img, pass, dis, tca, work, cur, gapPtr>>

TimeoutInDrain ==
    /\ Draining
    /\ \E c \in fcm.queue : Best(c) /\ Eligible(c) /\ Dequeue(c)
    /\ Trips
    /\ pass' = AfterDrain[pass]
    /\ UNCHANGED <<img, frames, dis, tca, work, cur, gapPtr>>

Drained ==
    /\ Draining
    /\ fcm.queue = {}
    /\ pass' = AfterDrain[pass]
    /\ UNCHANGED <<img, frames, dis, fcm, tca, work, cur, gapPtr, timeout>>

\* fault: what the late functions registered is not drained
AfterSourceUndrained == [deferred |-> "gap", late |-> "finish"]
AfterSource == [deferred |-> "gap", late |-> "lateDrain"]

(* A candidate source accepts the starts no function covers, and registers *)
(* all of them before any is analysed.                                     *)
OpenSource(start, walking, named) ==
    /\ ~Running /\ pass = start
    /\ LET accepted == {k \in DOMAIN named : ~IsCode(named[k])}
           starts   == {named[k] : k \in accepted}
       IN  /\ work' = {<<k, named[k]>> : k \in accepted}
           /\ fcm' = [Ensured(fcm, starts) EXCEPT !.offsets = @ \cup starts]
    /\ pass' = walking
    /\ UNCHANGED <<img, frames, dis, tca, cur, gapPtr, timeout>>

OpenDeferred == OpenSource("deferredStart", "deferred", img.deferred)
OpenLate     == OpenSource("lateStart", "late", img.late)

Walking == ~Running /\ pass \in DOMAIN AfterSource
Foremost(w) == w \in work /\ \A v \in work : w[1] <= v[1]

NextFromSource ==
    /\ Walking
    /\ \E w \in work :
          /\ Foremost(w)
          /\ IF IsCode(w[2]) THEN UNCHANGED <<frames, timeout>>
             ELSE NotTrips /\ frames' = <<Frame(w[2], FALSE, FALSE, {})>>
          /\ work' = work \ {w}
    /\ UNCHANGED <<img, pass, dis, fcm, tca, cur, gapPtr>>

TimeoutInSource ==
    /\ Walking
    /\ \E w \in work : Foremost(w) /\ ~IsCode(w[2])
    /\ Trips
    /\ work' = {}
    /\ pass' = AfterSource[pass]
    /\ UNCHANGED <<img, frames, dis, fcm, tca, cur, gapPtr>>

SourceExhausted ==
    /\ Walking
    /\ work = {}
    /\ pass' = AfterSource[pass]
    /\ UNCHANGED <<img, frames, dis, fcm, tca, work, cur, gapPtr, timeout>>

(* nextGapCandidate(): an address ahead of the scan that is neither code   *)
(* nor data.  Which one depends on padding and declared ranges and is left *)
(* open here, as is where the scan gives up.                               *)
NextGap ==
    /\ ~Running /\ pass = "gap"
    /\ \E a \in img.extent :
          /\ a >= gapPtr /\ ~IsCode(a) /\ a \notin dis.dataMap
          /\ cur' = a
          /\ gapPtr' = a + 1
          /\ fcm' = [Ensured(fcm, {a}) EXCEPT !.candidates[a].gap = TRUE]
    /\ pass' = "gapPoll"
    /\ UNCHANGED <<img, frames, dis, tca, work, timeout>>

NoGapLeft ==
    /\ ~Running /\ pass = "gap"
    /\ pass' = "gapDrain"
    /\ UNCHANGED <<img, frames, dis, fcm, tca, work, cur, gapPtr, timeout>>

AnalyzeGap ==
    /\ ~Running /\ pass = "gapPoll"
    /\ NotTrips
    /\ frames' = <<Frame(cur, TRUE, FALSE, {})>>
    /\ pass' = "gapJudge"
    /\ UNCHANGED <<img, dis, fcm, tca, work, cur, gapPtr>>

TimeoutInGaps ==
    /\ ~Running /\ pass = "gapPoll"
    /\ Trips
    /\ pass' = "gapDrain" /\ cur' = NoAddr
    /\ UNCHANGED <<img, frames, dis, fcm, tca, work, gapPtr>>

JudgeGap ==
    /\ ~Running /\ pass = "gapJudge"
    /\ fcm' = IF cur \in DOMAIN dis.functions THEN fcm ELSE Aborted(fcm, cur)
    /\ pass' = "gap" /\ cur' = NoAddr
    /\ UNCHANGED <<img, frames, dis, tca, work, gapPtr, timeout>>

-----------------------------------------------------------------------------
(* resolveTailcalls()                                                      *)

(* Consecutive instructions without a hole between them form an interval,  *)
(* which ends at the address of its last instruction.                      *)
InIntervals(ins, x) ==
    \/ x \in ins
    \/ \E a, b \in ins : /\ a < x /\ x < b
                         /\ b <= a + img.ins[a].size
                         /\ \A c \in ins : ~(a < c /\ c < b)

TailcallsInto(i) ==
    {[fn |-> i, start |-> tca.fns[i].start, to |-> j[2], from |-> j[1]] :
        j \in {x \in tca.jumps : /\ x[2] # tca.fns[i].start
                                 /\ InIntervals(tca.fns[i].ins, x[2])
                                 /\ ~InIntervals(tca.fns[i].ins, x[1])}}

(* By function in the order analysed, then by target, then by source. *)
TailcallBefore(x, y) ==
    \/ x.fn < y.fn
    \/ x.fn = y.fn /\ x.to < y.to
    \/ x.fn = y.fn /\ x.to = y.to /\ x.from < y.from

NextCall(c) == \A d \in tca.calls \ {c} : TailcallBefore(c, d)

FindTailcalls ==
    /\ ~Running /\ pass = "tailcallStart"
    /\ tca' = [tca EXCEPT !.calls = UNION {TailcallsInto(i) : i \in DOMAIN tca.fns}]
    /\ pass' = "tailcall"
    /\ UNCHANGED <<img, frames, dis, fcm, work, cur, gapPtr, timeout>>

(* __getFunctionByStartAddr(): the first state that starts there. *)
FirstAt(i, start) ==
    /\ i \in DOMAIN tca.fns /\ tca.fns[i].start = start
    /\ \A k \in DOMAIN tca.fns : tca.fns[k].start = start => i <= k

AtTailcall == ~Running /\ pass = "tailcall"

(* The function is gone, or was split before. *)
RepeatTailcall ==
    /\ AtTailcall
    /\ NotTrips
    /\ \E c \in tca.calls :
          /\ NextCall(c)
          /\ \A i \in DOMAIN tca.fns : FirstAt(i, c.start) => tca.fns[i].isTailcall
          /\ frames' = <<Frame(c.start, FALSE, FALSE, {})>>
          /\ tca' = [tca EXCEPT !.calls = @ \ {c}]
    /\ UNCHANGED <<img, pass, dis, fcm, work, cur, gapPtr>>

(* The jump lands inside a function: undo it and analyse the target first. *)
SplitAtTailcall ==
    /\ AtTailcall
    /\ NotTrips
    /\ \E c \in tca.calls, i \in DOMAIN tca.fns :
          /\ NextCall(c)
          /\ FirstAt(i, c.start) /\ ~tca.fns[i].isTailcall
          /\ dis' = Reverted(dis, c.start, tca.fns[i].ins, tca.fns[i].refs)
          /\ tca' = [tca EXCEPT !.fns = Without(@, {i})]
          /\ frames' = <<Frame(c.to, FALSE, FALSE, {})>>
    /\ pass' = "tailcallTarget"
    /\ UNCHANGED <<img, fcm, work, cur, gapPtr>>

\* fault: only a declared entry is analysed again
SplitRemainsDeclared(c) ==
    \E i \in DOMAIN tca.fns : FirstAt(i, c.to) /\ c.start \in img.pads

(* The target is a function and did not take the start of the split one,   *)
(* or the start is an entry of its own.                                    *)
SplitRemains(c) ==
    \E i \in DOMAIN tca.fns :
        /\ FirstAt(i, c.to)
        /\ c.start \notin tca.fns[i].ins \/ c.start \in img.pads \cap DOMAIN fcm.candidates

(* Then what is left of the function is analysed again, where it remains.  *)
AfterTailcallTarget ==
    /\ ~Running /\ pass = "tailcallTarget"
    /\ \E c \in tca.calls :
          /\ NextCall(c)
          /\ IF SplitRemains(c)
             THEN /\ frames' = <<Frame(c.start, FALSE, FALSE, {})>>
                  /\ pass' = "tailcallMark"
                  /\ tca' = [tca EXCEPT !.created = @ \cup {c.to}]
             ELSE /\ frames' = frames
                  /\ pass' = "tailcall"
                  /\ tca' = [tca EXCEPT !.created = @ \cup {c.to}, !.calls = @ \ {c}]
    /\ UNCHANGED <<img, dis, fcm, work, cur, gapPtr, timeout>>

Marked(fns, start) ==
    [i \in DOMAIN fns |-> IF FirstAt(i, start) THEN [fns[i] EXCEPT !.isTailcall = TRUE]
                          ELSE fns[i]]

MarkTailcallFunction ==
    /\ ~Running /\ pass = "tailcallMark"
    /\ \E c \in tca.calls :
          /\ NextCall(c)
          /\ tca' = [tca EXCEPT !.calls = @ \ {c}, !.fns = Marked(@, c.start)]
    /\ pass' = "tailcall"
    /\ UNCHANGED <<img, frames, dis, fcm, work, cur, gapPtr, timeout>>

TimeoutInTailcalls ==
    /\ AtTailcall
    /\ tca.calls # {}
    /\ Trips
    /\ tca' = [tca EXCEPT !.calls = {}]
    /\ UNCHANGED <<img, pass, frames, dis, fcm, work, cur, gapPtr>>

(* addTailcallCandidate() for every function the pass created *)
TailcallsResolved ==
    /\ AtTailcall
    /\ tca.calls = {}
    /\ LET e == Ensured(fcm, tca.created)
       IN  fcm' = [e EXCEPT !.candidates = [c \in DOMAIN @ |->
                      IF c \in tca.created THEN [@[c] EXCEPT !.tailcall = TRUE] ELSE @[c]]]
    /\ pass' = "tailcallDrain"
    /\ UNCHANGED <<img, frames, dis, tca, work, cur, gapPtr, timeout>>

(* The report is packaged; the last poll records a budget spent meanwhile. *)
Finish ==
    /\ ~Running /\ pass = "finish"
    /\ NotTrips \/ Trips
    /\ pass' = "done"
    /\ UNCHANGED <<img, frames, dis, fcm, tca, work, cur, gapPtr>>

-----------------------------------------------------------------------------
(* The specification. *)

Scanned(i) ==
    [candidates |-> [c \in i.candidates |->
                        [NewCandidate EXCEPT !.callRefs =
                            {r[1] : r \in {x \in i.callRefs : x[2] = c}}]],
     offsets |-> i.candidates,
     queue |-> i.candidates,
     allCallRefs |-> [src \in {r[1] : r \in i.callRefs} |->
                        (CHOOSE r \in i.callRefs : r[1] = src)[2]]]

Init ==
    /\ img \in Images
    /\ pass = "heuristic"
    /\ frames = <<>>
    /\ dis = EmptyResult
    /\ fcm = Scanned(img)
    /\ tca = [jumps |-> {}, tmp |-> {}, fns |-> <<>>, calls |-> {}, created |-> {}]
    /\ work = {}
    /\ cur = NoAddr
    /\ gapPtr = 0
    /\ timeout = FALSE

Decode == \/ Enter \/ Refuse \/ ChooseBlock \/ TimeoutInFunction \/ NoBlockLeft
          \/ RunsOut \/ CutAtTable \/ AbortSuspicious \/ CutAtLandingPad \/ CutAtPadding

Analyze == \/ AnalyzePlain \/ AnalyzeCall \/ AnalyzeRegisterCall \/ AnalyzeLoop
           \/ AnalyzeReturn \/ AnalyzeJmp \/ AnalyzeCondJmp \/ AnalyzeCondJmpAbsorbing
           \/ AnalyzeTableJmp \/ DispatchCase \/ Dispatched

Book == BookFree \/ BookAgain \/ BookOverGapFunction \/ BookCollision

Conclude == \/ DecodeAgain \/ KeepFunction \/ RejectFunction
            \/ RestoreGapFunction \/ RestoredGapFunction \/ GapFunctionsRestored
            \/ RestoreAbsorbed \/ ReturnFromFunction

Discover == \/ TakeCandidate \/ TimeoutInDrain \/ Drained
            \/ OpenDeferred \/ OpenLate \/ NextFromSource \/ TimeoutInSource
            \/ SourceExhausted
            \/ NextGap \/ NoGapLeft \/ AnalyzeGap \/ TimeoutInGaps \/ JudgeGap

Tailcalls == \/ FindTailcalls \/ RepeatTailcall \/ SplitAtTailcall \/ AfterTailcallTarget
             \/ MarkTailcallFunction \/ TimeoutInTailcalls \/ TailcallsResolved

(* The report is out: nothing is left to do. *)
Done == pass = "done" /\ UNCHANGED vars

Next == Decode \/ Analyze \/ Book \/ Conclude \/ Discover \/ Tailcalls \/ Finish \/ Done

Spec == Init /\ [][Next]_vars

(* One thread runs the passes and never waits. *)
FairSpec == Spec /\ WF_vars(Next)

-----------------------------------------------------------------------------
(* Types. *)

Phases == {"enter", "block", "decode", "dispatch", "book", "decoded",
           "restoreGaps", "restoredGap", "restoreAbsorbed"}

FrameType ==
    [phase : Phases,
     st : FnState, asGap : BOOLEAN, tableKnown : BOOLEAN,
     pc : Nat, prev : MaybeAddr, blocks : Nat,
     todo : AddrList, gapReverts : AddrList, completed : BOOLEAN]

CandidateType == [finished : BOOLEAN, aborted : BOOLEAN, gap : BOOLEAN,
                  tailcall : BOOLEAN, callRefs : SUBSET Nat]

Passes == {"heuristic", "deferredStart", "deferred", "gap", "gapPoll", "gapJudge",
           "gapDrain", "lateStart", "late", "lateDrain", "tailcallStart", "tailcall",
           "tailcallTarget", "tailcallMark", "tailcallDrain", "finish", "done"}

(***************************************************************************)
(* Every variable has its type; each address map is keyed by addresses.    *)
(***************************************************************************)
TypeOK ==
    /\ pass \in Passes
    /\ frames \in Seq(FrameType)
    /\ DOMAIN dis.functions \cup DOMAIN dis.ins2fn \cup dis.instructions \cup dis.dataMap
          \subseteq Nat
    /\ DOMAIN fcm.candidates \cup fcm.offsets \cup fcm.queue \subseteq Nat
    /\ \A c \in DOMAIN fcm.candidates : fcm.candidates[c] \in CandidateType
    /\ \A w \in work : w \in Nat \X Nat
    /\ \A i \in DOMAIN tca.fns : tca.fns[i].start \in Nat
    /\ \A c \in tca.calls : c.start \in Nat /\ c.to \in Nat
    /\ tca.jumps \cup tca.tmp \subseteq Nat \X Nat
    /\ cur \in Nat \cup {NoAddr}
    /\ gapPtr \in Nat
    /\ timeout \in BOOLEAN

-----------------------------------------------------------------------------
(* The state of a function under analysis. *)

(***************************************************************************)
(* Every analysis in progress, the suspended ones included, keeps its      *)
(* queue, its jump references and its highest instruction in step, in      *)
(* whatever order blocks are queued, cut, booked and left unfinished.      *)
(***************************************************************************)
FramesOk == \A i \in DOMAIN frames : StateOk(frames[i].st)

(***************************************************************************)
(* A jump reference starts at a branch: the flag that marks the next       *)
(* fall-through a jump never survives into an instruction that is none     *)
(* (addCodeRef sets it, addInstruction consumes it, endBlock drops it).    *)
(***************************************************************************)
JumpRefsAreBranches ==
    \A i \in DOMAIN frames :
        \A r \in frames[i].st.jumpRefs : img.ins[r[1]].kind \in Branches

(***************************************************************************)
(* What a function finishes with holds no byte of a table it reads: one    *)
(* more decode with the tables known is enough.                            *)
(***************************************************************************)
TablesAreNotCode ==
    At("decoded") /\ Top.tableKnown => Top.st.table \cap Top.st.bytes = {}

-----------------------------------------------------------------------------
(* The result. *)

(***************************************************************************)
(* functions, instructions and ins2fn agree: a recorded function owns      *)
(* every byte of every instruction in its blocks, whatever was undone and  *)
(* decoded again by others in between.                                     *)
(***************************************************************************)
FunctionsOwnTheirCode ==
    \A fn \in DOMAIN dis.functions :
        /\ StoredIns(dis, fn) \subseteq dis.instructions
        /\ \A b \in BytesOf(StoredIns(dis, fn)) : IsCode(b) /\ dis.ins2fn[b] = fn

(***************************************************************************)
(* A function owns code that is in no block of it where a call leads into  *)
(* the function's own middle: the block before ends there and none begins. *)
(* The same holds behind a conditional branch that another function owns,  *)
(* whose fall-through was queued nevertheless.  Undoing the function goes  *)
(* by its blocks and leaves such code behind.                              *)
(***************************************************************************)
CodeOf(fn) == {b \in DOMAIN dis.ins2fn : dis.ins2fn[b] = fn}

CallTargets ==
    {img.ins[c].target : c \in {a \in DOMAIN img.ins : img.ins[a].kind = "call"}}

FallThroughsOfOthers(fn) ==
    {a + img.ins[a].size : a \in {x \in DOMAIN img.ins \cap DOMAIN dis.ins2fn :
                                     img.ins[x].kind \in {"cjmp", "loop"} /\ dis.ins2fn[x] # fn}}

RunsOnUnblocked(b) ==
    LET fn == dis.ins2fn[b]
    IN  \E t \in (CallTargets \cup FallThroughsOfOthers(fn)) \ {fn} :
            t <= b /\ t .. b \subseteq CodeOf(fn)

InNoBlock(b) ==
    dis.ins2fn[b] \in DOMAIN dis.functions => b \notin BytesOf(StoredIns(dis, dis.ins2fn[b]))

LeftBehind == {b \in DOMAIN dis.ins2fn : RunsOnUnblocked(b) /\ InNoBlock(b)}

(***************************************************************************)
(* Undoing a function undoes its ins2fn entries (the comment in            *)
(* _revertStoredFunction, revertAnalysis): no address is left with an      *)
(* owner that is no function any more.  The code does not keep this.       *)
(***************************************************************************)
UndoneOwnNothing ==
    \A b \in DOMAIN dis.ins2fn : dis.ins2fn[b] \in DOMAIN dis.functions

(***************************************************************************)
(* No address is left with an owner that is no function any more: getGap   *)
(* and the pdata split look up the borders of whatever ins2fn names.       *)
(* All that a function owns is in its blocks.  Both except for what runs   *)
(* on unblocked, behind a call into the function's own middle.             *)
(***************************************************************************)
OwnersAreFunctions ==
    \A b \in DOMAIN dis.ins2fn \ LeftBehind :
        dis.ins2fn[b] \in DOMAIN dis.functions /\ ~InNoBlock(b)

(***************************************************************************)
(* A function starts with a block at its own entry.                        *)
(***************************************************************************)
EntryIsABlock == \A fn \in DOMAIN dis.functions : fn \in DOMAIN dis.functions[fn]

(***************************************************************************)
(* The taken edge of every conditional branch the result lists is among    *)
(* its references, whichever analysis booked it, lost it or dropped it.    *)
(***************************************************************************)
BranchEdgesKept ==
    ~Running => \A a \in dis.instructions :
        /\ img.ins[a].kind \in {"cjmp", "loop"}
        /\ img.ins[a].target # a + img.ins[a].size
        => <<a, img.ins[a].target>> \in dis.codeRefs

(***************************************************************************)
(* A function that was undone for another one is code again when that one  *)
(* is finished, in its own name or as part of another.                     *)
(***************************************************************************)
AbsorbedIsNotLost ==
    At("restoreAbsorbed") /\ Top.todo = <<>>
        => \A i \in DOMAIN Top.st.absorbed : IsCode(Top.st.absorbed[i])

(***************************************************************************)
(* The gap functions a discarded decode reverted are code again when the   *)
(* decode that replaced it is done, unless they began inside a table: it   *)
(* took their addresses, or they are functions as before.                  *)
(***************************************************************************)
RevertedGapsAreRestored ==
    At("restoreAbsorbed") /\ Len(frames) = 1 /\ RanIntoTable
        => \A i \in DOMAIN Top.gapReverts :
               IsCode(Top.gapReverts[i]) \/ Top.gapReverts[i] \in dis.dataMap

(***************************************************************************)
(* No function runs on into the padding behind it: an alignment run is     *)
(* the last thing of a function only where a branch leads to it.           *)
(***************************************************************************)
FunctionsEndBeforePadding ==
    \A fn \in DOMAIN dis.functions :
        LET last == Max(StoredIns(dis, fn))
        IN  img.ins[last].kind = "pad" => last \in DOMAIN dis.functions[fn]

(***************************************************************************)
(* A function at a landing pad stays one: neither a body behind a return   *)
(* nor a gap function is undone where the image declares an entry.         *)
(***************************************************************************)
LandingPadsStay ==
    [][\A fn \in DOMAIN dis.functions \cap img.pads : fn \in DOMAIN dis'.functions]_vars

(***************************************************************************)
(* With budget left, no candidate of the queue goes unanswered, those      *)
(* found while functions were analysed included.                           *)
(***************************************************************************)
CandidatesAreDecided ==
    pass = "done" /\ ~timeout =>
        \A c \in DOMAIN fcm.candidates :
            Score(fcm, c) > 0 /\ c \in fcm.queue => fcm.candidates[c].finished

-----------------------------------------------------------------------------
(* The budget and progress. *)

(***************************************************************************)
(* Once the budget is spent it stays spent, and no pass starts another     *)
(* analysis, except for what is left of a function just split.             *)
(***************************************************************************)
StopsAfterTimeout ==
    [][timeout => /\ timeout'
                  /\ frames = <<>> /\ frames' # <<>> => pass = "tailcallTarget"]_vars

(***************************************************************************)
(* The analysis ends: functions that undo and restore each other, blocks   *)
(* that queue each other and candidates found on the way run out.          *)
(***************************************************************************)
Terminates == <>(pass = "done")

-----------------------------------------------------------------------------
(* What the runs check together.                                            *)

(* What the analysis works on is sound after every step: every variable has *)
(* its type, and every state of a function, suspended or not, agrees with   *)
(* itself.                                                                  *)
Consistent ==
    /\ TypeOK
    /\ FramesOk

(* A function owns its code and begins at its entry, however often others   *)
(* were undone beside it and decoded again.                                 *)
FunctionsAreOwned ==
    /\ FunctionsOwnTheirCode
    /\ EntryIsABlock

(* What was undone leaves no byte with an owner that is gone, except behind *)
(* calls into a function's own middle, and is code again once the function, *)
(* or the decode of it that was then discarded, is finished for which it    *)
(* was undone.                                                              *)
UndoneIsMadeGood ==
    /\ OwnersAreFunctions
    /\ AbsorbedIsNotLost
    /\ RevertedGapsAreRestored

(* The edges of the result are the branches of its code: no branch is lost  *)
(* when its target belongs to another function, and what falls through is   *)
(* not taken for a jump.                                                    *)
EdgesAreBranches ==
    /\ BranchEdgesKept
    /\ JumpRefsAreBranches

(* What is no code stays out of functions: the tables they read and the     *)
(* padding behind them.                                                     *)
DataStaysApart ==
    /\ TablesAreNotCode
    /\ FunctionsEndBeforePadding
=============================================================================
