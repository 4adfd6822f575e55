------------------------------ MODULE Discovery64 ------------------------------
(***************************************************************************)
(* Where AArch64 functions may start                                       *)
(* (smda/aarch64/FunctionCandidateManager.py, definitions.py): exception   *)
(* records, calls, addresses in code and in data, prologues, and the entry *)
(* of a function whose frame is set up later than it starts.               *)
(*                                                                         *)
(* A word is [op, to, rd, rn, imm] and stands every four bytes from base   *)
(* on.  The passes take the manager's record to the next; the clock may    *)
(* end any of them and what was found so far stays.                        *)
(***************************************************************************)
EXTENDS Declared

CONSTANTS
    HoistWindow,      \* HOISTED_ENTRY_WINDOW
    MinCallTargets,   \* _METADATA_MIN_CALL_TARGETS
    MinEntries,       \* _ARM64_PDATA_MIN_ENTRIES
    SeedEntries,      \* _ARM64_PDATA_SEED_ENTRIES
    SampleStride      \* _ARM64_PDATA_SAMPLE_STRIDE

InstructionSize == 4
W(op) == [op |-> op, to |-> 0, rd |-> 0, rn |-> 0, imm |-> 0]
Size(image) == InstructionSize * Len(image.words)
Holds(image, address) == image.base <= address /\ address < image.base + Size(image)
WordAt(image, address) == image.words[((address - image.base) \div InstructionSize) + 1]
AddressOf(image, k) == image.base + InstructionSize * (k - 1)

Padding       == {"zero", "nop"}
Traps         == {"zero", "udf", "brk"}
LandingPads   == {"bti", "bti j"}
Prologues     == {"pac", "stp"} \cup LandingPads
FrameSetups   == {"stp", "save", "sub"}
RecordEntries == Prologues \cup {"save", "br", "movz"}
Jumps         == {"b", "b.al"}
Checks        == {"b.eq"}
Calls         == {"bl", "blr"}
EndsFlow(word) == word.op \in {"ret", "retaa", "br"} \cup Jumps \cup Traps

-----------------------------------------------------------------------------
(* The entry in front of a frame setup.                                     *)

FlowStep(image, start, end, walk, at) ==
    LET word    == WordAt(image, at)
        branch  == word.op \in Jumps \cup Checks
        targets == IF branch /\ (word.op \in Checks \/ word.to # end) THEN {word.to} ELSE {}
        next    == IF EndsFlow(word) THEN {} ELSE {at + InstructionSize}
    IN  IF at \notin walk.reached \/ (branch /\ word.to < start) THEN [walk EXCEPT !.enters = FALSE]
        ELSE [walk EXCEPT !.reached = @ \cup targets \cup next]
Between(start, end) == [k \in 1..((end - start) \div InstructionSize) |-> start + InstructionSize * (k - 1)]
FlowsInto(image, start, end) ==
    LET walk == FoldLeft(LAMBDA w, at : FlowStep(image, start, end, w, at),
                         [reached |-> {start}, enters |-> TRUE], Between(start, end))
    IN  walk.enters /\ end \in walk.reached

Back(address, n) == address - InstructionSize * n
IsBoundary(image, begins, address, n) ==
    \/ Back(address, n) = image.base
    \/ n > 0 /\ Back(address, n) \in begins
    \/ n < HoistWindow /\ WordAt(image, Back(address, n + 1)).op \in Padding \cup Calls
StepsBack(image, begins, address) ==
    Min({HoistWindow} \cup {n \in 0..HoistWindow : Back(address, n) >= image.base /\ IsBoundary(image, begins, address, n)})

MayEnter(image, begins, address, n) ==
    LET start == Back(address, n)
        run   == {WordAt(image, a).op : a \in ToSet(Between(start, address))}
    IN  /\ (n = StepsBack(image, begins, address) /\ IsBoundary(image, begins, address, n))
              \/ EndsFlow(WordAt(image, start - InstructionSize))
        /\ Checks \cap run # {} \/ run \subseteq FrameSetups
        /\ PassesCodeFilter(image, start) /\ FlowsInto(image, start, address) /\ "bad" \notin run
HoistedEntryBefore(image, begins, address) ==
    IF ~Holds(image, address) \/ address % InstructionSize # 0 THEN {}
    ELSE IF WordAt(image, address).op \in {"pac"} \cup LandingPads THEN {}
    ELSE LET entries == {n \in 1..StepsBack(image, begins, address) : MayEnter(image, begins, address, n)}
         IN  IF entries = {} THEN {} ELSE {Back(address, Max(entries))}

-----------------------------------------------------------------------------
(* The passes.                                                              *)

NoCandidates == [candidates |-> {}, symbols |-> {}, exceptions |-> {}, initial |-> {}, refs |-> {}, called |-> {},
                 hoisted |-> <<>>, begins |-> {}, extents |-> <<>>, metadata |-> {}, pages |-> <<>>, polls |-> 0]

Addresses(image) == [k \in DOMAIN image.words |-> AddressOf(image, k)]

(* Exception records: [begin, flag, words, valid], the length in words and  *)
(* whether the unwind data can be read and understood.                      *)
AdmitExceptionRecordEntry(image, m, start) ==
    LET entry == HoistedEntryBefore(image, m.begins, start)
    IN  IF /\ WordAt(image, start).op \in Prologues \cup FrameSetups
           /\ start \notin m.symbols /\ entry # {}
        THEN [m EXCEPT !.hoisted = @ \o SetToSeq({[start |-> start, entry |-> e] : e \in entry})]
        ELSE AddExceptionCandidate(image, m, start)
AdmitHoistedExceptionRecords(image, m) ==
    [FoldLeft(LAMBDA at, h : AddExceptionCandidate(image, at, IF h.start \in m.called THEN h.start ELSE h.entry),
              m, m.hoisted) EXCEPT !.hoisted = <<>>]

IsAccepted(image, record) ==
    /\ record.flag # 3 /\ record.begin % InstructionSize = 0
    /\ InRanges(image.exec, image.base + record.begin)
    /\ record.flag = 0 => record.valid /\ record.words > 0
ReadRecord(image, m, record) ==
    LET start  == image.base + record.begin
        extent == [start |-> start, end |-> start + InstructionSize * record.words, fragment |-> record.flag = 2]
        listed == [m EXCEPT !.begins = @ \cup {start},
                            !.extents = IF record.words > 0 THEN Append(@, extent) ELSE @]
    IN  IF ~IsAccepted(image, record) THEN m
        ELSE IF record.flag = 2 \/ ~Holds(image, start) THEN listed
        ELSE IF WordAt(image, start).op \notin RecordEntries THEN listed
        ELSE AdmitExceptionRecordEntry(image, listed, start)
UpToZero(records) ==
    SubSeq(records, 1, Min({Len(records)} \cup {k - 1 : k \in {j \in DOMAIN records : records[j].begin = 0}}))
(* The table of exception records in the bytes of a memory image, raw, a    *)
(* sequence of numbers of four bytes.  Records are sorted by their begin.   *)
EntrySize == 8
RawAt(raw, offset) == raw[(offset \div 4) + 1]
UnwindOf(raw, offset) == RawAt(raw, offset + 4)
UnwindFlag(unwind) == unwind % 4
PackedWords(unwind) == (unwind \div 4) % 2048
FunctionLength(header) == header % 2^18
IsValidUnwindHeader(header) == (header \div 2^18) % 4 = 0 /\ FunctionLength(header) > 0
ReadExceptionRecord(raw, offset, previous) ==
    LET size   == 4 * Len(raw)
        begin  == RawAt(raw, offset)
        unwind == UnwindOf(raw, offset)
    IN  IF /\ offset + EntrySize <= size
           /\ begin # 0 /\ begin % InstructionSize = 0 /\ begin < size /\ begin > previous
           /\ CASE UnwindFlag(unwind) = 0 -> /\ unwind # 0 /\ unwind + 4 <= size
                                             /\ IsValidUnwindHeader(RawAt(raw, unwind))
                [] UnwindFlag(unwind) = 3 -> FALSE
                [] OTHER -> /\ PackedWords(unwind) > 0
                            /\ begin + InstructionSize * PackedWords(unwind) <= size
        THEN {begin} ELSE {}
CountRecords(raw, offset, limit) ==
    LET at(k) == offset + EntrySize * (k - 1)
        goesOn(k) == ReadExceptionRecord(raw, at(k), IF k = 1 THEN 0 ELSE RawAt(raw, at(k - 1))) # {}
    IN  Min({limit} \cup {k - 1 : k \in {n \in 1..Min({limit, Len(raw)}) : ~goesOn(n)}})
Precedes(raw, offset) == ReadExceptionRecord(raw, offset - EntrySize, 0) \cap (0..(RawAt(raw, offset) - 1)) # {}
RunStart(raw, seed) ==   \* back over every record in front of the seed
    Min({s \in 0..seed : /\ (seed - s) % EntrySize = 0
                         /\ \A o \in (s + EntrySize)..seed : (seed - o) % EntrySize = 0 => Precedes(raw, o)})
NoRun == [offset |-> 0, count |-> 0]
Run(raw, start) == [offset |-> start, count |-> CountRecords(raw, start, Len(raw))]
Behind(walk, run) ==
    [offset |-> Max({walk.offset, run.offset + EntrySize * run.count}) + SampleStride,
     best   |-> IF run.count > walk.best.count THEN run ELSE walk.best]
FromSeeds(raw, walk, seeds) ==
    IF seeds = {} THEN [walk EXCEPT !.offset = @ + SampleStride]
    ELSE Behind(walk, Run(raw, RunStart(raw, Min(seeds))))
LocateStep(raw, walk) ==
    IF walk.offset + SeedEntries * EntrySize > 4 * Len(raw) THEN walk
    ELSE FromSeeds(raw, walk, {s \in {walk.offset, walk.offset + 4} :
                                    CountRecords(raw, s, SeedEntries) = SeedEntries})
LongEnough(run) == IF run.count < MinEntries THEN NoRun ELSE run
LocateRecordTable(raw) ==
    LongEnough(FoldLeft(LAMBDA walk, k : LocateStep(raw, walk), [offset |-> 0, best |-> NoRun],
                        [k \in 1..Len(raw) |-> k]).best)

OffsetsOf(run) == [k \in 1..run.count |-> run.offset + EntrySize * (k - 1)]
CarvedRecord(image, m, offset) ==
    LET start  == image.base + RawAt(image.raw, offset)
        listed == [m EXCEPT !.begins = @ \cup {start}]
    IN  IF \/ UnwindFlag(UnwindOf(image.raw, offset)) = 2 \/ ~Holds(image, start)
           \/ WordAt(image, start).op \notin RecordEntries
        THEN listed ELSE AdmitExceptionRecordEntry(image, listed, start)
CarveExceptionRecords(image, m) ==
    ScanFromSecond(image, m, OffsetsOf(LocateRecordTable(image.raw)),
                   LAMBDA at, offset : CarvedRecord(image, at, offset))
LocatePeExceptionCandidates(image, m) ==
    IF image.format = "dump" THEN CarveExceptionRecords(image, m)
    ELSE Scan(image, m, UpToZero(image.directory), LAMBDA at, r : ReadRecord(image, at, r))

LocateReferenceCandidates(image, m) ==
    Scan(image, m, Addresses(image), LAMBDA at, a :
        LET word == WordAt(image, a)
        IN  IF word.op # "bl" \/ ~PassesCodeFilter(image, a) \/ ~Holds(image, word.to) THEN at
            ELSE SetInitialCandidate(AddReferenceCandidate(image, [at EXCEPT !.called = @ \cup {word.to}], word.to, a),
                                     word.to))

Coverage == 95   \* _METADATA_CALL_TARGET_COVERAGE, of a hundred
MetadataNamedTheCallTargets(m) ==
    LET targets == Cardinality(m.called)
    IN  targets >= MinCallTargets /\ 100 * Cardinality(m.called \cap m.metadata) >= Coverage * targets

(* Addresses the code makes.  pages holds what adrp left in registers.      *)
IsEntryPoint(image, target) == target % InstructionSize = 0 /\ InRanges(image.exec, target)
SeedAddress(image, m, target, source) ==
    IF ~IsEntryPoint(image, target) \/ ~PassesCodeFilter(image, target) \/ ~Holds(image, target) THEN m
    ELSE IF image.format = "macho" THEN EnsureCandidate(image, m, target)
    ELSE AddReferenceCandidate(image, m, target, source)

ResolveStoredPointer(image, slot) ==
    IF slot \in image.bindings THEN {}
    ELSE IF slot \in DOMAIN image.rebases THEN {image.rebases[slot] + image.adjustment}
    ELSE IF image.chained \/ slot + image.adjustment \notin DOMAIN image.stored THEN {}
    ELSE {v + image.adjustment : v \in {image.stored[slot + image.adjustment]} \ {0}}
Slot(image, address) ==
    IF image.format = "macho" THEN ResolveStoredPointer(image, address - image.adjustment)
    ELSE IF address \in DOMAIN image.stored THEN {image.stored[address]} ELSE {}

Made(image, pages, address) ==   \* the addresses a word makes
    LET word == WordAt(image, address)
        from == IF word.rn \in DOMAIN pages THEN {pages[word.rn] + word.imm} ELSE {}
    IN  CASE word.op = "adr" -> {word.to}
          [] word.op = "add" -> from
          [] word.op = "ldr" -> UNION {Slot(image, a) : a \in from}
          [] OTHER -> {}
PagesAfter(pages, word) ==
    CASE word.op = "adrp" -> (word.rd :> word.to) @@ pages
      [] word.op \in {"b", "bl", "br", "ret"} \cup Checks \cup {"b.al"} -> <<>>
      [] OTHER -> Restrict(pages, DOMAIN pages \ {word.rd})
Follow(image, m, address) ==
    LET seeded == FoldLeft(LAMBDA at, target : SeedAddress(image, at, target, address), m,
                           SetToSeq(Made(image, m.pages, address)))
    IN  IF ~Holds(image, address) THEN m ELSE [seeded EXCEPT !.pages = PagesAfter(@, WordAt(image, address))]
FollowRange(image, m, range) ==
    Scan(image, [m EXCEPT !.pages = <<>>], Between(range[1], range[2]), LAMBDA at, a : Follow(image, at, a))
LocateAddressRefCandidates(image, m) ==
    LET read == FoldLeft(LAMBDA at, range : FollowRange(image, at, range), [m EXCEPT !.pages = <<>>],
                         SetToSeq(image.exec))
    IN  IF image.format \in {"pe", "dump"} THEN m ELSE [read EXCEPT !.pages = <<>>]

(* Addresses in data.  A section is [kind, start, size]; only what the      *)
(* image holds of it is read, and slots a rebase names beside it.           *)
UpTo(value, unit) == ((value + unit - 1) \div unit) * unit
Strided(first, last, stride) == {a \in first..(last - stride) : (a - first) % stride = 0}
MetadataSlots(image, section, stride) ==
    LET start == section.start
        end   == start + section.size
        low   == image.base - image.adjustment
        first == IF low > start THEN start + UpTo(low - start, stride) ELSE start
        last  == Min({end, low + Size(image)})
    IN  Strided(first, last, stride)
          \cup {s \in DOMAIN image.rebases : /\ start <= s /\ s < end /\ (s - start) % stride = 0
                                             /\ ~(first <= s /\ s < last) /\ section.kind # "offsets"}
StrideOf(section) == IF section.kind = "offsets" THEN 4 ELSE IF section.kind = "interposing" THEN 16 ELSE 8
PointedTo(image, section, slot) ==
    IF section.kind # "offsets" THEN ResolveStoredPointer(image, slot)
    ELSE {image.linkedAt + o + image.adjustment : o \in Slot([image EXCEPT !.format = "elf"], slot + image.adjustment)}
SeedPointer(image, m, target, source) ==
    IF ~IsEntryPoint(image, target) \/ InRanges(image.stubs, target) \/ ~PassesCodeFilter(image, target) THEN m
    ELSE IF image.format = "macho" /\ ~Holds(image, target) THEN m
    ELSE SetInitialCandidate(AddReferenceCandidate(image, m, target, source), target)
LocateInSection(image, m, section) ==
    LET seed(at, slot) == FoldLeft(LAMBDA n, target : SeedPointer(image, n, target, slot + image.adjustment), at,
                                   SetToSeq(PointedTo(image, section, slot)))
        visit(at, slot) == LET polled == Poll(image, at) IN IF Late(image, polled) THEN polled ELSE seed(polled, slot)
    IN  FoldLeft(visit, m, Ascending(MetadataSlots(image, section, StrideOf(section))))

DataSlots(image, section) ==
    LET aligned == UpTo(section.start, 8)
        first   == IF aligned < image.base THEN aligned + UpTo(image.base - aligned, 8) ELSE aligned
    IN  Strided(first, Min({section.start + section.size, image.base + Size(image)}), 8)
ScanSection(image, m, section) ==
    Scan(image, m, Ascending(DataSlots(image, section)), LAMBDA at, slot :
        FoldLeft(LAMBDA n, target : SeedPointer(image, n, target, slot), at, SetToSeq(Slot(image, slot))))
LocateDataPointerCandidates(image, m) ==
    IF image.format \in {"pe", "dump"} \/ image.exec = {} THEN m
    ELSE FoldLeft(LAMBDA at, section : IF image.format = "macho" THEN LocateInSection(image, at, section)
                                       ELSE ScanSection(image, at, section),
                  m, image.sections)

(* Prologues.                                                               *)
IsLikelyInteriorBti(image, code, starts, address) ==
    LET before == WordAt(image, address - InstructionSize).op
    IN  \/ "bti j" \in image.rules /\ WordAt(image, address).op = "bti j"
        \/ address \in code /\ address \notin starts
        \/ /\ address > image.base
           /\ before \notin Padding \cup {"ret", "retaa", "br", "b", "bl"} \cup Traps
AdmitPrologueRunEntry(image, m, entry) ==
    LET op == WordAt(image, entry).op
    IN  IF op \notin FrameSetups \ Prologues \/ HoistedEntryBefore(image, m.begins, entry) # {} THEN m
        ELSE SetInitialCandidate(IF entry \in m.begins THEN AddExceptionCandidate(image, m, entry)
                                 ELSE AddPrologueCandidate(image, m, entry), entry)
VisitPrologue(image, m, address) ==
    LET op    == WordAt(image, address).op
        entry == IF address \in m.called \cup m.symbols THEN {}
                 ELSE HoistedEntryBefore(image, m.begins, address)
    IN  IF \/ op \notin Prologues
           \/ op \in LandingPads /\ IsLikelyInteriorBti(image, {}, {}, address)
           \/ "pads" \in image.rules /\ address \in image.pads
           \/ ~PassesCodeFilter(image, address)
        THEN m
        ELSE IF entry # {} THEN AdmitPrologueRunEntry(image, m, Min(entry))
        ELSE SetInitialCandidate(AddPrologueCandidate(image, m, address), address)
LocatePrologueCandidates(image, m) == Scan(image, m, Addresses(image), LAMBDA at, a : VisitPrologue(image, at, a))

\* What was learned up to here counts as metadata when the calls are weighed.
Described(image, m) ==
    [m EXCEPT !.metadata = @ \cup image.language \cup m.candidates \cup {h.start : h \in ToSet(m.hoisted)}]
Passes == <<"symbols", "records", "calls", "addresses", "pointers", "prologues">>
RunPass(image, m, pass) ==
    CASE pass = "symbols"   -> LocateSymbolCandidates(image, m)
      [] pass = "records"   -> LocatePeExceptionCandidates(image, m)
      [] pass = "calls"     -> AdmitHoistedExceptionRecords(image, LocateReferenceCandidates(image, Described(image, m)))
      [] pass = "addresses" -> IF MetadataNamedTheCallTargets(m) THEN m ELSE LocateAddressRefCandidates(image, m)
      [] pass = "pointers"  -> LocateDataPointerCandidates(image, m)
      [] pass = "prologues" -> LocatePrologueCandidates(image, m)
Conclude(image, m) ==   \* records put off are admitted even when time is up
    IF Late(image, m) THEN AdmitHoistedExceptionRecords(image, m) ELSE LocateLangSpecCandidates(image, m)
LocateCandidates(image) ==
    Conclude(image, FoldLeft(LAMBDA m, pass : IF Late(image, m) THEN m ELSE Poll(image, RunPass(image, m, pass)),
                             NoCandidates, Passes))
=============================================================================
