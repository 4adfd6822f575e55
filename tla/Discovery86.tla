------------------------------ MODULE Discovery86 ------------------------------
(***************************************************************************)
(* Where x86 functions may start                                           *)
(* (smda/intel/FunctionCandidateManager.py): calls and jumps through       *)
(* pointers, the x64 exception table, the bytes functions open with,       *)
(* chains of import stubs, and, after everything else, tables of methods.  *)
(*                                                                         *)
(* The scans read bytes and know no instruction boundaries.  image.bytes   *)
(* are the bytes from image.base on; offsets count from zero.  Addresses   *)
(* are small, so that masking them to the width of the processor is left   *)
(* out.                                                                    *)
(***************************************************************************)
EXTENDS Declared

CONSTANTS
    StartWindow,       \* _DECLARED_START_WINDOW
    MinEntries,        \* _PDATA_MIN_ENTRIES
    SeedEntries,       \* _PDATA_SEED_ENTRIES
    SampleStride,      \* _PDATA_SAMPLE_STRIDE
    MaxFunctionSize,   \* _PDATA_MAX_FUNCTION_SIZE
    MinRun,            \* _POINTER_TABLE_MIN_RUN
    KnownShare,        \* _POINTER_TABLE_MIN_KNOWN_RATIO, of a hundred
    AlignmentSample    \* more called candidates than this tell the alignment

Wild == -1   \* in a pattern: whatever byte
Size(image) == Len(image.bytes)
Within(image, address) == image.base <= address /\ address < image.base + Size(image)
ByteAt(image, o) == image.bytes[o + 1]
Signed(image, o) ==
    LET top == ByteAt(image, o + 3)
    IN  ByteAt(image, o) + 256 * (ByteAt(image, o + 1)
            + 256 * (ByteAt(image, o + 2) + 256 * (IF top >= 128 THEN top - 256 ELSE top)))
\* What has its highest bit set is beyond every image.
Dword(image, o) == LET value == Signed(image, o) IN IF value < 0 THEN 2147483647 ELSE value

Fits(bytes, pattern, o) ==
    /\ o + Len(pattern) <= Len(bytes)
    /\ \A k \in DOMAIN pattern : pattern[k] \in {Wild, bytes[o + k]}
Matches(image, pattern) ==
    SelectSeq([k \in 1..Size(image) |-> k - 1], LAMBDA o : Fits(image.bytes, pattern, o))

NoStarts == [candidates |-> {}, symbols |-> {}, exceptions |-> {}, initial |-> {}, refs |-> {}, stubs |-> {}, data |-> {},
             extents |-> <<>>, begins |-> {}, ends |-> {}, alignment |-> 0, polls |-> 0]

-----------------------------------------------------------------------------
(* Calls, and jumps and calls through a pointer.                            *)

Book(image, m, target, o) ==
    SetInitialCandidate(AddReferenceCandidate(image, m, target, image.base + o), target)
VisitCall(image, m, o) ==
    LET target == image.base + o + 5 + Signed(image, o + 1)
    IN  IF \/ ~PassesCodeFilter(image, image.base + o) \/ o + 5 > Size(image)
           \/ Signed(image, o + 1) = 0 \/ ~Within(image, target)
        THEN m ELSE Book(image, m, target, o)
ResolvePointerReference(image, o) ==
    LET at == Dword(image, o + 2) - image.base
    IN  IF o + 6 > Size(image) \/ ~(0 <= at /\ at + 4 <= Size(image)) THEN {} ELSE {Dword(image, at)}
VisitPointer(image, m, o) ==
    FoldLeft(LAMBDA at, target : Book(image, at, target, o), m,
             SetToSeq({t \in ResolvePointerReference(image, o) : PassesCodeFilter(image, t) /\ Within(image, t)}))
LocateReferenceCandidates(image, m) ==
    LET calls == Scan(image, m, Matches(image, <<\hE8>>), LAMBDA at, o : VisitCall(image, at, o))
        Through(at, op) == Scan(image, at, Matches(image, <<\hFF, op>>), LAMBDA x, o : VisitPointer(image, x, o))
    IN  IF image.bits = 64 THEN calls ELSE Through(Through(calls, \h25), \h15)

-----------------------------------------------------------------------------
(* The exception table: records of begin, end and where the unwind data is, *)
(* relative to the image.                                                   *)

EntrySize == 12
BeginOf(image, o)  == Dword(image, o)
EndOf(image, o)    == Dword(image, o + 4)
UnwindOf(image, o) == Dword(image, o + 8)
Header(image, unwind) == IF unwind < Size(image) THEN {ByteAt(image, unwind)} ELSE {}
LegalHeaders == {1 + 8 * flags : flags \in 0..7}
IsChained(image, unwind) == \E header \in Header(image, unwind) : (header \div 32) % 2 = 1

IsTrustworthyExtent(image, o) ==
    /\ BeginOf(image, o) < EndOf(image, o) /\ EndOf(image, o) <= Size(image)
    /\ EndOf(image, o) - BeginOf(image, o) <= MaxFunctionSize
    /\ UnwindOf(image, o) % 4 = 0 /\ Header(image, UnwindOf(image, o)) \cap LegalHeaders # {}
Bounded(image, m, extent) ==
    IF "ends" \notin image.rules \/ extent.start >= extent.end THEN m
    ELSE [m EXCEPT !.begins = @ \cup {extent.start}, !.ends = @ \cup {extent.end}]
AdmitExtent(image, m, extent) ==   \* the parts a function was split into are no candidates
    IF extent.fragment THEN m ELSE Bounded(image, AddExceptionCandidate(image, m, extent.start), extent)
AdmitExceptionRecord(image, m, o, declared) ==
    LET extent == [start |-> image.base + BeginOf(image, o), end |-> image.base + EndOf(image, o),
                   fragment |-> IsChained(image, UnwindOf(image, o))]
        kept   == IF declared /\ IsTrustworthyExtent(image, o) THEN [m EXCEPT !.extents = Append(@, extent)] ELSE m
    IN  AdmitExtent(image, kept, extent)
\* The walk is over with the first record that is cut or begins at zero.
ReadExceptionTable(image, m, table) ==
    LET offset(k) == (table[1] - image.base) + EntrySize * (k - 1)
        count     == (table[2] - table[1]) \div EntrySize
        over      == {k \in 1..count : offset(k) + EntrySize > Size(image) \/ BeginOf(image, offset(k)) = 0}
    IN  ScanFromSecond(image, m, [k \in 1..(Min({count + 1} \cup over) - 1) |-> offset(k)],
                       LAMBDA at, o : AdmitExceptionRecord(image, at, o, TRUE))

(* A dump has no sections, and the table is found by its bytes.             *)
ReadExceptionRecord(image, o, previous) ==
    /\ o + EntrySize <= Size(image)
    /\ 0 < BeginOf(image, o) /\ BeginOf(image, o) < EndOf(image, o) /\ EndOf(image, o) <= Size(image)
    /\ previous <= BeginOf(image, o) /\ EndOf(image, o) - BeginOf(image, o) <= MaxFunctionSize
    /\ UnwindOf(image, o) # 0 /\ UnwindOf(image, o) % 4 = 0 /\ Header(image, UnwindOf(image, o)) \cap LegalHeaders # {}
CountRecords(image, start, limit) ==
    LET at(k) == start + EntrySize * (k - 1)
        goesOn(k) == ReadExceptionRecord(image, at(k), IF k = 1 THEN 0 ELSE EndOf(image, at(k - 1)))
    IN  Min({limit} \cup {k - 1 : k \in {n \in 1..Min({limit, Size(image)}) : ~goesOn(n)}})
Precedes(image, o) == ReadExceptionRecord(image, o - EntrySize, 0) /\ EndOf(image, o - EntrySize) <= BeginOf(image, o)
RunStart(image, seed) ==
    Min({s \in 0..seed : /\ (seed - s) % EntrySize = 0
                         /\ \A o \in (s + EntrySize)..seed : (seed - o) % EntrySize = 0 => Precedes(image, o)})
NoRun == [offset |-> 0, count |-> 0]
Run(image, start) == [offset |-> start, count |-> CountRecords(image, start, Size(image))]
Behind(walk, run) ==
    [offset |-> Max({walk.offset, run.offset + EntrySize * run.count}) + SampleStride,
     best   |-> IF run.count > walk.best.count THEN run ELSE walk.best]
FromSeeds(image, walk, seeds) ==
    IF seeds = {} THEN [walk EXCEPT !.offset = @ + SampleStride]
    ELSE Behind(walk, Run(image, RunStart(image, Min(seeds))))
LocateStep(image, walk) ==
    IF walk.offset + SeedEntries * EntrySize > Size(image) THEN walk
    ELSE FromSeeds(image, walk, {s \in {walk.offset, walk.offset + 4, walk.offset + 8} :
                                    CountRecords(image, s, SeedEntries) = SeedEntries})
LongEnough(run) == IF run.count < MinEntries THEN NoRun ELSE run
LocateRecordTable(image) ==
    LongEnough(FoldLeft(LAMBDA walk, k : LocateStep(image, walk), [offset |-> 0, best |-> NoRun],
                        [k \in 1..(Size(image) \div SampleStride + 1) |-> k]).best)
OffsetsOf(run) == [k \in 1..run.count |-> run.offset + EntrySize * (k - 1)]
CarveExceptionRecords(image, m) ==
    ScanFromSecond(image, m, OffsetsOf(LocateRecordTable(image)),
                   LAMBDA at, o : AdmitExceptionRecord(image, at, o, FALSE))

\* The directory says where the table is, or in a PE image a section's name.
TablesOf(image) ==
    IF image.directory # <<>> THEN image.directory
    ELSE FoldLeft(LAMBDA tables, s : Append(tables, <<s.start, s.end>>), <<>>,
              SelectSeq(image.sections, LAMBDA s : image.format = "pe" /\ s.name = ".pdata"))
LocateExceptionHandlerCandidates(image, m) ==
    LET tables == TablesOf(image)
    IN  IF image.bits # 64 THEN m
        ELSE IF tables # <<>> THEN ReadExceptionTable(image, m, Head(tables))
        ELSE IF image.sections = <<>> THEN CarveExceptionRecords(image, m) ELSE m

-----------------------------------------------------------------------------
(* The bytes functions open with.                                           *)

PushRbp  == \h55
PushPair == <<\h41, \h57, \h41, \h56>>                 \* push r15; push r14
LandingPad == <<\hF3, \h0F, \h1E, \hFA>>               \* endbr64
HotpatchPrologues == {<<\h8B, \hFF, \h55, \h8B, \hEC>>, <<\h89, \hFF, \h55, \h8B, \hEC>>}
DefaultPrologues ==
    <<<<\h8B, \hFF, \h55, \h8B, \hEC>>, <<\h89, \hFF, \h55, \h8B, \hEC>>,
      <<\h55, \h8B, \hEC>>, <<\h55, \h89, \hE5>>, <<\h55, \h48, \h89, \hE5>>>>
Prologues64 == <<PushPair, <<\h40, \h53, \h48, \h83, \hEC>>, <<\h40, \h55, \h48, \h83, \hEC>>>>
Seeded(image) == DefaultPrologues \o (IF image.bits = 64 THEN Prologues64 ELSE <<>>)

FollowsDeclaredStart(m, address) ==
    \E a \in m.candidates : /\ address - StartWindow <= a /\ a < address
                            /\ a \in m.symbols \cup m.exceptions \cup {r.to : r \in m.refs}
\* fault: only the pad of hotpatching is looked for
OpensInsideNothing(image, m, o) == FALSE
OpensInsideAnEarlierPrologue(image, m, o) ==
    \E p \in ToSet(Seeded(image)) : /\ o >= Len(p) /\ Fits(image.bytes, p, o - Len(p))
                                    /\ image.base + o - Len(p) \in m.candidates
FollowsHotpatchPad(image, m, o) ==
    /\ image.bits = 32 /\ o >= 2 /\ image.base + o - 2 \in m.candidates
    /\ \E p \in HotpatchPrologues : Fits(image.bytes, p, o - 2)
VisitMatch(image, m, pattern, o) ==
    LET pushed  == pattern = PushPair /\ o > 0 /\ ByteAt(image, o - 1) = PushRbp
        start   == IF pushed THEN o - 1 ELSE o
        address == image.base + start
    IN  IF \/ pushed /\ FollowsDeclaredStart(m, address)
           \/ ~PassesCodeFilter(image, address)
           \/ OpensInsideAnEarlierPrologue(image, m, start)
           \/ pattern = LandingPad /\ DeclaredFdeRangeContaining(image.fdes, address) # {}
           \/ FollowsHotpatchPad(image, m, start)
        THEN m ELSE SetInitialCandidate(AddPrologueCandidate(image, m, address), address)
LocatePrologueCandidates(image, m) ==
    LET patterns == DefaultPrologues \o (IF image.bits = 64 THEN <<LandingPad>> \o Prologues64 ELSE <<>>)
    IN  FoldLeft(LAMBDA at, p : Scan(image, at, Matches(image, p), LAMBDA x, o : VisitMatch(image, x, p, o)), m, patterns)

-----------------------------------------------------------------------------
(* Chains of stubs.  A chain is at least two units in a row; what the units *)
(* hold besides the stub is data.                                           *)

Jump   == <<\hFF, \h25, Wild, Wild, Wild, Wild>>
Plt    == Jump \o <<\h68, Wild, Wild, Wild, Wild, \hE9, Wild, Wild, Wild, Wild>>
SecJump == LandingPad \o <<\hF2>> \o Jump
PltSec == SecJump \o <<\h0F, \h1F, \h44, \h00, \h00>>

Units(bytes, unit, o) ==
    Min({n \in 0..(((Len(bytes) - o) \div Len(unit)) + 1) : ~Fits(bytes, unit, o + n * Len(unit))})
\* Leftmost runs of at least so many units, one behind the other.
Runs(bytes, unit, least) ==
    FoldLeft(LAMBDA walk, o : LET count == Units(bytes, unit, o)
                              IN  IF o < walk.next \/ count < least THEN walk
                                  ELSE [next |-> o + count * Len(unit), found |-> Append(walk.found, <<o, count>>)],
             [next |-> 0, found |-> <<>>], SelectSeq([k \in 1..Len(bytes) |-> k - 1], LAMBDA o : Fits(bytes, unit, o))).found
StubsOf(image, unit, entry) ==
    UNION {LET block == SubSeq(image.bytes, run[1] + 1, run[1] + run[2] * Len(unit))
           IN  UNION {{run[1] + hit[1] + k * Len(entry) : k \in 0..(hit[2] - 1)} : hit \in ToSet(Runs(block, entry, 1))} :
           run \in ToSet(Runs(image.bytes, unit, 2))}
Bytes(start, count) == start..(start + count - 1)
MarkStub(image, m, stub, data) ==
    LET booked == SetInitialCandidate(AddPrologueCandidate(image, m, stub), stub)
    IN  IF ~PassesCodeFilter(image, stub) THEN m
        ELSE [booked EXCEPT !.stubs = @ \cup Among(booked, stub), !.data = @ \cup data]
MarkStubs(image, m, stubs, from, count) ==
    FoldLeft(LAMBDA at, o : MarkStub(image, at, image.base + o, Bytes(image.base + o + from, count)), m, Ascending(stubs))
LocateStubChainCandidates(image, m) ==
    LET plain == MarkStubs(image, m, StubsOf(image, Jump, Jump), 0, 0)
        plt   == MarkStubs(image, plain, StubsOf(image, Plt, Jump), 6, 10)
    IN  MarkStubs(image, plt, StubsOf(image, PltSec, SecJump), 7, 5)

-----------------------------------------------------------------------------
(* The passes in their order; the clock is asked after each.                *)

IdentifyAlignment(image, m) ==
    LET called    == {c \in m.candidates : Cardinality({r \in m.refs : r.to = c}) > 1}
        few(size) == 20 * Cardinality({c \in called : c % size # 0}) <= Cardinality(called)
    IN  CASE "alignment" \notin image.rules \/ Cardinality(called) <= AlignmentSample -> 0
          [] few(16) -> 16 [] few(4) -> 4 [] OTHER -> 0
Aligned(image, m) == [m EXCEPT !.alignment = IdentifyAlignment(image, m)]

Passes == <<"symbols", "calls", "records", "language", "prologues">>
RunPass(image, m, pass) ==
    CASE pass = "symbols"   -> LocateSymbolCandidates(image, m)
      [] pass = "calls"     -> LocateReferenceCandidates(image, m)
      [] pass = "records"   -> LocateExceptionHandlerCandidates(image, m)
      [] pass = "language"  -> LocateLangSpecCandidates(image, m)
      [] pass = "prologues" -> LocatePrologueCandidates(image, m)
Conclude(image, m) == IF Late(image, m) THEN m ELSE Aligned(image, LocateStubChainCandidates(image, m))
LocateCandidates(image) ==
    Conclude(image, FoldLeft(LAMBDA m, pass : IF Late(image, m) THEN m ELSE Poll(image, RunPass(image, m, pass)),
                             NoStarts, Passes))

-----------------------------------------------------------------------------
(* Tables of methods, looked for when everything else is known: m has the   *)
(* functions, the code and what data code refers to.                        *)

PointerEntrySize == 4
Entry(image, k) == image.base + PointerEntrySize * (k - 1)
Value(image, k) == Dword(image, PointerEntrySize * (k - 1))
MayPoint(image, m, k) ==
    /\ Min(m.functions) <= Value(image, k) /\ Value(image, k) <= Max(m.functions)
    /\ Entry(image, k) \notin m.code
TableRuns(image, m) ==
    LET count == Size(image) \div PointerEntrySize
        may[k \in 0..(count + 1)] == k \in 1..count /\ MayPoint(image, m, k)
    IN  {<<s, e>> \in (1..count) \X (1..count) : s <= e /\ (\A k \in s..e : may[k]) /\ ~may[s - 1] /\ ~may[e + 1]}
AdmitMethod(image, m, value) ==
    LET booked == EnsureCandidate(image, m, value)
    IN  IF value \in m.functions \cup m.code \cup ToSet(m.accepted) \/ ~PassesCodeFilter(image, value) THEN m
        ELSE [booked EXCEPT !.accepted = @ \o SetToSeq(Among(booked, value))]
AdmitPointerTableRun(image, m, run) ==
    LET counted == Poll(image, Poll(image, m))   \* the walk over the run, and after it
        walked  == Poll(image, counted)
        known   == {k \in run[1]..run[2] : Value(image, k) \in m.functions}
        length  == run[2] - run[1] + 1
    IN  IF length < MinRun THEN m
        ELSE IF \/ Late(image, counted) \/ 100 * Cardinality(known) < KnownShare * length
                \/ \A k \in run[1]..run[2] : Entry(image, k) \notin m.referenced
        THEN counted
        ELSE IF Late(image, walked) THEN walked
        ELSE FoldLeft(LAMBDA at, k : AdmitMethod(image, at, Value(image, k)), walked,
                      [k \in 1..length |-> run[1] + k - 1])
AdmitRuns(image, m, runs) ==
    FoldLeft(LAMBDA at, s : AdmitPointerTableRun(image, at, CHOOSE run \in runs : run[1] = s), m,
             Ascending({run[1] : run \in runs}))

LocatePointerTableCandidates(image, m) ==
    LET runs   == TableRuns(image, m)
        last   == {run \in runs : run[2] = Size(image) \div PointerEntrySize}   \* it ends with the image
        begun  == Poll(image, m)
        walked == Poll(image, IF Late(image, begun) THEN begun ELSE AdmitRuns(image, begun, runs \ last))
        read   == AdmitRuns(image, walked, last)
    IN  IF ~image.delphi \/ image.bits # 32 \/ m.functions = {} THEN m
        ELSE IF Late(image, walked) THEN walked
        ELSE OfferAll(image, [read EXCEPT !.starts = @ \cup ToSet(read.accepted)])
=============================================================================
