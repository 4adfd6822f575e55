------------------------------- MODULE ArmModes -------------------------------
(***************************************************************************)
(* The candidate manager of the AArch32 backend: what it knows about the   *)
(* instruction set at an address, on what evidence, and the candidates.    *)
(* Addresses are bytes; bit 0 of a value the image holds is the Thumb bit. *)
(* An optional answer is a set with at most one member.                    *)
(***************************************************************************)
EXTENDS Integers, FiniteSets, Sequences, SequencesExt, FiniteSetsExt, TLC

VARIABLES
    img,   \* the image, a record; its fields are explained in Arm
    dis,   \* the DisassemblyResult
    fcm    \* the manager

(* How much a statement about an instruction set weighs.                   *)
Guess == 0     \* the region the gap scan stands in
Scanned == 1   \* a linear scan read a call or a prologue there
Decoded == 2   \* an instruction on a path, or bit 0 of an address held in data
Stated == 3    \* a symbol or the entry point

NoAddr == -1
Addresses == 0..(img.size - 1)
Even(value) == value - (value % 2)
IsThumbBit(value) == value % 2 = 1
WordAligned(addr) == addr % 4 = 0

Nothing == [size |-> 2, kind |-> "none", target |-> NoAddr]
At(thumb, addr) == IF addr \in DOMAIN img.ins[thumb] THEN img.ins[thumb][addr] ELSE Nothing

(* f, and v at x *)
With(f, x, v) == [y \in DOMAIN f \cup {x} |-> IF y = x THEN v ELSE f[y]]

IsCode(addr) == addr \in DOMAIN dis.ins2fn
PassesCodeFilter(addr) == img.exec = {} \/ addr \in img.exec

-----------------------------------------------------------------------------
(* The instruction-set map. *)

MappingKind(addr) ==
    LET before == {s \in DOMAIN img.mapping : s <= addr}
    IN  IF before = {} THEN "none" ELSE img.mapping[Max(before)]

IsMappedData(addr) == addr \in img.dataInCode \/ MappingKind(addr) = "d"

DeclaredThumb(m, addr) ==
    LET stubs == {s \in img.stubs : s.from <= addr /\ addr < s.to}
    IN  IF addr \in DOMAIN m.modes THEN {m.modes[addr].thumb}
        ELSE IF MappingKind(addr) \in {"t", "a"} THEN {MappingKind(addr) = "t"}
        ELSE IF stubs # {} THEN {s.thumb : s \in stubs}
        ELSE img.container

RegionThumb(addr) == TRUE \in img.container \/ (img.container = {} /\ addr \in img.thumbRegion)

IsThumb(m, addr) ==
    LET declared == DeclaredThumb(m, addr)
    IN  TRUE \in declared \/ (declared = {} /\ RegionThumb(addr))

NotedThumb(m, addr, strength) ==
    IF addr \in DOMAIN m.modes /\ m.modes[addr].strength >= strength THEN {m.modes[addr].thumb}
    ELSE {}

InModeNoted(m, addrs) ==
    [a \in DOMAIN m.candidates |->
        IF a \in addrs
        THEN [m.candidates[a] EXCEPT !.thumb = m.modes[a].thumb, !.finished = FALSE, !.aborted = FALSE]
        ELSE m.candidates[a]]

\* fault: they have had their turn
RequeueNever(m, addrs) == [m EXCEPT !.candidates = InModeNoted(m, addrs)]

(* Analysed again, in the instruction set noted since.                     *)
RequeueInMode(m, addrs) ==
    [m EXCEPT !.candidates = InModeNoted(m, addrs), !.queue = @ \cup addrs]

Updated(m, addr, c) == [m EXCEPT !.candidates = With(@, addr, c)]

Outweighed(m, addr, strength) ==
    /\ addr \in DOMAIN m.modes
    /\ \/ strength < m.modes[addr].strength
       \/ strength = m.modes[addr].strength /\ strength < Stated

(* What a statement changes about a candidate of the other instruction set. *)
React(m, addr, thumb) ==
    IF addr \notin DOMAIN m.candidates \/ m.candidates[addr].thumb = thumb THEN m
    ELSE IF ~m.candidates[addr].finished THEN Updated(m, addr, [m.candidates[addr] EXCEPT !.thumb = thumb])
    ELSE IF addr \in DOMAIN dis.functions THEN [m EXCEPT !.conflicts = @ \cup {addr}]
    ELSE IF m.candidates[addr].aborted \/ ~IsCode(addr) THEN RequeueInMode(m, {addr})
    ELSE m

NoteMode(m, addr, thumb, strength) ==
    LET noted == [m EXCEPT !.modes = With(@, addr, [thumb |-> thumb, strength |-> strength])]
    IN  IF Outweighed(m, addr, strength) THEN m
        ELSE IF addr \in DOMAIN m.modes /\ m.modes[addr].thumb = thumb THEN noted
        ELSE React(noted, addr, thumb)

-----------------------------------------------------------------------------
(* Candidates. *)

NewCandidate(thumb) ==
    [thumb |-> thumb, finished |-> FALSE, aborted |-> FALSE, gap |-> FALSE, symbol |-> FALSE,
     exception |-> FALSE, tailcall |-> FALSE, refs |-> {}]

(* An A32 instruction is word aligned, so what is not must be Thumb.       *)
EnsureCandidate(m, addr) ==
    LET noted == IF ~WordAligned(addr) /\ addr \notin DOMAIN m.modes
                 THEN NoteMode(m, addr, TRUE, Decoded) ELSE m
    IN  IF addr \in DOMAIN m.candidates THEN noted
        ELSE Updated(noted, addr, NewCandidate(IsThumb(noted, addr)))

HasCommonFunctionStart(m, addr) ==
    LET c == m.candidates[addr]
    IN  At(c.thumb, addr).kind = "push" /\ (c.thumb \/ WordAligned(addr))

Score(m, addr) ==
    LET c == m.candidates[addr]
        worth(condition, points) == IF condition THEN points ELSE 0
    IN  worth(c.symbol, 10000) + worth(c.exception, 5000) + 10 * Cardinality(c.refs)
        + worth(HasCommonFunctionStart(m, addr), 1) + worth(WordAligned(addr), 1)

Queued(m, addr) == [m EXCEPT !.queue = @ \cup {addr}]

AddRef(m, addr, source) ==
    [Updated(m, addr, [m.candidates[addr] EXCEPT !.refs = @ \cup {source}])
        EXCEPT !.calls = With(@, source, addr)]

AddCandidate(m, addr, source) ==
    LET ensured == EnsureCandidate(m, addr)
    IN  Queued(AddRef(Updated(ensured, addr, [ensured.candidates[addr] EXCEPT !.gap = FALSE]),
                      addr, source), addr)

AddSymbolCandidate(m, value) ==
    LET addr    == Even(value)
        ensured == EnsureCandidate(m, addr)
        added   == Updated(ensured, addr, [ensured.candidates[addr] EXCEPT !.symbol = TRUE])
    IN  IF ~PassesCodeFilter(addr) THEN m
        ELSE IF IsThumbBit(value) THEN NoteMode(added, addr, TRUE, Decoded) ELSE added

AddExceptionCandidate(m, addr) ==
    LET ensured == EnsureCandidate(m, addr)
    IN  IF ~PassesCodeFilter(addr) THEN m
        ELSE Updated(ensured, addr, [ensured.candidates[addr] EXCEPT !.exception = TRUE])

(* addReferenceCandidate(): before the queue is built                      *)
AddReferenceCandidate(m, addr, source) == AddRef(EnsureCandidate(m, addr), addr, source)

Vouched(m, addr) == [m EXCEPT !.strong = @ \cup {addr}]

AddCallCandidate(m, target, thumb, source) ==
    IF (~thumb /\ ~WordAligned(target)) \/ target \notin Addresses \/ ~PassesCodeFilter(target)
    THEN m
    ELSE IF target \in DOMAIN m.candidates
    THEN AddRef(Vouched(NoteMode(m, target, thumb, Decoded), target), target, source)
    ELSE Vouched(NoteMode(AddCandidate(m, target, source), target, thumb, Decoded), target)

(* An even pointer is an A32 entry only where A32 code may be.             *)
RefusesA32Pointer(m, target, declaredOnly) ==
    LET declared == DeclaredThumb(m, target)
    IN  \/ ~WordAligned(target)
        \/ TRUE \in declared
        \/ declared = {} /\ (img.needsDeclaration \/ (~declaredOnly /\ RegionThumb(target)))

AddPointerCandidate(m, value, source) ==
    LET target == Even(value)
    IN  IF \/ target \notin Addresses \/ IsMappedData(target)
           \/ ~IsThumbBit(value) /\ RefusesA32Pointer(m, target, FALSE)
           \/ target \in DOMAIN m.candidates \/ ~PassesCodeFilter(target) \/ IsCode(target)
        THEN m
        ELSE NoteMode(AddCandidate(m, target, source), target, IsThumbBit(value), Decoded)

AddTailcallCandidate(m, target, thumb) ==
    LET noted   == NoteMode(m, target, thumb, Decoded)
        ensured == EnsureCandidate(noted, target)
    IN  IF ~PassesCodeFilter(target) THEN noted
        ELSE Queued(Updated(ensured, target, [ensured.candidates[target] EXCEPT !.tailcall = TRUE]),
                    target)

AddGapCandidate(m, addr) ==
    LET ensured == EnsureCandidate(m, addr)
    IN  Updated(ensured, addr, [ensured.candidates[addr] EXCEPT !.gap = TRUE])

Aborted(m, addr) ==
    IF addr \notin DOMAIN m.candidates THEN m
    ELSE Updated(m, addr, [m.candidates[addr] EXCEPT !.finished = TRUE, !.aborted = TRUE])

Unaborted(m, addr) ==
    IF addr \notin DOMAIN m.candidates THEN m
    ELSE Updated(m, addr, [m.candidates[addr] EXCEPT !.aborted = FALSE])

Finished(m, addr) ==
    IF addr \notin DOMAIN m.candidates THEN m
    ELSE Updated(m, addr, [m.candidates[addr] EXCEPT !.finished = TRUE])

(* updateCandidates(): calls read from inside an instruction are none      *)
WithoutCalls(m, bytes) ==
    [m EXCEPT !.candidates = [a \in DOMAIN m.candidates |->
        [m.candidates[a] EXCEPT !.refs = {s \in @ : ~(s \in bytes /\ m.calls[s] = a)}]]]

-----------------------------------------------------------------------------
(* Discovery: what one item of each pass adds.                             *)

DeclaredAt(m, addr) ==
    [m EXCEPT !.declared = @ \cup {addr}, !.strong = @ \cup {addr}]

(* _readElfModeEvidence(): function symbols, then the entry point          *)
StateSymbol(m, value) ==
    DeclaredAt(NoteMode(m, Even(value), IsThumbBit(value), Stated), Even(value))

StateEntry(m, value) == NoteMode(m, Even(value), IsThumbBit(value), Stated)

SymbolValues == img.symbols \o img.entry

(* _locateExidxCandidates(): the entries in table order, three times; an   *)
(* entry without a Thumb bit is read for how it opens                      *)
DeclareUnwound(m, e) ==
    LET addr == Even(e.value)
        declared == IF PassesCodeFilter(addr) THEN DeclaredAt(m, addr) ELSE m
    IN  IF IsThumbBit(e.value) THEN NoteMode(declared, addr, TRUE, Decoded) ELSE declared

ReadOpening(m, e) ==
    LET addr  == Even(e.value)
        opens == IF WordAligned(addr) THEN e.opens ELSE {TRUE}
    IN  IF DeclaredThumb(m, addr) = {} /\ opens # {}
        THEN NoteMode(m, addr, TRUE \in opens, Scanned) ELSE m

AddUnwound(m, e) == AddExceptionCandidate(m, Even(e.value))

(* The instruction set an address is scanned in, or none.                  *)
ScanModes(addr) ==
    IF addr \notin img.exec /\ img.exec # {} THEN {}
    ELSE IF DOMAIN img.mapping = {} THEN {RegionThumb(addr)}
    ELSE CASE MappingKind(addr) = "d" -> {}
           [] MappingKind(addr) = "none" -> {RegionThumb(addr)}
           [] OTHER -> {MappingKind(addr) = "t"}

ScannedAs(thumb) == {a \in Addresses : a % (IF thumb THEN 2 ELSE 4) = 0 /\ thumb \in ScanModes(a)}

Calls(thumb) == {a \in ScannedAs(thumb) : At(thumb, a).kind \in {"call", "callx"}}
CalledThumb(kind, thumb) == IF kind = "callx" THEN ~thumb ELSE thumb

BookCall(m, target, thumb, source) ==
    IF \/ target \notin Addresses \/ ~PassesCodeFilter(target) \/ (~thumb /\ ~WordAligned(target))
       \/ IsMappedData(target)
       \/ MappingKind(target) = "none" /\ target \notin DOMAIN m.modes /\ thumb # RegionThumb(target)
    THEN m
    ELSE Vouched(NoteMode(AddReferenceCandidate(m, target, source), target, thumb, Scanned), target)

BookCallAt(m, a) ==
    LET thumb == a \in Calls(TRUE)
    IN  BookCall(m, At(thumb, a).target, CalledThumb(At(thumb, a).kind, thumb), a)

(* locateDataPointerCandidates(): words outside the code                   *)
PointerSlots ==
    {s \in DOMAIN img.words : s \notin img.exec /\ (img.relocated = {} \/ s \in img.relocated)}

BookPointer(m, slot) ==
    LET value == img.words[slot]
        target == Even(value)
    IN  IF \/ target \notin img.exec \/ IsMappedData(target)
           \/ ~IsThumbBit(value) /\ RefusesA32Pointer(m, target, img.relocated # {})
        THEN m
        ELSE NoteMode(AddReferenceCandidate(m, target, slot), target, IsThumbBit(value), Decoded)

Pushes ==
    {a \in ScannedAs(TRUE) : At(TRUE, a).kind = "push"}
    \cup {a \in ScannedAs(FALSE) : At(FALSE, a).kind = "push"}

BookPrologue(m, a) ==
    LET thumb == TRUE \in ScanModes(a)
    IN  IF \/ ~PassesCodeFilter(a) \/ IsMappedData(a)
           \/ a \in DOMAIN m.modes /\ m.modes[a].thumb # thumb
        THEN m
        ELSE NoteMode(EnsureCandidate(m, a), a, thumb, Scanned)
=============================================================================
