-------------------------------- MODULE Strings --------------------------------
(***************************************************************************)
(* The strings a function refers to (smda/utility/StringExtractor.py): of  *)
(* C code up to their terminator, of Go and Rust code by the length that   *)
(* is loaded next to the pointer.                                          *)
(*                                                                         *)
(* A report is [base, bytes, mapped, blocks, abi, mode]: its image, the    *)
(* bounds of its sections, the blocks of the function, each a sequence of  *)
(* instructions, and how it passes arguments.  An instruction is [at, op,  *)
(* dst, src, also, refs]; an operand is [loc, width, value] with the       *)
(* location of a register or of a slot of the stack, or none.  A string is *)
(* the sequence of its bytes.  What may be missing is a set of at most one.*)
(***************************************************************************)
EXTENDS Integers, Sequences, SequencesExt, FiniteSets, FiniteSetsExt

CONSTANTS
    Word,           \* the bytes of a pointer
    MaxSized,       \* MAX_SIZED_STRING_LEN
    MaxDerefs,      \* how deep pointers are followed
    CacheEntries    \* _STRING_CACHE_MAX_ENTRIES

Unlimited == -1
Printable == (9..13) \cup (32..126)
Continues == 128..191

End(report) == report.base + Len(report.bytes)
InImage(report, va) == report.base <= va /\ va < End(report)
ByteAt(report, va) == report.bytes[va - report.base + 1]
ReadBytes(report, va, n) ==
    LET first == va - report.base + 1 IN SubSeq(report.bytes, first, Min({first + n - 1, Len(report.bytes)}))

WordAt(report, va) ==
    LET raw == ReadBytes(report, va, Word)
    IN  IF Len(raw) < Word THEN {} ELSE {FoldRight(LAMBDA byte, rest : byte + 256 * rest, raw, 0)}
LooksLikePointer(report, va) == \E value \in WordAt(report, va) : InImage(report, value)

WithinMappedSection(report, va) ==
    LET mapped == {s \in report.mapped : s[1] # 0}
    IN  mapped = {} \/ \E s \in mapped : s[1] <= va /\ va < s[2]

(* The pointers met from p on, p included.                                  *)
Derefs(report, p) ==
    LET walk[k \in 0..MaxDerefs] ==
            IF k = 0 THEN IF InImage(report, p) THEN <<p>> ELSE <<>>
            ELSE LET chain == walk[k - 1]
                     next  == IF Len(chain) < k THEN {} ELSE
                              {v \in WordAt(report, Last(chain)) : InImage(report, v) /\ v \notin ToSet(chain)}
                 IN  chain \o SetToSeq(next)
    IN  walk[MaxDerefs]

-----------------------------------------------------------------------------
(* Strings up to a terminator or to a limit.                                *)

Fits(report, va, unit, k) ==
    /\ va + unit * k <= End(report)
    /\ \A i \in 0..(k - 1) : /\ ByteAt(report, va + unit * i) \in Printable
                             /\ unit = 2 => ByteAt(report, va + 2 * i + 1) = 0
RunOf(report, va, unit, limit) ==
    LET top == IF limit = Unlimited THEN Len(report.bytes) ELSE limit
    IN  Max({k \in 0..top : Fits(report, va, unit, k)})

DetectLen(report, va, unit, limit) ==    \* in characters of that many bytes
    LET run == RunOf(report, va, unit, limit)
        end == va + unit * run
        terminated == end + unit <= End(report) /\ \A i \in 0..(unit - 1) : ByteAt(report, end + i) = 0
    IN  IF terminated \/ (limit # Unlimited /\ run >= limit) THEN run ELSE 0

ReadString(report, va, limit) ==
    IF ~InImage(report, va) \/ ByteAt(report, va) \notin Printable THEN {}
    ELSE LET ascii == DetectLen(report, va, 1, limit)
             wide  == DetectLen(report, va, 2, limit)
         IN  CASE ascii >= 1 -> {[text |-> ReadBytes(report, va, ascii), type |-> "ascii"]}
               [] ascii = 0 /\ wide >= 1 ->
                    {[text |-> [i \in 1..wide |-> ByteAt(report, va + 2 * (i - 1))], type |-> "unicode"]}
               [] OTHER -> {}

-----------------------------------------------------------------------------
(* Strings of a given length; of characters beyond ASCII, those of two     *)
(* bytes.                                                                   *)

Leads == 194..223
Decodes(raw) ==
    \A i \in DOMAIN raw :
        \/ raw[i] < 128
        \/ raw[i] \in Leads /\ i < Len(raw) /\ raw[i + 1] \in Continues
        \/ raw[i] \in Continues /\ i > 1 /\ raw[i - 1] \in Leads
Rejected(raw) ==
    \E i \in DOMAIN raw : \/ raw[i] \in (0..8) \cup (14..26) \cup (28..31) \cup {127}
                          \/ raw[i] = 194 /\ raw[i + 1] <= 159
StripZeros(raw) == SubSeq(raw, 1, Max({0} \cup {i \in DOMAIN raw : raw[i] # 0}))

ReadSizedString(report, va, length) ==
    IF ~(0 < length /\ length <= MaxSized) \/ ~InImage(report, va) \/ ~WithinMappedSection(report, va)
          \/ (length < Word /\ LooksLikePointer(report, va))
    THEN {}
    ELSE LET raw  == ReadBytes(report, va, length)
             text == StripZeros(raw)
         IN  IF Len(raw) # length \/ ~Decodes(raw) \/ text = <<>> \/ Rejected(text) THEN {}
             ELSE {[text |-> text, type |-> IF \A i \in DOMAIN text : text[i] < 128 THEN "ascii" ELSE "utf8"]}

ReadStringHeader(report, va) ==
    IF ~InImage(report, va) THEN {}
    ELSE UNION {{[found |-> s, at |-> target] :
                    s \in UNION {ReadSizedString(report, target, n) : n \in WordAt(report, va + Word)}} :
                target \in WordAt(report, va)}

-----------------------------------------------------------------------------
(* Where else strings start: what the code refers to and what words of the *)
(* image hold.                                                              *)

Instructions(report) == UNION {ToSet(block) : block \in report.blocks}
StoredPointers(report) ==
    IF report.base = 0 THEN {}
    ELSE {v \in UNION {WordAt(report, report.base + Word * k) : k \in 0..(Len(report.bytes) \div Word)} :
             InImage(report, v)}
ReferencedTargets(report) == UNION {ToSet(i.refs) : i \in Instructions(report)} \cup StoredPointers(report)

NextTarget(report, va) ==
    LET later == {t \in ReferencedTargets(report) : t > va} IN IF later = {} THEN {} ELSE {Min(later)}

StartsStringRun(report, va) ==
    \/ va = report.base
    \/ /\ report.base < va /\ va <= End(report)
       /\ ByteAt(report, va - 1) \notin Printable \cup Continues

CutsCString(report, va, length) ==
    /\ va + length \notin ReferencedTargets(report)
    /\ StartsStringRun(report, va)
    /\ \E s \in ReadString(report, va, Unlimited) : s.type = "ascii" /\ Len(s.text) > length

TailMerged(report, va, target, length) ==
    LET end  == va + length
        head == ReadBytes(report, target, 6)
        wide == Len(head) = 6 /\ \A i \in 1..6 : (i % 2 = 1) <=> (head[i] # 0)
    IN  /\ end - target <= 1
        /\ ReadBytes(report, end, 1) = <<0>>
        /\ ~wide /\ StartsStringRun(report, va)
        /\ \A t \in NextTarget(report, target) : t >= end

-----------------------------------------------------------------------------
(* The length that is loaded next to a pointer.                             *)

ScanWindow == 6
Register(name) == <<"reg", name, 0>>
Slot(base, disp) == <<"slot", base, disp>>
IsSlot(location) == location[1] = "slot"

Chain(order) == [r \in {order[k] : k \in 1..(Len(order) - 1)} |->
                    order[1 + CHOOSE k \in 1..(Len(order) - 1) : order[k] = r]]
GoRegisters    == <<"rax", "rbx", "rcx", "rdi", "rsi", "r8", "r9", "r10", "r11">>
SysvRegisters  == <<"rdi", "rsi", "rdx", "rcx", "r8", "r9">>
Win64Registers == <<"rcx", "rdx", "r8", "r9">>
Returned(pairs) == [r \in DOMAIN pairs \cup {"rax"} |-> IF r = "rax" THEN "rdx" ELSE pairs[r]]
LengthRegisters(report) ==
    LET sysv  == Chain(SysvRegisters)
        win64 == Chain(Win64Registers)
        both  == [r \in DOMAIN sysv \cup DOMAIN win64 |-> IF r \in DOMAIN sysv THEN sysv[r] ELSE win64[r]]
        agreed == {r \in DOMAIN both : r \in DOMAIN sysv \cap DOMAIN win64 => sysv[r] = win64[r]}
    IN  CASE report.abi = "narrow" -> <<>>
          [] report.mode = "go"    -> Chain(GoRegisters)
          [] report.abi = "win64"  -> Returned(win64)
          [] report.abi = "sysv"   -> Returned(sysv)
          [] OTHER                 -> Returned([r \in agreed |-> both[r]])

LengthLocations(location, registers) ==
    IF IsSlot(location) THEN {Slot(location[2], location[3] + Word)}
    ELSE IF location[2] \in DOMAIN registers THEN {Register(registers[location[2]])}
    ELSE {}
AllLengthLocations(locations, registers) == UNION {LengthLocations(l, registers) : l \in locations}

WidthBytes(width) == CASE width = "word" -> Word [] width = "half" -> Word \div 2 [] OTHER -> 1
Writing == {"mov", "lea", "add", "pop"}
SlotBytes(location, count) == {Slot(location[2], location[3] + k) : k \in 0..(count - 1)}
WrittenLocations(i) ==
    i.also \cup UNION {IF IsSlot(l) THEN SlotBytes(l, WidthBytes(i.dst.width)) ELSE {l} :
                          l \in IF i.op \in Writing THEN i.dst.loc ELSE {}}
Invalidated(location, written) ==
    \/ location \in written
    \/ IsSlot(location) /\ (Register(location[2]) \in written \/ SlotBytes(location, Word) \cap written # {})
InvalidatedIn(locations, written) == {l \in locations : Invalidated(l, written)}

ImmediateLengthValue(i) ==
    IF i.op = "mov" /\ i.src.loc = {}
          /\ \A l \in i.dst.loc : i.dst.width = "word" \/ (~IsSlot(l) /\ i.dst.width = "half")
    THEN i.src.value ELSE {}

ScanBoundary(i) == i.op \in {"call", "jump", "ret", "int"}

(* The last instruction before that which writes one of the locations.      *)
PreviousLength(list, index, locations) ==
    LET window == Max({1, index - ScanWindow})..(index - 1)
        stops  == {k \in window : ScanBoundary(list[k])}
        hits   == {k \in window : InvalidatedIn(locations, WrittenLocations(list[k])) # {}}
        last   == Max(hits)
    IN  IF hits = {} \/ (\E k \in stops : k >= last) \/ list[last].dst.loc \cap locations = {} THEN {}
        ELSE ImmediateLengthValue(list[last])

(* One instruction further: which locations hold the pointer, whether the  *)
(* lengths set before it still count, and what has been found.              *)
Stop(scan, found) == [scan EXCEPT !.ended = TRUE, !.found = found]
CopiedTo(i, pointers) ==
    IF i.op = "mov" /\ i.src.loc \cap pointers # {} /\ i.dst.width = "word" /\ i.src.width = "word"
    THEN i.dst.loc ELSE {}

\* fault: a location is taken to hold the pointer after it is overwritten
KeptUnwritten(pointers, i) == pointers \cup CopiedTo(i, pointers)
Kept(pointers, i) == (pointers \ InvalidatedIn(pointers, WrittenLocations(i))) \cup CopiedTo(i, pointers)

ForwardStep(list, registers, own, scan, k) ==
    LET i      == list[k]
        copied == CopiedTo(i, scan.pointers)
        kept   == Kept(scan.pointers, i)
        early  == PreviousLength(list, k, AllLengthLocations(copied, registers) \ kept)
        before == IF own \in kept THEN scan.before ELSE {}
        places == AllLengthLocations(kept, registers)
        hit    == InvalidatedIn(places, WrittenLocations(i)) # {}
        onward == [scan EXCEPT !.pointers = kept, !.before = before]
    IN  CASE scan.ended \/ scan.broken -> scan
          [] ScanBoundary(i) -> [scan EXCEPT !.broken = TRUE]
          [] copied # {} /\ early # {} -> Stop(scan, early)
          [] kept = {} -> Stop(scan, {})
          [] hit /\ copied # {} -> [onward EXCEPT !.before = before \ InvalidatedIn(before, WrittenLocations(i))]
          [] hit -> Stop(scan, IF i.dst.loc \cap places # {} THEN ImmediateLengthValue(i) ELSE {})
          [] OTHER -> onward

ImmediateLength(list, index, registers) ==
    LET i     == list[index]
        own   == CHOOSE l \in i.dst.loc : TRUE
        ahead == [k \in 1..Min({ScanWindow, Len(list) - index}) |-> index + k]
        scan  == FoldLeft(LAMBDA s, k : ForwardStep(list, registers, own, s, k),
                          [pointers |-> {own}, before |-> LengthLocations(own, registers),
                           ended |-> FALSE, broken |-> FALSE, found |-> {}], ahead)
    IN  CASE i.op = "push" -> IF index > 1 /\ list[index - 1].op = "push" THEN list[index - 1].src.value ELSE {}
          [] i.dst.loc = {} -> {}
          [] scan.ended -> scan.found
          [] OTHER -> PreviousLength(list, index, scan.before)

(* What follows a block without a branch, as far as the scan may look.      *)
FallThrough(report, block) ==
    LET next(list) ==
            LET i == Last(list)
            IN  IF ScanBoundary(i) THEN {} ELSE {b \in report.blocks : b[1].at = i.at + 1}
        more[k \in 0..ScanWindow] ==
            IF k = 0 THEN block
            ELSE LET list == more[k - 1]
                 IN  IF Len(list) >= Len(block) + ScanWindow \/ next(list) = {} THEN list
                     ELSE list \o CHOOSE b \in next(list) : TRUE
    IN  more[ScanWindow]

-----------------------------------------------------------------------------
(* The strings of a function.                                               *)

String(i, s, va) == [text |-> s.text, type |-> s.type, at |-> i.at, from |-> va]

FirstOf(one, other) == IF one # {} THEN one ELSE other
SizedStringForRef(report, list, index) ==
    LET i      == list[index]
        va     == i.refs[1]
        sized  == UNION {IF n # 0 /\ ~CutsCString(report, va, n) THEN ReadSizedString(report, va, n) ELSE {} :
                            n \in ImmediateLength(list, index, LengthRegisters(report))}
    IN  FirstOf({String(i, s, va) : s \in sized}, {String(i, h.found, h.at) : h \in ReadStringHeader(report, va)})

(* A terminated string, cut where something else that is referred to starts.*)
UnsizedAt(report, va) ==
    LET whole(s)  == Len(s.text) * (IF s.type = "unicode" THEN 2 ELSE 1)
        cut(s)    == {t \in NextTarget(report, va) : t - va < whole(s) /\ ~TailMerged(report, va, t, whole(s))}
        pointer(s) == Len(s.text) < Word /\ LooksLikePointer(report, va)
    IN  IF ~WithinMappedSection(report, va) THEN {}
        ELSE UNION {IF pointer(s) THEN {}
                    ELSE IF cut(s) = {} THEN {s}
                    ELSE ReadString(report, va, Min(cut(s)) - va) : s \in ReadString(report, va, Unlimited)}

UnsizedStringsForRefs(report, i, minimum) ==
    UNION {{String(i, s, va) : s \in {u \in UnsizedAt(report, va) : Len(u.text) >= minimum}} :
              va \in UNION {ToSet(Derefs(report, ref)) : ref \in ToSet(i.refs)}}

ExtractStrings(report) ==
    LET plain(i) == UNION {{String(i, s, va) : s \in ReadString(report, va, Unlimited)} :
                              va \in UNION {ToSet(Derefs(report, ref)) : ref \in ToSet(i.refs)}}
        sized(block, k) == IF Len(block[k].refs) = 1 THEN SizedStringForRef(report, FallThrough(report, block), k)
                           ELSE {}
        paired(block, k) == FirstOf(sized(block, k),
                                    UnsizedStringsForRefs(report, block[k], IF report.mode = "go" THEN 2 ELSE 1))
    IN  IF report.mode = "plain" THEN UNION {plain(i) : i \in Instructions(report)}
        ELSE UNION {UNION {paired(block, k) : k \in DOMAIN block} : block \in report.blocks}

-----------------------------------------------------------------------------
(* The reads that are remembered, and forgotten when they are too many.  A *)
(* read is [sized, va, length].                                             *)

Fresh(report, read) ==
    IF read.sized THEN ReadSizedString(report, read.va, read.length) ELSE ReadString(report, read.va, read.length)
Key(read) == <<read.sized, read.va, read.length>>
Stored(cache, entry) == (IF Cardinality(cache) >= CacheEntries THEN {} ELSE cache) \cup {entry}
CachedRead(report, cache, read) ==   \* the entry it is answered from
    LET known == {e \in cache : e.key = Key(read)}
    IN  IF known # {} THEN CHOOSE e \in known : TRUE ELSE [key |-> Key(read), result |-> Fresh(report, read)]
Answered(done, entry) ==
    [cache   |-> IF entry \in done.cache THEN done.cache ELSE Stored(done.cache, entry),
     results |-> Append(done.results, entry.result)]
ReadAll(report, reads) ==
    FoldLeft(LAMBDA done, read : Answered(done, CachedRead(report, done.cache, read)),
             [cache |-> {}, results |-> <<>>], reads)
=============================================================================
