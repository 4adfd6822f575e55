-------------------------------- MODULE EhFrames --------------------------------
(***************************************************************************)
(* What exception tables of ELF images tell about functions                *)
(* (smda/common/EhFrameDecoder.py): the extents of functions, the landing  *)
(* pads inside of them, and the starts listed in the search table.  A      *)
(* section is a sequence of bytes and positions count from zero.  A value  *)
(* read is [value, pos]: the value, or none, and where reading goes on.    *)
(***************************************************************************)
EXTENDS Integers, Sequences, SequencesExt, FiniteSets, FiniteSetsExt, Functions

CONSTANTS
    PtrSize,          \* the bytes of an address
    MaxRecords,       \* MAX_RECORDS
    MaxLsdaBytes,     \* MAX_LSDA_BYTES
    MaxHdrEntries     \* MAX_HDR_ENTRIES

Absptr == 0
Uleb   == 1
Sleb   == 9
Pcrel  == 16
Omit   == 255
Format(encoding) == encoding % 16
Application(encoding) == 16 * ((encoding \div 16) % 8)
IsIndirect(encoding) == encoding >= 128
SizeOf == (0 :> PtrSize) @@ (2 :> 2) @@ (3 :> 4) @@ (4 :> 8) @@ (10 :> 2) @@ (11 :> 4) @@ (12 :> 8)
IsSigned(encoding) == Format(encoding) \in 10..12

Got(value, pos) == [value |-> {value}, pos |-> pos]
Nothing(pos) == [value |-> {}, pos |-> pos]
Only(read) == CHOOSE v \in read.value : TRUE
Byte(data, pos) == data[pos + 1]
Slice(data, pos, size) == SubSeq(data, pos + 1, pos + size)
Number(raw, above) == FoldRight(LAMBDA byte, rest : byte + 256 * rest, raw, above)

Groups == 10   \* of seven bits in what a leb128 may hold
LebLengths(data, pos, end) == {k \in 1..Groups : pos + k <= end /\ Byte(data, pos + k - 1) < 128}
LebValue(raw, above) == FoldRight(LAMBDA byte, rest : (byte % 128) + 128 * rest, raw, above)
ReadUleb128(data, pos, end) ==
    LET lengths == LebLengths(data, pos, end)
    IN  IF lengths = {} THEN Nothing(Min({end, pos + Groups}))
        ELSE Got(LebValue(Slice(data, pos, Min(lengths)), 0), pos + Min(lengths))
ReadSleb128(data, pos, end) ==
    LET lengths == LebLengths(data, pos, end)
        size    == Min(lengths)
        sign    == Byte(data, pos + size - 1) % 128 >= 64 /\ size < Groups
    IN  IF lengths = {} THEN Nothing(Min({end, pos + Groups}))
        ELSE Got(LebValue(Slice(data, pos, size), IF sign THEN -1 ELSE 0), pos + size)

ReadEncodedValue(data, pos, end, encoding) ==
    IF Format(encoding) \notin DOMAIN SizeOf THEN Nothing(pos)
    ELSE LET size == SizeOf[Format(encoding)]
             raw  == Slice(data, pos, size)
         IN  IF pos + size > end THEN Nothing(pos)
             ELSE Got(Number(raw, IF IsSigned(encoding) /\ Last(raw) >= 128 THEN -1 ELSE 0), pos + size)
ReadLsdaValue(data, pos, end, encoding) ==
    CASE Format(encoding) = Uleb -> ReadUleb128(data, pos, end)
      [] Format(encoding) = Sleb -> ReadSleb128(data, pos, end)
      [] OTHER -> ReadEncodedValue(data, pos, end, encoding)

-----------------------------------------------------------------------------
(* Records.  What functions share is in a CIE: [fde, lsda, supported], the *)
(* encodings of their addresses.                                            *)

Unsupported == [fde |-> Omit, lsda |-> Omit, supported |-> FALSE]
Versions == {1, 3}
Letters == [z |-> 122, R |-> 82, L |-> 76, P |-> 80, S |-> 83, B |-> 66]
Known == Range(Letters)
Knows(augmentation) == augmentation = <<>> \/ (augmentation[1] = Letters.z /\ ToSet(augmentation) \subseteq Known)

AugmentationStep(data, end, cie, letter) ==
    LET at == cie.pos
        personality == ReadEncodedValue(data, at + 1, end, Byte(data, at))
    IN  CASE ~cie.supported \/ letter \notin {Letters.L, Letters.P, Letters.R} -> cie
          [] at >= end -> [cie EXCEPT !.supported = FALSE]
          [] letter = Letters.L -> [cie EXCEPT !.lsda = Byte(data, at), !.pos = at + 1]
          [] letter = Letters.R -> [cie EXCEPT !.fde = Byte(data, at), !.pos = at + 1]
          [] personality.value = {} -> [cie EXCEPT !.supported = FALSE]
          [] OTHER -> [cie EXCEPT !.pos = personality.pos]

(* What stands between the letters and what they announce, in its order:    *)
(* [values, pos], the values so far, each perhaps missing.                  *)
HeaderFields == <<"code", "factor", "return", "length">>
ReadHeaderField(data, field, old, pos, end) ==
    CASE field = "factor" -> ReadSleb128(data, pos, end)
      [] field = "return" /\ old -> IF pos >= end THEN Nothing(end) ELSE Got(0, pos + 1)
      [] OTHER -> ReadUleb128(data, pos, end)
Noted(header, read) == [values |-> Append(header.values, read.value), pos |-> read.pos]
ReadHeader(data, old, pos, end) ==
    FoldLeft(LAMBDA header, field : Noted(header, ReadHeaderField(data, field, old, header.pos, end)),
             [values |-> <<>>, pos |-> pos], HeaderFields)

Encodings(cie) ==
    IF ~cie.supported \/ IsIndirect(cie.fde) \/ Application(cie.fde) \notin {0, Pcrel} THEN Unsupported
    ELSE [fde |-> cie.fde, lsda |-> cie.lsda, supported |-> TRUE]
ParseAugmentation(data, end, letters, header) ==
    LET start == [pos |-> header.pos, fde |-> Absptr, lsda |-> Omit, supported |-> TRUE]
        last  == header.pos + Only([value |-> header.values[4]])
    IN  IF \E k \in 1..3 : header.values[k] = {} THEN Unsupported
        ELSE IF letters = <<>> THEN Encodings(start)
        ELSE IF header.values[4] = {} \/ last > end THEN Unsupported
        ELSE Encodings(FoldLeft(LAMBDA cie, letter : AugmentationStep(data, last, cie, letter), start, Tail(letters)))

ParseCie(data, pos, end) ==
    LET zeros   == {p \in (pos + 1)..(end - 1) : Byte(data, p) = 0}
        letters == Slice(data, pos + 1, Min(zeros) - pos - 1)
    IN  IF pos >= end \/ Byte(data, pos) \notin Versions \/ zeros = {} \/ ~Knows(letters) THEN Unsupported
        ELSE ParseAugmentation(data, end, letters, ReadHeader(data, Byte(data, pos) = 1, Min(zeros) + 1, end))

(* The FDEs, each [cie, pos, end], up to the first record that cannot be    *)
(* told from noise.                                                         *)
AllOnes == <<255, 255, 255, 255>>
Record(data, pos) ==
    LET wide   == Slice(data, pos, 4) = AllOnes
        body   == pos + (IF wide THEN 12 ELSE 4)
        id     == IF wide THEN 8 ELSE 4
        length == IF wide THEN Number(Slice(data, pos + 4, 8), 0) ELSE Number(Slice(data, pos, 4), 0)
    IN  [body |-> body, id |-> id, length |-> length, end |-> body + length]
Readable(data, pos) ==
    /\ pos + 4 <= Len(data)
    /\ Slice(data, pos, 4) # <<0, 0, 0, 0>>
    /\ Slice(data, pos, 4) = AllOnes => pos + 12 <= Len(data)
    /\ LET r == Record(data, pos) IN r.end <= Len(data) /\ r.body + r.id <= r.end

Owner(record, back) == record.body - back

WalkStep(data, walk) ==
    LET r    == Record(data, walk.pos)
        back == Number(Slice(data, r.body, r.id), 0)
        onward == [walk EXCEPT !.pos = r.end]
        owner  == Owner(r, back)
    IN  CASE walk.ended \/ ~Readable(data, walk.pos) -> [walk EXCEPT !.ended = TRUE]
          [] back = 0 -> [onward EXCEPT !.cies = (walk.pos :> ParseCie(data, r.body + r.id, r.end)) @@ walk.cies]
          [] owner \in DOMAIN walk.cies /\ walk.cies[owner].supported ->
               [onward EXCEPT !.fdes = Append(@, [cie |-> walk.cies[owner], pos |-> r.body + r.id, end |-> r.end])]
          [] OTHER -> onward
WalkEhFrameFdes(data) ==
    FoldLeft(LAMBDA walk, k : WalkStep(data, walk), [pos |-> 0, cies |-> <<>>, fdes |-> <<>>, ended |-> FALSE],
             [k \in 1..MaxRecords |-> k]).fdes

Located(data, va, fde) ==   \* none, or the start, the length and where they end
    LET start == ReadEncodedValue(data, fde.pos, fde.end, fde.cie.fde)
        range == ReadEncodedValue(data, start.pos, fde.end, Format(fde.cie.fde))
        based == IF Application(fde.cie.fde) = Pcrel THEN va + fde.pos ELSE 0
    IN  IF start.value = {} \/ range.value = {} THEN {}
        ELSE {[start |-> Only(start) + based, size |-> Only(range), pos |-> range.pos]}
DecodeEhFrameFdeRanges(data, va) ==
    {[start |-> l.start, size |-> l.size] :
        l \in {f \in UNION {Located(data, va, fde) : fde \in ToSet(WalkEhFrameFdes(data))} : f.start >= 0 /\ f.size >= 0}}

-----------------------------------------------------------------------------
(* Landing pads.  One table: [pads, spent], the pads or none if it is no    *)
(* table, and what its decoding takes off the budget.                       *)

NoTable == [pads |-> {}, spent |-> 0]
Optional(data, pos, encoding) ==
    IF encoding = Omit THEN Got(0, pos) ELSE ReadLsdaValue(data, pos, Len(data), encoding)

CallSite(data, pos, end, encoding) ==   \* the landing pad it has, and where the next one starts
    LET pad == FoldLeft(LAMBDA read, field : ReadLsdaValue(data, read.pos, end, encoding), Nothing(pos),
                        <<"start", "size", "pad">>)
        Site(it, action) == IF it.value = {} \/ action.value = {} THEN Nothing(action.pos) ELSE Got(Only(it), action.pos)
    IN  Site(pad, ReadUleb128(data, pad.pos, end))

CallSites(data, pos, end, encoding, base) ==
    LET Take(walk, site) ==
            IF site.value = {} THEN [walk EXCEPT !.failed = TRUE]
            ELSE [walk EXCEPT !.pos = site.pos, !.pads = @ \cup {base + p : p \in site.value \ {0}}]
        Next(walk, k) == IF walk.failed \/ walk.pos >= end THEN walk
                         ELSE Take(walk, CallSite(data, walk.pos, end, encoding))
        PadsOf(walk) == IF walk.failed THEN {} ELSE {walk.pads}
    IN  PadsOf(FoldLeft(Next, [pos |-> pos, pads |-> {}, failed |-> FALSE], [k \in 1..(end - pos) |-> k]))

(* The header, one field after the other: where the pads count from, the   *)
(* table of types, which is skipped, and how long the table of sites is.    *)
PadBase(data, va, functionStart, lp) ==
    IF Byte(data, 0) = Omit THEN functionStart
    ELSE Only(lp) + (IF Application(Byte(data, 0)) = Pcrel THEN va + 1 ELSE 0)
SiteTable(data, base, encoding, length, budget) ==
    IF \/ Application(encoding) # 0 \/ budget <= 0
       \/ length.value = {} \/ length.pos + Only(length) > Len(data) THEN NoTable
    ELSE [pads |-> CallSites(data, length.pos, length.pos + Only(length), encoding, base), spent |-> Only(length)]
BehindTypes(data, base, tt, budget) ==
    IF tt.value = {} \/ tt.pos >= Len(data) THEN NoTable
    ELSE SiteTable(data, base, Byte(data, tt.pos), ReadUleb128(data, tt.pos + 1, Len(data)), budget)
BehindBase(data, va, functionStart, lp, budget) ==
    IF lp.value = {} \/ lp.pos >= Len(data) THEN NoTable
    ELSE BehindTypes(data, PadBase(data, va, functionStart, lp),
                     IF Byte(data, lp.pos) = Omit THEN Got(0, lp.pos + 1) ELSE ReadUleb128(data, lp.pos + 1, Len(data)),
                     budget)
DecodeLsdaLandingPads(data, va, functionStart, budget) ==
    IF data = <<>> \/ (Byte(data, 0) # Omit /\ Application(Byte(data, 0)) \notin {0, Pcrel}) THEN NoTable
    ELSE BehindBase(data, va, functionStart, Optional(data, 1, Byte(data, 0)), budget)

(* What is remembered while a section is walked: the tables decoded, the    *)
(* addresses nothing is read at, what is left of the two budgets, and how   *)
(* often and how much was read.                                             *)
Fresh(tableBytes, failedBytes) ==
    [pads |-> {}, decoded |-> <<>>, unreadable |-> {}, budget |-> tableBytes, failures |-> failedBytes, reads |-> 0]

Key(va, start) == <<va, start>>
FailureCost(pads, raw) == IF pads = {} THEN Len(raw) ELSE 0

LsdaOf(data, va, fde, l) ==   \* the address of its table, if the FDE has one
    LET length  == ReadUleb128(data, l.pos, fde.end)
        pointer == ReadLsdaValue(data, length.pos, fde.end, fde.cie.lsda)
        based   == IF Application(fde.cie.lsda) = Pcrel THEN va + length.pos ELSE 0
    IN  IF fde.cie.lsda = Omit \/ length.value \in {{}, {0}} \/ pointer.value \in {{}, {0}} THEN {}
        ELSE {Only(pointer) + based}

Remember(walk, key, raw, table) ==
    [walk EXCEPT !.decoded = (key :> UNION table.pads) @@ @, !.budget = @ - table.spent, !.reads = @ + 1,
                 !.failures = @ - FailureCost(UNION table.pads, raw)]
DecodeTable(memory, walk, lsda, start) ==
    LET raw == IF lsda \in DOMAIN memory THEN Slice(memory[lsda], 0, Min({MaxLsdaBytes, Len(memory[lsda])})) ELSE <<>>
    IN  CASE Key(lsda, start) \in DOMAIN walk.decoded -> walk
          [] lsda \in walk.unreadable \/ walk.budget <= 0 \/ walk.failures <= 0 -> walk
          [] raw = <<>> -> [walk EXCEPT !.unreadable = @ \cup {lsda}, !.reads = @ + 1]
          [] OTHER -> Remember(walk, Key(lsda, start), raw, DecodeLsdaLandingPads(raw, lsda, start, walk.budget))

TakePads(walk, key, l) ==   \* of a table that was decoded, what lies in the function
    IF key \notin DOMAIN walk.decoded THEN walk
    ELSE [walk EXCEPT !.pads = @ \cup {p \in walk.decoded[key] : l.start <= p /\ p < l.start + l.size}]
FdeLandingPads(data, va, memory, walk, fde) ==
    LET named == UNION {{[at |-> l, lsda |-> lsda] : lsda \in LsdaOf(data, va, fde, l)} : l \in Located(data, va, fde)}
    IN  FoldLeft(LAMBDA w, n : TakePads(DecodeTable(memory, w, n.lsda, n.at.start), Key(n.lsda, n.at.start), n.at),
                 walk, SetToSeq(named))

DecodeEhFrameLandingPads(data, va, memory, tableBytes, failedBytes) ==
    FoldLeft(LAMBDA walk, fde : FdeLandingPads(data, va, memory, walk, fde), Fresh(tableBytes, failedBytes),
             WalkEhFrameFdes(data))

-----------------------------------------------------------------------------
(* The search table of an image [base, elf, headers, memory]: its program   *)
(* headers [kind, va], and what is read at an address.                      *)

HdrHeaderSize == 12
HdrEntrySize  == 8
HdrVersion    == 1
CountEncoding == 3
TableEncoding == 59
ReadAt(image, va, size) == [k \in 1..Cardinality({a \in va..(va + size - 1) : a \in DOMAIN image.memory}) |->
                               image.memory[va + k - 1]]

HdrAddress(image) ==
    LET tables == {k \in DOMAIN image.headers : image.headers[k].kind = "PT_GNU_EH_FRAME"}
    IN  IF ~image.elf \/ tables = {} THEN {} ELSE {image.headers[Min(tables)].va}

StartsAt(image, va) ==
    LET header == ReadAt(image, va, HdrHeaderSize)
        count  == Min({Number(Slice(header, 8, 4), 0), MaxHdrEntries})
        table  == ReadAt(image, va + HdrHeaderSize, count * HdrEntrySize)
        entry(k) == Slice(table, HdrEntrySize * (k - 1), 4)
    IN  IF Len(header) < HdrHeaderSize \/ header[1] # HdrVersion \/ header[3] # CountEncoding
              \/ header[4] # TableEncoding \/ table = <<>> THEN {}
        ELSE {{va + Number(entry(k), IF entry(k)[4] >= 128 THEN -1 ELSE 0) :
                  k \in 1..Min({count, Len(table) \div HdrEntrySize})}}

DecodeEhFrameHdrStarts(image) ==   \* where it is linked, or where that is loaded
    UNION {LET linked == StartsAt(image, va)
               loaded == StartsAt(image, image.base + va)
           IN  UNION (IF linked # {} THEN linked ELSE loaded) : va \in HdrAddress(image)}
=============================================================================
