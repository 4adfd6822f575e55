----------------------------- MODULE SynthesisPe -----------------------------
(***************************************************************************)
(* The PE a report is rebuilt to, smda/synthesis/PeSynthesizer.py.         *)
(*                                                                         *)
(* A region is [va, size, raw, exec], its address relative to the image    *)
(* base, its size that in memory.  The header a report was saved with is   *)
(* [base, unit, entry, length, sections], the sections [va, size, raw,     *)
(* exec] with raw the size in the file.  Imports are found by walking a    *)
(* library's slots from its first to the first empty one.                  *)
(***************************************************************************)
EXTENDS Synthesis

(* A name "#N" stands for an ordinal if no import has that name of its own. *)
ParseOrdinal(name) ==
    IF name < 0 /\ -name <= MaxOrdinal /\ -name \notin Resolvable THEN {-name} ELSE {}

Thunk(name) ==
    LET ordinal == ParseOrdinal(name)
    IN  IF ordinal = {} THEN Hint(name) ELSE OrdinalThunk(Max(ordinal))

(* Blocks are planted whole, into the first region that has room. *)
PePlantChunk(planting, chunk, base) ==
    LET rva  == chunk.at - base
        room == {i \in DOMAIN planting.regions :
                    LET r == planting.regions[i]
                    IN  r.exec /\ r.va <= rva /\ rva + chunk.size <= r.va + Len(r.raw)}
        first == Min(room)
    IN  IF room = {}
        THEN [planting EXCEPT !.missed = @ \cup (chunk.at..(chunk.at + chunk.size - 1))]
        ELSE [planting EXCEPT !.regions = [@ EXCEPT ![first] =
                  Written(@, rva - @.va, CodeBytes(chunk.at, chunk.at + chunk.size))]]

PlantFunctions(regions, fns, base) ==
    FoldLeft(LAMBDA planting, chunk : PePlantChunk(planting, chunk, base),
             [regions |-> regions, missed |-> {}], Chunks(fns))

PePlantStrings(regions, report, base) ==
    LET Plant(rs, part) ==
            LET rva  == part.at - base
                end  == rva + Len(part.content)
                room == {i \in DOMAIN rs : /\ ~rs[i].exec /\ rs[i].va <= rva
                                           /\ end <= rs[i].va + Len(rs[i].raw)}
            IN  IF room = {} THEN rs
                ELSE [rs EXCEPT ![Min(room)] = Written(@, rva - @.va, part.content)]
    IN  FoldLeft(Plant, regions, StringParts(report))

-----------------------------------------------------------------------------
(* Imports.  Slots are a function from addresses to [dll, name]. *)

Slots(report, base) ==
    LET above == {i \in report.imports : i.slot >= base}
    IN  [rva \in {i.slot - base : i \in above} |->
            LET i == CHOOSE i \in above : i.slot = rva + base IN [dll |-> i.dll, name |-> i.name]]

InData(regions, rva) ==
    \E r \in ToSet(regions) : ~r.exec /\ r.va <= rva /\ rva + PointerSize <= r.va + r.size

Ordered(addresses) == SetToSortSeq(addresses, <)

(* Libraries in the order of their first slot. *)
Dlls(slots, addresses) ==
    LET First(dll) == Min({a \in addresses : slots[a].dll = dll})
    IN  SetToSortSeq({slots[a].dll : a \in addresses}, LAMBDA d, e : First(d) < First(e))

(* _relocateUnplantableSlots(): slots that no data region holds are moved   *)
(* to a run of their own, library by library, each ending on an empty slot. *)
Displaced(regions, slots) == {rva \in DOMAIN slots : ~InData(regions, rva)}

MoveSlot(moving, rva) ==
    LET import == moving.slots[rva]
        others == [a \in DOMAIN moving.slots \ {rva} |-> moving.slots[a]]
    IN  [slots  |-> [a \in DOMAIN others \cup {moving.cursor} |->
                        IF a = moving.cursor THEN import ELSE others[a]],
         cursor |-> moving.cursor + PointerSize]

Relocated(regions, slots, va) ==
    LET displaced == Displaced(regions, slots)
        MoveDll(moving, dll) ==
            LET moved == FoldLeft(MoveSlot, moving, Ordered({a \in displaced : slots[a].dll = dll}))
            IN  [moved EXCEPT !.cursor = @ + PointerSize]
    IN  FoldLeft(MoveDll, [slots |-> slots, cursor |-> va], Dlls(slots, displaced))

(* _writeThunkAt(): into the first region whose bytes hold the slot. *)
WriteThunkAt(regions, rva, value, dataOnly) ==
    LET room == {i \in DOMAIN regions : /\ ~(dataOnly /\ regions[i].exec) /\ regions[i].va <= rva
                                        /\ rva + PointerSize <= regions[i].va + Len(regions[i].raw)}
    IN  IF room = {} THEN regions
        ELSE [regions EXCEPT ![Min(room)] =
                  Written(@, rva - @.va, <<value>> \o Zeros(PointerSize - 1))]

(* What lies between the slots of a library must not end the walk, what     *)
(* lies behind the last one must.                                           *)
PadGaps(regions, slots, dll) ==
    LET own   == {a \in DOMAIN slots : slots[a].dll = dll}
        first == Min(own)
        last  == Max(own)
        gaps  == {a \in first..last : (a - first) % PointerSize = 0} \ DOMAIN slots
        behind == {last + PointerSize} \ DOMAIN slots
    IN  IF last - first > MaxPadding THEN regions
        ELSE FoldLeft(LAMBDA rs, a : WriteThunkAt(rs, a, Zero, TRUE),
                      FoldLeft(LAMBDA rs, a : WriteThunkAt(rs, a, OrdinalThunk(0), TRUE),
                               regions, Ordered(gaps)),
                      Ordered(behind))

WriteThunks(regions, slots) ==
    FoldLeft(LAMBDA rs, dll : PadGaps(rs, slots, dll),
             FoldLeft(LAMBDA rs, a : WriteThunkAt(rs, a, Thunk(slots[a].name), FALSE),
                      regions, Ordered(DOMAIN slots)),
             Dlls(slots, DOMAIN slots))

(* .bspack: the run of moved slots, the descriptors, hints and names. *)
ImportEnd(regions) ==
    LET ends == {r.va + r.size : r \in ToSet(regions)} IN Align(Max(ends), Page)

PackImports(regions, va, moved) ==
    LET dlls    == Dlls(moved.slots, DOMAIN moved.slots)
        names   == {moved.slots[a] : a \in DOMAIN moved.slots}
        hints   == {n \in names : ParseOrdinal(n.name) = {}}
        content == (moved.cursor - va) + (Len(dlls) + 1) + Cardinality(hints) + Len(dlls)
        size    == Align(content, FileUnit)
        packed  == [va |-> va, size |-> Align(content, Page), exec |-> FALSE,
                    raw |-> Zeros(moved.cursor - va) \o Tables(content - (moved.cursor - va))
                            \o Zeros(size - content)]
    IN  [regions |-> WriteThunks(Append(regions, packed), moved.slots),
         symbols |-> {[dll |-> d, first |-> Min({a \in DOMAIN moved.slots : moved.slots[a].dll = d})]
                         : d \in ToSet(dlls)}]
BuildImportSection(report, regions, base) ==
    IF DOMAIN Slots(report, base) = {} THEN [regions |-> regions, symbols |-> {}]
    ELSE PackImports(regions, ImportEnd(regions), Relocated(regions, Slots(report, base), ImportEnd(regions)))

-----------------------------------------------------------------------------
(* The file. *)

PeEntry(report, base, fallback) ==
    LET oep == EntryPoint(report)
        candidate == IF oep = {} THEN fallback ELSE Max(oep) - base
    IN  IF 0 <= candidate /\ candidate < Narrow THEN candidate ELSE fallback

(* Regions follow the header one after the other. *)
PlaceRegions(headers, regions) ==
    LET Follow(placing, r) == [output  |-> placing.output \o r.raw,
                               offsets |-> Append(placing.offsets, Len(placing.output))]
    IN  FoldLeft(Follow, [output |-> Tables(headers), offsets |-> <<>>], regions)
PeFile(regions, placed, missed, base, entry, imports) ==
    [image |->
        [format |-> "pe", length |-> Len(placed.output), base |-> base, unit |-> Page,
         sections |-> [i \in DOMAIN regions |->
             [va |-> regions[i].va, offset |-> placed.offsets[i], size |-> regions[i].size,
              raw |-> Len(regions[i].raw), exec |-> regions[i].exec]],
         segments |-> <<>>],
     content |-> placed.output, entry |-> {entry}, missed |-> missed,
     sections |-> regions, symbols |-> imports]
AssemblePe(imported, missed, base, headers, entry) ==
    PeFile(imported.regions, PlaceRegions(headers, imported.regions), missed, base, entry, imported.symbols)

(* _synthesizeFromHeader(): the layout of the program it was; what only     *)
(* memory had gets room in the file.                                        *)
RegionOf(s) ==
    LET rawSize == IF s.raw = 0 /\ s.size > 0 THEN Align(s.size, FileUnit) ELSE s.raw
    IN  [va |-> s.va, size |-> s.size, exec |-> s.exec,
         raw |-> IF s.exec THEN Nops(rawSize) ELSE Zeros(rawSize)]

PeImported(report, planting, base) ==
    BuildImportSection(report, PePlantStrings(planting.regions, report, base), base)
PeFromHeader(report, fns, header) ==
    LET planting == PlantFunctions(Each(RegionOf, header.sections), fns, report.base)
    IN  AssemblePe(PeImported(report, planting, report.base), planting.missed, header.base,
                   Max({header.length, Align(HeaderSize, FileUnit)}), PeEntry(report, report.base, header.entry))

(* No section can lie where the header does: the base gives way. *)
ImageBaseFor(report, fns) ==
    LET lowest    == Min({fn.offset : fn \in ToSet(fns)})
        candidate == Down(lowest - Page, BaseUnit)
    IN  IF lowest - report.base >= Page \/ lowest < Page THEN report.base ELSE candidate

Region(va, size, exec) ==
    [va |-> va, size |-> size, exec |-> exec, raw |-> IF exec THEN Nops(size) ELSE Zeros(size)]

Overlaps(regions, va, size) ==
    \E r \in ToSet(regions) : r.va < va + size /\ va < r.va + r.size

(* .smdaIAT, unless code is in the way. *)
WithIat(regions, slots) ==
    LET va   == Down(Min(slots), Page)
        size == Align(Align(Max(slots) + PointerSize, Grain), Page) - va
    IN  IF slots = {} \/ Overlaps(regions, va, size) THEN regions
        ELSE Append(regions, Region(va, size, FALSE))

(* .rdata, unless something is in the way or the strings are too far apart. *)
WithStrings(regions, addresses) ==
    LET alone == {a \in addresses : ~\E r \in ToSet(regions) : r.va <= a /\ a < r.va + r.size}
        last  == Max(alone) + StringReach
        va    == Max({Down(Min(alone), Page), Page})
        size  == Align(last, Page) - va
    IN  IF \/ alone = {} \/ last - Min(alone) > MaxStringSpan
           \/ size <= 0 \/ Overlaps(regions, va, size)
        THEN regions
        ELSE Append(regions, Region(va, size, FALSE))

ByAddress(regions) ==
    LET order == SortSeq([i \in DOMAIN regions |-> i],
                     LAMBDA i, j : \/ regions[i].va < regions[j].va
                                   \/ regions[i].va = regions[j].va /\ i < j)
    IN  Each(LAMBDA i : regions[i], order)

PeSorted(imported) == [imported EXCEPT !.regions = ByAddress(@)]
PeAt(report, fns, base) ==
    LET va       == Max({Down(Min({fn.offset - base : fn \in ToSet(fns)}), Page), Page})
        size     == Align(ExtentsEnd(fns) - base, Page) - va
        slots    == DOMAIN Slots(report, base)
        strings  == {p.at - base : p \in ToSet(StringParts(report))}
        regions  == ByAddress(WithStrings(WithIat(<<Region(va, size, TRUE)>>, slots), strings))
        planting == PlantFunctions(regions, fns, base)
    IN  IF size <= 0 THEN {}
        ELSE {AssemblePe(PeSorted(PeImported(report, planting, base)), planting.missed, base,
                         Align(HeaderSize, FileUnit), PeEntry(report, base, va))}
PeMinimal(report, fns) == PeAt(report, fns, ImageBaseFor(report, fns))

SynthesizePe(report, fns) ==
    LET usable == {header \in report.header : header.sections # <<>>}
    IN  IF usable = {} THEN PeMinimal(report, fns)
        ELSE {PeFromHeader(report, fns, header) : header \in usable}

-----------------------------------------------------------------------------
(* What a reader finds. *)

(* A name by its ordinal where there is one to resolve. *)
ReadName(thunk) ==
    LET ordinal == -2000 - thunk
    IN  CASE thunk > -2000 -> -1000 - thunk
          [] ordinal \in Resolvable -> ordinal
          [] OTHER -> -ordinal

(* The slots from the first to the first empty one. *)
Walk(memory, first) ==
    {a \in first..(Len(memory) - 1) : \A b \in first..a : memory[b + 1] # Zero}
=============================================================================
