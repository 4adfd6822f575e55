------------------------------- MODULE Mapping -------------------------------
(***************************************************************************)
(* How the loaders of smda/utility lay a file out in memory, which part of *)
(* it they take for code, and how a memory image is turned back into a     *)
(* file: PeFileLoader, ElfFileLoader, MachoFileLoader and the address      *)
(* queries of BinaryInfo.                                                  *)
(*                                                                         *)
(* An image is a record                                                    *)
(*   [format, length, base, unit, sections, segments]                      *)
(* where length is that of the file, base what its header declares and     *)
(* unit what its areas are rounded to.  A section is                       *)
(* [va, offset, size, raw, exec], a segment is                             *)
(* [va, offset, memory, file, exec, load]: size and memory are the extents *)
(* in memory, raw and file those in the file.  A byte of the file stands   *)
(* for itself: it is the number of its offset.                             *)
(***************************************************************************)
EXTENDS Integers, Sequences, SequencesExt, FiniteSets, FiniteSetsExt

CONSTANTS
    Page,           \* what mappings and areas are rounded to
    HeaderGap,      \* _MAX_HEADER_SEGMENT_GAP
    Bogus,          \* sys.maxsize: sections beyond it are not believed
    MAX_IMAGE_SIZE

ASSUME MappingAssumption ==
    Page \in Nat \ {0} /\ HeaderGap \in Nat /\ Bogus \in Nat /\ MAX_IMAGE_SIZE \in Nat

Zero     == -1    \* a byte the mapping filled in
NoData   == <<>>
TooLarge == <<-2>>  \* the loader raises

Align(v, unit) == IF v % unit = 0 THEN v ELSE v + (unit - (v % unit))

Least(a, b) == IF a < b THEN a ELSE b

(* The bytes of a file, cut off where it ends. *)
Bytes(image, from, count) ==
    [i \in 1..Least(count, Max({0, image.length - from})) |-> from + i - 1]

Zeros(count) == [i \in 1..Max({0, count}) |-> Zero]

(* Python's memory[from:to] = content: what is replaced need not be as long *)
(* as what replaces it, and a negative start counts from the end.           *)
Assign(memory, from, to, content) ==
    LET n     == Len(memory)
        Clip(x) == IF x < 0 THEN Max({0, n + x}) ELSE Least(x, n)
        start == Clip(from)
        stop  == Max({start, Clip(to)})
    IN  SubSeq(memory, 1, start) \o content \o SubSeq(memory, stop + 1, n)

(* Larger parts first, in the order of the file where they are equal. *)
BySize(parts, extent) ==
    LET order == SortSeq([i \in DOMAIN parts |-> i],
                     LAMBDA i, j : \/ parts[i][extent] > parts[j][extent]
                                   \/ parts[i][extent] = parts[j][extent] /\ i < j)
    IN  [i \in DOMAIN order |-> parts[order[i]]]

Mapped(parts) == SelectSeq(parts, LAMBDA part : part.va # 0)

-----------------------------------------------------------------------------
(* PE: the section table decides, addresses are relative to the base. *)

PeSize(image) ==
    Max({0} \cup {Max({s.size, s.raw}) + s.va : s \in ToSet(image.sections)})

(* Files are aligned to 0x200, a section cannot begin in the header. *)
PeHeader(image) ==
    LET starts == {s.offset : s \in ToSet(image.sections)} \ 0..(Page - 1)
    IN  IF starts = {} THEN image.length ELSE Min(starts)

MapPeSection(image, memory, s) ==
    LET copied == Bytes(image, s.offset, s.raw)
    IN  Assign(memory, s.va, s.va + Len(copied), copied)

MapPe(image) ==
    LET size   == PeSize(image)
        header == Least(PeHeader(image), Least(image.length, size))
    IN  CASE size = 0 -> NoData
          [] size > MAX_IMAGE_SIZE -> TooLarge
          [] OTHER -> FoldLeft(LAMBDA memory, s : MapPeSection(image, memory, s),
                               Assign(Zeros(size), 0, header, Bytes(image, 0, header)),
                               image.sections)

-----------------------------------------------------------------------------
(* ELF and Mach-O: segments first, sections over them, the header last. *)

(* has_bogus_sections() *)
BogusSections(image, base) ==
    Max({0} \cup {s.va + s.size : s \in ToSet(Mapped(image.sections))}) - base > Bogus

Loads(image) == {p \in ToSet(image.segments) : p.load}

(* No part lies below the beginning of its file. *)
Linked(parts) == {part.va - part.offset : part \in {p \in parts : p.va >= p.offset}}

(* The segment of the header may have no section of its own. *)
HeaderSegments(image, sectionBase) ==
    {p.va : p \in {q \in Loads(image) : /\ q.offset = 0 /\ q.va < sectionBase
                                         /\ sectionBase - (q.va + q.memory) <= HeaderGap}}

ElfBases(image) ==
    LET ofSections == Linked(ToSet(Mapped(image.sections)))
    IN  CASE BogusSections(image, 0) -> {p.va : p \in ToSet(Mapped(image.segments))}
          [] ofSections = {} -> Linked(Loads(image))
          [] OTHER -> ofSections \cup HeaderSegments(image, Min(ofSections))

(* A Mach-O names its image base, which counts whatever the sections say. *)
MachoBases(image) == {image.base} \cup Linked(ToSet(Mapped(image.sections)))

(* The file offset a mapping begins at, _calculate_base_address(). *)
BaseAddress(image) ==
    LET bases == IF image.format = "elf" THEN ElfBases(image) ELSE MachoBases(image)
    IN  CASE image.format = "pe" -> image.base
          [] bases = {} -> 0
          [] OTHER -> Min(bases)

(* _get_boundaries(): everything that has an address. *)
Extents(image) ==
    {<<p.va, p.va + p.memory, p.offset>> : p \in ToSet(Mapped(image.segments))}
    \cup IF image.format = "elf" /\ BogusSections(image, BaseAddress(image)) THEN {}
         ELSE {<<s.va, s.va + s.size, s.offset>> : s \in ToSet(Mapped(image.sections))}

MaxVirtualAddress(image) == Max({0} \cup {e[2] : e \in Extents(image)})

MinRawOffset(image) == Min({Bogus} \cup {e[3] : e \in Extents(image)})

(* What a part holds, filled up with zeros and cut off at the capacity. *)
Padded(image, offset, stored, extent) ==
    LET content == Bytes(image, offset, stored)
    IN  SubSeq(content \o Zeros(extent - Len(content)), 1, extent)

Capacity(memory, rva) == Max({0, Len(memory) - rva})

(* What lies below the base is left out. *)
Place(memory, rva, content) ==
    LET copied == SubSeq(content, 1, Least(Len(content), Capacity(memory, rva)))
    IN  IF rva < 0 THEN memory ELSE Assign(memory, rva, rva + Len(copied), copied)

MapSegments(image, base, memory) ==
    FoldLeft(LAMBDA m, p : Place(m, p.va - base,
                                 Padded(image, p.offset, p.file, p.file)),
             memory, BySize(Mapped(image.segments), "file"))

MapSections(image, base, memory) ==
    IF image.format = "elf" /\ BogusSections(image, base) THEN memory
    ELSE FoldLeft(LAMBDA m, s : Place(m, s.va - base,
                                      Padded(image, s.offset, s.raw, s.size)),
                  memory, BySize(Mapped(image.sections), "size"))

(* The header is what lies in the file before everything else. *)
MapHeader(image, memory) ==
    LET count == Least(MinRawOffset(image), Least(image.length, Len(memory)))
    IN  Assign(memory, 0, count, Bytes(image, 0, count))

MapBetween(image, base, top) ==
    CASE top = 0 -> NoData
      [] top - base > MAX_IMAGE_SIZE -> TooLarge
      [] OTHER -> MapHeader(image, MapSections(image, base,
                      MapSegments(image, base, Zeros(Align(top - base, Page)))))
MapNative(image) == MapBetween(image, BaseAddress(image), MaxVirtualAddress(image))

MapBinary(image) == IF image.format = "pe" THEN MapPe(image) ELSE MapNative(image)

-----------------------------------------------------------------------------
(* Code areas, [start, end) pairs. *)

\* fault: only the neighbour's start is looked at
MergeCodeAreasUncovered(areas) ==
    FoldLeft(LAMBDA merged, area :
                 IF merged # <<>> /\ area[1] <= Last(merged)[2]
                 THEN Append(Front(merged), <<Last(merged)[1], area[2]>>)
                 ELSE Append(merged, area),
             <<>>, SetToSortSeq(areas, LAMBDA a, b : a[1] < b[1] \/ (a[1] = b[1] /\ a[2] < b[2])))

MergeCodeAreas(areas) ==
    FoldLeft(LAMBDA merged, area :
                 IF merged # <<>> /\ area[1] <= Last(merged)[2]
                 THEN Append(Front(merged), <<Last(merged)[1], Max({Last(merged)[2], area[2]})>>)
                 ELSE Append(merged, area),
             <<>>, SetToSortSeq(areas, LAMBDA a, b : a[1] < b[1] \/ (a[1] = b[1] /\ a[2] < b[2])))

(* PE areas are rounded to pages, those of the other sections and of ELF    *)
(* segments to what the file says.                                          *)
SectionArea(image, s) ==
    IF image.format = "pe"
    THEN LET start == image.base + s.va
         IN  <<start, start + Align(IF s.size = 0 THEN s.raw ELSE s.size, Page)>>
    ELSE <<s.va, s.va + Align(s.size, image.unit)>>

SegmentArea(image, p) ==
    <<p.va, p.va + IF image.format = "elf" THEN Align(p.memory, image.unit) ELSE p.memory>>

Executable(parts) == {part \in ToSet(parts) : part.exec}

Filled(areas) == {area \in areas : area[1] < area[2]}

(* A Mach-O takes its segments only where no section is marked as code. *)
GetCodeAreas(image) ==
    LET ofSections == Filled({SectionArea(image, s) : s \in Executable(image.sections)})
        ofSegments == Filled({SegmentArea(image, p) : p \in Executable(image.segments)})
    IN  MergeCodeAreas(
            CASE image.format = "pe"  -> ofSections
              [] image.format = "elf" -> ofSections \cup ofSegments
              [] ofSections # {}      -> ofSections
              [] OTHER                -> {area \in ofSegments : area[1] # 0})

(* BinaryInfo.isInCodeAreas(): the last area that begins at or before the   *)
(* address decides, which is right because areas are merged first.          *)
IsInCodeAreas(areas, base, size, address) ==
    LET merged == MergeCodeAreas(areas)
        before == {i \in DOMAIN merged : merged[i][1] <= address}
    IN  IF areas = {} THEN base <= address /\ address < base + size
        ELSE before # {} /\ address < merged[Max(before)][2]

-----------------------------------------------------------------------------
(* A memory image read back as a file, ElfFileLoader.unmapImage().  The     *)
(* dynamic table, found at its address and not at its file offset, tells    *)
(* one from the other: here it is the bytes of the file it lies in.         *)

IsTable(memory, from, table) ==
    /\ from >= 0 /\ from + table.file <= Len(memory)
    /\ \A i \in 1..table.file : memory[from + i] = table.offset + i - 1

SourceInMemory(p, imageBase) == p.va - imageBase

UnmapImage(image, memory, table) ==
    LET headers   == SelectSeq(image.segments, LAMBDA p : p.load /\ p.offset = 0)
        imageBase == headers[1].va
        fileSize  == Max({p.offset + p.file : p \in Loads(image)})
        Back(view, p) ==
            LET source  == SourceInMemory(p, imageBase)
                content == SubSeq(memory, source + 1, Least(source + p.file, Len(memory)))
            IN  IF source < 0 THEN view
                ELSE Assign(view, p.offset, p.offset + Len(content), content)
    IN  IF \/ headers = <<>>
           \/ table.va - imageBase = table.offset
           \/ IsTable(memory, table.offset, table)
           \/ ~IsTable(memory, table.va - imageBase, table)
           \/ fileSize > Len(memory)
        THEN NoData
        ELSE FoldLeft(Back, Zeros(fileSize), SelectSeq(image.segments, LAMBDA p : p.load))

(* get_macho_address_adjustment(): what the label providers add to the      *)
(* addresses of the file.                                                   *)
AddressAdjustment(image, base) ==
    LET bases == {image.base} \cup {s.va - s.offset : s \in ToSet(Mapped(image.sections))}
    IN  IF base = 0 THEN 0 ELSE base - Min(bases)
-----------------------------------------------------------------------------
(* What the answers are held against. *)

(* The byte a section puts at an address of its own. *)
ByteOf(image, s, address) ==
    LET k == address - s.va
    IN  IF k < s.raw /\ s.offset + k < image.length THEN s.offset + k ELSE Zero

Covers(image, s, address) ==
    s.va <= address /\ address < s.va + IF image.format = "pe" THEN s.raw ELSE s.size

(* Where sections overlap they have to agree. *)
Agreed(image, address) ==
    LET covering == {s \in ToSet(image.sections) : Covers(image, s, address)}
    IN  \A s, t \in covering : ByteOf(image, s, address) = ByteOf(image, t, address)

(* Files that are linked to addresses no lower than their offsets. *)
LinkedAbove(image) ==
    \A s \in ToSet(image.sections) :
        s.va # 0 \/ image.format = "pe" => s.va >= s.offset

(* A memory image as a system's loader makes it: the segments, nothing else. *)
Loaded(image) ==
    LET imageBase == Min({p.va : p \in Loads(image)})
        top == Max({p.va + p.memory : p \in Loads(image)}) - imageBase
    IN  [i \in 1..top |->
            LET here == {p \in Loads(image) : /\ p.va <= imageBase + i - 1
                                              /\ imageBase + i - 1 < p.va + p.file}
            IN  IF here = {} THEN Zero
                ELSE LET p == CHOOSE p \in here : TRUE
                     IN  p.offset + (imageBase + i - 1 - p.va)]
=============================================================================
