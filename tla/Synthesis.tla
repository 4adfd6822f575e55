------------------------------ MODULE Synthesis ------------------------------
(***************************************************************************)
(* A file rebuilt from a report: smda/synthesis, for ELF, PE and Mach-O.   *)
(*                                                                         *)
(* A report is                                                             *)
(*   [format, base, oep, narrow, asked, sections, functions, strings,      *)
(*    imports, header]                                                     *)
(* with sections [name, start, end] and functions [offset, blocks] as      *)
(* sequences in the order of their addresses, strings and blocks           *)
(* [at, size], imports [slot, dll, name] and the set of at most one header *)
(* the report was saved with.  A section's name is its class.  A byte of   *)
(* the program is its address, so that the file is right where loading it  *)
(* (Mapping) gives every address itself.                                   *)
(*                                                                         *)
(* What the files' own tables take is abstracted to one cell per entry.    *)
(***************************************************************************)
EXTENDS Mapping

CONSTANTS
    HeaderSize,     \* what precedes everything in a file
    MaxPrologue,    \* MAX_BASE_PROLOGUE
    Grain,          \* 16, what ends and tables are rounded to
    FileUnit,       \* file_alignment of a PE
    BaseUnit,       \* IMAGE_BASE_ALIGNMENT
    PointerSize,
    MaxPadding,     \* MAX_IAT_PADDING_SPAN
    StringReach,    \* 0x100, what the last string is given room for
    MaxStringSpan,  \* MAX_SYNTHETIC_SECTION_SPAN
    MaxOrdinal,     \* an ordinal is a WORD
    Resolvable,     \* external: the ordinals OrdinalHelper knows a name for
    Narrow, Wide    \* the first values beyond 32 and 64 bits

ASSUME SynthesisAssumption ==
    /\ {HeaderSize, Grain, FileUnit, BaseUnit, PointerSize, MaxOrdinal} \subseteq Nat \ {0}
    /\ {MaxPrologue, MaxPadding, StringReach, MaxStringSpan} \subseteq Nat
    /\ Resolvable \subseteq 1..MaxOrdinal /\ Narrow \in Nat /\ Wide \in Nat /\ Narrow <= Wide

NopByte   == -3    \* _nopFill()
TableByte == -4    \* a cell of what the file is made of
Hint(name)       == -1000 - name      \* a thunk that imports by name
OrdinalThunk(n)  == -2000 - (n % (MaxOrdinal + 1))

Down(v, unit) == v - (v % unit)
Nops(count)   == [i \in 1..Max({0, count}) |-> NopByte]
Tables(count) == [i \in 1..count |-> TableByte]
CodeBytes(from, to) == [i \in 1..(to - from) |-> from + i - 1]

Each(Op(_), list) == FoldLeft(LAMBDA done, element : Append(done, Op(element)), <<>>, list)

\* What a way of doing it gives, if it gives anything, and else another.
FirstOf(one, other) == IF one # {} THEN one ELSE other

Written(part, at, content) == [part EXCEPT !.raw = Assign(@, at, at + Len(content), content)]

-----------------------------------------------------------------------------
(* What is rebuilt, BinarySynthesizer. *)

ExtentEnd(fn) == Max({b.at + b.size : b \in ToSet(fn.blocks)})

ExtentsEnd(fns) == Max({ExtentEnd(fn) : fn \in ToSet(fns)})

Resolve(report) ==
    SelectSeq(report.functions, LAMBDA fn : fn.offset \in report.asked /\ fn.blocks # <<>>)

TooFarApart(fns) == ExtentsEnd(fns) - fns[1].offset > MAX_IMAGE_SIZE

Chunks(fns) == FlattenSeq([i \in DOMAIN fns |-> fns[i].blocks])

(* An entry point below the base is relative to it. *)
EntryPoint(report) ==
    IF report.oep = 0 THEN {}
    ELSE {IF report.oep >= report.base THEN report.oep ELSE report.base + report.oep}

(* _syntheticSpan(): {} where it raises. *)
SyntheticSpan(fns) ==
    LET start == Down(fns[1].offset, Page)
        end   == Align(Max({ExtentsEnd(fns), Last(fns).offset + 1}), Grain)
    IN  IF end - start > MAX_IMAGE_SIZE THEN {} ELSE {[start |-> start, end |-> end]}

Holds(s, address) == s.start <= address /\ address < s.end

HoldsCode(s, fns) == \E fn \in ToSet(fns) : Holds(s, fn.offset)

Uncovered(sections, fns) ==
    SelectSeq(fns, LAMBDA fn : ~\E s \in ToSet(sections) : Holds(s, fn.offset))

ByStart(sections) ==
    LET order == SortSeq([i \in DOMAIN sections |-> i],
                     LAMBDA i, j : \/ sections[i].start < sections[j].start
                                   \/ sections[i].start = sections[j].start /\ i < j)
    IN  Each(LAMBDA i : sections[i], order)

(* A section is described by what the report says of it, empty and          *)
(* oversized ones are left out.                                             *)
CollectSections(report) ==
    SelectSeq(ByStart(report.sections),
              LAMBDA s : s.start # 0 /\ s.start < s.end /\ s.end - s.start <= MAX_IMAGE_SIZE)

(* What a section holds before anything is planted. *)
Blank(s) ==
    CASE s.zero -> <<>>
      [] s.exec -> Nops(s.end - s.start)
      [] OTHER  -> Zeros(s.end - s.start)

(* Code that runs past its section takes what no other section describes. *)
\* fault: the next section is not looked at
GrownOver(sections, i, end) ==
    LET s == sections[i]
    IN  IF end <= s.end THEN s ELSE [s EXCEPT !.end = end, !.raw = @ \o Nops(end - s.end)]

Grown(sections, i, end) ==
    LET s       == sections[i]
        behind  == {t.start : t \in {u \in ToSet(sections) : u.start > s.start}}
        newEnd  == IF behind = {} THEN end ELSE Least(end, Min(behind))
    IN  IF newEnd <= s.end THEN s
        ELSE [s EXCEPT !.end = newEnd, !.raw = @ \o Nops(newEnd - s.end)]

Overrun(sections, chunk) ==
    {i \in DOMAIN sections : /\ sections[i].exec /\ Holds(sections[i], chunk.at)
                             /\ sections[i].end < chunk.at + chunk.size}

(* Every part of a block goes where a section has room for it, the rest is  *)
(* warned about.                                                            *)
PlantChunk(planting, chunk) ==
    LET end   == chunk.at + chunk.size
        over  == Overrun(planting.sections, chunk)
        grown == IF over = {} THEN planting.sections
                 ELSE [planting.sections EXCEPT ![Min(over)] = Grown(planting.sections, Min(over), end)]
        Planted(s) ==
            LET from == Max({chunk.at, s.start})
                to   == Least(end, s.end)
            IN  IF s.exec /\ from < to
                THEN Written(s, from - s.start, CodeBytes(from, to))
                ELSE s
    IN  [sections |-> Each(Planted, grown),
         missed   |-> planting.missed \cup
                          {a \in chunk.at..(end - 1) :
                               ~\E s \in ToSet(grown) : s.exec /\ Holds(s, a)}]

PlantFunctionChunks(sections, fns) ==
    FoldLeft(PlantChunk, [sections |-> sections, missed |-> {}], Chunks(fns))

(* Terminators go first, a literal packed behind another takes its place. *)
StringParts(report) ==
    [i \in DOMAIN report.strings |->
        [at |-> report.strings[i].at + report.strings[i].size, content |-> <<Zero>>]]
    \o [i \in DOMAIN report.strings |->
        LET s == report.strings[i] IN [at |-> s.at, content |-> CodeBytes(s.at, s.at + s.size)]]

PlantString(sections, part) ==
    LET end  == part.at + Len(part.content)
        room == {i \in DOMAIN sections : /\ ~sections[i].exec /\ ~sections[i].zero
                                         /\ sections[i].start <= part.at /\ end <= sections[i].end}
    IN  IF room = {} THEN sections
        ELSE [sections EXCEPT ![Min(room)] = Written(@, part.at - @.start, part.content)]

PlantStrings(sections, report) == FoldLeft(PlantString, sections, StringParts(report))

(* The next offset that is congruent to an address. *)
FileOffset(cursor, address) ==
    LET offset == Down(cursor, Page) + (address % Page)
    IN  IF offset < cursor THEN offset + Page ELSE offset

Fill(output, offset) == output \o Zeros(offset - Len(output))

-----------------------------------------------------------------------------
(* ELF *)

(* Reports are saved without names, a section needs one to be listed. *)
ClassifyElf(s, fns) ==
    LET exec == HoldsCode(s, fns) \/ s.name = "text"
        zero == s.name = "bss" /\ ~exec
        section == [name  |-> IF s.name = "" THEN "smda" ELSE s.name,
                    start |-> s.start, end |-> s.end, exec |-> exec, zero |-> zero,
                    write |-> ~exec /\ s.name \in {"data", "got", "bss"}, raw |-> <<>>]
    IN  [section EXCEPT !.raw = Blank(section)]

SyntheticSection(name, span) ==
    [name |-> name, start |-> span.start, end |-> span.end, exec |-> TRUE, zero |-> FALSE,
     write |-> FALSE, raw |-> Nops(span.end - span.start)]

ImportSection(name, start, size, write) ==
    [name |-> name, start |-> start, end |-> start + size, exec |-> FALSE, zero |-> FALSE,
     write |-> write, raw |-> Tables(size)]

(* .dynstr, .dynsym, .rel(a).dyn and .dynamic, one behind the other. *)
ElfImportSections(sections, imports) ==
    LET names   == Cardinality({i.name : i \in imports})
        libs    == Cardinality({i.dll : i \in imports})
        dynstr  == Align(Max({s.end : s \in ToSet(sections)}), Page)
        dynsym  == dynstr + Align(names + libs, Grain)
        relocs  == dynsym + Align(names, Grain)
        dynamic == relocs + Align(Cardinality(imports), Grain)
    IN  <<ImportSection("dynstr", dynstr, names + libs, FALSE),
          ImportSection("dynsym", dynsym, names, FALSE),
          ImportSection("relocs", relocs, Cardinality(imports), FALSE),
          ImportSection("dynamic", dynamic, libs + 1, TRUE)>>

(* Sections of the same permissions on the same or the next page. *)
MergeSection(segments, s) ==
    LET joins == /\ segments # <<>>
                 /\ Last(segments).exec = s.exec /\ Last(segments).write = s.write
                 /\ s.start <= Align(Last(segments).end, Page)
    IN  CASE s.zero \/ s.raw = <<>> -> segments
          [] joins -> Append(Front(segments),
                             [Last(segments) EXCEPT !.end = Max({@, s.end}), !.parts = Append(@, s)])
          [] OTHER -> Append(segments, [start |-> s.start, end |-> s.end, exec |-> s.exec,
                                        write |-> s.write, parts |-> <<s>>])

(* What lies between the base and the first segment is reserved, so that   *)
(* the file is loaded at the base the report has.                          *)
Prologue(report, segments) ==
    LET prologue == segments[1].start - report.base
    IN  IF segments # <<>> /\ report.base % Page = 0 /\ prologue \in HeaderSize..MaxPrologue
        THEN prologue ELSE HeaderSize

SegmentRaw(segment) ==
    FoldLeft(LAMBDA raw, s : LET at == s.start - segment.start IN Assign(raw, at, at + Len(s.raw), s.raw),
             Zeros(segment.end - segment.start), segment.parts)

(* Every segment at its offset, and where its sections got to. *)
PlaceSegment(placing, segment) ==
    LET offset == FileOffset(placing.cursor, segment.start)
        raw    == SegmentRaw(segment)
    IN  [cursor  |-> offset + Len(raw),
         output  |-> Fill(placing.output, offset) \o raw,
         offsets |-> Append(placing.offsets, offset)]

ElfEntry(report, sections) ==
    LET code    == {s.start : s \in {t \in ToSet(sections) : t.exec}}
        default == IF code = {} THEN 0 ELSE Min(code)
        entry   == EntryPoint(report)
    IN  CASE entry = {} -> {default}
          [] Max(entry) >= Wide -> {}
          [] report.narrow /\ Max(entry) >= Narrow -> {default}
          [] OTHER -> entry

SectionHeader(s, offset, exec) ==
    [va |-> s.start, offset |-> offset, size |-> s.end - s.start, raw |-> Len(s.raw), exec |-> exec]
SegmentHeader(p, offset) ==
    [va |-> p.start, offset |-> offset, memory |-> p.end - p.start, file |-> p.end - p.start, exec |-> p.exec, load |-> TRUE]

ElfFile(sections, segments, placed, entry, missed) ==
    LET OffsetOf(s) ==
            LET in == {i \in DOMAIN segments : s \in ToSet(segments[i].parts)}
            IN  IF in = {} THEN 0
                ELSE placed.offsets[Min(in)] + s.start - segments[Min(in)].start
    IN  [image |->
            [format |-> "elf", length |-> Len(placed.output) + 1, base |-> 0, unit |-> Grain,
             sections |-> [i \in DOMAIN sections |->
                              SectionHeader(sections[i], OffsetOf(sections[i]), sections[i].exec)],
             segments |-> [i \in DOMAIN segments |-> SegmentHeader(segments[i], placed.offsets[i])]],
         content |-> placed.output \o Tables(1), entry |-> entry, missed |-> missed,
         sections |-> sections, symbols |-> {}]
AssembleElf(report, sections, segments, missed) ==
    LET placed == FoldLeft(PlaceSegment,
                           [cursor |-> Prologue(report, segments), output |-> Tables(HeaderSize),
                            offsets |-> <<>>], segments)
        entry  == ElfEntry(report, sections)
    IN  IF entry = {} THEN {} ELSE {ElfFile(sections, segments, placed, entry, missed)}

(* A function that no section holds gets one of its own. *)
WithUncovered(listed, fns) ==
    LET alone == Uncovered(listed, fns)
    IN  IF alone = <<>> THEN {listed}
        ELSE {ByStart(Append(listed, SyntheticSection("smda", span))) : span \in SyntheticSpan(alone)}
PrepareElf(report, fns) ==
    WithUncovered(Each(LAMBDA s : ClassifyElf(s, fns), CollectSections(report)), fns)

WithImports(sections, imports) ==
    IF imports = {} THEN sections ELSE sections \o ElfImportSections(sections, imports)
ElfOf(report, sections, missed) == AssembleElf(report, sections, FoldLeft(MergeSection, <<>>, sections), missed)
ElfFilled(report, planted) ==
    ElfOf(report, WithImports(PlantStrings(planted.sections, report), report.imports), planted.missed)
ElfFromSections(report, fns) ==
    UNION {ElfFilled(report, PlantFunctionChunks(prepared, fns)) : prepared \in PrepareElf(report, fns)}

(* One section for everything; a block it does not hold is left out. *)
ElfMinimal(report, fns) ==
    UNION {LET text == SyntheticSection("text", span)
               fits == {b \in ToSet(Chunks(fns)) : span.start <= b.at /\ b.at + b.size <= span.end}
               out  == UNION {b.at..(b.at + b.size - 1) : b \in ToSet(Chunks(fns)) \ fits}
               full == [text EXCEPT !.raw = [i \in DOMAIN text.raw |->
                            LET a == span.start + i - 1
                            IN  IF \E b \in fits : b.at <= a /\ a < b.at + b.size THEN a ELSE NopByte]]
           IN  ElfOf(report, <<full>>, out)
           : span \in SyntheticSpan(fns)}

SynthesizeElf(report, fns) ==
    FirstOf(IF CollectSections(report) = <<>> THEN {} ELSE ElfFromSections(report, fns), ElfMinimal(report, fns))
=============================================================================
