---------------------------- MODULE SynthesisMacho ----------------------------
(***************************************************************************)
(* The Mach-O a report is rebuilt to, smda/synthesis/MachoSynthesizer.py.  *)
(*                                                                         *)
(* The load commands a report was saved with are segments                  *)
(* [name, va, size, exec, sections], their sections [va, name, kind,       *)
(* code].  A section is "zero", "lazy" or "pointers" (slots of imports),   *)
(* "stubs" or "plain" by its kind, which is its type in the file, and code *)
(* says that it is marked as instructions.                                 *)
(***************************************************************************)
EXTENDS Synthesis

Local == 0    \* INDIRECT_SYMBOL_LOCAL

NoSegment == "?"

DataNames  == {"data", "got", "lazy", "bss"}
CodeNames  == {"text", "stubs"}
PointerKinds == {"lazy", "pointers"}

Distance(a, b) == IF a < b THEN b - a ELSE a - b

MachoSection(s) ==
    [name |-> s.name, start |-> s.start, end |-> s.end, exec |-> FALSE, zero |-> FALSE, raw |-> <<>>,
     segment |-> NoSegment, kind |-> "?", code |-> FALSE, indirect |-> 0]

(* _applyXheaderLayout(): sections are recognized at their address, which   *)
(* may have been moved as a whole.                                          *)
Adjustment(sections, metas) == sections[1].start - Min({m.va : m \in metas})

Metas(header) == UNION {{[va |-> m.va, name |-> m.name, kind |-> m.kind, code |-> m.code, segment |-> p.name]
                           : m \in ToSet(p.sections)} : p \in ToSet(header)}

Recognized(sections, s, metas) ==
    {m \in metas : m.va = s.start - Adjustment(sections, metas) /\ (s.name = "" \/ m.name = s.name)}

ApplyLayout(sections, metas) ==
    [i \in DOMAIN sections |->
        LET s     == sections[i]
            known == Recognized(sections, s, metas)
            m     == CHOOSE m \in known : TRUE
        IN  IF known = {} THEN s ELSE [s EXCEPT !.segment = m.segment, !.kind = m.kind, !.code = m.code]]

(* The segments of the header, if they describe half of the sections. *)
LayoutSegments(sections, header) ==
    LET metas   == Metas(header)
        matched == Cardinality({i \in DOMAIN sections : Recognized(sections, sections[i], metas) # {}})
        moved(p) == [name |-> p.name, start |-> p.va + Adjustment(sections, metas),
                     end |-> p.va + Adjustment(sections, metas) + p.size, exec |-> p.exec, parts |-> <<>>]
    IN  IF matched < Max({1, Len(sections) \div 2}) THEN {}
        ELSE {FoldLeft(LAMBDA segments, p : Append(segments, moved(p)), <<>>, header)}

(* What the header says nothing of goes by its name and what it holds. *)
Classified(s, fns) ==
    LET code == HoldsCode(s, fns) \/ s.name \in CodeNames
        kind == CASE s.name = "stubs" -> "stubs" [] s.name = "lazy" -> "lazy"
                  [] s.name = "got" -> "pointers" [] s.name = "bss" -> "zero" [] OTHER -> "plain"
    IN  [s EXCEPT !.kind    = IF @ = "?" THEN kind ELSE @,
                  !.code    = IF s.kind = "?" THEN code /\ kind \in {"stubs", "plain"} ELSE @,
                  !.segment = IF @ # NoSegment THEN @
                              ELSE IF ~code /\ s.name \in DataNames THEN "data" ELSE "text"]

MachoBlank(s, fns) ==
    LET exec    == s.code \/ HoldsCode(s, fns)
        section == [s EXCEPT !.exec = exec, !.zero = s.kind = "zero" /\ ~exec]
    IN  [section EXCEPT !.raw = Blank(section)]

(* Sections of the same segment, or on the page it ends on, go together. *)
HeuristicSegment(segments, s) ==
    LET joins == /\ segments # <<>>
                 /\ Last(segments).name = s.segment \/ s.start < Align(Last(segments).end, Page)
    IN  IF joins
        THEN Append(Front(segments),
                    [Last(segments) EXCEPT !.exec = @ \/ s.exec, !.end = Max({@, s.end}),
                                           !.parts = Append(@, s)])
        ELSE Append(segments, [name |-> s.segment, start |-> s.start, end |-> s.end,
                               exec |-> s.exec, parts |-> <<s>>])

(* A section goes back to the segment that holds its address, to the        *)
(* closest one of its name if none does, and to one of its own otherwise.   *)
JoinSegment(segments, s) ==
    LET named   == {i \in DOMAIN segments : segments[i].name = s.segment /\ s.segment # "smda"}
        holding == {i \in named : Holds(segments[i], s.start)}
        far(i)  == Distance(segments[i].start, s.start)
        closest == {i \in named : \A j \in named : far(i) <= far(j)}
        target  == Min(IF holding # {} THEN holding ELSE closest)
    IN  IF named = {}
        THEN ByStart(Append(segments, [name |-> "smda", start |-> s.start, end |-> s.end,
                                       exec |-> s.exec, parts |-> <<s>>]))
        ELSE [segments EXCEPT ![target] = [@ EXCEPT !.parts = Append(@, s)]]

MachoSegments(sections, layout) ==
    IF layout = {} THEN FoldLeft(HeuristicSegment, <<>>, sections)
    ELSE SelectSeq(FoldLeft(JoinSegment, CHOOSE segments \in layout : TRUE, sections),
                   LAMBDA p : p.parts # <<>>)

-----------------------------------------------------------------------------
(* Imports: one entry of the indirect symbol table per slot and per stub.  *)

SlotsOf(s) == [k \in 1..((s.end - s.start) \div PointerSize) |-> s.start + (k - 1) * PointerSize]

Imported(report) == {i.slot : i \in report.imports}

NameAt(report, slot) == (CHOOSE i \in report.imports : i.slot = slot).name

IsPointerSection(s, report) ==
    /\ s.raw # <<>> /\ ~s.exec
    /\ s.kind \in PointerKinds \/ s.name \in {"lazy", "got"} \/ \E slot \in Imported(report) : Holds(s, slot)

IsStubsSection(s) == (s.kind = "stubs" \/ s.name = "stubs") /\ s.raw # <<>>

(* The pointers a stub section's stubs go through: lazy ones first, then    *)
(* such that the stubs are of one size, then the closest.                   *)
Partner(stubs, sections, report) ==
    LET size    == stubs.end - stubs.start
        slots(i) == Cardinality(ToSet(SlotsOf(sections[i])) \cap Imported(report))
        with    == {i \in DOMAIN sections : IsPointerSection(sections[i], report) /\ slots(i) # 0}
        score(i) == <<IF sections[i].kind = "lazy" THEN 0 ELSE 1, IF size % slots(i) = 0 THEN 0 ELSE 1,
                      Distance(sections[i].start, stubs.start)>>
        before(i, j) == \/ \E k \in 1..3 : /\ score(i)[k] < score(j)[k]
                                           /\ \A l \in 1..(k - 1) : score(i)[l] = score(j)[l]
                        \/ score(i) = score(j) /\ i <= j
    IN  {i \in with : \A j \in with : before(i, j)}

StubSymbols(stubs, sections, report) ==
    LET partner == Partner(stubs, sections, report)
        slots   == SelectSeq(SlotsOf(sections[Min(partner)]), LAMBDA a : a \in Imported(report))
    IN  IF partner = {} THEN [k \in 1..(stubs.end - stubs.start) |-> Local]
        ELSE [k \in DOMAIN slots |-> NameAt(report, slots[k])]

PointerSymbols(s, report) ==
    [k \in DOMAIN SlotsOf(s) |->
        IF SlotsOf(s)[k] \in Imported(report) THEN NameAt(report, SlotsOf(s)[k]) ELSE Local]

(* Stubs come first, each section knows where its entries begin. *)
IndirectOf(building, i, symbols) ==
    [sections |-> [building.sections EXCEPT ![i] = [@ EXCEPT !.indirect = Len(building.symbols)]],
     symbols  |-> building.symbols \o symbols]

IndirectSymbols(sections, report) ==
    LET stubs    == SetToSortSeq({i \in DOMAIN sections : IsStubsSection(sections[i])}, <)
        pointers == SetToSortSeq({i \in DOMAIN sections : IsPointerSection(sections[i], report)}, <)
    IN  FoldLeft(LAMBDA b, i : IndirectOf(b, i, PointerSymbols(sections[i], report)),
            FoldLeft(LAMBDA b, i : IndirectOf(b, i, StubSymbols(sections[i], sections, report)),
                     [sections |-> sections, symbols |-> <<>>], stubs),
            pointers)

-----------------------------------------------------------------------------
(* The file. *)

(* An entry point outside the first segment of code is not named. *)
MachoEntry(report, segments) ==
    LET code == {i \in DOMAIN segments : segments[i].exec}
        text == segments[Min(code)]
    IN  {e \in EntryPoint(report) :
            code # {} /\ text.start <= e /\ e < Align(text.end, Page)}

(* The first segment is mapped from the beginning of the file if the load   *)
(* commands fit below its first section.                                    *)
FirstCursor(segments, prologue) ==
    LET content == {s.start : s \in {t \in ToSet(segments[1].parts) : ~t.zero}}
        first   == IF content = {} THEN segments[1].end ELSE Min(content)
    IN  IF first - segments[1].start >= prologue THEN 0 ELSE prologue

(* A section that runs past its segment is cut off there. *)
MachoSegmentRaw(segment) ==
    FoldLeft(LAMBDA raw, s :
                 LET at    == s.start - segment.start
                     count == Least(Len(s.raw), Max({0, Len(raw) - at}))
                 IN  Assign(raw, at, at + count, SubSeq(s.raw, 1, count)),
             Zeros(segment.end - segment.start), segment.parts)

(* What is written already, the load commands, stays. *)
PlaceMachoSegment(placing, segment) ==
    LET offset == FileOffset(placing.cursor, segment.start)
        filled == Fill(placing.output, offset)
        raw    == MachoSegmentRaw(segment)
    IN  [cursor  |-> offset + Len(raw),
         output  |-> filled \o SubSeq(raw, Max({0, Len(filled) - offset}) + 1, Len(raw)),
         offsets |-> Append(placing.offsets, offset)]

Commands(segments, imports, entry) ==
    Len(segments) + (IF imports = {} THEN 0 ELSE 2 + Cardinality({i.dll : i \in imports})) + Cardinality(entry)
PlaceMachoSegments(segments, prologue) ==
    FoldLeft(PlaceMachoSegment, [cursor |-> FirstCursor(segments, prologue), output |-> Tables(prologue),
                                 offsets |-> <<>>], segments)
(* Each section with its offset, none for one without content. *)
SectionsOf(segments, offsets) ==
    FlattenSeq([i \in DOMAIN segments |->
        [k \in DOMAIN segments[i].parts |->
            LET s == segments[i].parts[k]
            IN  [section |-> s, offset |-> IF s.zero THEN 0 ELSE offsets[i] + s.start - segments[i].start]]])
MachoImage(segments, sections, placed) ==
    LET based == {p.start : p \in {q \in ToSet(segments) : q.name = "text"}}
    IN  [format |-> "macho", length |-> Len(placed.output) + 1, unit |-> 1,
         base |-> IF based = {} THEN 0 ELSE CHOOSE start \in based : TRUE,
         sections |-> [k \in DOMAIN sections |->
                          SectionHeader(sections[k].section, sections[k].offset, sections[k].section.code)],
         segments |-> [i \in DOMAIN segments |-> SegmentHeader(segments[i], placed.offsets[i])]]
EntryOffsets(segments, offsets, entry) ==
    LET text == Min({i \in DOMAIN segments : segments[i].exec})
    IN  {offsets[text] + e - segments[text].start : e \in entry}
(* Only what imports something has symbols. *)
WithSymbols(sections, report, imports) ==
    IF imports = {} THEN [sections |-> sections, symbols |-> <<>>] ELSE IndirectSymbols(sections, report)

MachoFile(segments, sections, placed, linked) ==
    [image |-> MachoImage(segments, sections, placed), content |-> placed.output \o Tables(1), segments |-> segments,
     sections |-> linked.sections, symbols |-> linked.symbols]
MachoPlaced(report, segments, imports, placed) ==
    LET sections == SectionsOf(segments, placed.offsets)
    IN  MachoFile(segments, sections, placed, WithSymbols(Each(LAMBDA s : s.section, sections), report, imports))
AssembleMacho(report, segments, imports, entry) ==
    LET prologue == HeaderSize + Commands(segments, imports, entry)
        placed   == PlaceMachoSegments(segments, prologue)
    IN  [prologue |-> prologue, entry |-> EntryOffsets(segments, placed.offsets, entry)]
        @@ MachoPlaced(report, segments, imports, placed)

MachoLayout(listed, report) == UNION {LayoutSegments(listed, header) : header \in report.header}
MachoPlanted(report, planted, imports, strings, layout) ==
    LET filled   == IF strings THEN PlantStrings(planted.sections, report) ELSE planted.sections
        segments == MachoSegments(filled, layout)
    IN  [missed |-> planted.missed, layout |-> layout # {}]
        @@ AssembleMacho(report, segments, imports, MachoEntry(report, segments))
OwnSection(span) ==
    [MachoSection([name |-> "smda", start |-> span.start, end |-> span.end])
        EXCEPT !.segment = "smda", !.kind = "plain", !.code = TRUE]
MachoWithUncovered(named, fns) ==
    LET alone == Uncovered(named, fns)
    IN  IF alone = <<>> THEN {named}
        ELSE {ByStart(Append(named, OwnSection(span))) : span \in SyntheticSpan(alone)}
MachoListed(report, fns, listed, imports, strings) ==
    LET applied == FoldLeft(LAMBDA ss, header : ApplyLayout(listed, Metas(header)), listed, SetToSeq(report.header))
    IN  {MachoPlanted(report, PlantFunctionChunks(Each(LAMBDA s : MachoBlank(s, fns), ss), fns), imports, strings,
                      MachoLayout(listed, report))
         : ss \in MachoWithUncovered(Each(LAMBDA s : Classified(s, fns), applied), fns)}
MachoFromSections(report, fns, known, imports, strings) ==
    MachoListed(report, fns, Each(MachoSection, known), imports, strings)

MachoMinimal(report, fns) ==
    UNION {MachoFromSections(report, fns, <<[name |-> "text", start |-> span.start, end |-> span.end]>>, {}, FALSE)
           : span \in SyntheticSpan(fns)}

SynthesizeMacho(report, fns) ==
    FirstOf(IF CollectSections(report) = <<>> THEN {}
            ELSE MachoFromSections(report, fns, CollectSections(report), report.imports, TRUE),
            MachoMinimal(report, fns))
=============================================================================
