----------------------------- MODULE MCSynthesis -----------------------------
(* Reports for Algorithms to rebuild. *)
EXTENDS Algorithms

Sec(name, start, end) == [name |-> name, start |-> start, end |-> end]
Fun(offset, blocks) == [offset |-> offset, blocks |-> blocks]
Part(at, size) == [at |-> at, size |-> size]
Import(slot, dll, name) == [slot |-> slot, dll |-> dll, name |-> name]

NoReport == [format |-> "elf", base |-> 8, oep |-> 0, narrow |-> FALSE, asked |-> 0..40, sections |-> <<>>,
             functions |-> <<>>, strings |-> <<>>, imports |-> {}, header |-> {}]

(* Sections that touch, leave room, have no name, begin on a page or not. *)
SectionLists == {<<>>,
            <<Sec("text", 9, 13), Sec("rodata", 13, 17), Sec("data", 18, 20)>>,
            <<Sec("text", 10, 13), Sec("bss", 14, 16), Sec("got", 17, 20)>>,
            <<Sec("", 9, 12), Sec("", 13, 18)>>,
            <<Sec("rodata", 9, 11), Sec("text", 12, 15), Sec("init", 16, 18)>>}

(* Inside a section, across its end, behind all of them, with a block below *)
(* the entry, empty.                                                        *)
RebuiltFunctions == {<<Fun(12, <<Part(12, 1)>>)>>,
              <<Fun(12, <<Part(12, 3)>>)>>,
              <<Fun(10, <<Part(10, 1), Part(11, 2)>>), Fun(12, <<Part(12, 1)>>)>>,
              <<Fun(12, <<Part(10, 2), Part(12, 2)>>)>>,
              <<Fun(12, <<Part(12, 1)>>), Fun(21, <<Part(21, 2)>>)>>,
              <<Fun(12, <<Part(7, 1), Part(12, 1)>>), Fun(22, <<>>)>>}

StringSets == {<<>>, <<Part(14, 2), Part(16, 1)>>, <<Part(19, 1)>>}

ImportSets == {{}, {Import(18, 1, 3)}, {Import(18, 1, 3), Import(19, 2, -1)}}

ElfTasks ==
    {[kind |-> "synthesis",
      report |-> [NoReport EXCEPT !.base = base, !.oep = oep, !.narrow = narrow, !.sections = sections,
                                  !.functions = functions, !.strings = strings, !.imports = imports]] :
        base \in {4, 9}, oep \in {0, 4, 12, 70, 128}, narrow \in BOOLEAN, sections \in SectionLists,
        functions \in RebuiltFunctions, strings \in StringSets, imports \in ImportSets}

(* A program's segments, where they were or moved as a whole, with sections *)
(* the report has, has under another name, or does not have.                *)
Command(va, name, kind, code) == [va |-> va, name |-> name, kind |-> kind, code |-> code]
MachoHeaders ==
    {<<[name |-> "text", va |-> 8 + moved, size |-> 8, exec |-> TRUE,
        sections |-> <<Command(first + moved, "text", "plain", TRUE), Command(14 + moved, name, kind, kind = "stubs")>>],
       [name |-> "data", va |-> 16 + moved, size |-> 8, exec |-> FALSE,
        sections |-> <<Command(17 + moved, "got", "pointers", FALSE), Command(20 + moved, "lazy", "lazy", FALSE)>>]>> :
        moved \in {0, 8}, first \in {10, 12}, name \in {"stubs", "bss"}, kind \in {"stubs", "zero"}}

MachoSections == {<<>>,
                  <<Sec("text", 12, 14), Sec("stubs", 14, 16), Sec("got", 17, 20)>>,
                  <<Sec("text", 12, 14), Sec("stubs", 14, 16), Sec("got", 17, 20), Sec("lazy", 20, 22)>>,
                  <<Sec("text", 12, 14), Sec("bss", 14, 16), Sec("rodata", 17, 20), Sec("lazy", 20, 22)>>,
                  <<Sec("", 10, 13), Sec("", 14, 16), Sec("", 17, 19)>>}

MachoTasks ==
    {[kind |-> "synthesis",
      report |-> [NoReport EXCEPT !.format = "macho", !.oep = oep, !.sections = sections, !.functions = functions,
                                  !.strings = strings, !.imports = imports, !.header = header]] :
        oep \in {0, 4}, sections \in MachoSections, functions \in RebuiltFunctions,
        strings \in {<<>>, <<Part(17, 1), Part(18, 1)>>},
        imports \in {{}, {Import(18, 1, 3)}, {Import(17, 1, 2), Import(20, 2, 3), Import(21, 2, 4)}},
        header \in {{}} \cup {{h} : h \in MachoHeaders}}

(* Slots in data, with a gap, by ordinal, of two libraries one behind the   *)
(* other or mixed, in code, behind and below the image.                     *)
PeImports == {{}, {Import(16, 1, 3), Import(18, 1, -2)}, {Import(16, 1, 3), Import(17, 2, -1)},
              {Import(12, 1, 3), Import(13, 2, 4)}, {Import(12, 1, 3), Import(16, 2, -3)},
              {Import(4, 1, 3), Import(23, 2, 4)}, {Import(16, 1, 3), Import(17, 2, 4), Import(18, 1, 5)},
              {Import(16, 1, 3), Import(21, 1, 4)}}

PeHeaders == {[base |-> base, entry |-> 4, length |-> 2,
               sections |-> <<[va |-> 4, size |-> 4, raw |-> code, exec |-> TRUE],
                              [va |-> 8, size |-> 4, raw |-> data, exec |-> FALSE]>>] :
                 base \in {8, 16}, code \in {0, 4}, data \in {2, 4}}

PeFunctions == {<<Fun(12, <<Part(12, 1)>>)>>,
                <<Fun(13, <<Part(13, 2)>>), Fun(15, <<Part(15, 1), Part(16, 1)>>)>>,
                <<Fun(9, <<Part(9, 2)>>)>>, <<Fun(9, <<Part(9, 2)>>), Fun(13, <<Part(13, 1)>>)>>, <<Fun(2, <<Part(2, 1)>>)>>,
                <<Fun(12, <<Part(10, 1), Part(12, 3)>>)>>}

PeTasks ==
    {[kind |-> "synthesis",
      report |-> [NoReport EXCEPT !.format = "pe", !.oep = oep, !.functions = functions, !.strings = strings,
                                  !.imports = imports, !.header = header]] :
        oep \in {0, 13, 90}, functions \in PeFunctions,
        strings \in {<<>>, <<Part(18, 1), Part(19, 1)>>, <<Part(27, 1)>>}, imports \in PeImports,
        header \in {{}} \cup {{h} : h \in PeHeaders}}
=============================================================================
