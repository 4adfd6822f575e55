----------------------------- MODULE MCAlgorithms -----------------------------
(* Inputs for Algorithms. *)
EXTENDS Algorithms, MCSynthesis

Section(va, offset, size, raw, exec) ==
    [va |-> va, offset |-> offset, size |-> size, raw |-> raw, exec |-> exec]
Segment(va, offset, memory, file, exec, load) ==
    [va |-> va, offset |-> offset, memory |-> memory, file |-> file,
     exec |-> exec, load |-> load]
Image(format, length, base, sections, segments) ==
    [format |-> format, length |-> length, base |-> base, unit |-> 2,
     sections |-> sections, segments |-> segments]

(* Code and data, truncated, empty, overlapping, below and above the base. *)
CodeSections == {Section(va, offset, size, raw, TRUE) :
                    va \in {0, 3, 8}, offset \in {2}, size \in {0, 5}, raw \in {3, 5}}
DataSections == {Section(va, offset, 4, raw, FALSE) :
                    va \in {4, 9}, offset \in {5, 9}, raw \in {0, 4}}
Segments == {<<>>, <<Segment(1, 0, 2, 2, FALSE, TRUE), Segment(8, 4, 3, 5, TRUE, TRUE)>>,
             <<Segment(4, 2, 9, 6, TRUE, TRUE), Segment(6, 4, 4, 0, FALSE, FALSE)>>,
             <<Segment(3, 6, 4, 4, TRUE, TRUE)>>}

MapTasks ==
    {[kind |-> "map", image |-> Image(format, length, base, sections, segments)] :
        format \in {"pe", "elf", "macho"}, length \in {6, 14}, base \in {0, 2},
        sections \in {<<c, d>> : c \in CodeSections, d \in DataSections} \cup {<<>>}
                     \cup {<<Section(4, 0, 60, 0, FALSE), c>> : c \in CodeSections},
        segments \in Segments}

SomeAreas == {<<a, b>> \in (0..6) \X (0..6) : a < b}
AreaTasks ==
    {[kind |-> "area", areas |-> areas, base |-> 2, size |-> 3, address |-> address] :
        areas \in {{a, b, c} : a, b, c \in SomeAreas} \cup {{}}, address \in {0, 2, 3, 5, 7}}

Dumps ==
    {Image("elf", 9, 0, <<>>, <<Segment(va, 0, first, 3, TRUE, TRUE),
                               Segment(va + first + gap, 3, 6, 4, FALSE, TRUE)>>) :
        va \in {0, 4}, first \in {3, 5}, gap \in {0, 1, 3}}
    \cup {Image("elf", 9, 0, <<>>, <<Segment(5, 3, 4, 4, TRUE, TRUE), Segment(2, 0, 3, 3, TRUE, TRUE)>>),
           Image("elf", 9, 0, <<>>, <<Segment(5, 3, 4, 4, TRUE, TRUE)>>)}
UnmapTasks ==
    UNION {{[kind |-> "unmap", image |-> image, isFile |-> isFile,
             memory |-> IF isFile THEN Bytes(image, 0, image.length) ELSE Loaded(image),
             table |-> [va |-> p.va + p.file - 2, offset |-> p.offset + p.file - 2, file |-> 2]] :
                p \in Loads(image), isFile \in BOOLEAN} : image \in Dumps}

LabelTasks ==
    {[kind |-> "label", image |-> t.image] : t \in {u \in MapTasks : u.image.format = "macho"}}

-----------------------------------------------------------------------------
(* Every graph of three nodes, of which some lead outside, and every chain  *)
(* of six with an edge forwards or to itself and up to two back.            *)
Chain(edges) == [n \in 1..6 |-> {e[2] : e \in {d \in edges : d[1] = n}} \cup ({n + 1} \ {7})]
Edges == {e \in (1..6) \X (1..6) : e[2] # e[1] + 1}
Additions == {{a, b, c} : a \in {e \in Edges : e[2] >= e[1]}, b, c \in {e \in Edges : e[2] < e[1]}}
Graphs == [1..3 -> SUBSET (1..3) \cup {{4}, {2, 4}}] \cup {Chain(edges) : edges \in Additions}
ComponentTasks ==
    {[kind |-> kind, graph |-> graph] : kind \in {"components", "closure"}, graph \in Graphs}
DominatorTasks ==
    {[kind |-> kind, graph |-> graph, root |-> root] :
        kind \in {"dominators", "nesting"}, graph \in Graphs, root \in {1, 2}}

(* Blocks in the order they were found, adjacent, apart and overlapping,    *)
(* with handlers in them, between them and outside.                         *)
Block(start, end, to) == [start |-> start, end |-> end, to |-> to]
Try(start, end, targets) == [start |-> start, end |-> end, targets |-> targets]
BlockOrders ==
    {<<Block(4, 6, {0}), Block(0, 2, {2, 4}), Block(2, 4, {9})>>,
     <<Block(0, 4, {5, 2}), Block(5, 8, {5})>>,
     <<Block(0, 5, {2}), Block(2, 6, {6, 0}), Block(6, 8, {})>>,
     <<Block(2, 4, {})>>}
SomeTries == {Try(start, end, targets) : start \in {0, 2, 3}, end \in {2, 4, 6},
                                         targets \in {{}, {0}, {3, 6}, {9}}}
Functions == {[offset |-> 0, blocks |-> blocks, tries |-> tries] :
                 blocks \in BlockOrders,
                 tries \in {<<>>} \cup {<<t>> : t \in SomeTries} \cup {<<t, u>> : t, u \in SomeTries}}
FunctionTasks == {[kind |-> "function", function |-> fn] : fn \in Functions}
BlockTasks ==
    {[kind |-> "block", function |-> fn, address |-> address] :
        fn \in {f \in Functions : f.tries = <<>>}, address \in 0..9}

-----------------------------------------------------------------------------
(* References between four addresses, put in and taken out; reports of the  *)
(* versions around every change, with the hashes those may have had.        *)
RefSteps == {"add", "remove"} \X {1, 2} \X {1, 2, 3}
Histories == UNION {[1..n -> RefSteps] : n \in 1..3} \cup {h \in [1..4 -> RefSteps] : h[1] \in {<<"add", 1, 2>>, <<"add", 1, 1>>}}
RefTasks == {[kind |-> "references", history |-> h] : h \in Histories}

Version(known, numbers, pre) == [known |-> known, numbers |-> numbers, pre |-> pre]
Versions == {Version(TRUE, numbers, pre) : pre \in BOOLEAN,
                numbers \in {<<1, 2>>, <<1, 3, 0>>, <<4, 1, 0>>, <<4, 1, 9>>, <<4, 2>>, <<4, 2, 0>>, <<4, 3, 5>>,
                             <<4, 3, 8>>, <<4, 3, 10>>, <<4, 4, 1>>, <<4, 4, 2>>, <<5, 0, 1>>}}
SavedBy(version, architecture) ==
    {[version |-> version, architecture |-> architecture, bounds |-> bounds, hash |-> hash, nesting |-> nesting] :
        bounds \in BOOLEAN, nesting \in 0..1,
        hash \in {0} \cup Generations(version, architecture)}
ReportTasks ==
    {[kind |-> "report", saved |-> saved] :
        saved \in UNION {SavedBy(v, a) : v \in Versions, a \in Escapers}
                  \cup {[version |-> Version(FALSE, <<>>, FALSE), architecture |-> architecture, bounds |-> bounds,
                         hash |-> hash, nesting |-> 0] :
                            architecture \in Escapers \cup {"none"}, bounds \in BOOLEAN, hash \in 0..2}}

-----------------------------------------------------------------------------
(* Windows of up to four instructions in front of a dispatch.               *)
Ins(at, op, dst, src) == [at |-> at, size |-> 2, op |-> op, dst |-> dst, src |-> src]
Do(op, dst, src) == Ins(0, op, dst, src)
rax == Reg("rax", 64)
rcx == Reg("rcx", 64)
r11 == Reg("r11", 64)
slot == Mem(64, "rbp", "", 1, 8)
Table == Mem(64, "r11", "rcx", 8, 0)
Common ==
    {Do("cmp", rcx, Imm(1)), Do("mov", rax, rcx), Do("add", rax, r11), Do("call", NoOperand, NoOperand),
     Do("and", rcx, Imm(1)), Do("mov", rax, Mem(64, "", "rcx", 8, 64)), Do("movsxd", rcx, Mem(32, "r11", "rcx", 4, 0))}
Rare ==
    {Do("cmp", slot, Imm(0)), Do("mov", rcx, slot), Do("mov", slot, rax), Do("lea", r11, Mem(64, "rip", "", 1, 40)),
     Do("add", rcx, rax), Do("xchg", rax, rcx), Do("mov", Reg("rbp", 64), Imm(1)), Do("ret", NoOperand, NoOperand),
     Do("lea", rcx, Mem(64, "r11", "rcx", 1, 0)), Do("mov", rax, Mem(64, "r11", "rax", 8, 0))}
Dispatches == {Do("jmp", o, NoOperand) : o \in {rax, rcx, Table}}
(* What bounds comes first, the rest stands between it and the dispatch.    *)
Bounding == {"cmp", "and"}
BoundTasks ==
    {[kind |-> "bound", window |-> w, jump |-> jump] : jump \in Dispatches,
        w \in {v \in [1..3 -> Common \cup Rare] : v[1].op \in Bounding}
                \cup {v \in [1..4 -> Common] : v[1].op \in Bounding}}

(* Switches as compilers put them: where the table is, what is read, what   *)
(* stands behind it, with and without a compare, with other code between.   *)
Code == 32..47
Load(to, address) == Do("lea", to, Mem(64, "rip", "", 1, address))
At64 == 64
Shapes ==
    {[size |-> 4, bits |-> 32, relative |-> FALSE, code |-> <<Do("mov", Reg("rax", 32), Mem(32, "", "rcx", 4, At64))>>,
      jump |-> Do("jmp", Reg("rax", 32), NoOperand)],
     [size |-> 4, bits |-> 32, relative |-> FALSE, code |-> <<>>,
      jump |-> Do("jmp", Mem(32, "", "rcx", 4, At64), NoOperand)],
     [size |-> 8, bits |-> 64, relative |-> FALSE, code |-> <<Do("mov", rax, Mem(64, "", "rcx", 8, At64))>>,
      jump |-> Do("jmp", rax, NoOperand)],
     [size |-> 8, bits |-> 64, relative |-> FALSE,
      code |-> <<Load(r11, At64), Do("mov", rax, Table)>>, jump |-> Do("jmp", rax, NoOperand)],
     [size |-> 8, bits |-> 64, relative |-> FALSE, code |-> <<Load(r11, At64)>>,
      jump |-> Do("jmp", Table, NoOperand)],
     [size |-> 4, bits |-> 64, relative |-> TRUE, jump |-> Do("jmp", rcx, NoOperand),
      code |-> <<Load(r11, At64), Do("movsxd", rcx, Mem(32, "r11", "rcx", 4, 0)), Do("add", rcx, r11)>>],
     [size |-> 4, bits |-> 64, relative |-> TRUE, jump |-> Do("jmp", rcx, NoOperand),
      code |-> <<Load(r11, At64), Do("movsxd", rcx, Mem(32, "r11", "rcx", 4, 0)),
                 Do("lea", rcx, Mem(64, "r11", "rcx", 1, 0))>>],
     [size |-> 4, bits |-> 64, relative |-> TRUE, jump |-> Do("jmp", rcx, NoOperand),
      code |-> <<Load(r11, 16), Do("mov", Reg("rcx", 32), Mem(32, "r11", "rcx", 4, At64 - 16)),
                 Do("add", rcx, r11)>>]}
Between == {<<>>, <<Do("mov", Reg("rdx", 64), rax)>>, <<Do("push", rax, NoOperand)>>,
            <<Do("imul", Reg("rbx", 64), Imm(3))>>}
(* The lea gets the displacement that leads to its table.                   *)
Placed(list) ==
    [k \in DOMAIN list |->
        LET at == 32 + 2 * k
        IN  [list[k] EXCEPT !.at = at,
                            !.src = IF IsTableLea(list[k]) THEN [@ EXCEPT !.value = @ - at - 2] ELSE @]]
Bases(list) == {list[k].at + 2 + list[k].src.value : k \in {l \in DOMAIN list : IsTableLea(list[l])}}
SwitchOf(shape, between, cases, behind, bounded) ==
    LET window == Placed((IF bounded THEN <<Do("cmp", rcx, Imm(Len(cases) - 1))>> ELSE <<>>)
                         \o between \o shape.code)
        base == IF shape.relative THEN Max(Bases(window)) ELSE 0
        entry(k) == IF k <= Len(cases) THEN cases[k] - base
                    ELSE IF behind = "code" THEN 40 - base ELSE IF behind = "data" THEN At64 + 1 - base ELSE 0
        entries == IF behind = "nothing" THEN Len(cases) ELSE Len(cases) + 1
    IN  [kind |-> "switch", window |-> window, jump |-> [shape.jump EXCEPT !.at = 60], table |-> At64,
         size |-> shape.size, cases |-> cases, bounded |-> bounded, open |-> behind = "code",
         image |-> [low |-> 16, high |-> 128, code |-> Code, bits |-> shape.bits, pie |-> FALSE, tables |-> {At64},
                    word |-> [a \in {At64 + shape.size * (k - 1) : k \in 1..entries} |->
                                 entry((a - At64) \div shape.size + 1)],
                    byte |-> <<>>], bytes |-> {}]
(* In two levels: the values are looked up in bytes right behind the table. *)
TwoLevels(numbers, biased, base) ==
    LET from  == At64 + 8
        start == IF biased THEN from - 2 ELSE from
        read  == Mem(8, IF base THEN "r11" ELSE "rcx", IF base THEN "rcx" ELSE "", 1, IF base THEN start - 16 ELSE start)
        switch == SwitchOf([size |-> 4, bits |-> 32, relative |-> FALSE, jump |-> Do("jmp", Reg("rax", 32), NoOperand),
                            code |-> <<Load(r11, 16), Do("movzx", rcx, read),
                                       Do("mov", Reg("rax", 32), Mem(32, "", "rcx", 4, At64))>>],
                           <<>>, <<40, 36>>, "nothing", TRUE)
        values == [switch.window EXCEPT ![1].src = Imm(Len(numbers) - 1)]
    IN  [switch EXCEPT !.window = values, !.bytes = {[at |-> from, length |-> Len(numbers)]},
                       !.image.byte = [a \in from..(from + 20) |->
                           IF a - from < Len(numbers) THEN numbers[a - from + 1] ELSE Padding]]
SwitchTasks ==
    {TwoLevels(numbers, biased, base) :
        numbers \in {<<0, 1>>, <<1, 0, 1, 1>>}, biased \in BOOLEAN, base \in BOOLEAN} \cup
    {SwitchOf(shape, between, cases, behind, bounded) :
        shape \in Shapes, between \in Between, bounded \in BOOLEAN,
        cases \in {<<40>>, <<40, 36>>, <<33, 45, 33>>}, behind \in {"nothing", "zero", "data", "code"}}

(* A jump table of one to three entries with bytes before and behind it.    *)
ExtentTasks ==
    {[kind |-> "extent", address |-> address, bound |-> bound, entries |-> entries,
      image |-> [byte |-> [a \in 48..95 |-> IF a \in 64..75 THEN 0
                                           ELSE IF a \in {end, end + 8} THEN after ELSE a % 2]]] :
        address \in {52, 60, 64, 72, 76, 80}, bound \in {0, 2, 4}, end \in {54, 76, 79, 80},
        after \in {2, 7, Padding}, entries \in {{64}, {64, 68}, {64, 68, 72}}}

-----------------------------------------------------------------------------
(* The same for AArch32.                                                    *)
A(at, op, cond, args) == [at |-> at, size |-> 4, op |-> op, cond |-> cond, args |-> args]
R(name)     == Arm32!R(name)
N(value)    == Arm32!N(value)
Sp(disp)    == Arm32!M("sp", "", 0, disp)
By(base, index, shift) == Arm32!M(base, index, shift, 0)

Tracks ==
    {A(0, "mov", "al", <<R("r0"), N(1)>>), A(0, "mov", "hi", <<R("r0"), N(2)>>), A(0, "mov", "al", <<R("r1"), R("r0")>>),
     A(0, "add", "al", <<R("r1"), R("r0")>>), A(0, "add", "ls", <<R("r0"), N(1)>>), A(0, "ldr", "al", <<R("r1"), Sp(0)>>),
     A(0, "str", "al", <<R("r1"), Sp(0)>>), A(0, "bl", "al", <<N(8)>>), A(0, "cmp", "al", <<R("r0"), N(1)>>),
     A(0, "b", "hi", <<N(8)>>), A(0, "movw", "al", <<R("r1"), N(2)>>)}
NoImage == [low |-> 0, high |-> 0, code |-> {}, word |-> <<>>, decoded |-> {}, branches |-> {}]
TrackTasks == [kind : {"armTrack"}, image : {NoImage}, window : [1..3 -> Tracks], thumb : {FALSE}]

Guards ==
    {A(0, "cmp", "al", <<R("r0"), N(1)>>), A(0, "cmp", "al", <<R("r1"), N(1)>>),
     A(0, "b", "hi", <<N(8)>>), A(0, "b", "hs", <<N(8)>>), A(0, "mov", "al", <<R("r1"), R("r0")>>),
     A(0, "mov", "hi", <<R("r1"), N(2)>>), A(0, "mov", "hs", <<R("r0"), N(2)>>), A(0, "str", "al", <<R("r0"), Sp(0)>>),
     A(0, "ldr", "al", <<R("r1"), Sp(0)>>), A(0, "str", "hi", <<R("r1"), Sp(0)>>), A(0, "bl", "al", <<N(8)>>),
     A(0, "add", "al", <<R("sp"), N(1)>>)}
GuardedWindows == {w \in [1..4 -> Guards] : w[1].op = "cmp"}
ArmBoundTasks == [kind : {"armBound"}, window : GuardedWindows, condition : {"ls"}]
                   \cup [kind : {"armBound"}, window : [1..3 -> Guards], condition : {"al", "lo"}]

(* Switches, as compilers write them: a compare against the last case or    *)
(* none, the dispatch, and the table right behind it (its cases follow) or  *)
(* away from the code, where a zero word follows it.                        *)
Base == 16   \* where the image and the dispatch begin
Away == 200
Nop(at) == A(at, "nop", "al", <<>>)
Rows(form, at, table) ==
    LET adr(pc) == A(at, "adr", "al", <<R("r1"), N(table - pc)>>)
        load    == <<R("r2"), By("r1", "r0", 2)>>
    IN  CASE form = "tbb"    -> <<A(at, "tbb", "al", <<By("pc", "r0", 0)>>)>>
          [] form = "tbh"    -> <<A(at, "tbh", "al", <<By("pc", "r0", 1)>>)>>
          [] form = "direct" -> <<A(at, "ldr", "al", <<R("pc"), By("pc", "r0", 2)>>)>>
          [] form = "ls"     -> <<A(at, "ldr", "ls", <<R("pc"), By("pc", "r0", 2)>>)>>
          [] form = "adr"    -> <<adr(at + 8), A(at + 4, "ldr", "al", <<R("pc"), By("r1", "r0", 2)>>)>>
          [] form = "thumb"  -> <<adr(at + 4), A(at + 4, "ldr", "al", load), A(at + 8, "bx", "al", <<R("r2")>>)>>
          [] form = "moved"  -> <<A(at, "movw", "al", <<R("r1"), N(table)>>), A(at + 4, "movt", "al", <<R("r1"), N(0)>>),
                                  A(at + 8, "ldr", "al", load), A(at + 12, "bx", "al", <<R("r2")>>)>>
          [] form = "anchor" -> <<adr(at + 8), A(at + 4, "ldr", "al", load),
                                  A(at + 8, "add", "al", <<R("pc"), R("r1"), R("r2")>>)>>
          [] form = "turned" -> <<adr(at + 8), A(at + 4, "ldr", "al", load), A(at + 8, "add", "al", <<R("r3"), R("r2"), R("r1")>>),
                                  A(at + 12, "bx", "al", <<R("r3")>>)>>
          [] form = "offset" -> <<adr(at + 4), A(at + 4, "ldrsb", "al", <<R("r2"), By("r1", "r0", 0)>>),
                                  A(at + 8, "add", "al", <<R("pc"), R("r2")>>)>>
          [] form = "branch" -> <<A(at, "add", "al", <<R("pc"), R("pc"), R("r0")>>)>>
InlineOnly == {"tbb", "tbh", "direct", "ls"}
Switch32(form, guarded, order, away) ==
    LET thumb   == form \in {"tbb", "tbh", "thumb", "offset"}
        count   == Len(order)
        guard   == IF guarded THEN <<A(Base, "cmp", "al", <<R("r0"), N(count - 1)>>),
                                     IF form = "ls" THEN Nop(Base + 4)
                                     ELSE A(Base + 4, "b", "hi", <<N(100)>>)>> ELSE <<>>
        rows    == Rows(form, Base + 8, IF away THEN Away ELSE Base + 8 + 4 * Len(Rows(form, 0, 0)))
        jump    == Last(rows)
        table   == CASE away -> Away
                     [] ~away /\ form \in {"direct", "ls", "branch"} -> jump.at + 8
                     [] OTHER -> jump.at + 4
        size    == CASE form \in {"tbb", "offset"} -> 1 [] form = "tbh" -> 2 [] OTHER -> 4
        behind  == IF away THEN jump.at + 4 ELSE ((table + count * size + 3) \div 4) * 4
        case(k) == behind + 4 * (order[k] - 1)
        entry(target) ==
            CASE form \in {"tbb", "tbh"} -> (target - (jump.at + 4)) \div 2
              [] form = "offset" -> target - (jump.at + 4)
              [] form \in {"anchor", "turned"} -> target - table
              [] form = "thumb" -> target + 1
              [] OTHER -> target
    IN  [kind |-> "armSwitch", jump |-> jump, window |-> guard \o SubSeq(rows, 1, Len(rows) - 1), thumb |-> thumb,
         image |-> [low |-> Base, high |-> Away + 64, code |-> Base..(behind + 15), decoded |-> {},
                    branches |-> {table + 4 * k : k \in 0..(count - 1)},
                    word |-> [a \in {table + size * k : k \in 0..(count + 4)} |->
                        CASE a < table + count * size -> entry(case(1 + ((a - table) \div size)))
                          [] a >= table + count * size /\ a < behind -> 0
                          [] OTHER -> IF away THEN 0 ELSE entry(behind + 12)]],
         cases |-> IF form = "branch" THEN {table + 4 * k : k \in 0..(count - 1)} ELSE {case(k) : k \in 1..count},
         slots |-> IF form = "branch" THEN {} ELSE {table + size * k : k \in 0..(count - 1)}]
Orders == {<<1>>, <<1, 2>>, <<2, 1>>, <<1, 2, 3>>, <<3, 1, 2>>, <<2, 2, 1>>, <<3, 2, 1>>, <<1, 2, 3, 3>>}
ArmSwitchTasks ==
    {Switch32(form, guarded, order, FALSE) : guarded \in BOOLEAN, order \in Orders,
        form \in InlineOnly \cup {"adr", "thumb", "moved", "anchor", "turned", "offset", "branch"}}
    \cup {Switch32(form, guarded, order, TRUE) : guarded \in BOOLEAN, order \in Orders,
              form \in {"adr", "thumb", "moved", "anchor", "turned"}}

(* The table behind the call of a libgcc helper, guarded by a branch around *)
(* the call or by one that leads to it.                                     *)
ArmCaseTasks ==
    LET call(at) == [A(at, "bl", "al", <<N(100)>>) EXCEPT !.size = 4]
        guards(how, count, at) ==
            CASE how = "none" -> {}
              [] how = "around" -> {A(at - 8, "cmp", "al", <<R("r0"), N(count - 1)>>), A(at - 4, "b", "hi", <<N(100)>>)}
              [] how = "onto" -> {A(at - 12, "cmp", "al", <<R("r0"), N(count - 1)>>), A(at - 8, "b", "ls", <<N(at)>>),
                                  A(at - 4, "b", "al", <<N(100)>>)}
        switch(how, order, size, at) ==
            LET origin == at + 4
                count  == Len(order)
                table  == IF size = 4 THEN ((origin + 3) \div 4) * 4 ELSE origin
                behind == ((table + count * size + 3) \div 4) * 4
                case(k) == behind + 4 * (order[k] - 1)
                entry(target) == IF size = 4 THEN target - table ELSE (target - origin) \div 2
            IN  [kind |-> "armCases", jump |-> call(at), helper |-> [size |-> size, words |-> size = 4],
                 instructions |-> guards(how, count, at) \cup {call(at)}, cases |-> {case(k) : k \in 1..count},
                 slots |-> {table + size * k : k \in 0..(count - 1)},
                 image |-> [low |-> Base, high |-> 100, code |-> Base..(behind + 15), decoded |-> {}, branches |-> {},
                            word |-> [a \in {table + size * k : k \in 0..(count + 4)} |->
                                CASE a < table + count * size -> entry(case(1 + ((a - table) \div size)))
                                  [] a >= table + count * size /\ a < behind -> 0
                                  [] OTHER -> entry(behind + 12)]]]
    IN  {switch(how, order, size, at) : how \in {"none", "around", "onto"}, order \in Orders, size \in {1, 2, 4}, at \in {32, 34}}

(* What linkers put in front of a slot (at 80, holding 500) or a target.    *)
Stub(thumb, list, from, value) ==
    [kind |-> "armStub", thumb |-> thumb, list |-> list, slot |-> from, value |-> value,
     image |-> [NoImage EXCEPT !.low = Base, !.high = 100,
                               !.word = [a \in {Base + 2 * k : k \in 0..40} |-> IF a = 80 THEN 500 ELSE 80 - (Base + 12)]]]
ArmStubTasks ==
    LET ip == R("ip")
        pc == R("pc")
        at(base, disp) == Arm32!M(base, "", 0, disp)
        entry(a) ==
            <<A(a, "add", "al", <<ip, pc, N(0)>>), A(a + 4, "add", "al", <<ip, ip, N(80 - (a + 8) - 8)>>),
              A(a + 8, "ldr", "al", <<pc, at("ip", 8)>>)>>
        literal(a) ==   \* the offset to the slot is read from behind the entry
            <<A(a, "ldr", "al", <<ip, at("pc", 4)>>), A(a + 4, "add", "al", <<ip, pc, ip>>),
              A(a + 8, "ldr", "al", <<pc, at("ip", 0)>>)>>
        prefix(a) == <<[A(a, "bx", "al", <<pc>>) EXCEPT !.size = 2]>>
        moved(a, rest) == <<A(a, "movw", "al", <<ip, N(80)>>), A(a + 4, "movt", "al", <<ip, N(0)>>)>> \o rest
        veneer(a) ==
            <<A(a, "movw", "al", <<ip, N(40)>>), A(a + 4, "movt", "al", <<ip, N(0)>>),
              A(a + 8, "add", "al", <<ip, pc>>), A(a + 12, "bx", "al", <<ip>>)>>
        pcOf(a, thumb) == a + IF thumb THEN 4 ELSE 8
    IN  {Stub(FALSE, entry(a), {80}, 500) : a \in {16, 20, 24}}
        \cup {Stub(TRUE, prefix(a) \o entry(4 * ((a + 4) \div 4)), {80}, 500) : a \in {16, 18, 20, 22}}
        \cup {Stub(FALSE, literal(Base), {80}, 500)}
        \cup {Stub(FALSE, <<A(a, "ldr", "al", <<pc, at("pc", 80 - (a + 8))>>)>>, {80}, 500) : a \in {16, 20}}
        \cup {Stub(TRUE, <<A(a, "ldr", "al", <<pc, at("pc", 80 - 4 * ((a + 4) \div 4))>>)>>, {80}, 500) : a \in {16, 18}}
        \cup {Stub(thumb, moved(a, <<A(a + 8, "ldr", "al", <<ip, at("ip", 0)>>), A(a + 12, "bx", "al", <<ip>>)>>), {80}, 500) :
                  thumb \in BOOLEAN, a \in {16, 18}}
        \cup {Stub(thumb, veneer(a), {}, 40 + pcOf(a + 8, thumb)) : thumb \in BOOLEAN, a \in {16, 20, 22}}

-----------------------------------------------------------------------------
(* The same for AArch64.                                                    *)
X(name)    == Arm64!R(name)
C(value)   == Arm64!N(value, 0)
At(base, index, disp) == Arm64!M(base, index, disp)
B(at, op, args) == Arm64!I(at, op, args)
Writing(i) == [i EXCEPT !.writeback = TRUE]
InW(i)     == [i EXCEPT !.narrow = TRUE]
Memory(word) == [low |-> 16, high |-> 80, code |-> {}, word |-> word, starts |-> {}, imports |-> {}]

Effects64 ==
    {B(0, "adrp", <<X("x0"), C(40)>>), B(0, "mov", <<X("x1"), C(3)>>), B(0, "mov", <<X("x1"), X("x0")>>),
     B(0, "movk", <<X("x0"), Arm64!N(1, 16)>>), B(0, "movk", <<X("x1"), Arm64!N(5, 0)>>),
     B(0, "add", <<X("x0"), X("x0"), C(8)>>), B(0, "add", <<X("x1"), X("x0"), Arm64!Shifted("x1", "lsl", 2)>>),
     B(0, "add", <<X("x1"), X("x0"), Arm64!Shifted("x0", "lsr", 1)>>), B(0, "sub", <<X("x0"), X("x1"), C(1)>>),
     B(0, "ldr", <<X("x1"), At("x0", "", 8)>>), InW(B(0, "ldr", <<X("x1"), At("x0", "", 16)>>)), Writing(B(0, "ldr", <<X("x1"), At("x0", "", 0)>>)),
     B(0, "ldr", <<X("x0"), At("x0", "x1", 0)>>), B(0, "ldp", <<X("x0"), X("x1"), At("sp", "", 0)>>),
     B(0, "adr", <<X("x30"), C(3)>>), B(0, "bl", <<C(8)>>), B(0, "cmp", <<X("x0"), C(8)>>)}
Track64Tasks ==
    [kind : {"track64"}, image : {Memory(40 :> 5 @@ 48 :> 40 @@ 56 :> Arm64!Beyond + 7 @@ 64 :> 56)}, window : UNION {[1..n -> Effects64] : n \in 1..3}]

(* A function of three blocks with a call at the end of the last; any block *)
(* behind the first is reached from those before it, by falling or jumping. *)
Moves64 == {"adrp", "load", "add", "take", "set", "keep", "call"}
Move64(at, move) ==
    CASE move = "adrp" -> B(at, "adrp", <<X("x0"), C(40)>>)
      [] move = "load" -> B(at, "ldr", <<X("x8"), At("x0", "", 0)>>)
      [] move = "add"  -> B(at, "add", <<X("x0"), X("x0"), C(8)>>)
      [] move = "take" -> B(at, "mov", <<X("x8"), X("x0")>>)
      [] move = "set"  -> B(at, "mov", <<X("x8"), C(100)>>)
      [] move = "keep" -> B(at, "str", <<X("x8"), At("x0", "", 0)>>)
      [] move = "call" -> B(at, "blr", <<X("x8")>>)
Edge(from, to) == [from |-> from, to |-> to, jump |-> TRUE]
Calls64Tasks ==
    LET blocks(f) == {{Move64(16, f[1]), Move64(20, f[2])}, {Move64(24, f[3])}, {Move64(28, f[4]), B(32, "blr", <<X("x8")>>)}}
        calls(f) == {[at |-> 16 + 4 * (k - 1), reg |-> "x8"] : k \in {j \in 1..4 : f[j] = "call"}}
    IN  {[kind |-> "calls64", limit |-> limit,
          calls |-> <<[at |-> 32, reg |-> "x8"]>> \o SetToSeq(calls(f)),
          image |-> [Memory(40 :> 100 @@ 48 :> 60) EXCEPT !.imports = {100}],
          fn |-> [start |-> 16, list |-> UNION blocks(f), blocks |-> blocks(f), refs |-> refs]] :
            limit \in {1}, f \in [1..4 -> Moves64],
            refs \in {{Edge(20, 24), Edge(24, 28)}, {Edge(20, 24), Edge(20, 28), Edge(24, 28)},
                      {Edge(20, 24), Edge(24, 28), Edge(32, 28)}}}

(* Switches as compilers write them, their cases behind the branch or, with *)
(* signed entries, in front of it.                                          *)
Rows64(form, at, table) ==
    LET base == <<B(at, "adrp", <<X("x1"), C(table)>>), B(at + 4, "nop", <<>>)>>
        anchor == B(at + 4, "adr", <<X("x3"), C(at + 20)>>)
        load(op) == B(at + 8, op, <<X("x2"), At("x1", "x0", 0)>>)
        merge(reg, by) == B(at + 12, "add", <<X(reg), X(IF reg = "x3" THEN "x3" ELSE "x1"), by>>)
    IN  CASE form = "sw"     -> base \o <<load("ldrsw"), merge("x1", X("x2"))>>
          [] form = "folded" -> base \o <<InW(load("ldr")), merge("x2", Arm64!Shifted("x2", "sxtw", 0))>>
          [] form = "wide"   -> base \o <<load("ldrsw"), merge("x2", Arm64!Shifted("x2", "lsl", 2))>>
          [] form = "byte"   -> <<base[1], anchor, load("ldrb"), merge("x3", Arm64!Shifted("x2", "lsl", 2))>>
          [] form = "half"   -> <<base[1], anchor, load("ldrh"), merge("x3", Arm64!Shifted("x2", "uxtw", 2))>>
          [] form = "signed" -> <<base[1], anchor, load("ldrsb"), merge("x3", Arm64!Shifted("x2", "lsl", 2))>>
          [] form = "extended" -> <<base[1], anchor, load("ldrb"), merge("x3", Arm64!Shifted("x2", "sxtb", 2))>>
          [] form = "longer" -> <<base[1], anchor, load("ldrh"), merge("x3", Arm64!Shifted("x2", "sxth", 2))>>
          [] form = "sxtw"   -> <<base[1], InW(B(at + 4, "ldr", <<X("x2"), At("x1", "x0", 0)>>)),
                                  B(at + 8, "sxtw", <<X("x2"), X("x2")>>), merge("x2", X("x2"))>>
          [] form = "whole"  -> <<base[1], base[2], load("ldr"), B(at + 12, "nop", <<>>)>>
Apart64 == {"byte", "half", "signed", "extended", "longer"}
TargetReg(form) == CASE form = "sw" -> "x1" [] form \in Apart64 -> "x3" [] OTHER -> "x2"
Switch64Task(form, guard, before, order, away) ==
    LET at     == 48
        branch == at + 16
        count  == Len(order)
        size   == CASE form \in {"byte", "signed", "extended"} -> 1 [] form \in {"half", "longer"} -> 2
                    [] form = "whole" -> 8 [] OTHER -> 4
        table  == IF away THEN 200 ELSE 68
        behind == IF away THEN 68 ELSE ((table + count * size + 3) \div 4) * 4
        rows   == Rows64(form, at, table)
        limit  == IF guard = "b.hs" THEN count ELSE count - 1
        case(k) == IF before THEN 12 + 4 * order[k] ELSE behind + 4 * (order[k] - 1)
        anchor == IF form \in Apart64 THEN at + 20 ELSE table
        scale  == IF form \in Apart64 \cup {"wide"} THEN 4 ELSE 1
        offset(k) == (case(k) - anchor) \div scale
        entry(k) == CASE form = "whole" -> case(k)
                      [] form \in {"signed", "extended"} -> offset(k) % 256
                      [] form = "longer" -> offset(k) % Arm64!Half
                      [] OTHER -> offset(k)
    IN  [kind |-> "switch64", jump |-> [at |-> branch, reg |-> TargetReg(form)],
         fn |-> [start |-> 40, blocks |-> {}, refs |-> {},
                 list |-> ToSet(rows) \cup {B(branch, "br", <<X("x2")>>)}
                    \cup (IF guard = "" THEN {} ELSE {B(40, "cmp", <<X("x0"), C(limit)>>), B(44, guard, <<C(100)>>)})],
         image |-> [low |-> 8, high |-> 240, code |-> 16..(behind + 20), imports |-> {},
                    starts |-> IF guard # "" THEN {200, 236} ELSE {16, table + count * size},
                    word |-> [a \in {table + size * k : k \in 0..(count + 4)} |->
                        IF a < table + count * size THEN entry(1 + ((a - table) \div size)) ELSE 0]],
         table |-> table, size |-> size, anchor |-> anchor, cases |-> [k \in 1..count |-> case(k)]]
Switch64Tasks ==
    {Switch64Task(form, guard, FALSE, order, away) :
        form \in {"sw", "folded", "wide", "sxtw", "whole"} \cup Apart64, guard \in {"", "b.hi", "b.hs"},
        order \in Orders, away \in BOOLEAN}
    \cup {Switch64Task(form, guard, TRUE, order, away) :
            form \in {"sw", "folded", "wide", "signed", "sxtw", "whole", "extended", "longer"},
            guard \in {"", "b.hi", "b.hs"}, order \in Orders, away \in BOOLEAN}

Stack(disp) == At("sp", "", disp)
Stores64 ==
    {InW(B(0, "movz", <<X("x0"), C(65 + 66 * 256)>>)), InW(B(0, "movk", <<X("x0"), Arm64!N(67 + 68 * 256, 16)>>)),
     B(0, "mov", <<X("x1"), C(69)>>), InW(B(0, "str", <<X("x0"), Stack(0)>>)), InW(B(0, "str", <<X("x0"), Stack(4)>>)),
     B(0, "strb", <<X("x1"), Stack(4)>>), B(0, "strh", <<X("x0"), Stack(2)>>), InW(B(0, "stp", <<X("x0"), X("x1"), Stack(0)>>)),
     B(0, "str", <<X("x1"), Stack(0)>>), B(0, "sub", <<X("sp"), X("sp"), C(4)>>),
     Writing(B(0, "stp", <<X("x0"), X("x1"), Stack(-16)>>)), B(0, "sub", <<X("x1"), X("x0"), C(1)>>)}
Strings64Tasks ==
    {[kind |-> "strings64", image |-> Memory(<<>>),
      window |-> <<InW(B(0, "movz", <<X("x0"), C(65 + 66 * 256)>>))>> \o w] :
        w \in [1..3 -> Stores64] \cup {v \in [1..4 -> Stores64] : v[1].op \in {"movk", "strb"}}}

Thunk64Tasks ==
    LET pads == {<<>>, <<"nop">>, <<"bti">>, <<"bti", "nop">>, <<"nop", "nop", "nop">>}
        body(how, at) ==
            CASE how = "plain" -> <<B(at, "adrp", <<X("x16"), C(40)>>), B(at + 4, "ldr", <<X("x17"), At("x16", "", 8)>>),
                                    B(at + 8, "br", <<X("x17")>>)>>
              [] how = "added" -> <<B(at, "adrp", <<X("x16"), C(40)>>), B(at + 4, "ldr", <<X("x17"), At("x16", "", 8)>>),
                                    B(at + 8, "add", <<X("x16"), X("x16"), C(8)>>), B(at + 12, "br", <<X("x17")>>)>>
              [] how = "apart" -> <<B(at, "adrp", <<X("x16"), C(40)>>), B(at + 4, "mov", <<X("x17"), X("x16")>>),
                                    B(at + 8, "br", <<X("x17")>>)>>
              [] how = "other" -> <<B(at, "adrp", <<X("x16"), C(40)>>), B(at + 4, "ldr", <<X("x17"), At("x9", "", 8)>>),
                                    B(at + 8, "br", <<X("x17")>>)>>
              [] how = "long" -> <<B(at, "adrp", <<X("x16"), C(40)>>), B(at + 4, "add", <<X("x16"), X("x16"), C(8)>>),
                                   B(at + 8, "ldr", <<X("x17"), At("x16", "", 0)>>), B(at + 12, "br", <<X("x17")>>)>>
    IN  {LET rows == body(how, 16 + 4 * Len(pad))
         IN  [kind |-> "thunk64", window |-> [k \in DOMAIN pad |-> B(12 + 4 * k, pad[k], <<>>)] \o rows,
              walk |-> IF how \in {"apart", "other"} \/ Len(pad) > 2 THEN {}
                       ELSE {[end |-> Last(rows).at + 4, slot |-> {48}]}] :
            pad \in pads, how \in {"plain", "added", "apart", "other", "long"}}

-----------------------------------------------------------------------------
(* Windows of four instructions around one that loads a pointer, the        *)
(* strings of two toolchains, and repeated reads.                           *)
InReg(name, width) == [loc |-> {Str!Register(name)}, width |-> width, value |-> {}]
InSlot(disp, width) == [loc |-> {Str!Slot("rsp", disp)}, width |-> width, value |-> {}]
Number(n) == [loc |-> {}, width |-> "word", value |-> {n}]
Nowhere == [loc |-> {}, width |-> "word", value |-> {}]
Row(at, op, dst, src) == [at |-> at, op |-> op, dst |-> dst, src |-> src, also |-> {}, refs |-> <<>>]
Moving(dst, src) == Row(0, "mov", dst, src)

PointerLoads == {Row(0, "lea", InReg("rdi", "word"), Nowhere), Moving(InSlot(0, "word"), Nowhere)}
OtherMoves ==
    {Moving(InReg("rsi", "half"), Number(1)), Moving(InReg("rsi", "word"), InReg("rax", "word")),
     Moving(InReg("rax", "word"), InReg("rdi", "word")), Moving(InSlot(0, "word"), InReg("rdi", "word")),
     Moving(InSlot(2, "word"), Number(2)), Moving(InSlot(2, "half"), Number(3)), Moving(InReg("rdi", "word"), InSlot(0, "word")),
     Moving(InReg("rdx", "word"), Number(4)), Moving(InReg("rsi", "part"), Number(5)), Moving(InReg("rdi", "word"), Number(6)),
     Row(0, "add", InReg("rsp", "word"), Number(1)), Row(0, "call", Nowhere, Nowhere)}
LengthTasks ==
    {[kind |-> "length", index |-> k, registers |-> Str!LengthRegisters([abi |-> "sysv", mode |-> "rust"]),
      list |-> [n \in 1..4 |-> IF n = k THEN p ELSE w[IF n < k THEN n ELSE n - 1]]] :
        k \in {1, 3}, p \in PointerLoads, w \in [1..3 -> OtherMoves]}

(* The code takes each string's address and a number.                       *)
Taking(at, va, number) ==
    <<[Row(at, "lea", InReg("rdi", "word"), Nowhere) EXCEPT !.refs = <<va>>],
      Row(at + 1, "mov", InReg("rsi", "half"), Number(number)), Row(at + 2, "call", Nowhere, Nowhere)>>
TextBase == 256
Texts(bytes, blocks, mode) ==
    [base |-> TextBase, bytes |-> bytes, mapped |-> {<<TextBase, TextBase + Len(bytes)>>},
     blocks |-> blocks, abi |-> "sysv", mode |-> mode]
StartOf(list, k) == FoldLeft(LAMBDA sum, s : sum + Len(s), 0, SubSeq(list, 1, k - 1))

Literals == {<<65>>, <<66, 67>>, <<195, 169>>, <<68, 69, 70>>}
LiteralTask(list, padding, headers, mode) ==
    LET header(k) == 2 * Word * (k - 1)
        text(k)   == (IF headers THEN 2 * Word * Len(list) ELSE Word) + StartOf(list, k)
        packed    == FlattenSeq(list) \o padding
        pairs     == FlattenSeq([k \in DOMAIN list |-> <<text(k), TextBase \div 256, Len(list[k]), 0>>])
        ref(k)    == TextBase + IF headers THEN header(k) ELSE text(k)
        number(k) == IF headers THEN 0 ELSE Len(list[k])
    IN  [kind |-> "strings", about |-> "literals",
         expected |-> {[text |-> list[k], from |-> TextBase + text(k)] : k \in DOMAIN list},
         report |-> Texts((IF headers THEN pairs ELSE <<1, 2>>) \o packed,
                          {Taking(10 * k, ref(k), number(k)) : k \in DOMAIN list}, mode)]
LiteralTasks ==
    {LiteralTask(list, padding, headers, mode) :
        list \in UNION {[1..n -> Literals] : n \in 1..3}, padding \in {<<>>, <<0>>, <<1>>},
        headers \in BOOLEAN, mode \in {"go", "rust"}}

Terminated == {<<65>>, <<66, 67>>, <<68, 69, 70>>, <<71, 72, 73, 74, 75, 76>>}
TerminatedTask(list, numbers, tail, mode) ==   \* the first is also reached through a pointer
    LET text(k) == TextBase + Word + StartOf(list, k) + k - 1
        bytes   == <<text(1) - TextBase, 1>> \o FlattenSeq([k \in DOMAIN list |-> Append(list[k], 0)])
        last    == text(1) + Len(list[1]) - 1
        end     == [text |-> <<Last(list[1])>>, from |-> last, at |-> 90, number |-> 0]
    IN  [kind |-> "strings", about |-> "terminated",
         expected |-> {[text |-> list[k], from |-> text(k), at |-> 10 * k, number |-> numbers[k]] : k \in DOMAIN list}
                        \cup {[text |-> list[1], from |-> text(1), at |-> 80, number |-> 0]}
                        \cup (IF tail THEN {end} ELSE {}),
         report |-> Texts(bytes, {Taking(10 * k, text(k), numbers[k]) : k \in DOMAIN list} \cup {Taking(80, TextBase, 0)}
                                   \cup (IF tail THEN {Taking(90, last, 0)} ELSE {}), mode)]
TerminatedTasks ==
    {TerminatedTask(list, numbers, tail, "rust") : list \in [1..2 -> Terminated], numbers \in [1..2 -> 0..6], tail \in BOOLEAN}
    \cup {TerminatedTask(list, <<0, 0>>, TRUE, "plain") : list \in [1..2 -> Terminated]}

ReadTasks ==
    LET report == Texts(<<65, 66, 0, 67, 0>>, {}, "rust")
        reads  == {[sized |-> FALSE, va |-> TextBase, length |-> n] : n \in {-1, 1}}
                    \cup {[sized |-> TRUE, va |-> TextBase + a, length |-> 1] : a \in {0, 3}}
    IN  [kind : {"reads"}, report : {report}, reads : [1..4 -> reads]]

-----------------------------------------------------------------------------
(* Exception tables as bytes: two CIEs and three functions, the third of    *)
(* the first CIE, with something unreadable in between.                     *)
Le(value, size) == [k \in 1..size |-> (value \div 256^(k - 1)) % 256]
Leb(value) == IF value < 128 THEN <<value>> ELSE <<(value % 128) + 128, value \div 128>>
SectionVa == 1000
Z == Eh!Letters
Cie(version, letters, fde) == [version |-> version, letters |-> letters, fde |-> fde, lsda |-> 27]
CieBody(cie) ==
    LET data(letter) == CASE letter = Z.L -> <<cie.lsda>> [] letter = Z.P -> <<155, 0, 0, 0, 0>>
                          [] letter = Z.R -> <<cie.fde>> [] OTHER -> <<>>
        parts == FlattenSeq([k \in DOMAIN cie.letters |-> data(cie.letters[k])])
    IN  Le(0, 4) \o <<cie.version>> \o cie.letters \o <<0, 1, 124, 16>>
          \o (IF cie.letters = <<>> THEN <<>> ELSE Leb(Len(parts)) \o parts)
RelativeTo(at, encoding) == IF Eh!Application(encoding) = Eh!Pcrel THEN SectionVa + at ELSE 0
FdeBody(cie, owner, at, f) ==   \* at: where the body lies, owner: where its CIE lies
    LET lsda == at + 4 + 4 + 4 + 1
    IN  Le(at - owner, 4) \o Le(f.start - RelativeTo(at + 4, cie.fde), 4) \o Le(f.size, 4)
          \o (IF cie.letters = <<>> THEN <<>> ELSE <<4>> \o (IF f.lsda = 0 THEN Le(0, 4) ELSE Le(f.lsda - (SectionVa + lsda), 4)))
Sized(body) == Le(Len(body), 4) \o body
WideSized(body) == <<255, 255, 255, 255>> \o Le(Len(body) + 4, 4) \o Le(0, 4) \o Le(0, 4) \o body
Function(start, size, lsda) == [start |-> start, size |-> size, lsda |-> lsda]
Understood(cie) ==
    /\ cie.version \in {1, 3} /\ ToSet(cie.letters) \subseteq {Z.z, Z.R, Z.L, Z.P, Z.S, Z.B}
    /\ cie.fde < 128 /\ Eh!Application(cie.fde) \in {0, 16} /\ cie.fde # 1

EhSection(c1, c2, fs, cut) ==
    LET first  == IF cut = "wide" THEN WideSized(CieBody(c1)) ELSE Sized(CieBody(c1))
        one    == first \o Sized(FdeBody(c1, 0, Len(first) + 4, fs[1]))
        middle == one \o (CASE cut = "end" -> Le(0, 4) [] cut = "id" -> Le(2, 4) \o <<7, 7>> [] OTHER -> <<>>)
        two    == middle \o Sized(CieBody(c2))
        three  == two \o Sized(FdeBody(c2, Len(middle), Len(two) + 4, fs[2]))
        last   == Sized(FdeBody(c1, 0, Len(three) + 4, fs[3]))
    IN  three \o (IF cut = "short" THEN SubSeq(last, 1, Len(last) - 1) ELSE last)

SomeCies ==
    {Cie(version, letters, fde) : version \in {1, 3}, letters \in {<<Z.z, Z.R>>, <<Z.z, Z.P, Z.L, Z.R>>}, fde \in {0, 27, 155}}
    \cup {Cie(1, <<>>, 0), Cie(4, <<Z.z, Z.R>>, 27), Cie(1, <<Z.z, 88, Z.R>>, 27), Cie(1, <<Z.z, Z.R, Z.S, Z.B>>, 27),
          Cie(1, <<Z.z, Z.R>>, 59), Cie(1, <<Z.z, Z.R>>, 1)}
FdeTasks ==
    LET fs    == <<Function(100, 16, 0), Function(2000, 300, 0), Function(120, 8, 0)>>
        range(f) == [start |-> f.start, size |-> f.size]
    IN  {[kind |-> "fdes", va |-> SectionVa, data |-> EhSection(c1, c2, fs, cut),
          expected |-> {range(f) : f \in (IF Understood(c1) THEN {fs[1]} ELSE {})
                                     \cup (IF Understood(c2) /\ cut \notin {"end", "id"} THEN {fs[2]} ELSE {})
                                     \cup (IF Understood(c1) /\ cut \notin {"end", "id", "short"} THEN {fs[3]} ELSE {})}] :
            c1 \in SomeCies, c2 \in SomeCies, cut \in {"none", "end", "id", "short", "wide"}}

(* Tables of landing pads: relative to their function or to a base of their *)
(* own, in both notations, without pads, and unreadable ones.               *)
LsdaMemory ==
    500 :> <<255, 255, 1, 8, 0, 4, 4, 1, 4, 4, 0, 0>>
    @@ 520 :> <<255, 0, 5, 1, 9, 0, 4, 72, 1, 4, 4, 129, 1, 0>>
    @@ 540 :> <<3, 96, 0, 0, 0, 255, 1, 4, 0, 4, 10, 0>>
    @@ 560 :> <<255, 255, 3, 13, 0, 0, 0, 0, 4, 0, 0, 0, 6, 0, 0, 0, 0>>
    @@ 580 :> <<255, 255, 1, 0>>
    @@ 600 :> <<48, 255, 1>>
    @@ 620 :> <<255, 255, 1, 9, 0>>
Declares(f) ==
    {p \in CASE f.lsda = 500 -> {f.start + 4} [] f.lsda = 520 -> {f.start + 72, f.start + 129} [] f.lsda = 540 -> {106}
             [] f.lsda = 560 -> {f.start + 6} [] OTHER -> {} : f.start <= p /\ p < f.start + f.size}
PadTasks ==
    LET tables == {0, 500, 520, 540, 560, 580, 600, 620, 640}
        fs(l)  == <<Function(100, 16, l[1]), Function(2000, 300, l[2]), Function(120, 80, l[3])>>
        cie    == Cie(1, <<Z.z, Z.P, Z.L, Z.R>>, 27)
    IN  {[kind |-> "pads", va |-> SectionVa, data |-> EhSection(cie, cie, fs(l), "none"), memory |-> LsdaMemory,
          tableBytes |-> bytes, failedBytes |-> failed, expected |-> UNION {Declares(f) : f \in ToSet(fs(l))}] :
            l \in [1..3 -> tables], bytes \in {9, 100}, failed \in {2, 100}}

HdrTasks ==
    LET table(at, version, starts) ==
            <<version, 27, 3, 59>> \o Le(0, 4) \o Le(Len(starts), 4)
              \o FlattenSeq([k \in DOMAIN starts |-> Le(starts[k] - at, 4) \o Le(0, 4)])
        image(base, at, raw) == [base |-> base, elf |-> TRUE,
                                 headers |-> <<[kind |-> "PT_LOAD", va |-> 0], [kind |-> "PT_GNU_EH_FRAME", va |-> 80]>>,
                                 memory |-> [a \in at..(at + Len(raw) - 1) |-> raw[a - at + 1]]]
    IN  {[kind |-> "hdr", image |-> image(base, at, table(at, version, starts)),
          expected |-> IF version = 1 /\ at \in {80, base + 80} THEN ToSet(starts) ELSE {}] :
            base \in {0, 256}, at \in {80, 336}, version \in {1, 2},
            starts \in UNION {[1..n -> {16, 24, 400}] : n \in 1..3}}

(* Where AArch64 functions may start: two records, one after what may lead  *)
(* into it, with calls to it or not, and the clock at any time; code that   *)
(* makes addresses; sections that hold some; frames of several stores.      *)
Image64(words) ==
    [base |-> 64, words |-> words, areas |-> {}, exec |-> {<<64, 64 + 4 * Len(words)>>}, symbols |-> {}, directory |-> <<>>,
     raw |-> <<>>, format |-> "pe", language |-> {}, rules |-> {"pads", "bti j", "fde", "pdata"}, pads |-> {}, fdes |-> <<>>,
     extents |-> <<>>, plt |-> {}, stubs |-> {}, stored |-> <<>>, bindings |-> {}, rebases |-> <<>>, adjustment |-> 0,
     chained |-> FALSE, sections |-> <<>>, linkedAt |-> 0, cap |-> 100, patience |-> 100]
Op(op) == D64!W(op)
Jump(op, to) == [D64!W(op) EXCEPT !.to = to]
Use(op, rd, rn, imm) == [D64!W(op) EXCEPT !.rd = rd, !.rn = rn, !.imm = imm]
Discovered(image) == [kind |-> "discover", image |-> image]
Listed(begin, flag, words) == [begin |-> begin, flag |-> flag, words |-> words, valid |-> TRUE]

LeadIns == {Op("nop"), Op("mov"), Op("ret"), Op("sub"), Jump("b.eq", 76), Jump("b.eq", 64), Jump("b", 76)}
RecordTasks ==
    {Discovered([Image64(<<w[1], w[2], w[3], frame, call, Op("ret")>>) EXCEPT
                     !.directory = <<Listed(12, 1, 2)>>, !.patience = patience]) :
        w \in [1..3 -> LeadIns], frame \in {Op("stp"), Op("save")},
        call \in {Op("ret"), Jump("bl", 76)}, patience \in {2, 100}}
    \cup
    {Discovered([Image64(<<Op("stp"), Op("ret"), Op(op), Op("stp"), Jump("bl", 64)>>) EXCEPT
                     !.directory = <<[Listed(begin, f, n) EXCEPT !.valid = valid], Listed(12, 1, 2)>>,
                     !.symbols = symbols, !.cap = cap, !.patience = patience]) :
        op \in {"mov", "br", "movz"}, begin \in {8, 6, 40}, f \in 0..3, n \in {0, 2},
        valid \in BOOLEAN, symbols \in {{}, {72}}, cap \in {1, 100}, patience \in {1, 100}}
FrameTasks ==
    {Discovered([Image64(w) EXCEPT !.directory = IF listed THEN <<Listed(8, 1, 2)>> ELSE <<>>, !.pads = pads]) :
        w \in [1..4 -> {Op("stp"), Op("sub"), Op("pac"), Op("bti"), Op("bti j"), Op("ret")}],
        listed \in BOOLEAN, pads \in {{}, {68}}}
MadeTasks ==
    {Discovered([Image64(<<[Jump("adrp", 64) EXCEPT !.rd = 1], w[1], w[2], w[3]>>) EXCEPT
                     !.format = "elf", !.exec = exec, !.stored = (72 :> 76) @@ (76 :> 68)]) :
        w \in [1..3 -> {[Jump("adrp", 68) EXCEPT !.rd = 2], [Jump("adr", 76) EXCEPT !.rd = 1], Use("add", 1, 1, 8),
                        Use("add", 2, 1, 4), Use("add", 0, 2, 0), Use("ldr", 2, 1, 8), Use("ldr", 1, 2, 8),
                        Use("mov", 1, 0, 0), Jump("b.eq", 68), Op("blr"), Op("retaa"), Op("brk")}],
        exec \in {{<<64, 80>>}, {<<64, 72>>, <<72, 80>>}}}
PointerTasks64 ==
    {Discovered([Image64([k \in 1..12 |-> Op("mov")]) EXCEPT
                     !.format = "elf", !.exec = {<<64, 80>>}, !.stored = [a \in {80 + 8 * k : k \in 0..3} |-> 64 + ((a - 80) \div 2)],
                     !.sections = <<[kind |-> "data", start |-> start, size |-> size]>>]) :
        start \in {40, 56, 76, 80, 82, 88, 104}, size \in {0, 8, 12, 16, 40, 64}}
    \cup
    {Discovered([Image64([k \in 1..12 |-> Op("mov")]) EXCEPT
                     !.format = "macho", !.exec = {<<64, 80>>}, !.adjustment = moved, !.linkedAt = 64 - moved, !.chained = chained,
                     !.stubs = stubs, !.bindings = {96 - moved}, !.rebases = rebases,
                     !.stored = [a \in {80 + 4 * k : k \in 0..7} |->
                                    IF kind = "offsets" THEN (a - 80) \div 2 ELSE 64 + ((a - 80) \div 2) - moved],
                     !.sections = <<[kind |-> kind, start |-> start - moved, size |-> size]>>]) :
        kind \in {"pointers", "offsets", "interposing"}, moved \in {0, 32, -64}, chained \in BOOLEAN,
        stubs \in {{}, {<<68, 72>>}}, rebases \in {<<>>, 200 :> 72 - 32, 48 :> 72 + 64, 88 :> 68},
        start \in {48, 80, 88}, size \in {16, 48, 160}}

(* Tables of exception records between other bytes.                         *)
RecordsOf(count, from, cut) == FlattenSeq([k \in 1..count |-> <<4 * k + from, IF k = cut THEN 3 ELSE 5>>])
TableTasks ==
    {[kind |-> "table", raw |-> front \o RecordsOf(n, 0, cut) \o between \o RecordsOf(m, 4, 0) \o <<0, 0, 0>>] :
        front \in {<<>>, <<0>>, <<0, 0, 0>>, <<4, 5, 0>>, <<8, 5>>, <<99, 7, 99, 8>>},
        n \in 0..6, cut \in {0, 2, 5}, between \in {<<>>, <<0>>, <<7, 0>>, <<0, 0, 0, 0, 0>>}, m \in {0, 3, 4, 5, 7}}

(* Extents that lie side by side, within one another, and in pieces.        *)
SomeExtents == {[start |-> s, end |-> e, fragment |-> f] : s \in {64, 68}, e \in {72, 84}, f \in BOOLEAN}
InteriorTasks ==
    {[kind |-> "interior", address |-> address, borders |-> borders,
      image |-> [Image64(<<>>) EXCEPT !.fdes = f, !.extents = x, !.plt = plt]] :
        address \in {64, 68, 70, 72, 76, 80}, borders \in {64 :> <<64, 72>>, 68 :> <<60, 84>>}, plt \in {{}, {<<68, 72>>}},
        x \in {<<>>} \cup {<<r, [start |-> 72, end |-> 80, fragment |-> FALSE], s>> : r \in SomeExtents, s \in SomeExtents},
        f \in {<<>>, <<[start |-> 64, end |-> 84, fragment |-> FALSE], [start |-> 68, end |-> 72, fragment |-> FALSE],
                       [start |-> 72, end |-> 76, fragment |-> FALSE]>>,
               <<[start |-> 72, end |-> 84, fragment |-> FALSE], [start |-> 64, end |-> 72, fragment |-> FALSE]>>}}

(* Starts that wait, and what the analysis of each makes of the others.     *)
DeferredTasks ==
    {[kind |-> "deferred",
      image |-> [base |-> 64, format |-> format, memory |-> <<64, 96>>, areas |-> areas, exec |-> {<<64, 84>>},
                 fdes |-> <<[start |-> 76, end |-> 84, fragment |-> FALSE], [start |-> 64, end |-> 72, fragment |-> FALSE]>>,
                 searchTable |-> {72, 74, 200}, textBase |-> 64, functionStarts |-> {0, 8, 12, 14, 100},
                 claims |-> [s \in {64, 72, 76} |-> claims[s]], cap |-> cap, patience |-> patience],
      manager |-> [candidates |-> {80}, starts |-> {80}, symbols |-> {}, code |-> code, accepted |-> <<>>, offered |-> <<>>,
                   polls |-> 0]] :
        format \in {"elf", "macho"}, areas \in {{}, {<<64, 76>>}}, code \in {{}, 72..75},
        claims \in [{64, 72, 76} -> {{}, 64..75, 72..79}], cap \in {2, 100}, patience \in {2, 6, 100}}

(* The scan of gaps over code that is half known.                           *)
SweepTasks ==
    {[kind |-> "sweep", pointer |-> p[1], previous |-> p[2],
      image |-> [Image64(w \o <<Op("mov"), Op("ret"), Op("mov")>>) EXCEPT
                     !.exec = {<<e.low, 88>>}, !.pads = e.pads, !.fdes = e.fdes, !.extents = e.extents],
      known |-> [code |-> known[1], data |-> 72..73, functions |-> {known[2]}, starts |-> {},
                 gaps |-> {a \in 64..84 : a \notin known[1] /\ (a = 64 \/ a - 1 \in known[1])}]] :
        w \in [1..3 -> {Op("nop"), Op("mov"), Op("bti"), Op("bti j"), Op("ret"), Op("udf"), Jump("b", 84)}],
        p \in {<<64, 0>>, <<66, 0>>, <<64, 64>>}, known \in {<<84..87, 64>>, <<84..87, 84>>, <<68..71, 84>>},
        e \in {[low |-> 68, pads |-> {}, fdes |-> <<>>, extents |-> <<>>],
               [low |-> 64, pads |-> {}, fdes |-> <<[start |-> 64, end |-> 80, fragment |-> FALSE]>>, extents |-> <<>>],
               [low |-> 64, pads |-> {68}, fdes |-> <<[start |-> 64, end |-> 76, fragment |-> FALSE]>>, extents |-> <<>>],
               [low |-> 64, pads |-> {68}, fdes |-> <<>>, extents |-> <<[start |-> 64, end |-> 72, fragment |-> TRUE]>>]}}

(* Images of x86 code from 64 on, made of pieces.  A piece: its bytes, what *)
(* it is (opens: it starts with bytes functions open with; stub; plain),    *)
(* where in it a function could be mistaken to start, and whether a symbol  *)
(* names it.                                                                *)
Image86(bytes, bits) ==
    [base |-> 64, bytes |-> bytes, bits |-> bits, areas |-> {}, symbols |-> {}, fdes |-> <<>>, format |-> "pe", directory |-> <<>>,
     sections |-> <<[name |-> ".text", start |-> 64, end |-> 80]>>, rules |-> {"ends", "alignment"}, language |-> {},
     delphi |-> TRUE, cap |-> 100, patience |-> 100, claims |-> <<>>]
Discovered86(image, bodies, opens, stubs, table) ==
    [kind |-> "discover86", image |-> image, bodies |-> bodies, opens |-> opens, stubs |-> stubs, table |-> table]
Piece(bytes, kind, inside, named) == [bytes |-> bytes, kind |-> kind, inside |-> inside, named |-> named]
Pair == <<\h41, \h57, \h41, \h56>>
Pieces64 ==
    {Piece(<<\h55, \h48, \h89, \hE5>> \o Pair, "opens", {4}, FALSE), Piece(<<\h55>> \o Pair, "opens", {1}, FALSE),
     Piece(Pair, "opens", {}, FALSE), Piece(Pair, "opens", {}, TRUE),
     Piece(<<\h6A, \h55>> \o Pair, "plain", {1, 2}, TRUE), Piece(<<\h40, \h55, \h48, \h83, \hEC>>, "opens", {1}, FALSE),
     Piece(<<\hF3, \h0F, \h1E, \hFA, \hC3>>, "opens", {}, FALSE),
     Piece(<<\h90, \hF3, \h0F, \h1E, \hFA>>, "declared", {1}, FALSE),
     Piece(<<\hE8, 5, 0, 0, 0>>, "plain", {}, FALSE), Piece(<<\hE8, 0, 0, 0, 0>>, "plain", {}, FALSE)}
Pieces32 ==
    {Piece(<<\h8B, \hFF, \h55, \h8B, \hEC>>, "opens", {2}, FALSE), Piece(<<\h89, \hFF, \h55, \h8B, \hEC>>, "opens", {2}, TRUE),
     Piece(<<\h55, \h8B, \hEC>>, "opens", {}, FALSE), Piece(<<\h55, \h89, \hE5>>, "opens", {}, FALSE),
     Piece(<<\hE8, 3, 0, 0, 0>>, "plain", {}, FALSE), Piece(<<\hFF, \h15, 70, 0, 0, 0>>, "plain", {}, FALSE),
     Piece(<<\hC3, \hC3, 73, 0, 0, 0>>, "plain", {}, FALSE)}
Little(n) == <<n % 256, n \div 256, 0, 0>>
Filler(fill) == [j \in 1..fill |-> \hC3]
Opening(pieces, fill, bits, areas, cap, patience) ==
    LET place == <<64, 64 + Len(pieces[1].bytes) + fill>>
        The(Test(_)) == {k \in {1, 2} : Test(pieces[k])}
        known == The(LAMBDA p : p.kind # "plain" \/ p.named)
        fde(k) == <<[start |-> place[k], end |-> place[k] + 5, fragment |-> FALSE]>>
    IN  Discovered86([Image86(pieces[1].bytes \o Filler(fill) \o pieces[2].bytes \o Filler(fill), bits) EXCEPT
                          !.symbols = {place[k] : k \in The(LAMBDA p : p.named)},
                          !.fdes = (IF pieces[1].kind = "declared" THEN fde(1) ELSE <<>>)
                                     \o (IF pieces[2].kind = "declared" THEN fde(2) ELSE <<>>),
                          !.areas = areas, !.cap = cap, !.patience = patience],
                     [e \in {place[k] : k \in known} |->
                          UNION {{e + d : d \in pieces[k].inside} : k \in {j \in known : place[j] = e}}],
                     {place[k] : k \in The(LAMBDA p : p.kind = "opens")}, {}, <<>>)
OpeningTasks ==
    {Opening(pieces, fill, 64, areas, cap, patience) :
        pieces \in [1..2 -> Pieces64], fill \in {1, 9}, areas \in {{}, {<<65, 200>>}}, cap \in {1, 100}, patience \in {1, 100}}
    \cup
    {Opening(pieces, fill, 32, areas, cap, patience) :
        pieces \in [1..2 -> Pieces32], fill \in {1, 4}, areas \in {{}, {<<66, 200>>}}, cap \in {1, 100}, patience \in {2, 100}}

(* Chains of stubs, of all kinds, in all lengths, one behind the other.     *)
StubBytes(kind, operand) ==
    CASE kind = "jump" -> <<\hFF, \h25>> \o operand
      [] kind = "plt" -> <<\hFF, \h25>> \o operand \o <<\h68, 1, 0, 0, 0, \hE9, 0, 0, 0, 0>>
      [] kind = "sec" -> <<\hF3, \h0F, \h1E, \hFA, \hF2, \hFF, \h25>> \o operand \o <<\h0F, \h1F, \h44, 0, 0>>
Repeated(bytes, count) == [k \in 1..(count * Len(bytes)) |-> bytes[((k - 1) % Len(bytes)) + 1]]
StubsFrom(from, bytes, count) == IF count < 2 THEN {} ELSE {from + Len(bytes) * (k - 1) : k \in 1..count}
Chained(first, count, filler, second, further, bits, areas, cap) ==
    LET behind == 64 + count * Len(first) + Len(filler)
    IN  Discovered86([Image86(Repeated(first, count) \o filler \o Repeated(second, further), bits) EXCEPT
                          !.areas = areas, !.cap = cap],
                     <<>>, {}, StubsFrom(64, first, count) \cup StubsFrom(behind, second, further), <<>>)
ChainTasks ==
    {Chained(StubBytes(c[1], Little(c[2][1])), c[3], filler, StubBytes(c[4], Little(c[2][1])), c[5], c[2][2], areas, cap) :
        c \in {"jump", "plt", "sec"} \X {<<1, 64>>, <<70, 32>>} \X (0..3) \X {"jump", "plt", "sec"} \X (0..2),
        filler \in {<<\hC3>>, <<\hC3, \hFF, \h25>>},
        areas \in {{}, {<<66, 200>>}, {<<64, 86>>}}, cap \in {2, 100}}

(* Exception tables in all states: behind a function and three headers of   *)
(* unwind data, of a whole function, a part, and one that means nothing.    *)
Unwound(begin, end, unwind) == [begin |-> begin, end |-> end, unwind |-> unwind, part |-> unwind = 20]
RecordBytes(r) == Little(r.begin) \o Little(r.end) \o Little(r.unwind)
BeforeTable == <<\hC3, \h55, \h48, \h89, \hE5, \hC3>> \o Filler(10) \o Little(1) \o Little(\h21) \o Little(2)
SectionAt(name, start, end) == <<[name |-> name, start |-> start, end |-> end]>>
TableKnown(records) == SubSeq(records, 1, Min({Len(records)} \cup {k - 1 : k \in {j \in DOMAIN records : records[j].begin = 0}}))
Told(records, how) ==
    LET image == Image86(BeforeTable \o RecordBytes(records[1]) \o RecordBytes(records[2]), 64)
    IN  CASE how = "exact" -> [image EXCEPT !.directory = <<<<92, 116>>>>]
          [] how = "long"  -> [image EXCEPT !.directory = <<<<92, 600>>>>]
          [] how = "cut"   -> [image EXCEPT !.directory = <<<<92, 115>>>>]
          [] how = "named" -> [image EXCEPT !.sections = SectionAt(".pdata", 92, 116)]
          [] how = "elf"   -> [image EXCEPT !.sections = SectionAt(".pdata", 92, 116), !.format = "elf"]
          [] how = "dump"  -> [image EXCEPT !.sections = <<>>]
ExceptionTasks ==
    {Discovered86([Told(<<Unwound(b, e, u), second>>, how) EXCEPT !.cap = limit[1], !.patience = limit[2], !.symbols = symbols],
                  <<>>, {}, {},
                  IF how \in {"elf", "dump"} THEN <<>>
                  ELSE TableKnown(SubSeq(<<Unwound(b, e, u), second>>, 1, IF how = "cut" THEN 1 ELSE 2))) :
        b \in {0, 8}, e \in {12, 4, 300}, u \in {16, 20, 24, 18, 300},
        second \in {Unwound(6, 7, 16), Unwound(10, 12, 20), Unwound(9, 300, 18), Unwound(40, 60, 16)},
        how \in {"exact", "long", "cut", "named", "elf", "dump"}, symbols \in {{}, {75}},
        limit \in {<<1, 100>>, <<2, 1>>, <<100, 100>>}}

(* Tables of records between other numbers, in the bytes of a dump.         *)
RecordRun(count, from) ==
    [k \in 1..(12 * count) |-> RecordBytes(Unwound(from + 2 * ((k - 1) \div 12), from + 1 + 2 * ((k - 1) \div 12), 4))[((k - 1) % 12) + 1]]
Numbers(ns) == [k \in 1..(4 * Len(ns)) |-> Little(ns[((k - 1) \div 4) + 1])[((k - 1) % 4) + 1]]
DumpOf(lead, count, between, further, from, tail) ==
    [Image86(Numbers(<<0, 1>>) \o Numbers(lead) \o RecordRun(count, 8) \o Numbers(between)
                \o RecordRun(further, from) \o Numbers(tail), 64) EXCEPT !.sections = <<>>]
UnwindTasks ==
    {[kind |-> "table86", image |-> DumpOf(lead, count, between, further, from, tail)] :
        lead \in UNION {[1..n -> {0, 4, 9}] : n \in 0..2}, count \in 3..6, between \in {<<0>>, <<9, 4>>, <<8, 9, 4>>},
        further \in {0, 4, 6}, from \in {8, 30}, tail \in {<<>>, <<0, 4>>}}
    \cup
    {Discovered86(DumpOf(<<>>, count, <<>>, 0, 8, <<0>>), <<>>, {}, {}, <<>>) : count \in 3..6}

(* Dwords that may be tables of methods.                                    *)
MethodTasks ==
    {[kind |-> "methods86",
      image |-> [Image86(Numbers(values), 32) EXCEPT !.areas = way.areas, !.cap = way.cap, !.patience = way.patience, !.delphi = way.delphi,
                                                     !.claims = [a \in {110, 130} |-> a..(a + way.length)]],
      manager |-> [candidates |-> {100, 140}, symbols |-> {}, accepted |-> <<>>, offered |-> <<>>, starts |-> {},
                   functions |-> {100, 140}, code |-> way.code, referenced |-> {referenced}, polls |-> 0]] :
        values \in [1..5 -> {100, 110, 0}] \cup [1..4 -> {100, 110, 120, 130}], referenced \in {64, 76},
        way \in {[areas |-> {}, cap |-> 100, patience |-> 100, delphi |-> TRUE, length |-> 30, code |-> 120..123],
                 [areas |-> {<<100, 120>>}, cap |-> 3, patience |-> 100, delphi |-> TRUE, length |-> 3, code |-> {72, 120}],
                 [areas |-> {}, cap |-> 3, patience |-> 4, delphi |-> TRUE, length |-> 3, code |-> {120}],
                 [areas |-> {}, cap |-> 100, patience |-> 100, delphi |-> FALSE, length |-> 3, code |-> {}]}}

AllTasks == <<ComponentTasks, DominatorTasks, FunctionTasks, BlockTasks, MapTasks, AreaTasks,
              UnmapTasks, LabelTasks, RefTasks, ReportTasks, BoundTasks,
              ExtentTasks, SwitchTasks, TrackTasks, ArmBoundTasks, ArmSwitchTasks, ArmCaseTasks,
              ArmStubTasks, ElfTasks, MachoTasks, PeTasks,
              Track64Tasks, Calls64Tasks, Switch64Tasks, Strings64Tasks, Thunk64Tasks,
              LengthTasks, LiteralTasks, TerminatedTasks, ReadTasks,
              FdeTasks, PadTasks, HdrTasks,
              RecordTasks, FrameTasks, MadeTasks, PointerTasks64, TableTasks, InteriorTasks,
              DeferredTasks, SweepTasks,
              OpeningTasks, ChainTasks, ExceptionTasks, UnwindTasks, MethodTasks>>
=============================================================================
