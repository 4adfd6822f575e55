------------------------------ MODULE IntelTables ------------------------------
(***************************************************************************)
(* The jump tables of x86: what an indirect branch is taken to reach, from *)
(* the instructions before it (smda/intel/JumpTableAnalyzer.py).           *)
(*                                                                         *)
(* An operand is a register, an immediate or a memory cell, taken apart    *)
(* where the code matches its text; an instruction is                      *)
(* [at, size, op, dst, src].  A window is the instructions before the      *)
(* branch by address.  An image is                                         *)
(*   [low, high, code, word, byte, bits, pie, tables]                      *)
(* the bounds of the memory image, the addresses of its code areas, what   *)
(* an entry read at an address is, what a byte is, the width of a pointer, *)
(* whether it is a position-independent ELF, and the addresses that look   *)
(* like tables because code loads them (table_offsets).  The image base is *)
(* low.  Spelling (hexadecimal or decimal) is left out.                    *)
(***************************************************************************)
EXTENDS Integers, Sequences, SequencesExt, FiniteSets, FiniteSetsExt

NoOperand == [kind |-> "none", reg |-> "", width |-> 0, base |-> "", index |-> "", scale |-> 1, value |-> 0]
Reg(name, width) == [NoOperand EXCEPT !.kind = "reg", !.reg = name, !.width = width]
Imm(value) == [NoOperand EXCEPT !.kind = "imm", !.value = value]
Mem(width, base, index, scale, value) ==
    [kind |-> "mem", reg |-> "", width |-> width, base |-> base, index |-> index,
     scale |-> scale, value |-> value]

IsReg(o) == o.kind = "reg"
IsMem(o) == o.kind = "mem"
IsImm(o) == o.kind = "imm"
Scaled(o) == IsMem(o) /\ o.scale > 1

RetIns  == {"ret", "iret"}
CopyIns == {"mov", "movzx", "movsx", "movsxd", "movabs"}
NamedIns ==   \* write only the operand they name
    CopyIns \cup {"add", "and", "dec", "inc", "lea", "neg", "not", "or", "sar", "shl", "shr", "sub", "xor"}
ReadOnlyIns   == {"test", "push", "bt", "nop"}
PreservingIns == ReadOnlyIns \cup {"cmp", "jmp", "ja", "je"}
ImplicitWrites(op) ==
    CASE op = "cdqe" -> {"rax"}
      [] op = "cdq"  -> {"rdx"}
      [] op \in {"mul", "imul", "div"} -> {"rax", "rdx"}
      [] op = "cpuid" -> {"rax", "rbx", "rcx", "rdx"}
      [] OTHER -> {}

AddressIn(o) == o.value   \* the number that stands in an operand

-----------------------------------------------------------------------------
(* How large the table is: the compare, or the mask, that bounds the index. *)

(* What an operand reads, as far as it can be followed.                     *)
Key(o) == IF IsReg(o) THEN {Reg(o.reg, 64)} ELSE IF IsMem(o) THEN {o} ELSE {}
Through(key) == {Reg(name, 64) : name \in {key.base, key.index} \ {"", "rip"}}
Invalidated(tracked, key) == {k \in tracked : k # key /\ key \notin Through(k)}
IndexKeys(o) == IF Scaled(o) THEN {Reg(o.index, 64)} ELSE Key(o)

(* The instruction adds the table's base to the entry it overwrites.        *)
AddsTableBase(i) ==
    /\ IsReg(i.dst)
    /\ \/ i.op = "add" /\ Key(i.src) # {}
       \/ i.op = "lea" /\ Key(i.dst) \subseteq Through(i.src)

MaskBound(i) ==
    IF IsReg(i.dst) /\ i.dst.width >= 32 /\ i.src.value + 1 \in {2^k : k \in 0..8}
    THEN i.src.value + 1 ELSE 0

Smaller(a, b) == IF a <= b THEN a ELSE b

(* The compare tests what the index is taken from.                          *)
TiedBound(mask, i) ==
    IF mask = 0 THEN i.src.value + 1
    ELSE IF mask <= 2^Smaller(i.dst.width, 8) THEN Smaller(i.src.value + 1, mask) ELSE mask

(* The walk, backwards: what the index is held in, the first compare of     *)
(* anything, the tightest mask, and the bound once there is one.            *)
AtCompare(walk, i) ==
    IF ~IsImm(i.src) THEN walk
    ELSE IF Key(i.dst) \cap walk.tracked # {} THEN [walk EXCEPT !.bound = TiedBound(walk.mask, i), !.done = TRUE]
    ELSE IF walk.untied = 0 /\ IsReg(i.dst) THEN [walk EXCEPT !.untied = i.src.value + 1]
    ELSE walk
AtMask(walk, i) ==
    LET bound == MaskBound(i)
    IN  IF bound = 0 THEN walk
        ELSE [walk EXCEPT !.mask = IF walk.mask = 0 THEN bound ELSE Smaller(walk.mask, bound)]
AtWrite(walk, i) ==
    LET key  == CHOOSE k \in Key(i.dst) : TRUE
        held == key \in walk.tracked
        rest == Invalidated(walk.tracked, key)
    IN  CASE i.op \in CopyIns ->
               [walk EXCEPT !.tracked = rest \cup IF held THEN IndexKeys(i.src) ELSE {}]
          [] i.op = "and" /\ held /\ IsImm(i.src) -> AtMask(walk, i)
          [] i.op \in NamedIns \ CopyIns /\ ~held -> [walk EXCEPT !.tracked = rest]
          [] i.op \notin CopyIns /\ held /\ walk.position = 0 /\ AddsTableBase(i) ->
               [walk EXCEPT !.tracked = rest \cup {key}]
          [] OTHER -> [walk EXCEPT !.tracked = {}]
\* fault: the index is taken to survive whatever a call does
FollowPastCalls(walk, i) ==
    CASE i.op \in RetIns -> [walk EXCEPT !.done = TRUE]
      [] i.op = "cmp" -> AtCompare(walk, i)
      [] walk.tracked = {} \/ i.op \in ReadOnlyIns \/ Key(i.dst) = {} -> walk
      [] OTHER -> AtWrite(walk, i)
Follow(walk, i) ==
    CASE i.op \in RetIns -> [walk EXCEPT !.done = TRUE]
      [] i.op = "cmp" -> AtCompare(walk, i)
      [] walk.tracked = {} \/ i.op \in ReadOnlyIns -> walk
      [] i.op = "call" -> [walk EXCEPT !.tracked = {}]
      [] Key(i.dst) = {} -> walk
      [] OTHER -> AtWrite(walk, i)

Step(walk, i) == IF walk.done THEN walk ELSE [Follow(walk, i) EXCEPT !.position = @ + 1]
BoundWalk(window, keys) ==
    FoldLeft(Step, [tracked |-> keys, untied |-> 0, mask |-> 0, bound |-> 0, position |-> 0, done |-> FALSE],
             Reverse(window))
FindJumpTableSize(window, keys) ==   \* 0: not recovered
    LET walk == BoundWalk(window, keys)
    IN  CHOOSE n \in {walk.bound, walk.mask, walk.untied} :
            n = IF walk.bound # 0 THEN walk.bound ELSE IF walk.mask # 0 THEN walk.mask ELSE walk.untied

-----------------------------------------------------------------------------
(* Where the table is.                                                      *)

Positions(window, Holds(_)) == {k \in DOMAIN window : Holds(window[k])}
LastOf(window, Holds(_)) ==   \* as a set: what is not there is {}
    LET found == Positions(window, Holds) IN IF found = {} THEN {} ELSE {Max(found)}

IsDirectTable(i) ==   \* a register from [base or index + table], a pointer only by a scaled index
    /\ i.op = "mov" /\ IsReg(i.dst) /\ IsMem(i.src) /\ i.src.value # 0
    /\ \/ i.src.width = 32 /\ (i.src.base = "" <=> i.src.index # "")
       \/ i.src.width = 64 /\ i.src.base = "" /\ Scaled(i.src)
IsTableLea(i) == i.op = "lea" /\ IsMem(i.src) /\ i.src.base = "rip" /\ i.src.index = "" /\ i.src.value # 0
LoadedByLea(i) == i.at + i.size + i.src.value
IsRegisterTable(o) == IsMem(o) /\ o.width = 64 /\ o.base # "" /\ o.scale = 8 /\ o.value = 0
IsIndexRead(i) ==
    /\ i.op = "movzx" /\ IsReg(i.dst) /\ IsMem(i.src)
    /\ i.src.width = 8 /\ i.src.scale = 1 /\ i.src.base # "" /\ i.src.value # 0
IndexRegister(o) == IF o.index # "" THEN o.index ELSE o.base
ImageBase(o) == IF o.index # "" THEN {o.base} ELSE {}

\* "unknown": the text does not show what the instruction writes
Writes(i, name) ==
    LET implicit == IF IsReg(i.src) THEN {} ELSE ImplicitWrites(i.op)
        named    == IF IsReg(i.dst) THEN {i.dst.reg} ELSE {}
    IN  CASE i.op \in PreservingIns -> "no"
          [] name \in implicit -> "yes"
          [] name \notin implicit /\ (ImplicitWrites(i.op) # {} \/ i.op \in NamedIns) ->
               IF name \in named THEN "yes" ELSE "no"
          [] OTHER -> "unknown"

(* The lea that left a table in the register, if nothing came in between.   *)
RipRelativeBase(name, window) ==
    LET loads(i)    == IsTableLea(i) /\ i.dst.reg = name
        deciding(i) == loads(i) \/ Writes(i, name) # "no"
    IN  {i \in {window[k] : k \in LastOf(window, deciding)} : loads(i)}

Ref(from, to, size, table) == [from |-> from, to |-> to, size |-> size, table |-> table]
NoTable == [tables |-> {}, size |-> 4, refs |-> {}]

DirectTable(jump, window) ==
    LET adds(i) == i.op = "add" /\ IsReg(jump.dst) /\ i.dst = jump.dst
        found(i) == IsDirectTable(i) \/ adds(i)
        at(i) == LET size == IF IsDirectTable(i) /\ i.src.width = 64 THEN 8 ELSE 4
                 IN  [tables |-> {AddressIn(i.src)}, size |-> size,
                      refs |-> {Ref(i.at, AddressIn(i.src), size, FALSE)}]
        last == LastOf(window, found)
    IN  IF last = {} THEN NoTable ELSE at(window[CHOOSE k \in last : TRUE])

X64Table(window, target) ==
    LET loads(i) == IsTableLea(i) /\ (target = "" \/ i.dst.reg = target)
        last == {window[k] : k \in LastOf(window, loads)}
    IN  [tables |-> {LoadedByLea(i) : i \in last}, size |-> 4,
         refs |-> {Ref(i.at, LoadedByLea(i), 4, FALSE) : i \in last}]

LastThree(window) == SubSeq(window, Max({1, Len(window) - 2}), Len(window))
BonusOffset(window) ==
    LET adds(i) == i.op = "mov" /\ IsReg(i.dst) /\ IsMem(i.src) /\ i.src.value # 0
        last == LastOf(LastThree(window), adds)
    IN  Max({0} \cup {AddressIn(LastThree(window)[k].src) : k \in last})

-----------------------------------------------------------------------------
(* What is in the table.                                                    *)

Unbounded == 255   \* entries of a table nothing bounds
Limit(bound) == IF bound = 0 THEN Unbounded ELSE bound

Within(image, address) == image.low <= address /\ address < image.high
IsCodePointer(image, address) == Within(image, address) /\ address \in image.code
Readable(image, address) == address \in DOMAIN image.word

(* The entries before the first that ends the scan.                         *)
Scanned(bound, Ends(_)) == 0..(Min({Limit(bound)} \cup {k \in 0..(Limit(bound) - 1) : Ends(k)}) - 1)

Entries(image, from, table, size, bound, Ends(_), IsTaken(_), Target(_)) ==
    LET taken == {k \in Scanned(bound, Ends) : IsTaken(k)}
    IN  [targets |-> {Target(k) : k \in taken},
         refs |-> {Ref(from, table + k * size, size, TRUE) : k \in taken}]
Nothing == [targets |-> {}, refs |-> {}]

DirectEntries(image, from, table, size, bound) ==
    LET at(k)    == table + k * size
        case(k)  == image.word[at(k)] # 0 /\ IsCodePointer(image, image.word[at(k)])
        ends(k)  == ~Readable(image, at(k)) \/ (bound = 0 /\ ~case(k))
        target(k) == image.word[at(k)]
    IN  IF table = 0 \/ ~Within(image, table) THEN Nothing
        ELSE Entries(image, from, table, size, bound, ends, case, target)

RelativeEntries(image, from, table, base, bonus, bound) ==
    LET at(k)     == table + bonus + k * 4
        target(k) == (IF base # 0 THEN base ELSE table) + image.word[at(k)]
        taken(k)  == image.word[at(k)] # 0
        ends(k)   == \/ ~Readable(image, at(k))
                     \/ k > 0 /\ table + k * 4 \in image.tables
                     \/ ~IsCodePointer(image, target(k))
                     \/ ~taken(k) /\ base = 0
    IN  IF table = 0 \/ ~Within(image, table) \/ table + bonus < image.low THEN Nothing
        ELSE Entries(image, from, table + bonus, 4, bound, ends, taken, target)

ExplicitEntries(image, from, table, bound) ==
    LET size     == image.bits \div 8
        at(k)    == table + k * size
        case(k)  == image.word[at(k)] # 0 /\ IsCodePointer(image, image.word[at(k)])
        ends(k)  == ~Readable(image, at(k)) \/ ~case(k)
        target(k) == image.word[at(k)]
    IN  IF table = 0 \/ ~Within(image, table) THEN Nothing
        ELSE Entries(image, from, table, size, bound, ends, case, target)

(* A table whose base only a register holds: no shared object has one.      *)
RegisterTable(image, jump, window, bound) ==
    LET writes(i)  == Writes(i, jump.dst.reg) # "no"
        last       == IF IsReg(jump.dst) THEN LastOf(window, writes) ELSE {}
        readers    == IF IsRegisterTable(jump.dst) THEN {<<jump.dst, window>>}
                      ELSE {<<window[k].src, SubSeq(window, 1, k - 1)>> :
                               k \in {l \in last : window[l].op = "mov" /\ IsRegisterTable(window[l].src)}}
        loads      == UNION {RipRelativeBase(r[1].base, r[2]) : r \in readers}
        from(i)    == DirectEntries(image, jump.at, LoadedByLea(i), 8, bound)
    IN  IF image.pie THEN Nothing
        ELSE [targets |-> UNION {from(i).targets : i \in loads},
              refs |-> UNION {from(i).refs \cup {Ref(i.at, LoadedByLea(i), 8, FALSE)} : i \in loads}]

-----------------------------------------------------------------------------
(* The byte table of a switch in two levels, that the values are looked up  *)
(* in first: known to be data only from the branch that uses it.            *)

IndexTableWindow == 4
Padding == 204

CaseNumbers(image, address, length, cases) ==
    \A a \in address..(address + length - 1) : a \in DOMAIN image.byte /\ image.byte[a] < cases
IndexTableExtent(image, address, bound, entries) ==   \* [at, length], as a set
    LET first  == Min(entries)
        size   == IF Cardinality(entries) > 1 THEN Min(entries \ {first}) - first ELSE 4
        start  == Max(entries) + size
        cases  == Cardinality(entries)
        run    == {n \in 1..255 : CaseNumbers(image, start, n, cases) /\ ~CaseNumbers(image, start, n + 1, cases)
                                  /\ start + n \in DOMAIN image.byte}
        closed(n) == image.byte[start + n] = Padding \/ (start + n) % 16 = 0
    IN  IF entries = {} THEN {}
        ELSE IF bound # 0 /\ (address >= start \/ address + bound <= first) /\ CaseNumbers(image, address, bound, cases)
        THEN {[at |-> address, length |-> bound]}
        ELSE IF address < start /\ start <= address + 255
        THEN {[at |-> start, length |-> n] : n \in {m \in run : closed(m)}}
        ELSE {}

Operand(i) == IF Scaled(i.dst) THEN i.dst ELSE i.src
IndexTableRefs(image, jump, window, refs) ==
    LET read      == <<jump>> \o Reverse(window)
        cases(p)  == {Operand(read[q]).index : q \in {r \in 1..p : Scaled(Operand(read[r]))}}
        looksUp(p) == p > 1 /\ IsIndexRead(read[p]) /\ read[p].dst.reg \in cases(p)
        found     == {p \in 1..Smaller(IndexTableWindow + 1, Len(read)) : looksUp(p)}
        preceding == SubSeq(window, 1, Len(window) - (Min(found) - 1))
        reader    == read[Min(found)]
        bases     == IF ImageBase(reader.src) = {} THEN {0}
                     ELSE {LoadedByLea(i) : i \in UNION {RipRelativeBase(name, preceding) : name \in ImageBase(reader.src)}}
        bound     == FindJumpTableSize(preceding, {Reg(IndexRegister(reader.src), 64)})
        entries   == {r.to : r \in {s \in refs : s.from = jump.at}}
    IN  IF found = {} THEN {}
        ELSE UNION {{Ref(reader.at, e.at, e.length, TRUE) :
                        e \in IndexTableExtent(image, AddressIn(reader.src) + base, bound, entries)} : base \in bases}

-----------------------------------------------------------------------------
(* The whole: which of the shapes it is decides how the table is read.      *)

EndsWith(window, ops) ==   \* with instructions out of these sets, the last one first
    /\ Len(window) >= Len(ops)
    /\ \A k \in DOMAIN ops : window[Len(window) - k + 1].op \in ops[k]
Names(i, name) == name \in {i.dst.reg, i.src.reg, i.src.base, i.src.index}

ByShape(image, jump, window, bound) ==
    LET direct   == DirectTable(jump, window)
        lea      == X64Table(window, "")
        rsi      == IF Names(Last(window), "rsi") THEN X64Table(window, "rsi") ELSE NoTable
        table(t) == Max({0} \cup t.tables)
        relative(bonus, base) == RelativeEntries(image, jump.at, table(lea), table(base), bonus, bound)
        with(found, refs)     == [found EXCEPT !.refs = @ \cup refs]
    IN  CASE IsMem(jump.dst) -> ExplicitEntries(image, jump.at, AddressIn(jump.dst), bound)
          [] ~IsMem(jump.dst) /\ EndsWith(window, <<CopyIns>>) ->
               with(DirectEntries(image, jump.at, table(direct), direct.size, bound), direct.refs)
          [] ~IsMem(jump.dst) /\ EndsWith(window, <<{"add"}, {"movsxd"}>>) ->
               with(relative(0, rsi), lea.refs \cup rsi.refs)
          [] ~IsMem(jump.dst) /\ (EndsWith(window, <<{"lea"}>>) \/ EndsWith(window, <<{"add"}, {"add", "shr"}>>)) ->
               with(relative(0, NoTable), lea.refs)
          [] ~IsMem(jump.dst) /\ EndsWith(window, <<{"add"}, CopyIns \ {"movsxd"}>>) ->
               with(relative(BonusOffset(window), NoTable), lea.refs)
          [] OTHER -> Nothing

OrElse(shape, late) == IF shape.targets # {} THEN shape ELSE [late EXCEPT !.refs = @ \cup shape.refs]
WithIndexTable(image, jump, window, found) ==
    IF found.targets = {} THEN found
    ELSE [found EXCEPT !.refs = @ \cup IndexTableRefs(image, jump, window, found.refs)]
TargetsWithin(image, jump, window, bound) ==
    WithIndexTable(image, jump, window,
                   OrElse(ByShape(image, jump, window, bound), RegisterTable(image, jump, window, bound)))
GetJumpTargets(image, jump, window) ==
    TargetsWithin(image, jump, window, FindJumpTableSize(window, IndexKeys(jump.dst)))

-----------------------------------------------------------------------------
(* What the window does when it runs, on three registers, a stack frame     *)
(* whose base may move, and values up to 2: the reference for the bound.    *)
(* An entry of the table is told from a number by where it is.              *)

Entry(index) == 100 + index
TableBase    == 50
Junk         == 2

Value(env, o) ==
    CASE IsReg(o) -> env[o.reg]
      [] IsImm(o) -> o.value
      [] IsMem(o) /\ o.index # "" -> Entry(env[o.index])
      [] IsMem(o) /\ o.base = "rip" -> TableBase
      [] OTHER -> env.frame[env[o.base]]
Sum(a, b) == IF TableBase \in {a, b} /\ a + b >= Entry(0) THEN a + b - TableBase ELSE (a + b) % 3
Put(env, o, value) ==
    IF IsReg(o) THEN [env EXCEPT ![o.reg] = value]
    ELSE [env EXCEPT !.frame[env[o.base]] = value]
Environments ==
    [rax : 0..2, rcx : 0..2, r11 : {TableBase}, rbp : 0..1, frame : [0..1 -> 0..2]]
Run(envs, i) ==   \* the states after it, out of those before it
    CASE i.op = "cmp" -> {env \in envs : Value(env, i.dst) <= i.src.value}
      [] i.op = "lea" /\ i.src.index # "" -> {Put(env, i.dst, Sum(env[i.src.base], env[i.src.index])) : env \in envs}
      [] i.op \in CopyIns \/ (i.op = "lea" /\ i.src.index = "") -> {Put(env, i.dst, Value(env, i.src)) : env \in envs}
      [] i.op = "add" -> {Put(env, i.dst, Sum(Value(env, i.dst), Value(env, i.src))) : env \in envs}
      [] i.op = "and" -> {Put(env, i.dst, Value(env, i.dst) % (i.src.value + 1)) : env \in envs}
      [] i.op = "call" -> {[env EXCEPT !.rax = Junk, !.rcx = Junk] : env \in envs}
      [] i.op = "xchg" -> {[env EXCEPT ![i.dst.reg] = env[i.src.reg], ![i.src.reg] = env[i.dst.reg]] : env \in envs}
      [] i.op \in RetIns -> Environments
      [] OTHER -> envs
=============================================================================
