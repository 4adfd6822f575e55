------------------------------- MODULE ArmTables -------------------------------
(***************************************************************************)
(* What an AArch32 branch through a register or a table reaches, from the  *)
(* instructions that flow straight into it (smda/arm/analyzers.py and      *)
(* smda/arm/dataflow.py).                                                  *)
(*                                                                         *)
(* An instruction is [at, size, op, cond, args] with the base mnemonic and *)
(* its condition, "al" for none; an argument is a register, an immediate   *)
(* or memory [base + (index << shift) + disp].  An image is                *)
(*   [low, high, code, word, decoded]                                      *)
(* its bounds, the addresses of its code areas, what is read at an         *)
(* address, and the addresses already decoded as code.                     *)
(***************************************************************************)
EXTENDS Integers, Sequences, SequencesExt, FiniteSets, FiniteSetsExt, Functions

R(name) == [kind |-> "reg", reg |-> name, index |-> "", shift |-> 0, value |-> 0]
N(value) == [R("") EXCEPT !.kind = "imm", !.value = value]
M(base, index, shift, disp) == [kind |-> "mem", reg |-> base, index |-> index, shift |-> shift, value |-> disp]

CallOps == {"bl", "blx"}
CallerSaved == {"r0", "r1", "r2", "r3", "ip", "lr"}

PcValue(at, thumb, aligned) ==
    IF thumb THEN IF aligned THEN ((at + 4) \div 4) * 4 ELSE at + 4 ELSE at + 8

IsR(a) == a.kind = "reg"
IsN(a) == a.kind = "imm"
IsM(a) == a.kind = "mem"
Shaped(i, kinds) == Len(i.args) = Len(kinds) /\ \A k \in DOMAIN kinds : i.args[k].kind = kinds[k]
First(i) == IF i.args # <<>> /\ IsR(i.args[1]) THEN {i.args[1].reg} ELSE {}
Unconditional(i) == i.cond = "al"

Written(i) ==
    CASE i.op \in CallOps -> CallerSaved
      [] i.op \in {"cmp", "str", "b", "bx", "nop"} -> {}
      [] OTHER -> First(i)

-----------------------------------------------------------------------------
(* What registers hold, as far as constants tell: values and the slots they *)
(* were loaded from, functions on the registers that are known.             *)

Unknown == [values |-> <<>>, slots |-> <<>>]
Get(f, name) == IF name \in DOMAIN f THEN {f[name]} ELSE {}
Set(f, name, value) == [x \in DOMAIN f \cup {name} |-> IF x = name THEN value ELSE f[x]]

OperandValue(t, i, a, thumb, aligned) ==
    CASE IsN(a) -> {a.value}
      [] IsR(a) /\ a.reg = "pc" -> {PcValue(i.at, thumb, aligned)}
      [] IsR(a) /\ a.reg # "pc" -> Get(t.values, a.reg)
      [] OTHER -> {}

MemoryAddress(t, i, a, thumb) ==
    LET bases   == IF a.reg = "pc" THEN {PcValue(i.at, thumb, TRUE)} ELSE Get(t.values, a.reg)
        indices == IF a.index = "" THEN {0}
                   ELSE IF a.index = "pc" THEN {PcValue(i.at, thumb, FALSE)} ELSE Get(t.values, a.index)
    IN  {base + index * 2^a.shift + a.value : base \in bases, index \in indices}
ReadWord(image, address) ==
    IF image.low <= address /\ address < image.high /\ address \in DOMAIN image.word
    THEN {image.word[address]} ELSE {}

Half == 65536
Evaluate(image, t, i, thumb) ==   \* the [value, slot] it leaves, if that can be told
    LET count == Len(i.args)
        only(values) == {[value |-> v, slot |-> {}] : v \in values}
        left  == IF count = 2 THEN Get(t.values, i.args[1].reg)
                 ELSE OperandValue(t, i, i.args[2], thumb, thumb /\ IsN(i.args[3]))
        right == OperandValue(t, i, i.args[count], thumb, FALSE)
    IN  CASE i.op \in {"mov", "movw"} /\ count = 2 -> only(OperandValue(t, i, i.args[2], thumb, FALSE))
          [] i.op = "movt" -> only({(low % Half) + i.args[2].value * Half : low \in Get(t.values, i.args[1].reg)})
          [] i.op = "adr" -> only({PcValue(i.at, thumb, TRUE) + i.args[2].value})
          [] i.op = "add" -> only({a + b : a \in left, b \in right})
          [] i.op = "sub" -> only({a - b : a \in left, b \in right})
          [] i.op = "ldr" /\ count = 2 /\ IsM(i.args[2]) ->
               UNION {{[value |-> v, slot |-> {address}] : v \in ReadWord(image, address)} :
                          address \in MemoryAddress(t, i, i.args[2], thumb)}
          [] OTHER -> {}

Kill(t, names) == [values |-> Restrict(t.values, DOMAIN t.values \ names),
                   slots |-> Restrict(t.slots, DOMAIN t.slots \ names)]
Assign(t, name, found) ==
    [values |-> Set(t.values, name, found.value),
     slots |-> IF found.slot = {} THEN t.slots ELSE Set(t.slots, name, CHOOSE s \in found.slot : TRUE)]
Track(image, t, i, thumb) ==
    LET found == IF First(i) = {} THEN {} ELSE Evaluate(image, t, i, thumb)
    IN  IF found = {} \/ ~Unconditional(i) THEN Kill(t, Written(i))
        ELSE Assign(Kill(t, Written(i)), i.args[1].reg, CHOOSE f \in found : TRUE)
Tracked(image, context, thumb) ==
    FoldLeft(LAMBDA t, i : Track(image, t, i, thumb), Unknown, context)

(* The instructions that flow into an address: each ends where the next     *)
(* begins, and none before one that cannot fall through.                    *)
FallsThrough(i) ==
    \/ ~Unconditional(i)
    \/ i.op \in {"cbz", "cbnz"}
    \/ /\ i.op \notin {"b", "bx", "tbb", "tbh"}
       /\ "pc" \notin First(i) /\ ~(i.op = "pop" /\ R("pc") \in ToSet(i.args))
ContextInstructions == 24
Preceding(instructions, address) ==
    LET ends(at) == {i \in instructions : i.at + i.size = at /\ FallsThrough(i)}
        back[k \in 0..ContextInstructions, at \in {address} \cup {i.at : i \in instructions}] ==
            IF k = 0 \/ ends(at) = {} THEN <<>>
            ELSE LET i == CHOOSE e \in ends(at) : TRUE IN Append(back[k - 1, i.at], i)
    IN  back[ContextInstructions, address]

-----------------------------------------------------------------------------
(* How many entries the compare in front of a dispatch admits, 0 if none    *)
(* is found: the index is followed back through copies and stack slots.     *)

BoundConditions     == {"hi", "ls", "hs", "lo", "gt", "ge", "le", "lt"}
ExclusiveConditions == {"hs", "lo", "ge", "lt"}

IsStackSlot(a) == IsM(a) /\ a.reg = "sp" /\ a.index = ""
Leaves(i) == i.cond \in BoundConditions /\ (i.op = "b" \/ (i.op \notin CallOps /\ (i.op = "bx" \/ "pc" \in Written(i))))
Done(walk, entries) == [walk EXCEPT !.done = TRUE, !.entries = entries]

AtCompare(walk, i) ==
    LET name    == i.args[1].reg
        entries == i.args[2].value + IF walk.condition \in ExclusiveConditions THEN 0 ELSE 1
    IN  IF name \in walk.tracked THEN Done(walk, entries)
        ELSE [walk EXCEPT !.condition = "al", !.exits = {},
                          !.compared = IF name \in DOMAIN @ THEN @ ELSE Set(@, name, entries)]
AtStore(walk, i) ==
    LET name == i.args[1].reg
        rest == [walk EXCEPT !.slots = @ \ {i.args[2].value}]
    IN  IF ~IsStackSlot(i.args[2]) \/ i.args[2].value \notin walk.slots THEN walk
        ELSE IF ~Unconditional(i) THEN Done(walk, 0)
        ELSE IF name \in DOMAIN walk.compared THEN Done(walk, walk.compared[name])
        ELSE [rest EXCEPT !.tracked = @ \cup {name}]
AtWrite(walk, i) ==
    LET kept   == [walk EXCEPT !.compared = Restrict(@, DOMAIN @ \ Written(i))]
        held   == Unconditional(i) /\ First(i) # {} /\ First(i) \subseteq walk.tracked
        others == kept.tracked \ Written(i)
    IN  CASE i.op = "ldr" /\ held /\ IsStackSlot(i.args[2]) ->
               [kept EXCEPT !.tracked = @ \ First(i), !.slots = @ \cup {i.args[2].value}]
          [] i.op = "mov" /\ held /\ IsR(i.args[2]) ->
               [kept EXCEPT !.tracked = (@ \ First(i)) \cup {i.args[2].reg}]
          [] OTHER -> IF others = {} /\ kept.slots = {} THEN Done(kept, 0) ELSE [kept EXCEPT !.tracked = others]
Follow(walk, i) ==
    LET here == IF "sp" \in Written(i) THEN [walk EXCEPT !.slots = {}] ELSE walk
    IN  CASE i.args = <<>> -> walk
          [] i.op = "cmp" /\ Shaped(i, <<"reg", "imm">>) -> AtCompare(walk, i)
          [] Leaves(i) -> [walk EXCEPT !.condition = i.cond, !.exits = @ \cup {i.cond}]
          [] ~Leaves(i) /\ i.cond \in walk.exits -> walk   \* happens on the way out only
          [] i.op = "str" /\ i.cond \notin walk.exits -> AtStore(here, i)
          [] OTHER -> AtWrite(here, i)
Bound(context, index, condition) ==
    FoldLeft(LAMBDA walk, i : IF walk.done THEN walk ELSE Follow(walk, i),
             [tracked |-> {index}, slots |-> {}, compared |-> <<>>, exits |-> {},
              condition |-> condition, done |-> FALSE, entries |-> 0], Reverse(context)).entries

-----------------------------------------------------------------------------
(* Reading tables.                                                          *)

MaxUnboundedEntries == 512
MaxTableEntries     == 4096
Ref(from, to, size) == [from |-> from, to |-> to, size |-> size]
NoTargets == [targets |-> {}, refs |-> {}]

Even(address) == address - (address % 2)
Within(image, address) == image.low <= address /\ address < image.high

MeetsTarget(table, at, size, before, here) ==
    \/ \E t \in before : table < t /\ t <= at
    \/ \E t \in here : table <= t /\ t < at + size

Words(image) == {image.word[a] : a \in DOMAIN image.word}

(* Entry by entry until one does not name code, the table meets decoded     *)
(* code, or, in code itself, reaches the first of its own targets.          *)
ReadTable(image, from, table, size, bound, targets) ==
    LET limit    == Min({MaxTableEntries, IF bound = 0 THEN MaxUnboundedEntries ELSE bound})
        at(k)    == table + k * size
        inline   == table \in image.code
        named(k) == {t \in targets[image.word[at(k)]] : Within(image, t) /\ t \in image.code}
        stops(k) == at(k) \in image.decoded \/ at(k) \notin DOMAIN image.word \/ named(k) = {}
        length   == Min({limit} \cup {k \in 0..(limit - 1) : stops(k)})
        met(k)   == inline /\ MeetsTarget(table, at(k), size, UNION {named(j) : j \in 0..(k - 1)}, named(k))
        last     == Min({length} \cup {k \in 0..(length - 1) : met(k)})
    IN  [targets |-> UNION {named(k) : k \in 0..(last - 1)},
         refs |-> {Ref(from, at(k), size) : k \in 0..(last - 1)}]

BaseValue(t, i, a, thumb) == IF a.reg = "pc" THEN {PcValue(i.at, thumb, TRUE)} ELSE Get(t.values, a.reg)
AllOf(results) == [targets |-> UNION {r.targets : r \in results}, refs |-> UNION {r.refs : r \in results}]

AbsoluteTable(image, from, tables, bound, thumb) ==
    LET target == [entry \in Words(image) |-> IF thumb /\ entry % 2 = 0 THEN {} ELSE {Even(entry)}]
    IN  AllOf({ReadTable(image, from, table, 4, bound, target) : table \in tables})

TableBranch(image, jump, context, t) ==   \* tbb and tbh: halfwords from behind the branch
    LET size   == IF jump.op = "tbb" THEN 1 ELSE 2
        memory == jump.args[1]
        tables == IF memory.reg = "pc" THEN {jump.at + 4} ELSE Get(t.values, memory.reg)
        target == [entry \in Words(image) |-> {jump.at + 4 + 2 * entry}]
    IN  IF memory.index = "" THEN NoTargets
        ELSE AllOf({ReadTable(image, jump.at, table, size, Bound(context, memory.index, jump.cond), target) :
                       table \in tables})

BranchTable(image, table, bound) ==   \* the entries are branches themselves
    LET limit == Min({MaxTableEntries, IF bound = 0 THEN MaxUnboundedEntries ELSE bound})
        at(k) == table + 4 * k
        ends(k) == \/ ~Within(image, at(k) + 3) \/ at(k) \notin image.code
                   \/ bound = 0 /\ at(k) \notin image.branches
    IN  [targets |-> {at(k) : k \in 0..(Min({limit} \cup {k \in 0..(limit - 1) : ends(k)}) - 1)}, refs |-> {}]

(* The last instruction that wrote a register, as its position.             *)
LastWriter(context, name) ==
    LET writers == {k \in DOMAIN context : name \in Written(context[k])}
    IN  IF writers = {} THEN {} ELSE {Max(writers)}

(* add pc, anchor, offset, where the offset came from a table: either       *)
(* operand may be the anchor, the first that fits is.                       *)
RelativeTable(image, from, i, context, t, thumb) ==
    LET pair    == IF Len(i.args) = 3 THEN <<i.args[2], i.args[3]>> ELSE i.args
        loads(anchor, loaded) ==
            {k \in LastWriter(context, loaded.reg) :
                /\ Get(t.values, anchor.reg) # {}
                /\ context[k].op = "ldr" /\ Shaped(context[k], <<"reg", "mem">>) /\ context[k].args[2].index # ""
                /\ BaseValue(Tracked(image, SubSeq(context, 1, k - 1), thumb), context[k], context[k].args[2], thumb) # {}}
        read(anchor, k) ==
            LET prefix == SubSeq(context, 1, k - 1)
                memory == context[k].args[2]
                target == [entry \in Words(image) |-> {IF thumb THEN Even(a + entry) ELSE a + entry : a \in Get(t.values, anchor.reg)}]
            IN  AllOf({ReadTable(image, from, table, 4, Bound(prefix, memory.index, "al"), target) :
                          table \in BaseValue(Tracked(image, prefix, thumb), context[k], memory, thumb)})
    IN  IF ~(\A k \in {1, 2} : IsR(pair[k])) THEN NoTargets
        ELSE IF loads(pair[1], pair[2]) # {} THEN AllOf({read(pair[1], k) : k \in loads(pair[1], pair[2])})
        ELSE AllOf({read(pair[2], k) : k \in loads(pair[2], pair[1])})

OffsetSize(op) == IF op = "ldrsb" THEN 1 ELSE 2
OffsetTable(image, jump, context, k, thumb) ==   \* MSVC: a signed offset from the pc
    LET memory == context[k].args[2]
        size   == OffsetSize(context[k].op)
        prefix == SubSeq(context, 1, k - 1)
        target == [entry \in Words(image) |-> {Even(PcValue(jump.at, thumb, FALSE) + entry)}]
    IN  IF ~thumb \/ jump.args[1] # R("pc") \/ ~IsM(memory) \/ memory.index = ""
           \/ memory.value # 0 \/ memory.shift # size \div 2
        THEN NoTargets
        ELSE AllOf({ReadTable(image, jump.at, table, size, Bound(prefix, memory.index, "al"), target) :
                       table \in BaseValue(Tracked(image, prefix, thumb), context[k], memory, thumb)})

RegisterBranch(image, jump, context, thumb) ==
    LET name == jump.args[Len(jump.args)].reg
        by(k, prefix, t) ==
            LET i == context[k]
            IN  CASE i.op \in {"ldrsb", "ldrsh"} /\ Len(jump.args) = 2 -> OffsetTable(image, jump, context, k, thumb)
                  [] i.op = "ldr" /\ IsM(i.args[2]) /\ i.args[2].index # "" ->
                       AbsoluteTable(image, jump.at, BaseValue(t, i, i.args[2], thumb),
                                     Bound(prefix, i.args[2].index, "al"), thumb)
                  [] i.op = "add" -> RelativeTable(image, jump.at, i, prefix, t, thumb)
                  [] OTHER -> NoTargets
    IN  IF jump.args = <<>> \/ ~IsR(jump.args[Len(jump.args)]) THEN NoTargets
        ELSE AllOf({by(k, SubSeq(context, 1, k - 1), Tracked(image, SubSeq(context, 1, k - 1), thumb)) :
                       k \in LastWriter(context, name)})

TargetsGiven(image, jump, context, t, thumb) ==   \* t is what the context leaves in the registers
    CASE jump.op \in {"tbb", "tbh"} -> TableBranch(image, jump, context, t)
      [] jump.op = "ldr" /\ Shaped(jump, <<"reg", "mem">>) ->
           IF jump.args[2].index = "" THEN NoTargets
           ELSE AbsoluteTable(image, jump.at, BaseValue(t, jump, jump.args[2], thumb),
                              Bound(context, jump.args[2].index, jump.cond), thumb)
      [] jump.op = "add" /\ Len(jump.args) = 3 ->
           IF jump.args[2] = R("pc") /\ IsR(jump.args[3])
           THEN BranchTable(image, PcValue(jump.at, thumb, FALSE), Bound(context, jump.args[3].reg, jump.cond))
           ELSE RelativeTable(image, jump.at, jump, context, t, thumb)
      [] OTHER -> RegisterBranch(image, jump, context, thumb)
GetJumpTargets(image, jump, context, thumb) ==
    TargetsGiven(image, jump, context, Tracked(image, context, thumb), thumb)

(* A call to a libgcc helper: the table is what the call would return to.   *)
BranchContext(instructions, address) ==
    LET branches == {i \in instructions : i.op = "b" /\ i.cond \in BoundConditions /\ i.args = <<N(address)>>}
    IN  {[context |-> Preceding(instructions, i.at), condition |-> i.cond] : i \in branches}
GetCaseTargets(image, call, instructions, helper) ==
    LET origin  == call.at + call.size
        context == Preceding(instructions, call.at)
        guards  == IF context # <<>> THEN {[context |-> context, condition |-> "al"]}
                   ELSE BranchContext(instructions, call.at)
        bound   == IF guards = {} THEN 0
                   ELSE LET g == CHOOSE g \in guards : TRUE IN Bound(g.context, "r0", g.condition)
        table   == ((origin + 3) \div 4) * 4
        word == [entry \in Words(image) |-> {Even(table + entry)}]
        half == [entry \in Words(image) |-> {origin + 2 * entry}]
    IN  IF helper.words THEN ReadTable(image, call.at, table, 4, bound, word)
        ELSE ReadTable(image, call.at, origin, helper.size, bound, half)

-----------------------------------------------------------------------------
(* Import stubs and veneers: what linkers put in front of a slot, told from *)
(* the image (resolveImportStub) and from a stored function (isImportStub). *)

MaxStubInstructions == 6
StubOps == {"add", "sub", "adr", "ldr", "movw", "movt", "mov", "nop", "bx"}
ToPc(i)       == Len(i.args) > 0 /\ i.args[1] = R("pc")
IsTransfer(i) == i.op = "bx" \/ (i.op \in {"ldr", "mov"} /\ ToPc(i))
Plain(i)      == Unconditional(i) /\ i.op \in StubOps
SwitchesToArm(i)   == i.op = "bx" /\ i.args = <<R("pc")>>   \* from Thumb into the A32 entry behind

(* [end, slot, value], the latter two as sets.                              *)
Through(last, slot, value) == [end |-> last.at + last.size, slot |-> slot, value |-> value]
ThroughMemory(image, last, slots) ==
    IF slots = {} THEN {} ELSE {Through(last, slots, UNION {ReadWord(image, s) : s \in slots})}
ThroughRegister(last, slots, values) == IF slots = {} /\ values = {} THEN {} ELSE {Through(last, slots, values)}
LeavesTo(image, last, target, t, thumb) ==
    IF IsM(target) THEN ThroughMemory(image, last, MemoryAddress(t, last, target, thumb))
    ELSE ThroughRegister(last, Get(t.slots, target.reg), Get(t.values, target.reg))
DecodeStub(image, list, thumb) ==
    LET prefix == thumb /\ SwitchesToArm(list[1])
        body   == IF prefix THEN SelectSeq(list, LAMBDA i : i.at >= PcValue(list[1].at, TRUE, TRUE)) ELSE list
        mode   == thumb /\ ~prefix
        leaving == {k \in 1..Len(body) : k <= MaxStubInstructions /\ IsTransfer(body[k])}
        last   == body[Min(leaving)]
    IN  IF leaving = {} \/ \E k \in 1..Min(leaving) : ~Plain(body[k]) THEN {}
        ELSE LeavesTo(image, last, Last(last.args), Tracked(image, SubSeq(body, 1, Min(leaving) - 1), mode), mode)

(* Every instruction before the branch sets up the register it goes         *)
(* through, and one of them starts from an address.                         *)
Seeds(i) ==
    CASE i.op = "movw" -> TRUE
      [] i.op = "adr" -> TRUE
      [] i.op = "ldr" -> i.args[2].reg = "pc"
      [] i.op \in {"add", "sub"} -> i.args[2] = R("pc")
      [] OTHER -> FALSE
SetsUp(i, target) ==
    /\ i.args[1] = R(target)
    /\ \/ i.op \in {"movw", "movt"} /\ IsN(i.args[2])
       \/ i.op = "adr"
       \/ i.op = "ldr" /\ IsM(i.args[2]) /\ i.args[2].reg \in {"pc", target}
       \/ i.op \in {"add", "sub"} /\ (i.args[2] = R("pc") \/ (i.args[2] = R(target) /\ Len(i.args) = 3))
IsPltEntry(body) ==
    LET into(i, base) == i.args[1] = R("ip") /\ IsR(i.args[2]) /\ i.args[2].reg = base
        ops == [k \in DOMAIN body |-> body[k].op]
    IN  /\ body[3].args[2].reg = "ip"
        /\ \/ ops = <<"add", "add", "ldr">> /\ into(body[1], "pc") /\ into(body[2], "ip")
           \/ /\ ops = <<"ldr", "add", "ldr">> /\ body[1].args[1] = R("ip") /\ IsM(body[1].args[2])
              /\ body[1].args[2].reg = "pc" /\ into(body[2], "pc")
IsImportStub(list) ==
    LET rest   == IF list # <<>> /\ SwitchesToArm(list[1]) THEN Tail(list) ELSE list
        body   == SelectSeq(rest, LAMBDA i : i.op # "nop")
        final  == Last(body)
        target == Last(final.args).reg
    IN  /\ Len(list) <= MaxStubInstructions
        /\ \A i \in ToSet(list) : Plain(i)
        /\ \/ list # <<>> /\ rest = <<>>
           \/ /\ body # <<>> /\ IsTransfer(final)
              /\ IF final.op = "ldr"
                 THEN \/ Len(body) = 1 /\ final.args[2].reg = "pc"
                      \/ Len(body) = 3 /\ IsPltEntry(body)
                 ELSE /\ target # "pc" /\ target \notin {"sp", "lr"}
                      /\ \A k \in 1..(Len(body) - 1) : SetsUp(body[k], target)
                      /\ \E k \in 1..(Len(body) - 1) : Seeds(body[k])

-----------------------------------------------------------------------------
(* What instructions do when they run: the reference for tracking and       *)
(* bounds, on two registers, the stack pointer and two stack slots, with    *)
(* values up to 2.  A condition holds as the last compare left it.          *)

Holds(env, cond) ==
    CASE cond = "al" -> TRUE
      [] cond = "hi" -> env.flags > 0
      [] cond = "hs" -> env.flags >= 0
      [] cond = "ls" -> env.flags <= 0
      [] cond = "lo" -> env.flags < 0
Slot(env, a) == (env.sp + a.value) % 2
ValueOf(env, a) == IF IsN(a) THEN a.value ELSE IF IsM(a) THEN env.stack[Slot(env, a)] ELSE env[a.reg]
Do(env, i) ==
    CASE i.op = "cmp" -> [env EXCEPT !.flags = env[i.args[1].reg] - i.args[2].value]
      [] i.op \in {"mov", "ldr", "movw"} -> [env EXCEPT ![i.args[1].reg] = ValueOf(env, i.args[2])]
      [] i.op = "add" -> [env EXCEPT ![i.args[1].reg] = @ + ValueOf(env, i.args[2])]
      [] i.op = "str" -> [env EXCEPT !.stack[Slot(env, i.args[2])] = env[i.args[1].reg]]
      [] i.op = "bl" -> [env EXCEPT !.r0 = 2, !.r1 = 2]
      [] OTHER -> env
Run(envs, i) ==
    IF i.op = "b" THEN {env \in envs : ~Holds(env, i.cond)}
    ELSE {IF Holds(env, i.cond) THEN Do(env, i) ELSE env : env \in envs}
Environments ==
    [r0 : 0..2, r1 : 0..2, sp : {0}, stack : [0..1 -> 0..2], flags : -1..1]
=============================================================================
