------------------------------ MODULE Arm64Tables ------------------------------
(***************************************************************************)
(* What AArch64 code reaches through registers and what strings it puts on *)
(* its stack (smda/aarch64/analyzers.py, dataflow.py and the thunks of     *)
(* AArch64Backend.py).                                                     *)
(*                                                                         *)
(* An instruction is [at, op, args, narrow, writeback]; narrow tells that  *)
(* its first register is a w register.  An argument is a register, with a  *)
(* shift or an extension for a second source, an immediate with its shift, *)
(* or memory.  An image is [low, high, code, word, starts]: its bounds,    *)
(* the addresses of its code areas, what is read at an address, and the    *)
(* known starts of functions.                                              *)
(***************************************************************************)
EXTENDS Integers, Sequences, SequencesExt, FiniteSets, FiniteSetsExt, Functions

R(name) == [kind |-> "reg", reg |-> name, index |-> "", form |-> "lsl", shift |-> 0, value |-> 0]
Shifted(name, form, shift) == [R(name) EXCEPT !.form = form, !.shift = shift]
N(value, shift) == [R("") EXCEPT !.kind = "imm", !.shift = shift, !.value = value]
M(base, index, disp) == [R(base) EXCEPT !.kind = "mem", !.index = index, !.value = disp]
I(at, op, args) == [at |-> at, op |-> op, args |-> args, narrow |-> FALSE, writeback |-> FALSE]

InstructionSize == 4
IsR(a) == a.kind = "reg"
IsN(a) == a.kind = "imm"
IsM(a) == a.kind = "mem"
Dest(i) == IF i.args # <<>> /\ IsR(i.args[1]) THEN {i.args[1].reg} ELSE {}
Get(f, name) == IF name \in DOMAIN f THEN {f[name]} ELSE {}

Within(image, address) == image.low <= address /\ address < image.high
Stored(image, address) ==
    IF Within(image, address) /\ address \in DOMAIN image.word THEN {image.word[address]} ELSE {}

(* Numbers from here on stand for those that no w register holds.           *)
Beyond == 2^24
LowHalf(value) == value % Beyond

-----------------------------------------------------------------------------
(* Constants: a function on the registers whose value is known.             *)

ReadOnly == {"cmp", "cmn", "tst", "str", "strb", "strh", "stur", "stp", "cbz", "cbnz", "br", "blr"}
Half == 65536
HalfAt(value, shift) == (value \div 2^shift) % Half

(* What the instruction leaves in its first register, if it can be told.    *)
Result(image, constants, i) ==
    LET a == i.args[2]
        b == i.args[3]
        old == Get(constants, i.args[1].reg)
    IN  CASE i.op \in {"adrp", "adr"} -> {a.value}
          [] i.op = "add" /\ IsR(a) /\ IsN(b) -> {x + b.value * 2^b.shift : x \in Get(constants, a.reg)}
          [] i.op = "add" /\ IsR(a) /\ IsR(b) /\ b.form = "lsl" ->
               {x + y * 2^b.shift : x \in Get(constants, a.reg), y \in Get(constants, b.reg)}
          [] i.op \in {"mov", "movz"} /\ IsN(a) -> {a.value * 2^a.shift}
          [] i.op \in {"mov", "movz"} /\ IsR(a) -> Get(constants, a.reg)
          [] i.op = "movk" -> {x + (a.value - HalfAt(x, a.shift)) * 2^a.shift : x \in old}
          [] i.op \in {"ldr", "ldur"} /\ IsM(a) /\ a.index = "" ->
               UNION {Stored(image, base + a.value) : base \in Get(constants, a.reg)}
          [] OTHER -> {}

Overwritten(i) ==
    (IF i.op \in ReadOnly THEN {} ELSE Dest(i))
      \cup (IF i.op = "ldp" THEN {i.args[2].reg} ELSE {})
      \cup (IF i.op \in {"bl", "blr"} THEN {"x30"} ELSE {})
      \cup (IF i.writeback THEN {a.reg : a \in {m \in ToSet(i.args) : IsM(m)}} ELSE {})

Without(constants, names) == Restrict(constants, DOMAIN constants \ names)
ApplyConstantWrite(image, constants, i) ==
    LET found == IF Dest(i) = {} \/ i.op \in ReadOnly THEN {} ELSE Result(image, constants, i)
        kept  == Without(constants, Overwritten(i))
        based == i.writeback /\ \E a \in ToSet(i.args) : IsM(a) /\ {a.reg} = Dest(i)
    IN  IF found = {} \/ based THEN kept
        ELSE [r \in DOMAIN kept \cup Dest(i) |-> IF {r} = Dest(i) THEN CHOOSE v \in found : TRUE ELSE kept[r]]

PropagateConstants(image, context) ==
    FoldLeft(LAMBDA constants, i : ApplyConstantWrite(image, constants, i), <<>>, context)
Before(image, context, k) == PropagateConstants(image, SubSeq(context, 1, k - 1))

-----------------------------------------------------------------------------
(* The instructions that may run before an address, in order of address.  A *)
(* function is [start, list, blocks, refs]: its instructions, its blocks    *)
(* once they are known and none before, and the edges [from, to, jump] seen *)
(* so far.                                                                  *)

Window == 200
JumpTablePredecessorDepth == 2
CallPredecessorDepth == 3

BlockOf(fn, address) == CHOOSE b \in fn.blocks : \E i \in b : i.at = address
ApproxBlockStart(fn, address) ==
    Max({Min({fn.start, address})} \cup {r.to : r \in {e \in fn.refs : e.jump /\ e.to <= address}})
Backtrack(fn, address) ==
    LET upto == {i \in fn.list : i.at <= address}
    IN  {i \in upto : Cardinality({j \in upto : j.at > i.at}) < Window}

BlockAndStart(fn, address) ==   \* nothing, where blocks are known and none has it
    IF fn.blocks = {} THEN {[block |-> Backtrack(fn, address), start |-> ApproxBlockStart(fn, address)]}
    ELSE IF \A b \in fn.blocks : \A i \in b : i.at # address THEN {}
    ELSE {[block |-> BlockOf(fn, address), start |-> Min({i.at : i \in BlockOf(fn, address)})]}

\* fault: only the block itself is looked at
GatherBlock(fn, seed, depth) == UNION {{i \in b.block : i.at < seed} : b \in BlockAndStart(fn, seed)}
Gather(fn, seed, depth) ==
    LET own == BlockAndStart(fn, seed)
        hop(walk) ==
            LET sources == {r.from : r \in {e \in fn.refs : e.to \in walk.frontier}} \ walk.visited
                found   == UNION {{[from |-> s, block |-> b.block, start |-> b.start] :
                                      b \in BlockAndStart(fn, s)} : s \in sources}
                starts  == {f.start : f \in found}
            IN  [seen |-> walk.seen \cup UNION {{i \in f.block : i.at <= f.from} : f \in found},
                 visited |-> walk.visited \cup starts, frontier |-> starts \ walk.visited]
        walked[k \in 0..depth] ==
            IF k = 0
            THEN [seen |-> UNION {{i \in b.block : i.at < seed} : b \in own},
                  visited |-> {b.start : b \in own}, frontier |-> {b.start : b \in own}]
            ELSE hop(walked[k - 1])
    IN  walked[depth].seen
InOrder(instructions) ==
    LET last[n \in 0..Cardinality(instructions)] ==
            IF n = 0 THEN <<>>
            ELSE Append(last[n - 1],
                        CHOOSE i \in instructions : Cardinality({j \in instructions : j.at < i.at}) = n - 1)
    IN  last[Cardinality(instructions)]
GatherContextInstructions(fn, seed, depth) == InOrder(Gather(fn, seed, depth))

-----------------------------------------------------------------------------
(* Calls through registers.                                                 *)

\* The slot the register was last loaded from, if a plain load wrote it last.
LoadSlotFor(image, context, name) ==
    LET writers == {k \in DOMAIN context : Dest(context[k]) = {name}}
        k == Max(writers)
        a == context[k].args[2]
    IN  IF writers = {} \/ context[k].op \notin {"ldr", "ldur"} THEN {}
        ELSE IF ~IsM(a) \/ a.index # "" THEN {}
        ELSE {base + a.value : base \in Get(Before(image, context, k), a.reg)}

(* The calls in the order they were met; of one block only so many.  What   *)
(* each leads to: an import, with the slot it was read from, or code.       *)
ResolveRegisterCalls(image, fn, calls, limit) ==
    LET starts(c) == {b.start : b \in BlockAndStart(fn, c.at)}
        rank(k)   == Cardinality({j \in 1..k : starts(calls[j]) = starts(calls[k])})
        tried     == {k \in DOMAIN calls : starts(calls[k]) # {} /\ rank(k) <= limit}
        context(k) == GatherContextInstructions(fn, calls[k].at, CallPredecessorDepth)
        found(k) ==
            {[from |-> calls[k].at, to |-> v, slot |-> LoadSlotFor(image, context(k), calls[k].reg)] :
                v \in Get(PropagateConstants(image, context(k)), calls[k].reg) \ {0}}
        all == UNION {found(k) : k \in tried}
    IN  [imports |-> {f \in all : f.to \in image.imports},
         candidates |-> {f.to : f \in {g \in all : g.to \notin image.imports /\ Within(image, g.to)}}]

-----------------------------------------------------------------------------
(* Jump tables: from the branch back along the registers its target is made *)
(* of.                                                                      *)

SignedExtends == {"sxtb", "sxth", "sxtw", "sxtx"}
ZeroExtends   == {"uxtb", "uxth", "uxtw", "uxtx"}
Loads == {"ldr", "ldrsw", "ldrh", "ldrb", "ldrsh", "ldrsb"}
UnboundedEntries == 32

FromAdd(walk, i, constants) ==
    LET a == i.args[2]
        b == i.args[3]
        anchor == IF Get(constants, a.reg) # {} THEN Get(constants, a.reg) ELSE Get(constants, b.reg)
        index  == IF Get(constants, a.reg) # {} THEN b ELSE a
        both   == [walk EXCEPT !.tracked = @ \cup {a.reg, b.reg}]
    IN  IF IsN(b) THEN [walk EXCEPT !.tracked = @ \cup {a.reg}]
        ELSE IF anchor = {} THEN both
        ELSE [both EXCEPT !.anchor = anchor, !.base = anchor, !.relative = TRUE,
                          !.shift = IF index.form \in {"lsl"} \cup SignedExtends \cup ZeroExtends THEN index.shift ELSE @,
                          !.signed = @ \/ index.form \in SignedExtends]
FromLoad(walk, i, constants) ==
    LET a == i.args[2]
        base == Get(constants, a.reg)
    IN  IF ~IsM(a) THEN walk
        ELSE [walk EXCEPT !.base = IF base # {} THEN base ELSE @,
                          !.index = IF a.index # "" THEN a.index ELSE @,
                          !.size = CASE i.op \in {"ldrb", "ldrsb"} -> 1 [] i.op \in {"ldrh", "ldrsh"} -> 2
                                     [] i.op = "ldrsw" \/ i.narrow -> 4 [] OTHER -> 8,
                          !.signed = IF i.op = "ldr" THEN @ ELSE i.op \in {"ldrsw", "ldrsh", "ldrsb"},
                          !.relative = @ \/ i.op # "ldr"]
FromExtend(walk, i) ==
    [walk EXCEPT !.tracked = @ \cup {i.args[2].reg}, !.signed = i.op \in SignedExtends]
Chase(image, context, walk, k) ==
    LET i    == context[k]
        here == [walk EXCEPT !.tracked = @ \ Dest(i)]
        known == Before(image, context, k)
    IN  CASE Dest(i) = {} \/ ~(Dest(i) \subseteq walk.tracked) -> walk
          [] i.op = "add" /\ Dest(i) \subseteq walk.tracked /\ Dest(i) # {} -> FromAdd(here, i, known)
          [] i.op \in Loads /\ Dest(i) \subseteq walk.tracked /\ Dest(i) # {} -> FromLoad(here, i, known)
          [] i.op \in SignedExtends \cup ZeroExtends /\ Dest(i) \subseteq walk.tracked /\ Dest(i) # {} ->
               FromExtend(here, i)
          [] i.op = "mov" /\ IsR(i.args[2]) /\ Dest(i) \subseteq walk.tracked /\ Dest(i) # {} ->
               [here EXCEPT !.tracked = @ \cup {i.args[2].reg}]
          [] OTHER -> here
ChaseAll(image, context, name) ==
    LET last[k \in 1..(Len(context) + 1)] ==
            IF k > Len(context)
            THEN [tracked |-> {name}, base |-> {}, anchor |-> {}, index |-> "", size |-> 8,
                  signed |-> FALSE, relative |-> FALSE, shift |-> 0]
            ELSE Chase(image, context, last[k + 1], k)
    IN  last[1]

(* The latest compare of the index with a limit, whatever lies between.     *)
TableSize(context, index) ==
    LET pair(i)  == IF i.op = "subs" THEN <<i.args[2], i.args[3]>> ELSE <<i.args[1], i.args[2]>>
        compares == {k \in DOMAIN context : /\ context[k].op \in {"cmp", "subs"}
                                            /\ IsN(pair(context[k])[2]) /\ pair(context[k])[1].reg = index}
    IN  IF index = "" \/ compares = {} THEN UnboundedEntries ELSE pair(context[Max(compares)])[2].value + 1

(* Entries of one and two bytes are given unsigned, longer ones signed.     *)
EntryValue(raw, size, signed) ==
    CASE size \in {1, 2} -> IF signed /\ raw >= 128 * 256^(size - 1) THEN raw - 256^size ELSE raw
      [] size = 4 -> IF ~signed /\ raw < 0 THEN Beyond ELSE raw
      [] size = 8 -> raw

Ref(from, to, size) == [from |-> from, to |-> to, size |-> size]
ReadEntries(image, jump, walk, count, base) ==
    LET boundary  == Min({image.high} \cup {s \in image.starts : s > base})
        at(k)     == base + k * walk.size
        value(k)  == EntryValue(image.word[at(k)], walk.size, walk.signed)
        rebased(k) == CHOOSE a \in (IF walk.anchor = {} THEN {base} ELSE walk.anchor) : TRUE
        target(k) == IF walk.relative THEN rebased(k) + value(k) * 2^walk.shift ELSE value(k)
        stops(k)  == \/ at(k) >= boundary \/ ~Within(image, at(k)) \/ at(k) \notin DOMAIN image.word
                     \/ ~Within(image, target(k)) \/ target(k) \notin image.code
        length    == Min({count} \cup {k \in 0..(count - 1) : stops(k)})
    IN  [targets |-> {target(k) : k \in 0..(length - 1)},
         refs |-> {Ref(jump, at(k), walk.size) : k \in 0..(length - 1)}]
NoTargets == [targets |-> {}, refs |-> {}]

GetJumpTargets(image, fn, jump) ==   \* jump: [at, reg]
    LET context == GatherContextInstructions(fn, jump.at, JumpTablePredecessorDepth)
        walk    == ChaseAll(image, context, jump.reg)
    IN  IF walk.base \subseteq {0} THEN NoTargets
        ELSE ReadEntries(image, jump.at, walk, TableSize(context, walk.index), CHOOSE b \in walk.base : TRUE)

-----------------------------------------------------------------------------
(* Strings that a block puts together on the stack: bytes by their offset,  *)
(* with the instruction that stored each.                                   *)

MinStackString == 4
MaxStackString == 128
Printable == 32..126

StoreWidth(i) == CASE i.op \in {"strb", "sturb"} -> 1 [] i.op \in {"strh", "sturh"} -> 2
                   [] OTHER -> IF i.narrow THEN 4 ELSE 8
RegisterValue(constants, name) == IF name = "xzr" THEN {0} ELSE Get(constants, name)
ByteOf(value, k) == IF k > 3 THEN 0 ELSE (value \div 256^k) % 256

MutatesStackPointer(i) == Dest(i) = {"sp"} \/ (i.writeback /\ \E a \in ToSet(i.args) : IsM(a) /\ a.reg = "sp")
OnStack(a) == IsM(a) /\ a.reg = "sp" /\ a.index = ""
Put(bytes, i, offset, width, values) ==
    IF values = {} THEN bytes
    ELSE LET value == CHOOSE v \in values : TRUE
         IN  [o \in DOMAIN bytes \cup (offset..(offset + width - 1)) |->
                 IF o \in offset..(offset + width - 1)
                 THEN [value |-> ByteOf(value, o - offset), at |-> i.at] ELSE bytes[o]]
RecordStackStore(constants, bytes, i) ==
    LET width  == StoreWidth(i)
        values(k) == RegisterValue(constants, i.args[k].reg)
    IN  CASE i.op \in {"str", "stur", "strb", "sturb", "strh", "sturh"} ->
               IF OnStack(i.args[2]) THEN Put(bytes, i, i.args[2].value, width, values(1)) ELSE bytes
          [] i.op = "stp" ->
               IF OnStack(i.args[3])
               THEN Put(Put(bytes, i, i.args[3].value, width, values(1)), i, i.args[3].value + width, width, values(2))
               ELSE bytes
          [] OTHER -> bytes
(* Runs of printable bytes, as long as they go.                             *)
EmitStackStrings(bytes) ==
    LET good   == {o \in DOMAIN bytes : bytes[o].value \in Printable}
        firsts == {o \in good : o - 1 \notin good}
        end(o) == Min({e \in {g + 1 : g \in good} : e > o /\ e \notin good})
        size(o) == Min({MaxStackString, end(o) - o})
    IN  {[at |-> bytes[o].at, text |-> [k \in 1..size(o) |-> bytes[o + k - 1].value]] :
            o \in {f \in firsts : end(f) - f >= MinStackString}}
AtInstruction(image, walk, i) ==
    LET moves == MutatesStackPointer(i)
    IN  [strings |-> IF moves THEN walk.strings \cup EmitStackStrings(walk.bytes) ELSE walk.strings,
         bytes |-> IF moves THEN <<>> ELSE RecordStackStore(walk.constants, walk.bytes, i),
         constants |-> ApplyConstantWrite(image, walk.constants, i)]
RecoverStackStrings(image, block) ==
    LET walk == FoldLeft(LAMBDA w, i : AtInstruction(image, w, i),
                         [strings |-> {}, bytes |-> <<>>, constants |-> <<>>], block)
    IN  walk.strings \cup EmitStackStrings(walk.bytes)

-----------------------------------------------------------------------------
(* Import thunks: adrp, perhaps an add, ldr and br, behind up to two words  *)
(* of padding or landing pads.  The words from an address on.               *)

Pads == {"nop", "bti"}
Padding(words) == Cardinality({k \in 1..2 : k <= Len(words) /\ \A j \in 1..k : words[j].op \in Pads})
Computed(t, i) ==
    CASE i.op = "adrp" -> i.args[2].value
      [] i.op = "add" -> t[i.args[2].reg] + i.args[3].value
      [] i.op = "ldr" -> t[i.args[2].reg] + i.args[2].value
WalkGotThunk(words) ==
    LET body     == SubSeq(words, Padding(words) + 1, Len(words))
        set(k)   == {body[j].args[1].reg : j \in 1..(k - 1)}
        known(k) == FoldLeft(LAMBDA t, i : [r \in DOMAIN t \cup Dest(i) |-> IF {r} = Dest(i) THEN Computed(t, i) ELSE t[r]],
                             <<>>, SubSeq(body, 1, k - 1))
        fits(k)  == \/ body[k].op = "adrp"
                    \/ body[k].op \in {"add", "ldr"} /\ body[k].args[2].reg \in set(k)
        ends     == {k \in 1..Len(body) : k <= 4 /\ body[k].op = "br" /\ \A j \in 1..(k - 1) : fits(j)}
        last     == Min(ends)
    IN  IF ends = {} THEN {}
        ELSE {[end |-> body[last].at + InstructionSize, slot |-> Get(known(last), body[last].args[1].reg)]}

-----------------------------------------------------------------------------
(* What instructions do when they run: the reference for the tracking, on   *)
(* three registers, the stack pointer and the bytes of the stack.           *)

Operand(env, a) ==
    CASE IsN(a) -> a.value * 2^a.shift
      [] IsR(a) /\ a.form = "lsr" -> env[a.reg] \div 2^a.shift
      [] OTHER -> env[a.reg] * 2^a.shift
Loaded(image, env, a) ==
    LET values == Stored(image, env[a.reg] + a.value + IF a.index = "" THEN 0 ELSE env[a.index])
    IN  IF values = {} THEN 2 ELSE CHOOSE v \in values : TRUE
LoadedBy(image, env, i) ==
    IF i.narrow THEN LowHalf(Loaded(image, env, i.args[2])) ELSE Loaded(image, env, i.args[2])
Store(env, offset, width, value) ==
    [env EXCEPT !.stack = [o \in DOMAIN @ \cup ((env.sp + offset)..(env.sp + offset + width - 1)) |->
        IF o - env.sp - offset \in 0..(width - 1) THEN ByteOf(value, o - env.sp - offset) ELSE @[o]]]
Do(image, env, i) ==
    CASE i.op \in {"adrp", "adr"} -> [env EXCEPT ![i.args[1].reg] = i.args[2].value]
      [] i.op \in {"mov", "movz"} -> [env EXCEPT ![i.args[1].reg] = Operand(env, i.args[2])]
      [] i.op = "movk" -> [env EXCEPT ![i.args[1].reg] = @ + (i.args[2].value - HalfAt(@, i.args[2].shift)) * 2^i.args[2].shift]
      [] i.op = "add" -> [env EXCEPT ![i.args[1].reg] = env[i.args[2].reg] + Operand(env, i.args[3])]
      [] i.op = "sub" -> [env EXCEPT ![i.args[1].reg] = env[i.args[2].reg] - Operand(env, i.args[3])]
      [] i.op = "ldr" /\ ~i.writeback -> [env EXCEPT ![i.args[1].reg] = LoadedBy(image, env, i)]
      [] i.op = "ldr" /\ i.writeback ->
           [env EXCEPT ![i.args[1].reg] = LoadedBy(image, env, i), ![i.args[2].reg] = @ + 8]
      [] i.op = "ldp" -> [env EXCEPT ![i.args[1].reg] = 2, ![i.args[2].reg] = 2]
      [] i.op \in {"bl", "blr"} -> [env EXCEPT !.x30 = i.at + InstructionSize]
      [] i.op \in {"str", "strb", "strh"} -> Store(env, i.args[2].value, StoreWidth(i), env[i.args[1].reg])
      [] i.op = "stp" ->
           LET moved == [env EXCEPT !.sp = IF i.writeback THEN @ + i.args[3].value ELSE @]
               first == IF i.writeback THEN 0 ELSE i.args[3].value
           IN  Store(Store(moved, first, StoreWidth(i), env[i.args[1].reg]),
                     first + StoreWidth(i), StoreWidth(i), env[i.args[2].reg])
      [] OTHER -> env
=============================================================================
