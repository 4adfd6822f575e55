----------------------------- MODULE FunctionState -----------------------------
(***************************************************************************)
(* The analysis state of one function while the engine decodes it:         *)
(* smda/common/FunctionAnalysisState.py.  A state is a record; every       *)
(* method that changes it is an operator from a state to a state.          *)
(*                                                                         *)
(* An image gives every address at which an instruction decodes its size,  *)
(* its kind and what it refers to.  Bytes, operands and mnemonics are      *)
(* abstracted to the distinctions the engine makes.                        *)
(***************************************************************************)
EXTENDS Integers, Sequences, SequencesExt

NoAddr == -1

Calls    == {"call", "rcall"}
Branches == {"cjmp", "loop", "jmp", "jtab", "ret"}
Plain    == {"seq", "zero", "nop", "pad", "endbr"}
Kinds    == Calls \cup Branches \cup Plain

(***************************************************************************)
(* size    bytes of the instruction                                        *)
(* target  the branch or call target; for "pad" the address the alignment  *)
(*         run leads to; for "ret" the target of a push/ret pair           *)
(* cases   the targets of a table dispatch, in table order                 *)
(* table   the bytes a table dispatch reads as its table                   *)
(***************************************************************************)
Instruction == [size : Nat \ {0}, kind : Kinds, target : Nat \cup {NoAddr},
                cases : Seq(Nat), table : SUBSET Nat]

Bytes(addr, size) == addr .. (addr + size - 1)

Elements(q) == {q[i] : i \in 1..Len(q)}

MaybeAddr  == Nat \cup {NoAddr}
AddrList   == Seq(Nat)
References == SUBSET (Nat \X Nat)

FnState == [start : Nat, queue : AddrList, queued : SUBSET Nat, done : SUBSET Nat,
            open : BOOLEAN, numBlocks : Nat,
            ins : SUBSET Nat, lastIns : MaybeAddr, maxStart : MaybeAddr, bytes : SUBSET Nat,
            refs : References, reached : SUBSET Nat,
            jumpRefs : References, jumpTargets : SUBSET Nat,
            data : SUBSET Nat, table : SUBSET Nat,
            suspicious : Nat, isJmp : BOOLEAN, reachable : BOOLEAN,
            ending : BOOLEAN, sane : BOOLEAN,
            colliding : SUBSET Nat, absorbed : AddrList, regCalls : SUBSET Nat]

NewState(addr) ==
    [start |-> addr, queue |-> <<addr>>, queued |-> {addr}, done |-> {},
     open |-> FALSE, numBlocks |-> 0,
     ins |-> {}, lastIns |-> NoAddr, maxStart |-> NoAddr, bytes |-> {},
     refs |-> {}, reached |-> {}, jumpRefs |-> {}, jumpTargets |-> {},
     data |-> {}, table |-> {},
     suspicious |-> 0, isJmp |-> FALSE, reachable |-> TRUE,
     ending |-> FALSE, sane |-> FALSE,
     colliding |-> {}, absorbed |-> <<>>, regCalls |-> {}]

-----------------------------------------------------------------------------
(* The block queue: last in, first out, and no block twice.                *)

NextQueued(s) == s.queue[Len(s.queue)]

ChooseNextBlock(s) ==
    [s EXCEPT !.ending = FALSE, !.isJmp = FALSE,
              !.queue  = SubSeq(s.queue, 1, Len(s.queue) - 1),
              !.queued = s.queued \ {NextQueued(s)},
              !.done   = s.done \cup {NextQueued(s)}]

\* fault: a processed block is queued again
AddBlockToQueueAgain(s, block) ==
    IF block \in s.queued THEN s
    ELSE [s EXCEPT !.queued = s.queued \cup {block}, !.queue = Append(s.queue, block)]

AddBlockToQueue(s, block) ==
    IF block \in s.done \cup s.queued THEN s
    ELSE [s EXCEPT !.queued = s.queued \cup {block}, !.queue = Append(s.queue, block)]

EndBlock(s) ==
    [s EXCEPT !.isJmp = FALSE, !.open = FALSE,
              !.numBlocks = IF s.open THEN s.numBlocks + 1 ELSE s.numBlocks]

-----------------------------------------------------------------------------
(* References and instructions.                                            *)

AddCodeRef(s, from, to, byJump) ==
    [s EXCEPT !.refs    = s.refs \cup {<<from, to>>},
              !.reached = s.reached \cup {to},
              !.isJmp   = s.isJmp \/ byJump,
              !.jumpRefs    = IF byJump THEN s.jumpRefs \cup {<<from, to>>} ELSE s.jumpRefs,
              !.jumpTargets = IF byJump THEN s.jumpTargets \cup {to} ELSE s.jumpTargets]

(* A jump target loses its mark only with the last jump that leads to it.  *)
RemoveCodeRef(s, from, to) ==
    LET left == s.jumpRefs \ {<<from, to>>}
    IN  [s EXCEPT !.refs = s.refs \ {<<from, to>>},
                  !.jumpRefs = left,
                  !.jumpTargets =
                      IF <<from, to>> \in s.jumpRefs /\ (\A r \in left : r[2] # to)
                      THEN s.jumpTargets \ {to} ELSE s.jumpTargets]

AddInstruction(s, addr, size) ==
    LET booked == [s EXCEPT !.ins = s.ins \cup {addr}, !.lastIns = addr,
                            !.maxStart = IF addr > s.maxStart THEN addr ELSE s.maxStart,
                            !.open = TRUE,
                            !.bytes = s.bytes \cup Bytes(addr, size)]
        linked == IF s.reachable THEN AddCodeRef(booked, addr, addr + size, s.isJmp)
                  ELSE booked
    IN  [linked EXCEPT !.isJmp = FALSE]

AddTable(s, table) ==
    [s EXCEPT !.data = s.data \cup table, !.table = s.table \cup table]

AddCollision(s, addr) == [s EXCEPT !.colliding = s.colliding \cup {addr}]

SetSanelyEnding(s) == [s EXCEPT !.sane = TRUE]
SetBlockEnding(s)  == [s EXCEPT !.ending = TRUE]

(* A return, a trap or an exiting system call. *)
EndInstruction(s) == [s EXCEPT !.sane = TRUE, !.reachable = FALSE, !.ending = TRUE]

-----------------------------------------------------------------------------
(***************************************************************************)
(* getBlocks(): the instructions in address order, cut into blocks that    *)
(* start at the function's start and at every jump target.                 *)
(***************************************************************************)
RefsFrom(s, addr) == {r[2] : r \in {x \in s.refs : x[1] = addr}}
RefsTo(s, addr)   == {r[1] : r \in {x \in s.refs : x[2] = addr}}

Later(s, addr) == {a \in s.ins : a > addr}
Following(s, addr) == CHOOSE a \in Later(s, addr) : \A b \in Later(s, addr) : a <= b

BlockStarts(s) == (s.jumpTargets \cup {s.start}) \cap s.ins

LeavesTo(s, ins, addr) ==
    /\ ins[addr].kind \notin Calls
    /\ Later(s, addr) # {}
    /\ RefsFrom(s, addr) # {}
    /\ Following(s, addr) \notin RefsFrom(s, addr) \/ Cardinality(RefsFrom(s, addr)) > 1

(* The fall-through leads into code of another function: the block ends    *)
(* and the reference is dropped.                                           *)
FallsIntoCollision(s, ins, addr) ==
    /\ ~LeavesTo(s, ins, addr)
    /\ addr + ins[addr].size \in RefsFrom(s, addr) \cap s.colliding

JoinsNext(s, addr) ==
    /\ Later(s, addr) # {}
    /\ Following(s, addr) \in s.reached
    /\ \/ Following(s, addr) \in s.jumpTargets \cup {s.start}
       \/ Cardinality(RefsTo(s, Following(s, addr))) > 1

EndsBlock(s, ins, addr) ==
    \/ LeavesTo(s, ins, addr)
    \/ FallsIntoCollision(s, ins, addr)
    \/ JoinsNext(s, addr)
    \/ ins[addr].kind = "ret"
    \/ Later(s, addr) = {}

(* From a block start up to and including the first instruction that ends it. *)
BlockFrom(s, ins, start) ==
    {a \in s.ins : /\ start <= a
                   /\ \A b \in s.ins : start <= b /\ b < a => ~EndsBlock(s, ins, b)}

(* Where a block falls into a collision the reference is dropped, which    *)
(* later blocks over the same instruction see.                             *)
Dropped(s, ins, start) ==
    {<<a, a + ins[a].size>> :
        a \in {x \in BlockFrom(s, ins, start) : FallsIntoCollision(s, ins, x)}}

(* The references as the block that starts there finds them.               *)
RefsSeen(s, ins, start) ==
    LET refsAt[b \in BlockStarts(s)] ==
            LET before == {c \in BlockStarts(s) : c < b}
            IN  IF before = {} THEN s.refs
                ELSE UNION {refs \ Dropped([s EXCEPT !.refs = refs], ins, Max(before)) :
                               refs \in {refsAt[Max(before)]}}
    IN  refsAt[start]

(* The state as that block finds it, bound to a value while TLC evaluates  *)
(* ENABLED.                                                                *)
SeenBy(s, ins, start) == {[s EXCEPT !.refs = refs] : refs \in {RefsSeen(s, ins, start)}}

GetBlocks(s, ins) ==
    [start \in BlockStarts(s) |->
        UNION {BlockFrom(seen, ins, start) : seen \in SeenBy(s, ins, start)}]

\* fault: every reference into other functions is dropped, jumps included
RefsAfterBlocksOwn(s, ins) == {r \in s.refs : r[2] \notin s.colliding}

(* The references left once getBlocks() dropped those into collisions. *)
RefsAfterBlocks(s, ins) ==
    s.refs \ UNION {UNION {Dropped(seen, ins, b) : seen \in SeenBy(s, ins, b)} :
                       b \in BlockStarts(s)}

-----------------------------------------------------------------------------
(* What every reachable state of an analysis satisfies. *)

(***************************************************************************)
(* The queue and its membership set agree, hold no block twice, and no     *)
(* queued block was processed before (hasUnprocessedBlocks asks only the   *)
(* membership set, chooseNextBlock pops only the list).                    *)
(***************************************************************************)
QueueDiscipline(s) ==
    /\ s.queued = Elements(s.queue)
    /\ \A i, j \in 1..Len(s.queue) : s.queue[i] = s.queue[j] => i = j
    /\ s.queued \cap s.done = {}

(***************************************************************************)
(* jump_targets is exactly the set of targets of jump_refs, and every jump *)
(* reference is a code reference: removeCodeRef keeps the three in step.   *)
(***************************************************************************)
JumpBookkeeping(s) ==
    /\ s.jumpTargets = {r[2] : r \in s.jumpRefs}
    /\ s.jumpRefs \subseteq s.refs

(***************************************************************************)
(* max_instruction_start bounds the instructions booked, which the         *)
(* alignment and landing-pad cuts rely on to leave a function whole.       *)
(***************************************************************************)
HighestIns(s) ==
    /\ \A a \in s.ins : a <= s.maxStart
    /\ s.maxStart \in s.ins \/ (s.ins = {} /\ s.maxStart = NoAddr)
    /\ s.ins \subseteq s.bytes

StateOk(s) == QueueDiscipline(s) /\ JumpBookkeeping(s) /\ HighestIns(s)
=============================================================================
