------------------------- MODULE FunctionState_proofs -------------------------
(***************************************************************************)
(* What the operators of FunctionState preserve, for every state and every *)
(* address: the type of a state and StateOk.                               *)
(***************************************************************************)
EXTENDS FunctionState, SequenceTheorems, TLAPS

(* A state whose queue, references and instructions are in step. *)
Good(s) == s \in FnState /\ StateOk(s)

(* No element twice. *)
Distinct(q) == \A i, j \in 1..Len(q) : q[i] = q[j] => i = j

(***************************************************************************)
(* All but the last element of a list: what a pop leaves.                  *)
(***************************************************************************)
LEMMA FrontOfSeq ==
    ASSUME NEW S, NEW q \in Seq(S), Len(q) >= 1
    PROVE  /\ SubSeq(q, 1, Len(q) - 1) \in Seq(S)
           /\ Len(SubSeq(q, 1, Len(q) - 1)) = Len(q) - 1
           /\ \A i \in 1..(Len(q) - 1) : SubSeq(q, 1, Len(q) - 1)[i] = q[i]
<1> DEFINE n == Len(q) - 1
<1>1. Len(q) \in Nat
  OBVIOUS
<1>2. n \in Int /\ n >= 0 /\ n <= Len(q)
  BY <1>1
<1>3. \A i \in 1..n : q[i] \in S
  BY <1>1
<1> HIDE DEF n
<1>4. /\ SubSeq(q, 1, n) \in Seq(S)
      /\ Len(SubSeq(q, 1, n)) = IF 1 <= n THEN n - 1 + 1 ELSE 0
      /\ \A i \in 1..(n - 1 + 1) : SubSeq(q, 1, n)[i] = q[1 + i - 1]
  BY <1>2, <1>3, SubSeqProperties
<1>5. Len(SubSeq(q, 1, n)) = n
  BY <1>2, <1>4
<1>6. \A i \in 1..n : SubSeq(q, 1, n)[i] = q[i]
  BY <1>2, <1>4
<1>7. QED
  BY <1>4, <1>5, <1>6 DEF n

(***************************************************************************)
(* A list without duplicates loses, with its last entry, exactly that      *)
(* element; and gains, with an entry it lacked, exactly that one.          *)
(***************************************************************************)
LEMMA DropLast ==
    ASSUME NEW q \in Seq(Nat), Len(q) >= 1, Distinct(q),
           NEW p, p = SubSeq(q, 1, Len(q) - 1)
    PROVE  /\ p \in Seq(Nat)
           /\ Elements(p) = Elements(q) \ {q[Len(q)]}
           /\ Distinct(p)
<1>1. Len(q) \in Nat
  OBVIOUS
<1>2. /\ p \in Seq(Nat) /\ Len(p) = Len(q) - 1
      /\ \A i \in 1..(Len(q) - 1) : p[i] = q[i]
  BY <1>1, FrontOfSeq
<1>3. DOMAIN p = 1..(Len(q) - 1)
  BY <1>2
<1>4. Distinct(p)
  <2> SUFFICES ASSUME NEW i \in 1..Len(p), NEW j \in 1..Len(p), p[i] = p[j]
               PROVE  i = j
    BY DEF Distinct
  <2>1. i \in 1..Len(q) /\ j \in 1..Len(q) /\ q[i] = q[j]
    BY <1>1, <1>2
  <2>2. QED
    BY <2>1 DEF Distinct
<1>5. Elements(p) = Elements(q) \ {q[Len(q)]}
  <2>1. \A i \in 1..(Len(q) - 1) : q[i] # q[Len(q)]
    BY <1>1 DEF Distinct
  <2>2. 1..Len(q) = 1..(Len(q) - 1) \cup {Len(q)}
    BY <1>1
  <2>3. Elements(p) = {q[i] : i \in 1..(Len(q) - 1)}
    BY <1>2 DEF Elements
  <2>4. QED
    BY <2>1, <2>2, <2>3 DEF Elements
<1>6. QED
  BY <1>2, <1>4, <1>5

LEMMA AppendNew ==
    ASSUME NEW q \in Seq(Nat), NEW e \in Nat, Distinct(q), e \notin Elements(q),
           NEW p, p = Append(q, e)
    PROVE  /\ p \in Seq(Nat)
           /\ Elements(p) = Elements(q) \cup {e}
           /\ Distinct(p)
<1>1. Len(q) \in Nat
  OBVIOUS
<1>2. /\ p \in Seq(Nat) /\ Len(p) = Len(q) + 1
      /\ \A i \in 1..Len(q) : p[i] = q[i]
      /\ p[Len(q) + 1] = e
  BY <1>1
<1>3. 1..Len(p) = 1..Len(q) \cup {Len(q) + 1}
  BY <1>1, <1>2
<1>4. Elements(p) = Elements(q) \cup {e}
  BY <1>2, <1>3 DEF Elements
<1>5. \A i \in 1..Len(q) : q[i] # e
  BY DEF Elements
<1>6. Distinct(p)
  BY <1>2, <1>3, <1>5 DEF Distinct
<1>7. QED
  BY <1>2, <1>4, <1>6

(***************************************************************************)
(* A new analysis starts in step (FunctionAnalysisState.__init__).         *)
(***************************************************************************)
LEMMA NewStateGood ==
    ASSUME NEW a \in Nat
    PROVE  Good(NewState(a))
<1>1. NewState(a) \in FnState
  <2>1. <<a>> \in AddrList /\ <<>> \in AddrList
    BY DEF AddrList
  <2>2. NoAddr \in MaybeAddr
    BY DEF MaybeAddr
  <2>3. {} \in References
    BY DEF References
  <2>4. QED
    BY <2>1, <2>2, <2>3 DEF NewState, FnState
<1>2. QueueDiscipline(NewState(a))
  BY DEF NewState, QueueDiscipline, Elements
<1>3. JumpBookkeeping(NewState(a)) /\ HighestIns(NewState(a))
  BY DEF NewState, JumpBookkeeping, HighestIns
<1>4. QED
  BY <1>1, <1>2, <1>3 DEF Good, StateOk

(***************************************************************************)
(* Taking the last block of a queue without duplicates removes it from     *)
(* list and set alike, and marks a block that was not processed before.    *)
(***************************************************************************)
LEMMA ChooseNextBlockGood ==
    ASSUME NEW s, Good(s), s.queued # {}
    PROVE  /\ Good(ChooseNextBlock(s))
           /\ NextQueued(s) \in Nat
<1> DEFINE q == s.queue
           r == ChooseNextBlock(s)
<1>1. s \in FnState /\ q \in Seq(Nat) /\ s.queued = Elements(q)
  BY DEF Good, StateOk, QueueDiscipline, FnState, AddrList
<1>2. Len(q) \in Nat /\ Len(q) >= 1
  BY <1>1 DEF Elements
<1>3. NextQueued(s) \in Nat
  BY <1>1, <1>2 DEF NextQueued
<1>d. Distinct(q)
  BY DEF Good, StateOk, QueueDiscipline, Distinct
<1>4. /\ SubSeq(q, 1, Len(q) - 1) \in Seq(Nat)
      /\ Elements(SubSeq(q, 1, Len(q) - 1)) = Elements(q) \ {q[Len(q)]}
      /\ Distinct(SubSeq(q, 1, Len(q) - 1))
  BY <1>1, <1>2, <1>d, DropLast
<1>5. /\ r.queue = SubSeq(q, 1, Len(q) - 1)
      /\ r.queued = s.queued \ {q[Len(q)]}
      /\ r.done = s.done \cup {q[Len(q)]}
      /\ r.jumpTargets = s.jumpTargets /\ r.jumpRefs = s.jumpRefs /\ r.refs = s.refs
      /\ r.ins = s.ins /\ r.maxStart = s.maxStart /\ r.bytes = s.bytes
  BY <1>1 DEF ChooseNextBlock, NextQueued, FnState
<1>6. r \in FnState
  <2>1. SubSeq(q, 1, Len(q) - 1) \in AddrList
    BY <1>4 DEF AddrList
  <2>2. QED
    BY <1>1, <1>3, <2>1 DEF ChooseNextBlock, FnState
<1>7. QueueDiscipline(r)
  BY <1>1, <1>4, <1>5 DEF Good, StateOk, QueueDiscipline, Distinct
<1>8. JumpBookkeeping(r) /\ HighestIns(r)
  BY <1>5 DEF Good, StateOk, JumpBookkeeping, HighestIns
<1>9. QED
  BY <1>3, <1>6, <1>7, <1>8 DEF Good, StateOk

-----------------------------------------------------------------------------
(* What an operator leaves alone. *)

SameQueue(s, t) == t.queue = s.queue /\ t.queued = s.queued /\ t.done = s.done
SameRefs(s, t)  == /\ t.refs = s.refs /\ t.jumpRefs = s.jumpRefs
                   /\ t.jumpTargets = s.jumpTargets
SameIns(s, t)   == t.ins = s.ins /\ t.maxStart = s.maxStart /\ t.bytes = s.bytes

LEMMA QueueKept ==
    ASSUME NEW s, NEW t, QueueDiscipline(s), SameQueue(s, t)
    PROVE  QueueDiscipline(t)
BY DEF QueueDiscipline, SameQueue

LEMMA RefsKept ==
    ASSUME NEW s, NEW t, JumpBookkeeping(s), SameRefs(s, t)
    PROVE  JumpBookkeeping(t)
BY DEF JumpBookkeeping, SameRefs

LEMMA InsKept ==
    ASSUME NEW s, NEW t, HighestIns(s), SameIns(s, t)
    PROVE  HighestIns(t)
BY DEF HighestIns, SameIns

(***************************************************************************)
(* Flags, counters and the sets beside the queue, the references and the   *)
(* instructions may change freely.                                         *)
(***************************************************************************)
LEMMA AsideGood ==
    ASSUME NEW s, NEW t, Good(s), t \in FnState,
           SameQueue(s, t), SameRefs(s, t), SameIns(s, t)
    PROVE  Good(t)
BY QueueKept, RefsKept, InsKept DEF Good, StateOk

(***************************************************************************)
(* addBlockToQueue(): a block enters list and set together, and only one   *)
(* that neither holds and that was not processed.                          *)
(***************************************************************************)
LEMMA AddBlockToQueueGood ==
    ASSUME NEW s, Good(s), NEW b \in Nat
    PROVE  Good(AddBlockToQueue(s, b)) /\ AddBlockToQueue(s, b).ins = s.ins
<1>1. CASE b \in s.done \cup s.queued
  BY <1>1 DEF AddBlockToQueue
<1>2. CASE b \notin s.done \cup s.queued
  <2> DEFINE r == AddBlockToQueue(s, b)
  <2>1. s \in FnState /\ s.queue \in Seq(Nat) /\ s.queued = Elements(s.queue)
    BY DEF Good, StateOk, QueueDiscipline, FnState, AddrList
  <2>2. /\ r.queue = Append(s.queue, b) /\ r.queued = s.queued \cup {b} /\ r.done = s.done
        /\ SameRefs(s, r) /\ SameIns(s, r)
    BY <1>2, <2>1 DEF AddBlockToQueue, FnState, SameRefs, SameIns
  <2>3. Distinct(s.queue) /\ b \notin Elements(s.queue)
    BY <1>2, <2>1 DEF Good, StateOk, QueueDiscipline, Distinct
  <2>4. /\ Append(s.queue, b) \in Seq(Nat)
        /\ Elements(Append(s.queue, b)) = Elements(s.queue) \cup {b}
        /\ Distinct(Append(s.queue, b))
    BY <2>1, <2>3, AppendNew
  <2>5. r \in FnState
    <3>1. Append(s.queue, b) \in AddrList
      BY <2>4 DEF AddrList
    <3>2. QED
      BY <1>2, <2>1, <3>1 DEF AddBlockToQueue, FnState
  <2>6. QueueDiscipline(r)
    BY <1>2, <2>1, <2>2, <2>4 DEF Good, StateOk, QueueDiscipline, Distinct
  <2>7. QED
    BY <2>2, <2>5, <2>6, RefsKept, InsKept DEF Good, StateOk, SameIns
<1>3. QED
  BY <1>1, <1>2

LEMMA EndBlockGood ==
    ASSUME NEW s, Good(s)
    PROVE  Good(EndBlock(s)) /\ EndBlock(s).ins = s.ins
<1> DEFINE n == IF s.open THEN s.numBlocks + 1 ELSE s.numBlocks
<1>n. n \in Nat
  BY DEF Good, FnState
<1> HIDE DEF n
<1>0. EndBlock(s) = [s EXCEPT !.isJmp = FALSE, !.open = FALSE, !.numBlocks = n]
  BY DEF EndBlock, n
<1>1. EndBlock(s) \in FnState
  BY <1>0, <1>n DEF Good, FnState
<1>2. SameQueue(s, EndBlock(s)) /\ SameRefs(s, EndBlock(s)) /\ SameIns(s, EndBlock(s))
  BY <1>0 DEF Good, FnState, SameQueue, SameRefs, SameIns
<1>3. QED
  BY <1>1, <1>2, AsideGood DEF SameIns

(* The targets of a set of references and one more. *)
LEMMA Targets ==
    ASSUME NEW R, NEW from, NEW to
    PROVE  {x[2] : x \in R \cup {<<from, to>>}} = {x[2] : x \in R} \cup {to}
<1>1. <<from, to>>[2] = to
  OBVIOUS
<1>2. QED
  BY <1>1

(***************************************************************************)
(* addCodeRef() records a jump as reference, jump and jump target at once. *)
(***************************************************************************)
LEMMA AddCodeRefGood ==
    ASSUME NEW s, Good(s), NEW from \in Nat, NEW to \in Nat, NEW byJump \in BOOLEAN
    PROVE  /\ Good(AddCodeRef(s, from, to, byJump))
           /\ AddCodeRef(s, from, to, byJump).ins = s.ins
<1> DEFINE r == AddCodeRef(s, from, to, byJump)
<1>1. s \in FnState
  BY DEF Good
<1>j. PICK jumping \in BOOLEAN : jumping = (s.isJmp \/ byJump)
  OBVIOUS
<1> DEFINE jumps   == IF byJump THEN s.jumpRefs \cup {<<from, to>>} ELSE s.jumpRefs
           targets == IF byJump THEN s.jumpTargets \cup {to} ELSE s.jumpTargets
<1>0. /\ jumps \in References /\ targets \in SUBSET Nat
      /\ s.refs \cup {<<from, to>>} \in References
  <2>1. s.refs \in References /\ s.jumpRefs \in References /\ s.jumpTargets \in SUBSET Nat
    BY <1>1 DEF FnState
  <2>2. QED
    BY <2>1 DEF References
<1> HIDE DEF jumps, targets
<1>a. r = [s EXCEPT !.refs = s.refs \cup {<<from, to>>}, !.reached = s.reached \cup {to},
                    !.isJmp = jumping, !.jumpRefs = jumps, !.jumpTargets = targets]
  BY <1>j DEF AddCodeRef, jumps, targets
<1>2. r \in FnState
  <2> DEFINE u == [s EXCEPT !.refs = s.refs \cup {<<from, to>>}, !.reached = s.reached \cup {to},
                            !.jumpRefs = jumps, !.jumpTargets = targets]
  <2>1. u \in FnState
    BY <1>0, <1>1 DEF FnState
  <2>2. r = [u EXCEPT !.isJmp = jumping]
    BY <1>1, <1>a DEF FnState
  <2> HIDE DEF u, r
  <2>3. jumping \in BOOLEAN
    BY <1>j
  <2>4. QED
    BY <2>1, <2>2, <2>3 DEF FnState
<1>3. SameQueue(s, r) /\ SameIns(s, r)
  BY <1>1, <1>a DEF FnState, SameQueue, SameIns
<1>4. JumpBookkeeping(r)
  <2>1. /\ r.refs = s.refs \cup {<<from, to>>}
        /\ r.jumpRefs = IF byJump THEN s.jumpRefs \cup {<<from, to>>} ELSE s.jumpRefs
        /\ r.jumpTargets = IF byJump THEN s.jumpTargets \cup {to} ELSE s.jumpTargets
    BY <1>1, <1>a DEF FnState, jumps, targets
  <2>2. JumpBookkeeping(s)
    BY DEF Good, StateOk
  <2>3. CASE byJump
    <3>1. {x[2] : x \in s.jumpRefs \cup {<<from, to>>}} = {x[2] : x \in s.jumpRefs} \cup {to}
      BY Targets
    <3>2. QED
      BY <2>1, <2>2, <2>3, <3>1 DEF JumpBookkeeping
  <2>4. CASE ~byJump
    BY <2>1, <2>2, <2>4 DEF JumpBookkeeping
  <2>5. QED
    BY <2>3, <2>4
<1>5. QED
  BY <1>2, <1>3, <1>4, QueueKept, InsKept DEF Good, StateOk, SameIns

(***************************************************************************)
(* removeCodeRef() takes a jump target away only with the last jump to it. *)
(***************************************************************************)
LEMMA RemoveCodeRefGood ==
    ASSUME NEW s, Good(s), NEW from \in Nat, NEW to \in Nat
    PROVE  Good(RemoveCodeRef(s, from, to)) /\ RemoveCodeRef(s, from, to).ins = s.ins
<1> DEFINE r == RemoveCodeRef(s, from, to)
           left == s.jumpRefs \ {<<from, to>>}
<1>1. s \in FnState
  BY DEF Good
<1>2. r \in FnState
  <2>1. s.refs \in References /\ s.jumpRefs \in References
    BY <1>1 DEF FnState
  <2>2. s.refs \ {<<from, to>>} \in References /\ left \in References
    BY <2>1 DEF References
  <2>3. QED
    BY <1>1, <2>2 DEF RemoveCodeRef, FnState
<1>3. SameQueue(s, r) /\ SameIns(s, r)
  BY <1>1 DEF RemoveCodeRef, FnState, SameQueue, SameIns
<1>4. JumpBookkeeping(r)
  <2>1. /\ r.refs = s.refs \ {<<from, to>>}
        /\ r.jumpRefs = left
        /\ r.jumpTargets = IF <<from, to>> \in s.jumpRefs /\ (\A x \in left : x[2] # to)
                           THEN s.jumpTargets \ {to} ELSE s.jumpTargets
    BY <1>1 DEF RemoveCodeRef, FnState
  <2>2. /\ s.jumpTargets = {x[2] : x \in s.jumpRefs}
        /\ s.jumpRefs \subseteq s.refs
    BY DEF Good, StateOk, JumpBookkeeping
  <2>3. r.jumpRefs \subseteq r.refs
    BY <2>1, <2>2
  <2>4. CASE <<from, to>> \notin s.jumpRefs
    BY <2>1, <2>2, <2>3, <2>4 DEF JumpBookkeeping
  <2>5. CASE <<from, to>> \in s.jumpRefs /\ \A x \in left : x[2] # to
    <3>1. s.jumpRefs = left \cup {<<from, to>>}
      BY <2>5
    <3>2. {x[2] : x \in s.jumpRefs} = {x[2] : x \in left} \cup {to}
      <4>1. {x[2] : x \in left \cup {<<from, to>>}} = {x[2] : x \in left} \cup {to}
        BY Targets
      <4>2. QED
        BY <3>1, <4>1
    <3>3. to \notin {x[2] : x \in left}
      BY <2>5
    <3>4. r.jumpTargets = {x[2] : x \in left}
      BY <2>1, <2>2, <2>5, <3>2, <3>3
    <3>5. QED
      BY <2>1, <2>3, <3>4 DEF JumpBookkeeping
  <2>6. CASE <<from, to>> \in s.jumpRefs /\ \E x \in left : x[2] = to
    <3>1. s.jumpRefs = left \cup {<<from, to>>}
      BY <2>6
    <3>2. {x[2] : x \in s.jumpRefs} = {x[2] : x \in left}
      BY <2>6, <3>1
    <3>3. QED
      BY <2>1, <2>2, <2>3, <2>6, <3>2 DEF JumpBookkeeping
  <2>7. QED
    BY <2>4, <2>5, <2>6
<1>5. QED
  BY <1>2, <1>3, <1>4, QueueKept, InsKept DEF Good, StateOk, SameIns

(***************************************************************************)
(* addInstruction() keeps the highest start, whatever order addresses come *)
(* in, and links the next address only where it can be reached.            *)
(***************************************************************************)
LEMMA AddInstructionGood ==
    ASSUME NEW s, Good(s), NEW addr \in Nat, NEW size \in Nat \ {0}
    PROVE  /\ Good(AddInstruction(s, addr, size))
           /\ AddInstruction(s, addr, size).ins = s.ins \cup {addr}
<1> DEFINE top == IF addr > s.maxStart THEN addr ELSE s.maxStart
           booked == [s EXCEPT !.ins = s.ins \cup {addr}, !.lastIns = addr,
                               !.maxStart = top, !.open = TRUE,
                               !.bytes = s.bytes \cup Bytes(addr, size)]
           linked == IF s.reachable THEN AddCodeRef(booked, addr, addr + size, s.isJmp)
                     ELSE booked
<1>1. s \in FnState
  BY DEF Good
<1>2. Bytes(addr, size) \in SUBSET Nat /\ addr \in Bytes(addr, size) /\ addr + size \in Nat
  BY DEF Bytes
<1>3. s.maxStart \in MaybeAddr /\ s.ins \in SUBSET Nat
  BY <1>1 DEF FnState
<1>4. top \in MaybeAddr /\ addr \in MaybeAddr
  BY <1>3 DEF MaybeAddr
<1> HIDE DEF top
<1>5. booked \in FnState
  BY <1>1, <1>2, <1>4 DEF FnState
<1>6. /\ SameQueue(s, booked) /\ SameRefs(s, booked)
      /\ booked.ins = s.ins \cup {addr} /\ booked.maxStart = top
      /\ booked.bytes = s.bytes \cup Bytes(addr, size)
  BY <1>1 DEF FnState, SameQueue, SameRefs
<1>7. HighestIns(booked)
  <2>1. HighestIns(s)
    BY DEF Good, StateOk
  <2>2. (top = addr /\ addr > s.maxStart) \/ (top = s.maxStart /\ ~(addr > s.maxStart))
    BY DEF top
  <2>3. addr <= top /\ s.maxStart <= top
    BY <1>3, <2>2 DEF MaybeAddr, NoAddr
  <2>4. \A a \in booked.ins : a <= top
    BY <1>3, <1>4, <1>6, <2>1, <2>3 DEF HighestIns, MaybeAddr, NoAddr
  <2>5. top \in booked.ins
    <3>1. CASE top = addr
      BY <1>6, <3>1
    <3>2. CASE top = s.maxStart /\ ~(addr > s.maxStart)
      <4>1. s.maxStart # NoAddr
        BY <1>3, <3>2 DEF MaybeAddr, NoAddr
      <4>2. QED
        BY <1>6, <2>1, <3>2, <4>1 DEF HighestIns
    <3>3. QED
      BY <2>2, <3>1, <3>2
  <2>6. QED
    BY <1>2, <1>6, <2>1, <2>4, <2>5 DEF HighestIns
<1>8. Good(booked)
  BY <1>5, <1>6, <1>7, QueueKept, RefsKept DEF Good, StateOk
<1> HIDE DEF booked
<1>9. Good(linked) /\ linked.ins = booked.ins
  <2>1. s.isJmp \in BOOLEAN
    BY <1>1 DEF FnState
  <2>2. CASE s.reachable
    <3>1. /\ Good(AddCodeRef(booked, addr, addr + size, s.isJmp))
          /\ AddCodeRef(booked, addr, addr + size, s.isJmp).ins = booked.ins
      BY <1>2, <1>8, <2>1, AddCodeRefGood
    <3>2. QED
      BY <2>2, <3>1
  <2>3. CASE ~s.reachable
    BY <1>8, <2>3
  <2>4. QED
    BY <2>2, <2>3
<1>10. AddInstruction(s, addr, size) = [linked EXCEPT !.isJmp = FALSE]
  BY DEF AddInstruction, booked, top
<1> HIDE DEF linked
<1> DEFINE r == [linked EXCEPT !.isJmp = FALSE]
<1>11. r \in FnState
  BY <1>9 DEF Good, FnState
<1>12. SameQueue(linked, r) /\ SameRefs(linked, r) /\ SameIns(linked, r)
  BY <1>9 DEF Good, FnState, SameQueue, SameRefs, SameIns
<1>13. Good(r)
  BY <1>9, <1>11, <1>12, AsideGood
<1>14. QED
  BY <1>6, <1>9, <1>10, <1>12, <1>13 DEF SameIns

(***************************************************************************)
(* Tables, collisions and the flags of a block touch nothing of the above. *)
(***************************************************************************)
LEMMA AddTableGood ==
    ASSUME NEW s, Good(s), NEW table \in SUBSET Nat
    PROVE  Good(AddTable(s, table)) /\ AddTable(s, table).ins = s.ins
<1> DEFINE r == AddTable(s, table)
<1>1. r \in FnState
  BY DEF AddTable, Good, FnState
<1>2. SameQueue(s, r) /\ SameRefs(s, r) /\ SameIns(s, r)
  BY DEF AddTable, Good, FnState, SameQueue, SameRefs, SameIns
<1>3. QED
  BY <1>1, <1>2, AsideGood DEF SameIns

LEMMA AddCollisionGood ==
    ASSUME NEW s, Good(s), NEW addr \in Nat
    PROVE  Good(AddCollision(s, addr)) /\ AddCollision(s, addr).ins = s.ins
<1> DEFINE r == AddCollision(s, addr)
<1>1. r \in FnState
  BY DEF AddCollision, Good, FnState
<1>2. SameQueue(s, r) /\ SameRefs(s, r) /\ SameIns(s, r)
  BY DEF AddCollision, Good, FnState, SameQueue, SameRefs, SameIns
<1>3. QED
  BY <1>1, <1>2, AsideGood DEF SameIns

LEMMA SetSanelyEndingGood ==
    ASSUME NEW s, Good(s)
    PROVE  Good(SetSanelyEnding(s)) /\ SetSanelyEnding(s).ins = s.ins
<1> DEFINE r == SetSanelyEnding(s)
<1>1. r \in FnState
  BY DEF SetSanelyEnding, Good, FnState
<1>2. SameQueue(s, r) /\ SameRefs(s, r) /\ SameIns(s, r)
  BY DEF SetSanelyEnding, Good, FnState, SameQueue, SameRefs, SameIns
<1>3. QED
  BY <1>1, <1>2, AsideGood DEF SameIns

LEMMA SetBlockEndingGood ==
    ASSUME NEW s, Good(s)
    PROVE  Good(SetBlockEnding(s)) /\ SetBlockEnding(s).ins = s.ins
<1> DEFINE r == SetBlockEnding(s)
<1>1. r \in FnState
  BY DEF SetBlockEnding, Good, FnState
<1>2. SameQueue(s, r) /\ SameRefs(s, r) /\ SameIns(s, r)
  BY DEF SetBlockEnding, Good, FnState, SameQueue, SameRefs, SameIns
<1>3. QED
  BY <1>1, <1>2, AsideGood DEF SameIns

LEMMA EndInstructionGood ==
    ASSUME NEW s, Good(s)
    PROVE  Good(EndInstruction(s)) /\ EndInstruction(s).ins = s.ins
<1> DEFINE r == EndInstruction(s)
<1>1. r \in FnState
  BY DEF EndInstruction, Good, FnState
<1>2. SameQueue(s, r) /\ SameRefs(s, r) /\ SameIns(s, r)
  BY DEF EndInstruction, Good, FnState, SameQueue, SameRefs, SameIns
<1>3. QED
  BY <1>1, <1>2, AsideGood DEF SameIns

-----------------------------------------------------------------------------
(* What the operators do to references and instructions.                   *)

SameEdges(s, t) == SameRefs(s, t) /\ t.ins = s.ins

LEMMA FlagsEdges ==
    ASSUME NEW s \in FnState
    PROVE  /\ SameEdges(s, SetSanelyEnding(s)) /\ SetSanelyEnding(s).isJmp = s.isJmp
           /\ SameEdges(s, SetBlockEnding(s)) /\ SetBlockEnding(s).isJmp = s.isJmp
           /\ SameEdges(s, EndInstruction(s)) /\ EndInstruction(s).isJmp = s.isJmp
BY DEF FnState, SameEdges, SameRefs, SetSanelyEnding, SetBlockEnding, EndInstruction

LEMMA TableEdges ==
    ASSUME NEW s \in FnState, NEW x
    PROVE  /\ SameEdges(s, AddTable(s, x)) /\ AddTable(s, x).isJmp = s.isJmp
           /\ SameEdges(s, AddCollision(s, x)) /\ AddCollision(s, x).isJmp = s.isJmp
BY DEF FnState, SameEdges, SameRefs, AddTable, AddCollision

LEMMA QueueEdges ==
    ASSUME NEW s \in FnState, NEW b
    PROVE  /\ SameEdges(s, AddBlockToQueue(s, b)) /\ AddBlockToQueue(s, b).isJmp = s.isJmp
           /\ SameEdges(s, ChooseNextBlock(s)) /\ ~ChooseNextBlock(s).isJmp
           /\ SameEdges(s, EndBlock(s)) /\ ~EndBlock(s).isJmp
<1>1. SameEdges(s, AddBlockToQueue(s, b)) /\ AddBlockToQueue(s, b).isJmp = s.isJmp
  BY DEF FnState, SameEdges, SameRefs, AddBlockToQueue
<1>2. SameEdges(s, ChooseNextBlock(s)) /\ ~ChooseNextBlock(s).isJmp
  BY DEF FnState, SameEdges, SameRefs, ChooseNextBlock
<1>3. SameEdges(s, EndBlock(s)) /\ ~EndBlock(s).isJmp
  BY DEF FnState, SameEdges, SameRefs, EndBlock
<1>4. QED
  BY <1>1, <1>2, <1>3

(* A reference added is one more; a jump is one jump more and latches.     *)
LEMMA AddedRef ==
    ASSUME NEW s \in FnState, NEW from, NEW to, NEW byJump \in BOOLEAN
    PROVE  LET r == AddCodeRef(s, from, to, byJump)
           IN  /\ r.refs = s.refs \cup {<<from, to>>} /\ r.ins = s.ins
               /\ byJump => r.jumpRefs = s.jumpRefs \cup {<<from, to>>}
               /\ ~byJump => r.jumpRefs = s.jumpRefs
               /\ r.isJmp = (s.isJmp \/ byJump)
BY DEF AddCodeRef, FnState

(* A reference removed is one less.                                        *)
LEMMA RemovedRef ==
    ASSUME NEW s \in FnState, NEW from, NEW to
    PROVE  LET r == RemoveCodeRef(s, from, to)
           IN  /\ r.refs = s.refs \ {<<from, to>>} /\ r.ins = s.ins
               /\ r.jumpRefs = s.jumpRefs \ {<<from, to>>} /\ r.isJmp = s.isJmp
BY DEF RemoveCodeRef, FnState

(* An instruction booked is one more, with the reference to what follows   *)
(* it, which is a jump where the latch was set; the latch is then open.    *)
LEMMA AddedInstruction ==
    ASSUME NEW s \in FnState, NEW addr, NEW size
    PROVE  LET r == AddInstruction(s, addr, size)
               next == <<addr, addr + size>>
           IN  /\ r.ins = s.ins \cup {addr} /\ ~r.isJmp
               /\ s.refs \subseteq r.refs
               /\ \/ r.jumpRefs = s.jumpRefs
                  \/ s.isJmp /\ r.jumpRefs = s.jumpRefs \cup {next}
<1> DEFINE top == IF addr > s.maxStart THEN addr ELSE s.maxStart
           booked == [s EXCEPT !.ins = s.ins \cup {addr}, !.lastIns = addr,
                               !.maxStart = top, !.open = TRUE,
                               !.bytes = s.bytes \cup Bytes(addr, size)]
           next == <<addr, addr + size>>
           linked == IF s.reachable THEN AddCodeRef(booked, addr, addr + size, s.isJmp)
                     ELSE booked
           r == [linked EXCEPT !.isJmp = FALSE]
<1>1. AddInstruction(s, addr, size) = r
  BY DEF AddInstruction
<1>2. /\ booked.ins = s.ins \cup {addr} /\ booked.refs = s.refs
      /\ booked.jumpRefs = s.jumpRefs
      /\ DOMAIN booked = DOMAIN s
  <2> HIDE DEF top
  <2>1. QED
    BY DEF FnState
<1> HIDE DEF booked
<1>3. CASE ~s.reachable
  <2>1. linked = booked
    BY <1>3
  <2>2. r.ins = booked.ins /\ r.refs = booked.refs /\ r.jumpRefs = booked.jumpRefs /\ ~r.isJmp
    BY <1>2, <2>1 DEF FnState
  <2>3. QED
    BY <1>1, <1>2, <2>2
<1>4. CASE s.reachable
  <2> DEFINE jumps == IF s.isJmp THEN booked.jumpRefs \cup {next} ELSE booked.jumpRefs
             targets == IF s.isJmp THEN booked.jumpTargets \cup {addr + size}
                        ELSE booked.jumpTargets
             latch == booked.isJmp \/ s.isJmp
  <2>1. linked = [booked EXCEPT !.refs = booked.refs \cup {next},
                                !.reached = booked.reached \cup {addr + size},
                                !.isJmp = latch, !.jumpRefs = jumps, !.jumpTargets = targets]
    BY <1>4 DEF AddCodeRef
  <2>2. r.ins = booked.ins /\ r.refs = booked.refs \cup {next} /\ r.jumpRefs = jumps /\ ~r.isJmp
    <3> HIDE DEF jumps, targets, latch, next
    <3>1. QED
      BY <1>2, <2>1 DEF FnState
  <2>3. QED
    BY <1>1, <1>2, <2>2
<1>5. QED
  BY <1>3, <1>4

-----------------------------------------------------------------------------
(* What leaves the instructions of a state alone, whatever the state is.    *)

HasIns(s) == s = [x \in DOMAIN s |-> s[x]] /\ "ins" \in DOMAIN s
KeepsIns(s, t) == HasIns(s) => HasIns(t) /\ t.ins = s.ins

LEMMA KeptTwice ==
    ASSUME NEW s, NEW t, NEW u, KeepsIns(s, t), KeepsIns(t, u)
    PROVE  KeepsIns(s, u)
BY DEF KeepsIns

LEMMA QueueKeepsIns ==
    ASSUME NEW s
    PROVE  /\ \A b : KeepsIns(s, AddBlockToQueue(s, b))
           /\ KeepsIns(s, ChooseNextBlock(s))
           /\ KeepsIns(s, EndBlock(s))
<1>1. \A b : KeepsIns(s, AddBlockToQueue(s, b))
  BY DEF KeepsIns, HasIns, AddBlockToQueue
<1>2. KeepsIns(s, ChooseNextBlock(s))
  BY DEF KeepsIns, HasIns, ChooseNextBlock
<1>3. KeepsIns(s, EndBlock(s))
  BY DEF KeepsIns, HasIns, EndBlock
<1>4. QED
  BY <1>1, <1>2, <1>3

LEMMA RefsKeepIns ==
    ASSUME NEW s, NEW from, NEW to
    PROVE  /\ \A j : KeepsIns(s, AddCodeRef(s, from, to, j))
           /\ KeepsIns(s, RemoveCodeRef(s, from, to))
<1>1. \A j : KeepsIns(s, AddCodeRef(s, from, to, j))
  BY DEF KeepsIns, HasIns, AddCodeRef
<1>2. KeepsIns(s, RemoveCodeRef(s, from, to))
  BY DEF KeepsIns, HasIns, RemoveCodeRef
<1>3. QED
  BY <1>1, <1>2

LEMMA AsideKeepsIns ==
    ASSUME NEW s
    PROVE  /\ \A x : KeepsIns(s, AddTable(s, x)) /\ KeepsIns(s, AddCollision(s, x))
           /\ KeepsIns(s, SetSanelyEnding(s))
           /\ KeepsIns(s, SetBlockEnding(s))
           /\ KeepsIns(s, EndInstruction(s))
<1>1. \A x : KeepsIns(s, AddTable(s, x)) /\ KeepsIns(s, AddCollision(s, x))
  BY DEF KeepsIns, HasIns, AddTable, AddCollision
<1>2. KeepsIns(s, SetSanelyEnding(s)) /\ KeepsIns(s, SetBlockEnding(s))
  BY DEF KeepsIns, HasIns, SetSanelyEnding, SetBlockEnding
<1>3. KeepsIns(s, EndInstruction(s))
  BY DEF KeepsIns, HasIns, EndInstruction
<1>4. QED
  BY <1>1, <1>2, <1>3

LEMMA InstructionAdded ==
    ASSUME NEW s, HasIns(s), NEW addr, NEW size
    PROVE  AddInstruction(s, addr, size).ins = s.ins \cup {addr}
BY DEF HasIns, AddInstruction, AddCodeRef

(* Blocks are cut from the instructions of the function, and one starts at  *)
(* its start where that was booked.                                         *)
LEMMA BlocksAreInstructions ==
    ASSUME NEW s, HasIns(s), NEW ins
    PROVE  /\ \A b \in DOMAIN GetBlocks(s, ins) : GetBlocks(s, ins)[b] \subseteq s.ins
           /\ s.start \in s.ins => s.start \in DOMAIN GetBlocks(s, ins)
<1>1. ASSUME NEW b, NEW t \in SeenBy(s, ins, b)
      PROVE  BlockFrom(t, ins, b) \subseteq s.ins
  <2>1. PICK refs : t = [s EXCEPT !.refs = refs]
    BY <1>1 DEF SeenBy
  <2>2. t.ins = s.ins
    BY <2>1 DEF HasIns
  <2>3. QED
    BY <2>2 DEF BlockFrom
<1>2. DOMAIN GetBlocks(s, ins) = BlockStarts(s)
  BY DEF GetBlocks
<1>3. ASSUME NEW b \in BlockStarts(s)
      PROVE  GetBlocks(s, ins)[b] \subseteq s.ins
  <2>1. GetBlocks(s, ins)[b] = UNION {BlockFrom(t, ins, b) : t \in SeenBy(s, ins, b)}
    BY <1>3 DEF GetBlocks
  <2>2. QED
    BY <1>1, <2>1
<1>4. QED
  BY <1>2, <1>3 DEF BlockStarts
=============================================================================
