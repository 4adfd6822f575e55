------------------------------ MODULE Arm_proofs ------------------------------
(***************************************************************************)
(* For every image: types; where no instruction straddles code, that the   *)
(* code has one owner, that functions are settled in the instruction set   *)
(* known best of them, and that literal pools are apart from the code that *)
(* reads them; and, under the conditions Arm states, that declared entries *)
(* stay apart.                                                             *)
(***************************************************************************)
EXTENDS ArmHistory, SequenceTheorems, TLAPS

-----------------------------------------------------------------------------
(* The manager.  Candidates and statements are partial functions, so what   *)
(* a manager is has to say what their values are.                           *)

Mode == [thumb : BOOLEAN, strength : 0..3]

Candidate ==
    [thumb : BOOLEAN, finished : BOOLEAN, aborted : BOOLEAN, gap : BOOLEAN, symbol : BOOLEAN,
     exception : BOOLEAN, tailcall : BOOLEAN, refs : SUBSET Int]

PartialMap(f, T) ==
    /\ f = [x \in DOMAIN f |-> f[x]] /\ DOMAIN f \subseteq Int
    /\ \A x \in DOMAIN f : f[x] \in T

ManagerOk(m) ==
    /\ m = [modes |-> m.modes, conflicts |-> m.conflicts, candidates |-> m.candidates,
            queue |-> m.queue, strong |-> m.strong, declared |-> m.declared, calls |-> m.calls]
    /\ PartialMap(m.modes, Mode) /\ PartialMap(m.candidates, Candidate)
    /\ m.queue \subseteq DOMAIN m.candidates /\ m.conflicts \subseteq DOMAIN m.modes
    /\ m.declared \subseteq m.strong

LEMMA WithFacts ==
    ASSUME NEW f, NEW x, NEW v
    PROVE  /\ DOMAIN With(f, x, v) = DOMAIN f \cup {x}
           /\ With(f, x, v)[x] = v
           /\ \A y \in DOMAIN f : y # x => With(f, x, v)[y] = f[y]
BY DEF With

LEMMA WithMap ==
    ASSUME NEW T, NEW f, PartialMap(f, T), NEW x \in Int, NEW v \in T
    PROVE  PartialMap(With(f, x, v), T)
BY DEF With, PartialMap

LEMMA WithoutFacts ==
    ASSUME NEW f, NEW S
    PROVE  /\ DOMAIN Without(f, S) = DOMAIN f \ S
           /\ \A x \in DOMAIN f \ S : Without(f, S)[x] = f[x]
BY DEF Without

-----------------------------------------------------------------------------
(* The image, and the instruction set known at an address.                  *)

LEMMA Strengths == Guess = 0 /\ Scanned = 1 /\ Decoded = 2 /\ Stated = 3
BY DEF Guess, Scanned, Decoded, Stated

LEMMA Strength == Decoded \in 0..3 /\ Decoded \in 0..2 /\ Scanned \in 0..3 /\ Stated \in 0..3 /\ Guess \in 0..2
BY DEF Guess, Scanned, Decoded, Stated

LEMMA ImageFacts ==
    ASSUME img \in Images
    PROVE  /\ img.size \in Nat /\ Addresses \subseteq Int /\ img.exec \subseteq Int
           /\ img.container \subseteq BOOLEAN
           /\ \A slot \in DOMAIN img.words : slot \in Int /\ img.words[slot] \in Int
           /\ \A s \in img.stubs : s.thumb \in BOOLEAN
           /\ img.symbols \in Seq(Int) /\ img.entry \in Seq(Int)
           /\ img.exidx \in Seq([value : Int, opens : SUBSET BOOLEAN])
BY ImagesAssumption DEF ImageOk, Addresses

LEMMA InstructionFacts ==
    ASSUME img \in Images, NEW thumb \in BOOLEAN, NEW a
    PROVE  /\ At(thumb, a).target \in Int /\ At(thumb, a).size \in {2, 4}
           /\ At(thumb, a).kind # "none" =>
                 a \in DOMAIN img.ins[thumb] /\ a \in Addresses /\ a \in Int
<1>1. CASE a \in DOMAIN img.ins[thumb]
  <2>1. At(thumb, a) = img.ins[thumb][a]
    BY <1>1 DEF At
  <2>2. ImageOk(img)
    BY ImagesAssumption
  <2>3. /\ a \in 0..(img.size - 1) /\ img.ins[thumb][a].target \in Int
        /\ img.ins[thumb][a].size \in IF thumb THEN {2, 4} ELSE {4}
    BY <1>1, <2>2, Zenon DEF ImageOk
  <2>4. img.ins[thumb][a].size \in {2, 4} /\ img.size \in Nat
    BY <2>3, ImageFacts
  <2> QED BY <1>1, <2>1, <2>3, <2>4 DEF Addresses
<1>2. CASE a \notin DOMAIN img.ins[thumb]
  BY <1>2 DEF At, Nothing, NoAddr
<1> QED BY <1>1, <1>2

(* What the image alone says of an address.                                 *)
ImageThumb(addr) ==
    LET stubs == {s \in img.stubs : s.from <= addr /\ addr < s.to}
        declared == IF MappingKind(addr) \in {"t", "a"} THEN {MappingKind(addr) = "t"}
                    ELSE IF stubs # {} THEN {s.thumb : s \in stubs}
                    ELSE img.container
    IN  TRUE \in declared \/ (declared = {} /\ RegionThumb(addr))

LEMMA ThumbKnown ==
    ASSUME NEW m, NEW a, a \in DOMAIN m.modes => m.modes[a].thumb \in BOOLEAN
    PROVE  IsThumb(m, a) = IF a \in DOMAIN m.modes THEN m.modes[a].thumb ELSE ImageThumb(a)
<1>1. CASE a \in DOMAIN m.modes
  <2> DEFINE x == m.modes[a].thumb
  <2>1. DeclaredThumb(m, a) = {x}
    BY <1>1 DEF DeclaredThumb
  <2>2. x \in BOOLEAN
    BY <1>1
  <2> HIDE DEF x
  <2>3. CASE x = TRUE
    <3>1. TRUE \in {x}
      BY <2>3
    <3>2. IsThumb(m, a) = TRUE
      BY <2>1, <3>1, Zenon DEF IsThumb
    <3> QED BY <1>1, <2>3, <3>2, Zenon DEF x
  <2>4. CASE x = FALSE
    <3>1. ~(TRUE \in {x}) /\ {x} # {}
      BY <2>4
    <3>2. IsThumb(m, a) = FALSE
      BY <2>1, <3>1, Zenon DEF IsThumb
    <3> QED BY <1>1, <2>4, <3>2, Zenon DEF x
  <2> QED BY <2>2, <2>3, <2>4
<1>2. CASE a \notin DOMAIN m.modes
  BY <1>2, Zenon DEF IsThumb, DeclaredThumb, ImageThumb
<1> QED BY <1>1, <1>2

LEMMA ThumbBoolean ==
    ASSUME NEW m, NEW a
    PROVE  IsThumb(m, a) \in BOOLEAN /\ ImageThumb(a) \in BOOLEAN /\ RegionThumb(a) \in BOOLEAN
BY Zenon DEF IsThumb, ImageThumb, RegionThumb

LEMMA ModeFacts ==
    ASSUME NEW m, ManagerOk(m), NEW a
    PROVE  /\ a \in DOMAIN m.modes => /\ m.modes[a] \in Mode /\ m.modes[a].thumb \in BOOLEAN
                                      /\ m.modes[a].strength \in 0..3
           /\ IsThumb(m, a) = IF a \in DOMAIN m.modes THEN m.modes[a].thumb ELSE ImageThumb(a)
<1>1. a \in DOMAIN m.modes => /\ m.modes[a] \in Mode /\ m.modes[a].thumb \in BOOLEAN
                              /\ m.modes[a].strength \in 0..3
  BY DEF ManagerOk, PartialMap, Mode
<1> QED BY <1>1, ThumbKnown

LEMMA CandidateFacts ==
    ASSUME NEW m, ManagerOk(m), NEW a \in DOMAIN m.candidates
    PROVE  /\ a \in Int /\ m.candidates[a] \in Candidate
           /\ m.candidates[a].thumb \in BOOLEAN /\ m.candidates[a].finished \in BOOLEAN
<1>1. a \in Int /\ m.candidates[a] \in Candidate
  BY DEF ManagerOk, PartialMap
<1> QED BY <1>1 DEF Candidate

(* One candidate is put in.                                                 *)
LEMMA UpdatedFacts ==
    ASSUME NEW m, ManagerOk(m), NEW addr \in Int, NEW c \in Candidate
    PROVE  LET n == Updated(m, addr, c)
           IN  /\ ManagerOk(n)
               /\ n.modes = m.modes /\ n.conflicts = m.conflicts /\ n.queue = m.queue
               /\ n.strong = m.strong /\ n.declared = m.declared /\ n.calls = m.calls
               /\ n.candidates = With(m.candidates, addr, c)
               /\ DOMAIN n.candidates = DOMAIN m.candidates \cup {addr}
               /\ n.candidates[addr] = c
               /\ \A a \in DOMAIN m.candidates : a # addr => n.candidates[a] = m.candidates[a]
<1> DEFINE n == Updated(m, addr, c)
           cs == With(m.candidates, addr, c)
<1>1. n = [modes |-> m.modes, conflicts |-> m.conflicts, candidates |-> cs,
           queue |-> m.queue, strong |-> m.strong, declared |-> m.declared, calls |-> m.calls]
  BY DEF ManagerOk, Updated
<1>2. PartialMap(m.candidates, Candidate)
  BY DEF ManagerOk
<1>3. PartialMap(cs, Candidate)
  BY <1>2, WithMap
<1>4. /\ DOMAIN cs = DOMAIN m.candidates \cup {addr} /\ cs[addr] = c
      /\ \A a \in DOMAIN m.candidates : a # addr => cs[a] = m.candidates[a]
  BY DEF With
<1> HIDE DEF cs
<1> HIDE DEF n
<1>5. /\ n.modes = m.modes /\ n.conflicts = m.conflicts /\ n.queue = m.queue
      /\ n.strong = m.strong /\ n.declared = m.declared /\ n.calls = m.calls /\ n.candidates = cs
      /\ n = [modes |-> n.modes, conflicts |-> n.conflicts, candidates |-> n.candidates,
              queue |-> n.queue, strong |-> n.strong, declared |-> n.declared, calls |-> n.calls]
  BY <1>1
<1>6. ManagerOk(n)
  BY <1>3, <1>4, <1>5 DEF ManagerOk
<1> QED BY <1>4, <1>5, <1>6 DEF n, cs

(* Candidates are decoded again.                                            *)
LEMMA RequeuedFacts ==
    ASSUME NEW m, ManagerOk(m), NEW addrs, addrs \subseteq DOMAIN m.candidates \cap DOMAIN m.modes
    PROVE  LET n == RequeueInMode(m, addrs)
           IN  /\ ManagerOk(n)
               /\ n.modes = m.modes /\ n.conflicts = m.conflicts /\ n.queue = m.queue \cup addrs
               /\ n.strong = m.strong /\ n.declared = m.declared
               /\ DOMAIN n.candidates = DOMAIN m.candidates
               /\ \A a \in addrs : n.candidates[a].thumb = m.modes[a].thumb /\ ~n.candidates[a].finished
               /\ \A a \in DOMAIN m.candidates \ addrs : n.candidates[a] = m.candidates[a]
<1> DEFINE n == RequeueInMode(m, addrs)
           cs == InModeNoted(m, addrs)
           v(a) == [m.candidates[a] EXCEPT !.thumb = m.modes[a].thumb, !.finished = FALSE,
                                           !.aborted = FALSE]
<1>1. n = [modes |-> m.modes, conflicts |-> m.conflicts, candidates |-> cs,
           queue |-> m.queue \cup addrs, strong |-> m.strong, declared |-> m.declared,
           calls |-> m.calls]
  <2> HIDE DEF cs, v
  <2>1. m = [modes |-> m.modes, conflicts |-> m.conflicts, candidates |-> m.candidates,
             queue |-> m.queue, strong |-> m.strong, declared |-> m.declared, calls |-> m.calls]
    BY DEF ManagerOk
  <2>2. n = [m EXCEPT !.candidates = cs, !.queue = m.queue \cup addrs]
    BY <2>1 DEF RequeueInMode, cs
  <2> QED BY <2>1, <2>2
<1>2. ASSUME NEW a \in addrs
      PROVE  v(a) \in Candidate /\ v(a).thumb = m.modes[a].thumb /\ v(a).finished = FALSE
  <2>1. m.candidates[a] \in Candidate /\ m.modes[a].thumb \in BOOLEAN
    BY CandidateFacts, ModeFacts
  <2> QED BY <2>1 DEF Candidate
<1>3. cs = [a \in DOMAIN m.candidates |-> IF a \in addrs THEN v(a) ELSE m.candidates[a]]
  BY DEF InModeNoted
<1> HIDE DEF v
<1>4. /\ DOMAIN cs = DOMAIN m.candidates
      /\ \A a \in addrs : cs[a] = v(a)
      /\ \A a \in DOMAIN m.candidates \ addrs : cs[a] = m.candidates[a]
  BY <1>3
<1>5. PartialMap(cs, Candidate)
  <2>1. \A a \in DOMAIN m.candidates : a \in Int /\ m.candidates[a] \in Candidate
    BY CandidateFacts
  <2>2. cs = [a \in DOMAIN cs |-> cs[a]]
    BY <1>3
  <2> QED BY <1>2, <1>4, <2>1, <2>2 DEF PartialMap
<1> HIDE DEF cs
<1> HIDE DEF n
<1>6. /\ n.modes = m.modes /\ n.conflicts = m.conflicts /\ n.queue = m.queue \cup addrs
      /\ n.strong = m.strong /\ n.declared = m.declared /\ n.calls = m.calls /\ n.candidates = cs
      /\ n = [modes |-> n.modes, conflicts |-> n.conflicts, candidates |-> n.candidates,
              queue |-> n.queue, strong |-> n.strong, declared |-> n.declared, calls |-> n.calls]
  BY <1>1
<1>7. ManagerOk(n)
  BY <1>4, <1>5, <1>6 DEF ManagerOk
<1> QED BY <1>2, <1>4, <1>6, <1>7 DEF n

-----------------------------------------------------------------------------
(* A statement about an instruction set, and what it changes.               *)
Settled(m, a) == a \in DOMAIN m.modes /\ m.modes[a].strength >= Decoded

Statement(thumb, strength) == [thumb |-> thumb, strength |-> strength]

LEMMA StatementType ==
    ASSUME NEW thumb \in BOOLEAN, NEW strength \in 0..3
    PROVE  /\ Statement(thumb, strength) \in Mode
           /\ Statement(thumb, strength).thumb = thumb
           /\ Statement(thumb, strength).strength = strength
BY DEF Statement, Mode

(* The manager in which the statement stands and nothing else is changed.   *)
StatedIn(m, addr, thumb, strength) ==
    [m EXCEPT !.modes = With(m.modes, addr, Statement(thumb, strength))]

LEMMA StatedFacts ==
    ASSUME NEW m, ManagerOk(m), NEW addr \in Int, NEW thumb \in BOOLEAN, NEW strength \in 0..3
    PROVE  LET n == StatedIn(m, addr, thumb, strength)
           IN  /\ ManagerOk(n)
               /\ n.conflicts = m.conflicts /\ n.queue = m.queue /\ n.candidates = m.candidates
               /\ n.strong = m.strong /\ n.declared = m.declared
               /\ DOMAIN n.modes = DOMAIN m.modes \cup {addr}
               /\ n.modes[addr].thumb = thumb /\ n.modes[addr].strength = strength
               /\ \A a \in DOMAIN m.modes : a # addr => n.modes[a] = m.modes[a]
<1> DEFINE n == StatedIn(m, addr, thumb, strength)
           ms == With(m.modes, addr, Statement(thumb, strength))
<1>1. n = [modes |-> ms, conflicts |-> m.conflicts, candidates |-> m.candidates,
           queue |-> m.queue, strong |-> m.strong, declared |-> m.declared, calls |-> m.calls]
  BY DEF ManagerOk, StatedIn
<1>2. PartialMap(m.modes, Mode) /\ Statement(thumb, strength) \in Mode
  BY StatementType DEF ManagerOk
<1>3. PartialMap(ms, Mode)
  BY <1>2, WithMap
<1>4. /\ DOMAIN ms = DOMAIN m.modes \cup {addr} /\ ms[addr] = Statement(thumb, strength)
      /\ \A a \in DOMAIN m.modes : a # addr => ms[a] = m.modes[a]
  BY DEF With
<1> HIDE DEF ms
<1> HIDE DEF n
<1>5. /\ n.modes = ms /\ n.conflicts = m.conflicts /\ n.queue = m.queue
      /\ n.strong = m.strong /\ n.declared = m.declared /\ n.calls = m.calls
      /\ n.candidates = m.candidates
      /\ n = [modes |-> n.modes, conflicts |-> n.conflicts, candidates |-> n.candidates,
              queue |-> n.queue, strong |-> n.strong, declared |-> n.declared, calls |-> n.calls]
  BY <1>1
<1>6. ManagerOk(n)
  BY <1>3, <1>4, <1>5 DEF ManagerOk
<1> QED BY <1>4, <1>5, <1>6, StatementType DEF n

(* What noteMode() may come to: nothing; the statement alone; a candidate   *)
(* that has not had its turn follows it; a function is to be undone; a      *)
(* candidate that had its turn gets another.                                *)
Unmoved(m, addr, thumb) ==
    \/ addr \in DOMAIN m.modes /\ m.modes[addr].thumb = thumb
    \/ addr \notin DOMAIN m.candidates
    \/ m.candidates[addr].thumb = thumb
    \/ m.candidates[addr].finished /\ addr \notin Functions /\ IsCode(addr)

NoteResult(m, n, addr, thumb, strength) ==
    LET s == StatedIn(m, addr, thumb, strength)
    IN  \/ Unmoved(m, addr, thumb) /\ n = s
        \/ /\ addr \in DOMAIN m.candidates /\ ~m.candidates[addr].finished
           /\ n = Updated(s, addr, [m.candidates[addr] EXCEPT !.thumb = thumb])
        \/ /\ addr \in DOMAIN m.candidates /\ m.candidates[addr].finished /\ addr \in Functions
           /\ n = [s EXCEPT !.conflicts = m.conflicts \cup {addr}]
        \/ /\ addr \in DOMAIN m.candidates /\ m.candidates[addr].finished /\ addr \notin Functions
           /\ n = RequeueInMode(s, {addr})

LEMMA NoteCases ==
    ASSUME NEW m, ManagerOk(m), NEW addr \in Int, NEW thumb \in BOOLEAN, NEW strength \in 0..3
    PROVE  LET n == NoteMode(m, addr, thumb, strength)
           IN  \/ Outweighed(m, addr, strength) /\ n = m
               \/ ~Outweighed(m, addr, strength) /\ NoteResult(m, n, addr, thumb, strength)
<1> DEFINE n == NoteMode(m, addr, thumb, strength)
           s == StatedIn(m, addr, thumb, strength)
<1>1. s.candidates = m.candidates /\ s.conflicts = m.conflicts
  BY StatedFacts
<1>2. n = IF Outweighed(m, addr, strength) THEN m
          ELSE IF addr \in DOMAIN m.modes /\ m.modes[addr].thumb = thumb THEN s
          ELSE React(s, addr, thumb)
  BY DEF NoteMode, StatedIn, Statement
<1> HIDE DEF s
<1>3. React(s, addr, thumb) =
        IF addr \notin DOMAIN m.candidates \/ m.candidates[addr].thumb = thumb THEN s
        ELSE IF ~m.candidates[addr].finished
             THEN Updated(s, addr, [m.candidates[addr] EXCEPT !.thumb = thumb])
        ELSE IF addr \in Functions THEN [s EXCEPT !.conflicts = m.conflicts \cup {addr}]
        ELSE IF m.candidates[addr].aborted \/ ~IsCode(addr) THEN RequeueInMode(s, {addr})
        ELSE s
  BY <1>1 DEF React, Functions
<1>4. CASE Outweighed(m, addr, strength)
  BY <1>2, <1>4
<1>5. CASE ~Outweighed(m, addr, strength)
  <2>1. \/ Unmoved(m, addr, thumb) /\ n = s
        \/ /\ addr \in DOMAIN m.candidates /\ ~m.candidates[addr].finished
           /\ n = Updated(s, addr, [m.candidates[addr] EXCEPT !.thumb = thumb])
        \/ /\ addr \in DOMAIN m.candidates /\ m.candidates[addr].finished /\ addr \in Functions
           /\ n = [s EXCEPT !.conflicts = m.conflicts \cup {addr}]
        \/ /\ addr \in DOMAIN m.candidates /\ m.candidates[addr].finished /\ addr \notin Functions
           /\ n = RequeueInMode(s, {addr})
    BY <1>2, <1>3, <1>5 DEF Unmoved
  <2> QED BY <1>5, <2>1 DEF NoteResult, s
<1> QED BY <1>4, <1>5

(* Every way a statement goes leaves a manager, and what differs in it.     *)
NoteChanges(m, n, addr, thumb) ==
    \/ n.candidates[addr] = m.candidates[addr] /\ Unmoved(m, addr, thumb)
    \/ /\ n.candidates[addr] = m.candidates[addr] /\ addr \in n.conflicts
       /\ m.candidates[addr].finished /\ addr \in Functions
    \/ /\ n.candidates[addr].thumb = thumb /\ n.candidates[addr].finished = FALSE
       /\ m.candidates[addr].finished = FALSE
    \/ /\ n.candidates[addr].thumb = thumb /\ n.candidates[addr].finished = FALSE
       /\ addr \notin Functions /\ addr \in n.queue
       /\ m.candidates[addr].finished

NoteEffect(m, n, addr, thumb, strength) ==
    /\ ManagerOk(n)
    /\ n.declared = m.declared /\ n.strong = m.strong
    /\ DOMAIN n.candidates = DOMAIN m.candidates
    /\ m.queue \subseteq n.queue /\ n.queue \subseteq m.queue \cup {addr}
    /\ n.conflicts = m.conflicts \/ (n.conflicts = m.conflicts \cup {addr} /\ addr \in Functions)
    /\ \A a \in DOMAIN m.candidates \ {addr} : n.candidates[a] = m.candidates[a]
    /\ DOMAIN n.modes = DOMAIN m.modes \cup {addr}
    /\ n.modes[addr].thumb = thumb /\ n.modes[addr].strength = strength
    /\ \A a \in DOMAIN m.modes : a # addr => n.modes[a] = m.modes[a]
    /\ addr \in DOMAIN m.candidates => NoteChanges(m, n, addr, thumb)

LEMMA NoteFacts ==
    ASSUME NEW m, ManagerOk(m), NEW addr \in Int, NEW thumb \in BOOLEAN, NEW strength \in 0..3,
           NEW n, NoteResult(m, n, addr, thumb, strength)
    PROVE  NoteEffect(m, n, addr, thumb, strength)
<1> DEFINE s == StatedIn(m, addr, thumb, strength)
<1>1. /\ ManagerOk(s)
      /\ s.conflicts = m.conflicts /\ s.queue = m.queue /\ s.candidates = m.candidates
      /\ s.strong = m.strong /\ s.declared = m.declared
      /\ DOMAIN s.modes = DOMAIN m.modes \cup {addr}
      /\ s.modes[addr].thumb = thumb /\ s.modes[addr].strength = strength
      /\ \A a \in DOMAIN m.modes : a # addr => s.modes[a] = m.modes[a]
  BY StatedFacts
<1> HIDE DEF s
<1>2. CASE Unmoved(m, addr, thumb) /\ n = s
  BY <1>1, <1>2 DEF NoteEffect, NoteChanges
<1>3. CASE /\ addr \in DOMAIN m.candidates /\ ~m.candidates[addr].finished
           /\ n = Updated(s, addr, [m.candidates[addr] EXCEPT !.thumb = thumb])
  <2> DEFINE c == [m.candidates[addr] EXCEPT !.thumb = thumb]
  <2>1. m.candidates[addr] \in Candidate
    BY <1>3, CandidateFacts
  <2>2. c \in Candidate /\ c.thumb = thumb /\ c.finished = FALSE
    BY <1>3, <2>1 DEF Candidate
  <2>3. m.candidates[addr].finished = FALSE
    BY <1>3, <2>1 DEF Candidate
  <2>4. n = Updated(s, addr, c)
    BY <1>3
  <2> HIDE DEF c
  <2>5. /\ ManagerOk(n)
        /\ n.modes = s.modes /\ n.conflicts = s.conflicts /\ n.queue = s.queue
        /\ n.strong = s.strong /\ n.declared = s.declared
        /\ DOMAIN n.candidates = DOMAIN s.candidates \cup {addr}
        /\ n.candidates[addr] = c
        /\ \A a \in DOMAIN s.candidates : a # addr => n.candidates[a] = s.candidates[a]
    BY <1>1, <2>2, <2>4, UpdatedFacts
  <2> QED BY <1>1, <1>3, <2>2, <2>3, <2>5 DEF NoteEffect, NoteChanges
<1>4. CASE /\ addr \in DOMAIN m.candidates /\ m.candidates[addr].finished /\ addr \in Functions
           /\ n = [s EXCEPT !.conflicts = m.conflicts \cup {addr}]
  <2>1. s = [modes |-> s.modes, conflicts |-> s.conflicts, candidates |-> s.candidates,
             queue |-> s.queue, strong |-> s.strong, declared |-> s.declared, calls |-> s.calls]
    BY <1>1 DEF ManagerOk
  <2>2. /\ n.modes = s.modes /\ n.candidates = s.candidates /\ n.queue = s.queue
        /\ n.strong = s.strong /\ n.declared = s.declared
        /\ n.conflicts = m.conflicts \cup {addr}
        /\ n = [modes |-> n.modes, conflicts |-> n.conflicts, candidates |-> n.candidates,
                queue |-> n.queue, strong |-> n.strong, declared |-> n.declared, calls |-> n.calls]
    BY <1>4, <2>1
  <2>3. ManagerOk(n)
    BY <1>1, <2>2 DEF ManagerOk
  <2> QED BY <1>1, <1>4, <2>2, <2>3 DEF NoteEffect, NoteChanges
<1>5. CASE /\ addr \in DOMAIN m.candidates /\ m.candidates[addr].finished /\ addr \notin Functions
           /\ n = RequeueInMode(s, {addr})
  <2>1. {addr} \subseteq DOMAIN s.candidates \cap DOMAIN s.modes
    BY <1>1, <1>5
  <2>2. /\ ManagerOk(n)
        /\ n.modes = s.modes /\ n.conflicts = s.conflicts /\ n.queue = s.queue \cup {addr}
        /\ n.strong = s.strong /\ n.declared = s.declared
        /\ DOMAIN n.candidates = DOMAIN s.candidates
        /\ n.candidates[addr].thumb = s.modes[addr].thumb /\ ~n.candidates[addr].finished
        /\ \A a \in DOMAIN s.candidates \ {addr} : n.candidates[a] = s.candidates[a]
    BY <1>1, <1>5, <2>1, RequeuedFacts
  <2>3. n.candidates[addr].finished = FALSE
    BY <1>5, <1>1, <2>2, CandidateFacts
  <2> QED BY <1>1, <1>5, <2>2, <2>3 DEF NoteEffect, NoteChanges
<1> QED BY <1>2, <1>3, <1>4, <1>5 DEF NoteResult, s

-----------------------------------------------------------------------------
(* Once there are functions: a manager that follows another one by          *)
(* statements of what paths decode, and by candidates they find.  What is   *)
(* settled stays; a function for which something else was said is in        *)
(* conflict from then on; only what is no function gets another turn.       *)
Agree(m) ==
    \A c \in DOMAIN m.candidates :
        m.candidates[c].thumb = IsThumb(m, c) \/ (Settled(m, c) /\ m.candidates[c].finished)

Stands(m) == \A fn \in Functions : fn \in DOMAIN m.candidates /\ m.candidates[fn].finished

Grows(m, n) ==
    /\ ManagerOk(n)
    /\ n.declared = m.declared /\ m.strong \subseteq n.strong
    /\ DOMAIN m.candidates \subseteq DOMAIN n.candidates /\ m.queue \subseteq n.queue
    /\ \A c \in DOMAIN m.candidates :
          \/ n.candidates[c].finished = m.candidates[c].finished
          \/ n.candidates[c].finished = FALSE /\ c \in n.queue \ Functions
    /\ \A c \in DOMAIN n.candidates \ DOMAIN m.candidates : n.candidates[c].finished = FALSE

Follows(m, n) ==
    /\ Grows(m, n)
    /\ m.conflicts \subseteq n.conflicts
    /\ \A a \in DOMAIN m.modes : Settled(m, a) => a \in DOMAIN n.modes /\ n.modes[a] = m.modes[a]
    /\ \A a \in n.conflicts \ m.conflicts : a \in Functions /\ ~Settled(m, a) /\ Settled(n, a)
    /\ Agree(m) => /\ Agree(n)
                   /\ \A fn \in Functions : IsThumb(n, fn) = IsThumb(m, fn) \/ fn \in n.conflicts

LEMMA FollowsItself ==
    ASSUME NEW m, ManagerOk(m)
    PROVE  Follows(m, m)
BY DEF Follows, Grows

LEMMA SettledStays ==
    ASSUME NEW m, NEW n, Follows(m, n), NEW a, Settled(m, a)
    PROVE  Settled(n, a) /\ n.modes[a] = m.modes[a]
BY DEF Follows, Settled

LEMMA StandsStill ==
    ASSUME NEW m, NEW n, Stands(m), Grows(m, n)
    PROVE  Stands(n)
BY DEF Stands, Grows

LEMMA GrowsOn ==
    ASSUME NEW m, NEW n, NEW o, Grows(m, n), Grows(n, o)
    PROVE  Grows(m, o)
<1>1. ASSUME NEW c \in DOMAIN m.candidates
      PROVE  \/ o.candidates[c].finished = m.candidates[c].finished
             \/ o.candidates[c].finished = FALSE /\ c \in o.queue \ Functions
  <2>1. \/ n.candidates[c].finished = m.candidates[c].finished
        \/ n.candidates[c].finished = FALSE /\ c \in n.queue \ Functions
    BY DEF Grows
  <2>2. c \in DOMAIN n.candidates /\ n.queue \subseteq o.queue
    BY DEF Grows
  <2>3. \/ o.candidates[c].finished = n.candidates[c].finished
        \/ o.candidates[c].finished = FALSE /\ c \in o.queue \ Functions
    BY <2>2 DEF Grows
  <2> QED BY <2>1, <2>2, <2>3
<1>2. ASSUME NEW c \in DOMAIN o.candidates \ DOMAIN m.candidates
      PROVE  o.candidates[c].finished = FALSE
  <2>1. CASE c \in DOMAIN n.candidates
    <3>1. n.candidates[c].finished = FALSE
      BY <2>1 DEF Grows
    <3>2. \/ o.candidates[c].finished = n.candidates[c].finished
          \/ o.candidates[c].finished = FALSE
      BY <2>1 DEF Grows
    <3> QED BY <3>1, <3>2
  <2>2. CASE c \notin DOMAIN n.candidates
    BY <2>2 DEF Grows
  <2> QED BY <2>1, <2>2
<1>3. /\ ManagerOk(o) /\ o.declared = m.declared /\ m.strong \subseteq o.strong
      /\ DOMAIN m.candidates \subseteq DOMAIN o.candidates /\ m.queue \subseteq o.queue
  BY DEF Grows
<1> QED BY <1>1, <1>2, <1>3 DEF Grows

LEMMA FollowsOn ==
    ASSUME NEW m, NEW n, NEW o, Follows(m, n), Follows(n, o)
    PROVE  Follows(m, o)
<1>1. ASSUME NEW a \in DOMAIN m.modes, Settled(m, a)
      PROVE  a \in DOMAIN o.modes /\ o.modes[a] = m.modes[a]
  BY <1>1, SettledStays DEF Settled
<1>2. ASSUME NEW a \in o.conflicts \ m.conflicts
      PROVE  a \in Functions /\ ~Settled(m, a) /\ Settled(o, a)
  <2>1. CASE a \in n.conflicts
    <3>1. a \in Functions /\ ~Settled(m, a) /\ Settled(n, a)
      BY <2>1, <1>2 DEF Follows
    <3> QED BY <3>1, SettledStays
  <2>2. CASE a \notin n.conflicts
    <3>1. a \in Functions /\ ~Settled(n, a) /\ Settled(o, a)
      BY <2>2, <1>2 DEF Follows
    <3> QED BY <3>1, SettledStays
  <2> QED BY <2>1, <2>2
<1>3. Grows(m, o)
  BY GrowsOn DEF Follows
<1>4. ASSUME Agree(m)
      PROVE  /\ Agree(o)
             /\ \A fn \in Functions : IsThumb(o, fn) = IsThumb(m, fn) \/ fn \in o.conflicts
  <2>1. /\ Agree(n)
        /\ \A fn \in Functions : IsThumb(n, fn) = IsThumb(m, fn) \/ fn \in n.conflicts
    BY <1>4 DEF Follows
  <2>2. /\ Agree(o) /\ n.conflicts \subseteq o.conflicts
        /\ \A fn \in Functions : IsThumb(o, fn) = IsThumb(n, fn) \/ fn \in o.conflicts
    BY <2>1 DEF Follows
  <2> QED BY <2>1, <2>2
<1>5. m.conflicts \subseteq o.conflicts
  BY DEF Follows
<1> QED BY <1>1, <1>2, <1>3, <1>4, <1>5 DEF Follows

LEMMA NoteGrows ==
    ASSUME NEW m, ManagerOk(m), NEW addr \in Int, NEW thumb \in BOOLEAN, NEW strength \in 0..3
    PROVE  LET n == NoteMode(m, addr, thumb, strength)
           IN  Grows(m, n) /\ DOMAIN n.candidates = DOMAIN m.candidates
<1> DEFINE n == NoteMode(m, addr, thumb, strength)
<1>1. CASE n = m
  BY <1>1 DEF Grows
<1>2. CASE NoteResult(m, n, addr, thumb, strength)
  <2> HIDE DEF n
  <2>1. NoteEffect(m, n, addr, thumb, strength)
    BY <1>2, NoteFacts
  <2>2. \A c \in DOMAIN m.candidates :
           \/ n.candidates[c].finished = m.candidates[c].finished
           \/ n.candidates[c].finished = FALSE /\ c \in n.queue \ Functions
    <3>1. ASSUME addr \in DOMAIN m.candidates
          PROVE  \/ n.candidates[addr].finished = m.candidates[addr].finished
                 \/ n.candidates[addr].finished = FALSE /\ addr \in n.queue \ Functions
      <4>1. NoteChanges(m, n, addr, thumb)
        BY <2>1, <3>1 DEF NoteEffect
      <4>2. CASE n.candidates[addr] = m.candidates[addr]
        BY <4>2
      <4>3. CASE n.candidates[addr].finished = FALSE /\ m.candidates[addr].finished = FALSE
        BY <4>3
      <4> QED BY <4>1, <4>2, <4>3 DEF NoteChanges
    <3>2. \A c \in DOMAIN m.candidates \ {addr} : n.candidates[c] = m.candidates[c]
      BY <2>1 DEF NoteEffect
    <3> QED BY <3>1, <3>2
  <2>3. Grows(m, n) /\ DOMAIN n.candidates = DOMAIN m.candidates
    BY <2>1, <2>2 DEF Grows, NoteEffect
  <2> QED BY <2>3 DEF n
<1> QED BY <1>1, <1>2, NoteCases

(* What outweighs a statement that is weaker than a symbol.                 *)
LEMMA OutweighedWeak ==
    ASSUME NEW m, ManagerOk(m), NEW addr, NEW strength \in 0..2,
           ~Outweighed(m, addr, strength)
    PROVE  ~Settled(m, addr)
<1> SUFFICES ASSUME Settled(m, addr) PROVE FALSE
  OBVIOUS
<1>1. m.modes[addr].strength \in 0..3 /\ addr \in DOMAIN m.modes /\ m.modes[addr].strength >= 2
  BY ModeFacts, Strengths DEF Settled
<1> QED BY <1>1, Strengths DEF Outweighed

(* A statement of a path's weight, about any address, or a weaker one about *)
(* an address that is no code and no function.                              *)
LEMMA NoteFollows ==
    ASSUME NEW m, ManagerOk(m), Stands(m), NEW addr \in Int, NEW thumb \in BOOLEAN,
           NEW strength \in 0..2, strength = Decoded \/ ~(addr \in Functions \/ IsCode(addr))
    PROVE  Follows(m, NoteMode(m, addr, thumb, strength))
<1> DEFINE n == NoteMode(m, addr, thumb, strength)
<1>1. CASE n = m
  BY <1>1, FollowsItself
<1>2. CASE ~Outweighed(m, addr, strength) /\ NoteResult(m, n, addr, thumb, strength)
  <2> HIDE DEF n
  <2>0. strength \in 0..3
    OBVIOUS
  <2>1. NoteEffect(m, n, addr, thumb, strength)
    BY <1>2, <2>0, NoteFacts
  <2>2. addr \in DOMAIN m.candidates => NoteChanges(m, n, addr, thumb)
    BY <2>1 DEF NoteEffect
  <2>3. ~Settled(m, addr) /\ (strength = Decoded => Settled(n, addr))
    BY <1>2, <2>1, OutweighedWeak, Strengths DEF Settled, NoteEffect
  <2>4. \A a \in DOMAIN m.modes : Settled(m, a) => a \in DOMAIN n.modes /\ n.modes[a] = m.modes[a]
    BY <2>1, <2>3 DEF NoteEffect
  <2>5. \A a \in n.conflicts \ m.conflicts : a \in Functions /\ ~Settled(m, a) /\ Settled(n, a)
    BY <2>1, <2>3 DEF NoteEffect
  <2>6. Grows(m, n)
    BY <2>0, NoteGrows DEF n
  <2>7. IsThumb(n, addr) = thumb
    BY <2>1, ModeFacts DEF NoteEffect
  <2>8. \A a : a # addr => IsThumb(n, a) = IsThumb(m, a) /\ (Settled(n, a) <=> Settled(m, a))
    BY <2>1, ModeFacts DEF Settled, NoteEffect
  <2>9. ASSUME Agree(m), addr \in DOMAIN m.candidates
        PROVE  m.candidates[addr].thumb = IsThumb(m, addr)
    BY <2>3, <2>9 DEF Agree
  <2>10. ASSUME Agree(m)
         PROVE  Agree(n)
    <3> SUFFICES ASSUME NEW c \in DOMAIN n.candidates
                 PROVE  n.candidates[c].thumb = IsThumb(n, c) \/ (Settled(n, c) /\ n.candidates[c].finished)
      BY DEF Agree
    <3>1. CASE c # addr
      <4>1. n.candidates[c] = m.candidates[c] /\ c \in DOMAIN m.candidates
        BY <2>1, <3>1 DEF NoteEffect
      <4>2. m.candidates[c].thumb = IsThumb(m, c) \/ (Settled(m, c) /\ m.candidates[c].finished)
        BY <2>10, <4>1 DEF Agree
      <4> QED BY <2>8, <3>1, <4>1, <4>2
    <3>2. CASE c = addr
      <4>1. addr \in DOMAIN m.candidates
        BY <2>1, <3>2 DEF NoteEffect
      <4>2. CASE n.candidates[addr] = m.candidates[addr] /\ Unmoved(m, addr, thumb)
        <5>1. CASE addr \in DOMAIN m.modes /\ m.modes[addr].thumb = thumb
          <6>1. IsThumb(m, addr) = thumb
            BY <5>1, ModeFacts
          <6> QED BY <2>7, <2>9, <2>10, <3>2, <4>1, <4>2, <6>1
        <5>2. CASE m.candidates[addr].thumb = thumb
          BY <2>7, <3>2, <4>2, <5>2
        <5>3. CASE m.candidates[addr].finished /\ addr \notin Functions /\ IsCode(addr)
          BY <2>3, <3>2, <4>2, <5>3
        <5> QED BY <4>1, <4>2, <5>1, <5>2, <5>3 DEF Unmoved
      <4>3. CASE /\ n.candidates[addr] = m.candidates[addr] /\ addr \in n.conflicts
                 /\ m.candidates[addr].finished /\ addr \in Functions
        BY <2>3, <3>2, <4>3
      <4>4. CASE n.candidates[addr].thumb = thumb
        BY <2>7, <3>2, <4>4
      <4> QED BY <2>2, <4>1, <4>2, <4>3, <4>4 DEF NoteChanges
    <3> QED BY <3>1, <3>2
  <2>11. ASSUME Agree(m), NEW fn \in Functions
         PROVE  IsThumb(n, fn) = IsThumb(m, fn) \/ fn \in n.conflicts
    <3>1. CASE fn # addr
      BY <2>8, <3>1
    <3>2. CASE fn = addr
      <4>1. addr \in DOMAIN m.candidates /\ m.candidates[addr].finished
        BY <3>2 DEF Stands
      <4>2. \/ Unmoved(m, addr, thumb)
            \/ addr \in n.conflicts
        BY <2>2, <3>2, <4>1 DEF NoteChanges
      <4>3. CASE addr \in DOMAIN m.modes /\ m.modes[addr].thumb = thumb
        <5>1. IsThumb(m, addr) = thumb
          BY <4>3, ModeFacts
        <5> QED BY <2>7, <3>2, <5>1
      <4>4. CASE m.candidates[addr].thumb = thumb
        BY <2>7, <2>9, <2>11, <3>2, <4>1, <4>4
      <4> QED BY <3>2, <4>1, <4>2, <4>3, <4>4 DEF Unmoved
    <3> QED BY <3>1, <3>2
  <2> QED BY <2>1, <2>4, <2>5, <2>6, <2>10, <2>11 DEF Follows, n, NoteEffect
<1>3. strength \in 0..3
  OBVIOUS
<1> QED BY <1>1, <1>2, <1>3, NoteCases

-----------------------------------------------------------------------------
(* The operations on candidates.  What says nothing of an instruction set   *)
(* and neither finishes nor reopens a candidate is followed by a manager    *)
(* that agrees as before.                                                   *)
LEMMA KeptFollows ==
    ASSUME NEW m, ManagerOk(m), NEW n, ManagerOk(n), n.modes = m.modes,
           n.conflicts = m.conflicts, n.declared = m.declared, m.strong \subseteq n.strong,
           m.queue \subseteq n.queue, DOMAIN m.candidates \subseteq DOMAIN n.candidates,
           \A c \in DOMAIN m.candidates : /\ n.candidates[c].thumb = m.candidates[c].thumb
                                          /\ n.candidates[c].finished = m.candidates[c].finished,
           \A c \in DOMAIN n.candidates \ DOMAIN m.candidates :
                 n.candidates[c].thumb = IsThumb(m, c) /\ n.candidates[c].finished = FALSE
    PROVE  Follows(m, n)
<1>1. \A a : IsThumb(n, a) = IsThumb(m, a) /\ (Settled(n, a) <=> Settled(m, a))
  BY ModeFacts DEF Settled
<1>2. ASSUME Agree(m)
      PROVE  Agree(n)
  <2> SUFFICES ASSUME NEW c \in DOMAIN n.candidates
               PROVE  n.candidates[c].thumb = IsThumb(n, c) \/ (Settled(n, c) /\ n.candidates[c].finished)
    BY DEF Agree
  <2>1. CASE c \in DOMAIN m.candidates
    <3>1. m.candidates[c].thumb = IsThumb(m, c) \/ (Settled(m, c) /\ m.candidates[c].finished)
      BY <1>2, <2>1 DEF Agree
    <3> QED BY <1>1, <2>1, <3>1
  <2>2. CASE c \notin DOMAIN m.candidates
    BY <1>1, <2>2
  <2> QED BY <2>1, <2>2
<1>3. Grows(m, n)
  BY DEF Grows
<1> QED BY <1>1, <1>2, <1>3 DEF Follows

LEMMA FlagFollows ==
    ASSUME NEW m, ManagerOk(m), NEW addr \in DOMAIN m.candidates, NEW c \in Candidate,
           c.thumb = m.candidates[addr].thumb, c.finished = m.candidates[addr].finished
    PROVE  LET n == Updated(m, addr, c)
           IN  Follows(m, n) /\ DOMAIN n.candidates = DOMAIN m.candidates
<1> DEFINE n == Updated(m, addr, c)
<1>1. addr \in Int
  BY CandidateFacts
<1>2. /\ ManagerOk(n)
      /\ n.modes = m.modes /\ n.conflicts = m.conflicts /\ n.queue = m.queue
      /\ n.strong = m.strong /\ n.declared = m.declared
      /\ DOMAIN n.candidates = DOMAIN m.candidates \cup {addr}
      /\ n.candidates[addr] = c
      /\ \A a \in DOMAIN m.candidates : a # addr => n.candidates[a] = m.candidates[a]
  BY <1>1, UpdatedFacts
<1> HIDE DEF n
<1>3. \A a \in DOMAIN m.candidates : /\ n.candidates[a].thumb = m.candidates[a].thumb
                                     /\ n.candidates[a].finished = m.candidates[a].finished
  BY <1>2
<1>4. Follows(m, n) /\ DOMAIN n.candidates = DOMAIN m.candidates
  BY <1>2, <1>3, KeptFollows
<1> QED BY <1>4 DEF n

LEMMA QueuedFollows ==
    ASSUME NEW m, ManagerOk(m), NEW addr \in DOMAIN m.candidates
    PROVE  LET n == Queued(m, addr)
           IN  Follows(m, n) /\ n.candidates = m.candidates
<1> DEFINE n == Queued(m, addr)
<1>1. m = [modes |-> m.modes, conflicts |-> m.conflicts, candidates |-> m.candidates,
           queue |-> m.queue, strong |-> m.strong, declared |-> m.declared, calls |-> m.calls]
  BY DEF ManagerOk
<1>2. /\ n.modes = m.modes /\ n.candidates = m.candidates /\ n.queue = m.queue \cup {addr}
      /\ n.strong = m.strong /\ n.declared = m.declared /\ n.conflicts = m.conflicts
      /\ n = [modes |-> n.modes, conflicts |-> n.conflicts, candidates |-> n.candidates,
              queue |-> n.queue, strong |-> n.strong, declared |-> n.declared, calls |-> n.calls]
  BY <1>1 DEF Queued
<1> HIDE DEF n
<1>3. ManagerOk(n)
  BY <1>2 DEF ManagerOk
<1>4. Follows(m, n)
  BY <1>2, <1>3, KeptFollows
<1> QED BY <1>2, <1>4 DEF n

LEMMA VouchedFollows ==
    ASSUME NEW m, ManagerOk(m), NEW addr
    PROVE  LET n == Vouched(m, addr)
           IN  Follows(m, n) /\ n.candidates = m.candidates /\ n.conflicts = m.conflicts
<1> DEFINE n == Vouched(m, addr)
<1>1. m = [modes |-> m.modes, conflicts |-> m.conflicts, candidates |-> m.candidates,
           queue |-> m.queue, strong |-> m.strong, declared |-> m.declared, calls |-> m.calls]
  BY DEF ManagerOk
<1>2. /\ n.modes = m.modes /\ n.candidates = m.candidates /\ n.queue = m.queue
      /\ n.strong = m.strong \cup {addr} /\ n.declared = m.declared /\ n.conflicts = m.conflicts
      /\ n = [modes |-> n.modes, conflicts |-> n.conflicts, candidates |-> n.candidates,
              queue |-> n.queue, strong |-> n.strong, declared |-> n.declared, calls |-> n.calls]
  BY <1>1 DEF Vouched
<1> HIDE DEF n
<1>3. ManagerOk(n)
  BY <1>2 DEF ManagerOk
<1>4. Follows(m, n)
  BY <1>2, <1>3, KeptFollows
<1> QED BY <1>2, <1>4 DEF n

LEMMA AddRefFollows ==
    ASSUME NEW m, ManagerOk(m), NEW addr \in DOMAIN m.candidates, NEW source \in Int
    PROVE  LET n == AddRef(m, addr, source)
           IN  Follows(m, n) /\ DOMAIN n.candidates = DOMAIN m.candidates
<1> DEFINE c == [m.candidates[addr] EXCEPT !.refs = @ \cup {source}]
           u == Updated(m, addr, c)
           n == AddRef(m, addr, source)
<1>1. m.candidates[addr] \in Candidate
  BY CandidateFacts
<1>2. c \in Candidate /\ c.thumb = m.candidates[addr].thumb /\ c.finished = m.candidates[addr].finished
  BY <1>1 DEF Candidate
<1> HIDE DEF c
<1>3. Follows(m, u) /\ DOMAIN u.candidates = DOMAIN m.candidates
  BY <1>2, FlagFollows
<1>4. n = [u EXCEPT !.calls = With(u.calls, source, addr)]
  BY DEF AddRef, c
<1>5. ManagerOk(u) /\ u = [modes |-> u.modes, conflicts |-> u.conflicts, candidates |-> u.candidates,
           queue |-> u.queue, strong |-> u.strong, declared |-> u.declared, calls |-> u.calls]
  BY <1>3 DEF Follows, Grows, ManagerOk
<1> HIDE DEF u, n
<1>6. /\ n.modes = u.modes /\ n.candidates = u.candidates /\ n.queue = u.queue
      /\ n.strong = u.strong /\ n.declared = u.declared /\ n.conflicts = u.conflicts
      /\ n = [modes |-> n.modes, conflicts |-> n.conflicts, candidates |-> n.candidates,
              queue |-> n.queue, strong |-> n.strong, declared |-> n.declared, calls |-> n.calls]
  BY <1>4, <1>5
<1>7. ManagerOk(n)
  BY <1>5, <1>6 DEF ManagerOk
<1>8. Follows(u, n)
  BY <1>5, <1>6, <1>7, KeptFollows
<1>9. Follows(m, n) /\ DOMAIN n.candidates = DOMAIN m.candidates
  BY <1>3, <1>6, <1>8, FollowsOn
<1> QED BY <1>9 DEF n

(* A new candidate is in the instruction set known of it.                   *)
LEMMA EnsureFollows ==
    ASSUME NEW m, ManagerOk(m), Stands(m), NEW addr \in Int
    PROVE  LET n == EnsureCandidate(m, addr)
           IN  Follows(m, n) /\ addr \in DOMAIN n.candidates
<1> DEFINE o == IF ~WordAligned(addr) /\ addr \notin DOMAIN m.modes
                THEN NoteMode(m, addr, TRUE, Decoded) ELSE m
           c == NewCandidate(IsThumb(o, addr))
           u == Updated(o, addr, c)
           n == EnsureCandidate(m, addr)
<1>1. Follows(m, o) /\ ManagerOk(o)
  <2>1. Follows(m, NoteMode(m, addr, TRUE, Decoded))
    BY NoteFollows, Strength
  <2>2. Follows(m, o)
    BY <2>1, FollowsItself
  <2> QED BY <2>2 DEF Follows, Grows
<1>2. DOMAIN o.candidates = DOMAIN m.candidates
  <2>1. DOMAIN NoteMode(m, addr, TRUE, Decoded).candidates = DOMAIN m.candidates
    BY NoteGrows, Strength
  <2> QED BY <2>1
<1>3. n = IF addr \in DOMAIN m.candidates THEN o ELSE u
  BY DEF EnsureCandidate
<1> HIDE DEF o
<1>4. c \in Candidate /\ c.thumb = IsThumb(o, addr) /\ c.finished = FALSE
  <2>1. IsThumb(o, addr) \in BOOLEAN
    BY ThumbBoolean
  <2> QED BY <2>1 DEF NewCandidate, Candidate
<1> HIDE DEF c, n
<1>5. CASE addr \in DOMAIN m.candidates
  BY <1>1, <1>2, <1>3, <1>5 DEF n
<1>6. CASE addr \notin DOMAIN m.candidates
  <2>1. /\ ManagerOk(u)
        /\ u.modes = o.modes /\ u.conflicts = o.conflicts /\ u.queue = o.queue
        /\ u.strong = o.strong /\ u.declared = o.declared
        /\ DOMAIN u.candidates = DOMAIN o.candidates \cup {addr}
        /\ u.candidates[addr] = c
        /\ \A a \in DOMAIN o.candidates : a # addr => u.candidates[a] = o.candidates[a]
    BY <1>1, <1>4, UpdatedFacts
  <2> HIDE DEF u
  <2>2. Follows(o, u)
    BY <1>1, <1>2, <1>4, <1>6, <2>1, KeptFollows
  <2>3. Follows(m, u) /\ addr \in DOMAIN u.candidates
    BY <1>1, <2>1, <2>2, FollowsOn
  <2> QED BY <1>3, <1>6, <2>3 DEF n
<1> QED BY <1>5, <1>6

LEMMA FollowsOk ==
    ASSUME NEW m, NEW n, Follows(m, n)
    PROVE  ManagerOk(n) /\ Grows(m, n) /\ (Stands(m) => Stands(n))
BY StandsStill DEF Follows, Grows

LEMMA AddCandidateFollows ==
    ASSUME NEW m, ManagerOk(m), Stands(m), NEW addr \in Int, NEW source \in Int
    PROVE  LET n == AddCandidate(m, addr, source)
           IN  Follows(m, n) /\ addr \in DOMAIN n.candidates
<1> DEFINE e == EnsureCandidate(m, addr)
           c == [e.candidates[addr] EXCEPT !.gap = FALSE]
           u == Updated(e, addr, c)
           r == AddRef(u, addr, source)
           n == AddCandidate(m, addr, source)
<1>1. Follows(m, e) /\ addr \in DOMAIN e.candidates /\ ManagerOk(e)
  BY EnsureFollows, FollowsOk
<1>2. n = Queued(r, addr)
  BY DEF AddCandidate
<1> HIDE DEF e
<1>3. e.candidates[addr] \in Candidate
  BY <1>1, CandidateFacts
<1>4. c \in Candidate /\ c.thumb = e.candidates[addr].thumb /\ c.finished = e.candidates[addr].finished
  BY <1>3 DEF Candidate
<1> HIDE DEF c
<1>5. Follows(e, u) /\ addr \in DOMAIN u.candidates /\ ManagerOk(u)
  BY <1>1, <1>4, FlagFollows, FollowsOk
<1> HIDE DEF u
<1>6. Follows(u, r) /\ addr \in DOMAIN r.candidates /\ ManagerOk(r)
  BY <1>5, AddRefFollows, FollowsOk
<1> HIDE DEF r, n
<1>7. Follows(r, n) /\ addr \in DOMAIN n.candidates
  BY <1>2, <1>6, QueuedFollows
<1>8. Follows(m, u)
  BY <1>1, <1>5, FollowsOn
<1>9. Follows(m, r)
  BY <1>6, <1>8, FollowsOn
<1>10. Follows(m, n)
  BY <1>7, <1>9, FollowsOn
<1> QED BY <1>7, <1>10 DEF n

LEMMA NoteDecoded ==
    ASSUME NEW m, ManagerOk(m), Stands(m), NEW addr \in Int, NEW thumb \in BOOLEAN
    PROVE  Follows(m, NoteMode(m, addr, thumb, Decoded))
BY NoteFollows, Strength

LEMMA AddCallCandidateFollows ==
    ASSUME NEW m, ManagerOk(m), Stands(m), NEW target \in Int, NEW thumb \in BOOLEAN,
           NEW source \in Int
    PROVE  Follows(m, AddCallCandidate(m, target, thumb, source))
<1> DEFINE o == NoteMode(m, target, thumb, Decoded)
           v == Vouched(o, target)
           a == AddCandidate(m, target, source)
           w == NoteMode(a, target, thumb, Decoded)
           n == AddCallCandidate(m, target, thumb, source)
<1>1. Follows(m, o) /\ ManagerOk(o)
  BY NoteDecoded, FollowsOk
<1>2. Follows(o, v) /\ ManagerOk(v) /\ v.candidates = o.candidates
  <2> HIDE DEF o
  <2> QED BY <1>1, VouchedFollows, FollowsOk
<1>3. Follows(m, v)
  <2> HIDE DEF o, v
  <2> QED BY <1>1, <1>2, FollowsOn
<1>4. ASSUME target \in DOMAIN m.candidates
      PROVE  Follows(m, AddRef(v, target, source))
  <2>1. target \in DOMAIN v.candidates
    <3> HIDE DEF o, v
    <3> QED BY <1>1, <1>2, <1>4 DEF Follows, Grows
  <2> HIDE DEF v
  <2>2. Follows(v, AddRef(v, target, source))
    BY <1>2, <2>1, AddRefFollows
  <2> QED BY <1>3, <2>2, FollowsOn
<1>5. Follows(m, a) /\ ManagerOk(a) /\ Stands(a)
  BY AddCandidateFollows, FollowsOk
<1>6. Follows(m, Vouched(w, target))
  <2> HIDE DEF a
  <2>1. Follows(a, w) /\ ManagerOk(w)
    BY <1>5, NoteDecoded, FollowsOk
  <2> HIDE DEF w
  <2>2. Follows(w, Vouched(w, target))
    BY <2>1, VouchedFollows
  <2>3. Follows(m, w)
    BY <1>5, <2>1, FollowsOn
  <2> QED BY <2>2, <2>3, FollowsOn
<1>7. \/ n = m
      \/ target \in DOMAIN m.candidates /\ n = AddRef(v, target, source)
      \/ n = Vouched(w, target)
  BY Zenon DEF AddCallCandidate
<1> HIDE DEF n, v, w
<1>8. Follows(m, n)
  BY <1>4, <1>6, <1>7, FollowsItself
<1> QED BY <1>8 DEF n

LEMMA AddPointerCandidateFollows ==
    ASSUME NEW m, ManagerOk(m), Stands(m), NEW value \in Int, NEW source \in Int
    PROVE  Follows(m, AddPointerCandidate(m, value, source))
<1> DEFINE target == Even(value)
           a == AddCandidate(m, target, source)
           n == AddPointerCandidate(m, value, source)
<1>1. target \in Int /\ IsThumbBit(value) \in BOOLEAN
  BY DEF Even, IsThumbBit
<1>2. n = m \/ n = NoteMode(a, target, IsThumbBit(value), Decoded)
  BY Zenon DEF AddPointerCandidate
<1> HIDE DEF target
<1>3. Follows(m, a) /\ ManagerOk(a) /\ Stands(a)
  BY <1>1, AddCandidateFollows, FollowsOk
<1> HIDE DEF a
<1>4. Follows(a, NoteMode(a, target, IsThumbBit(value), Decoded))
  BY <1>1, <1>3, NoteDecoded
<1>5. Follows(m, NoteMode(a, target, IsThumbBit(value), Decoded))
  BY <1>3, <1>4, FollowsOn
<1> HIDE DEF n
<1>6. Follows(m, n)
  BY <1>2, <1>5, FollowsItself
<1> QED BY <1>6 DEF n

LEMMA AddTailcallCandidateFollows ==
    ASSUME NEW m, ManagerOk(m), Stands(m), NEW target \in Int, NEW thumb \in BOOLEAN
    PROVE  Follows(m, AddTailcallCandidate(m, target, thumb))
<1> DEFINE o == NoteMode(m, target, thumb, Decoded)
           e == EnsureCandidate(o, target)
           c == [e.candidates[target] EXCEPT !.tailcall = TRUE]
           u == Updated(e, target, c)
           n == AddTailcallCandidate(m, target, thumb)
<1>1. n = o \/ n = Queued(u, target)
  BY Zenon DEF AddTailcallCandidate
<1>2. Follows(m, o) /\ ManagerOk(o) /\ Stands(o)
  BY NoteDecoded, FollowsOk
<1> HIDE DEF o
<1>3. Follows(o, e) /\ ManagerOk(e) /\ target \in DOMAIN e.candidates
  BY <1>2, EnsureFollows, FollowsOk
<1> HIDE DEF e
<1>4. e.candidates[target] \in Candidate
  BY <1>3, CandidateFacts
<1>5. /\ c \in Candidate /\ c.thumb = e.candidates[target].thumb
      /\ c.finished = e.candidates[target].finished
  BY <1>4 DEF Candidate
<1> HIDE DEF c
<1>6. Follows(e, u) /\ ManagerOk(u) /\ target \in DOMAIN u.candidates
  BY <1>3, <1>5, FlagFollows, FollowsOk
<1> HIDE DEF u
<1>7. Follows(u, Queued(u, target))
  BY <1>6, QueuedFollows
<1>8. Follows(m, e)
  BY <1>2, <1>3, FollowsOn
<1>9. Follows(m, u)
  BY <1>6, <1>8, FollowsOn
<1>10. Follows(m, Queued(u, target))
  BY <1>7, <1>9, FollowsOn
<1> HIDE DEF n
<1>11. Follows(m, n)
  BY <1>1, <1>2, <1>10
<1> QED BY <1>11 DEF n

(* What the gap scan offers is no code, and no function where functions are *)
(* code.                                                                    *)
LEMMA OfferedFollows ==
    ASSUME NEW m, ManagerOk(m), Stands(m), NEW addr \in Int, NEW thumb \in BOOLEAN
    PROVE  LET n == AddGapCandidate(NoteMode(m, addr, thumb, Guess), addr)
           IN  /\ Grows(m, n) /\ addr \in DOMAIN n.candidates
               /\ ~(addr \in Functions \/ IsCode(addr)) => Follows(m, n)
<1> DEFINE o == NoteMode(m, addr, thumb, Guess)
           e == EnsureCandidate(o, addr)
           c == [e.candidates[addr] EXCEPT !.gap = TRUE]
           n == AddGapCandidate(o, addr)
<1>1. n = Updated(e, addr, c)
  BY DEF AddGapCandidate
<1>2. Grows(m, o) /\ ManagerOk(o) /\ Stands(o)
  <2>1. Guess \in 0..3
    BY DEF Guess
  <2>2. Grows(m, o)
    BY <2>1, NoteGrows
  <2> HIDE DEF o
  <2> QED BY <2>2, StandsStill DEF Grows
<1>3. ~(addr \in Functions \/ IsCode(addr)) => Follows(m, o)
  BY NoteFollows, Strength
<1> HIDE DEF o
<1>4. Follows(o, e) /\ ManagerOk(e) /\ addr \in DOMAIN e.candidates
  BY <1>2, EnsureFollows, FollowsOk
<1> HIDE DEF e
<1>5. e.candidates[addr] \in Candidate
  BY <1>4, CandidateFacts
<1>6. /\ c \in Candidate /\ c.thumb = e.candidates[addr].thumb
      /\ c.finished = e.candidates[addr].finished
  BY <1>5 DEF Candidate
<1> HIDE DEF c, n
<1>7. Follows(e, n) /\ addr \in DOMAIN n.candidates
  BY <1>1, <1>4, <1>6, FlagFollows
<1>8. Follows(o, n)
  BY <1>4, <1>7, FollowsOn
<1>9. Grows(m, n)
  BY <1>2, <1>8, GrowsOn DEF Follows
<1>10. ~(addr \in Functions \/ IsCode(addr)) => Follows(m, n)
  BY <1>3, <1>8, FollowsOn
<1> QED BY <1>7, <1>9, <1>10 DEF n, o

(* What only gives candidates up, finishes them or forgets calls of theirs. *)
Like(m, n) ==
    /\ ManagerOk(n)
    /\ n.modes = m.modes /\ n.conflicts = m.conflicts /\ n.queue = m.queue
    /\ n.strong = m.strong /\ n.declared = m.declared
    /\ DOMAIN n.candidates = DOMAIN m.candidates
    /\ \A c \in DOMAIN m.candidates : n.candidates[c].thumb = m.candidates[c].thumb

HadItsTurn(m, n, addr) ==
    /\ Like(m, n)
    /\ \A c \in DOMAIN m.candidates :
          n.candidates[c].finished = IF c = addr THEN TRUE ELSE m.candidates[c].finished

LEMMA FlagLike ==
    ASSUME NEW m, ManagerOk(m), NEW addr \in DOMAIN m.candidates, NEW c \in Candidate,
           c.thumb = m.candidates[addr].thumb
    PROVE  LET n == Updated(m, addr, c)
           IN  /\ Like(m, n)
               /\ \A a \in DOMAIN m.candidates :
                     n.candidates[a] = IF a = addr THEN c ELSE m.candidates[a]
<1> DEFINE n == Updated(m, addr, c)
<1>1. addr \in Int
  BY CandidateFacts
<1>2. /\ ManagerOk(n)
      /\ n.modes = m.modes /\ n.conflicts = m.conflicts /\ n.queue = m.queue
      /\ n.strong = m.strong /\ n.declared = m.declared
      /\ DOMAIN n.candidates = DOMAIN m.candidates \cup {addr}
      /\ n.candidates[addr] = c
      /\ \A a \in DOMAIN m.candidates : a # addr => n.candidates[a] = m.candidates[a]
  BY <1>1, UpdatedFacts
<1> HIDE DEF n
<1>3. Like(m, n) /\ \A a \in DOMAIN m.candidates :
                       n.candidates[a] = IF a = addr THEN c ELSE m.candidates[a]
  BY <1>2 DEF Like
<1> QED BY <1>3 DEF n

LEMMA AbortedFacts ==
    ASSUME NEW m, ManagerOk(m), NEW addr
    PROVE  HadItsTurn(m, Aborted(m, addr), addr)
<1>1. CASE addr \notin DOMAIN m.candidates
  BY <1>1 DEF Aborted, HadItsTurn, Like
<1>2. CASE addr \in DOMAIN m.candidates
  <2> DEFINE c == [m.candidates[addr] EXCEPT !.finished = TRUE, !.aborted = TRUE]
             n == Updated(m, addr, c)
  <2>1. m.candidates[addr] \in Candidate
    BY <1>2, CandidateFacts
  <2>2. c \in Candidate /\ c.thumb = m.candidates[addr].thumb /\ c.finished = TRUE
    BY <2>1 DEF Candidate
  <2>3. Aborted(m, addr) = n
    BY <1>2 DEF Aborted
  <2> HIDE DEF c
  <2>4. Like(m, n) /\ \A a \in DOMAIN m.candidates :
                         n.candidates[a] = IF a = addr THEN c ELSE m.candidates[a]
    BY <1>2, <2>2, FlagLike
  <2> HIDE DEF n
  <2>5. HadItsTurn(m, n, addr)
    BY <2>2, <2>4 DEF HadItsTurn
  <2> QED BY <2>3, <2>5
<1> QED BY <1>1, <1>2

LEMMA FinishedFacts ==
    ASSUME NEW m, ManagerOk(m), NEW addr
    PROVE  HadItsTurn(m, Finished(m, addr), addr)
<1>1. CASE addr \notin DOMAIN m.candidates
  BY <1>1 DEF Finished, HadItsTurn, Like
<1>2. CASE addr \in DOMAIN m.candidates
  <2> DEFINE c == [m.candidates[addr] EXCEPT !.finished = TRUE]
             n == Updated(m, addr, c)
  <2>1. m.candidates[addr] \in Candidate
    BY <1>2, CandidateFacts
  <2>2. c \in Candidate /\ c.thumb = m.candidates[addr].thumb /\ c.finished = TRUE
    BY <2>1 DEF Candidate
  <2>3. Finished(m, addr) = n
    BY <1>2 DEF Finished
  <2> HIDE DEF c
  <2>4. Like(m, n) /\ \A a \in DOMAIN m.candidates :
                         n.candidates[a] = IF a = addr THEN c ELSE m.candidates[a]
    BY <1>2, <2>2, FlagLike
  <2> HIDE DEF n
  <2>5. HadItsTurn(m, n, addr)
    BY <2>2, <2>4 DEF HadItsTurn
  <2> QED BY <2>3, <2>5
<1> QED BY <1>1, <1>2

LEMMA UnabortedFacts ==
    ASSUME NEW m, ManagerOk(m), NEW addr
    PROVE  LET n == Unaborted(m, addr)
           IN  /\ Like(m, n)
               /\ \A c \in DOMAIN m.candidates : n.candidates[c].finished = m.candidates[c].finished
<1>1. CASE addr \notin DOMAIN m.candidates
  BY <1>1 DEF Unaborted, Like
<1>2. CASE addr \in DOMAIN m.candidates
  <2> DEFINE c == [m.candidates[addr] EXCEPT !.aborted = FALSE]
             n == Updated(m, addr, c)
  <2>1. m.candidates[addr] \in Candidate
    BY <1>2, CandidateFacts
  <2>2. /\ c \in Candidate /\ c.thumb = m.candidates[addr].thumb
        /\ c.finished = m.candidates[addr].finished
    BY <2>1 DEF Candidate
  <2>3. Unaborted(m, addr) = n
    BY <1>2 DEF Unaborted
  <2> HIDE DEF c
  <2>4. Like(m, n) /\ \A a \in DOMAIN m.candidates :
                         n.candidates[a] = IF a = addr THEN c ELSE m.candidates[a]
    BY <1>2, <2>2, FlagLike
  <2> HIDE DEF n
  <2>5. Like(m, n) /\ \A a \in DOMAIN m.candidates : n.candidates[a].finished = m.candidates[a].finished
    BY <2>2, <2>4
  <2> QED BY <2>3, <2>5
<1> QED BY <1>1, <1>2

LEMMA WithoutCallsFacts ==
    ASSUME NEW m, ManagerOk(m), NEW bytes
    PROVE  LET n == WithoutCalls(m, bytes)
           IN  /\ Like(m, n)
               /\ \A c \in DOMAIN m.candidates : n.candidates[c].finished = m.candidates[c].finished
<1> DEFINE n == WithoutCalls(m, bytes)
           v(a) == [m.candidates[a] EXCEPT !.refs = {s \in m.candidates[a].refs :
                                                         ~(s \in bytes /\ m.calls[s] = a)}]
           cs == [a \in DOMAIN m.candidates |-> v(a)]
<1>1. n = [modes |-> m.modes, conflicts |-> m.conflicts, candidates |-> cs,
           queue |-> m.queue, strong |-> m.strong, declared |-> m.declared, calls |-> m.calls]
  <2>1. m = [modes |-> m.modes, conflicts |-> m.conflicts, candidates |-> m.candidates,
             queue |-> m.queue, strong |-> m.strong, declared |-> m.declared, calls |-> m.calls]
    BY DEF ManagerOk
  <2>2. n = [m EXCEPT !.candidates = cs]
    BY DEF WithoutCalls
  <2> HIDE DEF n, cs
  <2> QED BY <2>1, <2>2
<1>2. ASSUME NEW a \in DOMAIN m.candidates
      PROVE  /\ a \in Int /\ v(a) \in Candidate /\ v(a).thumb = m.candidates[a].thumb
             /\ v(a).finished = m.candidates[a].finished
  <2>1. a \in Int /\ m.candidates[a] \in Candidate
    BY CandidateFacts
  <2>2. {s \in m.candidates[a].refs : ~(s \in bytes /\ m.calls[s] = a)} \in SUBSET Int
    BY <2>1 DEF Candidate
  <2> QED BY <2>1, <2>2 DEF Candidate
<1> HIDE DEF v
<1>3. PartialMap(cs, Candidate) /\ DOMAIN cs = DOMAIN m.candidates
  BY <1>2 DEF PartialMap
<1>4. \A a \in DOMAIN m.candidates : cs[a].thumb = m.candidates[a].thumb
                                     /\ cs[a].finished = m.candidates[a].finished
  BY <1>2
<1> HIDE DEF cs, n
<1>5. /\ n.modes = m.modes /\ n.conflicts = m.conflicts /\ n.queue = m.queue
      /\ n.strong = m.strong /\ n.declared = m.declared /\ n.calls = m.calls /\ n.candidates = cs
      /\ n = [modes |-> n.modes, conflicts |-> n.conflicts, candidates |-> n.candidates,
              queue |-> n.queue, strong |-> n.strong, declared |-> n.declared, calls |-> n.calls]
  BY <1>1
<1>6. ManagerOk(n)
  BY <1>3, <1>5 DEF ManagerOk
<1>7. Like(m, n) /\ \A a \in DOMAIN m.candidates : n.candidates[a].finished = m.candidates[a].finished
  BY <1>3, <1>4, <1>5, <1>6 DEF Like
<1> QED BY <1>7 DEF n

LEMMA ConcludedFacts ==
    ASSUME NEW m, ManagerOk(m)
    PROVE  HadItsTurn(m, Concluded(m), Top.start)
<1> DEFINE o == Finished(m, Top.start)
           n == WithoutCalls(o, Top.bytes \ Top.ins)
<1>1. HadItsTurn(m, o, Top.start)
  BY FinishedFacts
<1>2. Concluded(m) = n
  BY DEF Concluded
<1> HIDE DEF o
<1>3. ManagerOk(o)
  BY <1>1 DEF HadItsTurn, Like
<1>4. Like(o, n) /\ \A c \in DOMAIN o.candidates : n.candidates[c].finished = o.candidates[c].finished
  BY <1>3, WithoutCallsFacts
<1> HIDE DEF n
<1>5. HadItsTurn(m, n, Top.start)
  BY <1>1, <1>4 DEF HadItsTurn, Like
<1> QED BY <1>2, <1>5

(* The same manager with another queue, and without conflicts.             *)
LEMMA QueueFacts ==
    ASSUME NEW m, ManagerOk(m), NEW queue, queue \subseteq DOMAIN m.candidates
    PROVE  LET n == [m EXCEPT !.queue = queue]
           IN  /\ ManagerOk(n) /\ n.queue = queue /\ n.conflicts = m.conflicts
               /\ n.modes = m.modes /\ n.candidates = m.candidates
               /\ n.strong = m.strong /\ n.declared = m.declared
<1> DEFINE n == [m EXCEPT !.queue = queue]
<1>1. m = [modes |-> m.modes, conflicts |-> m.conflicts, candidates |-> m.candidates, queue |-> m.queue,
           strong |-> m.strong, declared |-> m.declared, calls |-> m.calls]
  BY DEF ManagerOk
<1>2. n = [modes |-> m.modes, conflicts |-> m.conflicts, candidates |-> m.candidates, queue |-> queue,
           strong |-> m.strong, declared |-> m.declared, calls |-> m.calls]
  BY <1>1
<1> HIDE DEF n
<1>3. /\ n.queue = queue /\ n.conflicts = m.conflicts
      /\ n.modes = m.modes /\ n.candidates = m.candidates
      /\ n.strong = m.strong /\ n.declared = m.declared
      /\ n = [modes |-> n.modes, conflicts |-> n.conflicts, candidates |-> n.candidates, queue |-> n.queue,
               strong |-> n.strong, declared |-> n.declared, calls |-> n.calls]
  BY <1>2
<1>4. ManagerOk(n)
  BY <1>3 DEF ManagerOk
<1> QED BY <1>3, <1>4 DEF n

LEMMA NoConflictFacts ==
    ASSUME NEW m, ManagerOk(m)
    PROVE  LET n == [m EXCEPT !.conflicts = {}]
           IN  /\ ManagerOk(n) /\ n.conflicts = {} /\ n.queue = m.queue
               /\ n.modes = m.modes /\ n.candidates = m.candidates
               /\ n.strong = m.strong /\ n.declared = m.declared
<1> DEFINE n == [m EXCEPT !.conflicts = {}]
<1>1. m = [modes |-> m.modes, conflicts |-> m.conflicts, candidates |-> m.candidates, queue |-> m.queue,
           strong |-> m.strong, declared |-> m.declared, calls |-> m.calls]
  BY DEF ManagerOk
<1>2. n = [modes |-> m.modes, conflicts |-> {}, candidates |-> m.candidates, queue |-> m.queue,
           strong |-> m.strong, declared |-> m.declared, calls |-> m.calls]
  BY <1>1
<1> HIDE DEF n
<1>3. /\ n.conflicts = {} /\ n.queue = m.queue
      /\ n.modes = m.modes /\ n.candidates = m.candidates
      /\ n.strong = m.strong /\ n.declared = m.declared
      /\ n = [modes |-> n.modes, conflicts |-> n.conflicts, candidates |-> n.candidates, queue |-> n.queue,
               strong |-> n.strong, declared |-> n.declared, calls |-> n.calls]
  BY <1>2
<1>4. ManagerOk(n)
  BY <1>3 DEF ManagerOk
<1> QED BY <1>3, <1>4 DEF n

-----------------------------------------------------------------------------
(* Discovery: before there are functions nothing has had its turn, and      *)
(* every candidate is in the instruction set known of it.                   *)
Fresh(m) ==
    /\ ManagerOk(m) /\ m.conflicts = {}
    /\ \A c \in DOMAIN m.candidates :
          m.candidates[c].thumb = IsThumb(m, c) /\ m.candidates[c].finished = FALSE

LEMMA NoteFresh ==
    ASSUME NEW m, Fresh(m), Functions = {}, NEW addr \in Int, NEW thumb \in BOOLEAN,
           NEW strength \in 0..3
    PROVE  LET n == NoteMode(m, addr, thumb, strength)
           IN  Fresh(n) /\ DOMAIN n.candidates = DOMAIN m.candidates
<1> DEFINE n == NoteMode(m, addr, thumb, strength)
<1>1. ManagerOk(m)
  BY DEF Fresh
<1>2. CASE n = m
  BY <1>2
<1>3. CASE NoteResult(m, n, addr, thumb, strength)
  <2> HIDE DEF n
  <2>1. NoteEffect(m, n, addr, thumb, strength)
    BY <1>1, <1>3, NoteFacts
  <2>2. ManagerOk(n) /\ n.conflicts = {} /\ DOMAIN n.candidates = DOMAIN m.candidates
    BY <2>1 DEF NoteEffect, Fresh
  <2>3. IsThumb(n, addr) = thumb
    BY <2>1, <2>2, ModeFacts DEF NoteEffect
  <2>4. ASSUME NEW c \in DOMAIN m.candidates
        PROVE  n.candidates[c].thumb = IsThumb(n, c) /\ n.candidates[c].finished = FALSE
    <3>1. CASE c # addr
      <4>1. IsThumb(n, c) = IsThumb(m, c) /\ n.candidates[c] = m.candidates[c]
        BY <1>1, <2>1, <3>1, ModeFacts DEF NoteEffect
      <4> QED BY <4>1 DEF Fresh
    <3>2. CASE c = addr
      <4>1. NoteChanges(m, n, addr, thumb)
        BY <2>1, <3>2 DEF NoteEffect
      <4>2. m.candidates[addr].finished = FALSE /\ m.candidates[addr].thumb = IsThumb(m, addr)
        BY <3>2 DEF Fresh
      <4>3. CASE n.candidates[addr] = m.candidates[addr] /\ Unmoved(m, addr, thumb)
        <5>1. CASE addr \in DOMAIN m.modes /\ m.modes[addr].thumb = thumb
          <6>1. IsThumb(m, addr) = thumb
            BY <1>1, <5>1, ModeFacts
          <6> QED BY <2>3, <3>2, <4>2, <4>3, <6>1
        <5>2. CASE m.candidates[addr].thumb = thumb
          BY <2>3, <3>2, <4>2, <4>3, <5>2
        <5> QED BY <3>2, <4>2, <4>3, <5>1, <5>2 DEF Unmoved
      <4>4. CASE n.candidates[addr].thumb = thumb /\ n.candidates[addr].finished = FALSE
        BY <2>3, <3>2, <4>4
      <4> QED BY <4>1, <4>2, <4>3, <4>4 DEF NoteChanges
    <3> QED BY <3>1, <3>2
  <2> QED BY <2>2, <2>4 DEF Fresh, n
<1> QED BY <1>1, <1>2, <1>3, NoteCases

LEMMA FlagFresh ==
    ASSUME NEW m, Fresh(m), NEW addr \in Int, NEW c \in Candidate,
           c.thumb = IsThumb(m, addr), c.finished = FALSE
    PROVE  LET n == Updated(m, addr, c)
           IN  Fresh(n) /\ DOMAIN n.candidates = DOMAIN m.candidates \cup {addr}
<1> DEFINE n == Updated(m, addr, c)
<1>1. ManagerOk(m)
  BY DEF Fresh
<1>2. /\ ManagerOk(n)
      /\ n.modes = m.modes /\ n.conflicts = m.conflicts
      /\ DOMAIN n.candidates = DOMAIN m.candidates \cup {addr}
      /\ n.candidates[addr] = c
      /\ \A a \in DOMAIN m.candidates : a # addr => n.candidates[a] = m.candidates[a]
  BY <1>1, UpdatedFacts
<1> HIDE DEF n
<1>3. \A a : IsThumb(n, a) = IsThumb(m, a)
  BY <1>1, <1>2, ModeFacts
<1>4. Fresh(n)
  BY <1>2, <1>3 DEF Fresh
<1> QED BY <1>2, <1>4 DEF n

LEMMA EnsureFresh ==
    ASSUME NEW m, Fresh(m), Functions = {}, NEW addr \in Int
    PROVE  LET n == EnsureCandidate(m, addr)
           IN  /\ Fresh(n) /\ addr \in DOMAIN n.candidates
               /\ n.candidates[addr] \in Candidate /\ n.candidates[addr].finished = FALSE
               /\ n.candidates[addr].thumb = IsThumb(n, addr)
<1> DEFINE o == IF ~WordAligned(addr) /\ addr \notin DOMAIN m.modes
                THEN NoteMode(m, addr, TRUE, Decoded) ELSE m
           c == NewCandidate(IsThumb(o, addr))
           n == EnsureCandidate(m, addr)
<1>1. Fresh(o)
  <2>1. Fresh(NoteMode(m, addr, TRUE, Decoded))
    BY NoteFresh, Strength
  <2> QED BY <2>1
<1>2. DOMAIN o.candidates = DOMAIN m.candidates
  <2>1. DOMAIN NoteMode(m, addr, TRUE, Decoded).candidates = DOMAIN m.candidates
    BY NoteFresh, Strength
  <2> QED BY <2>1
<1>3. n = IF addr \in DOMAIN m.candidates THEN o ELSE Updated(o, addr, c)
  BY DEF EnsureCandidate
<1> HIDE DEF o
<1>4. c \in Candidate /\ c.thumb = IsThumb(o, addr) /\ c.finished = FALSE
  <2>1. IsThumb(o, addr) \in BOOLEAN
    BY ThumbBoolean
  <2> QED BY <2>1 DEF NewCandidate, Candidate
<1> HIDE DEF c
<1>5. /\ Fresh(Updated(o, addr, c))
      /\ DOMAIN Updated(o, addr, c).candidates = DOMAIN o.candidates \cup {addr}
  BY <1>1, <1>4, FlagFresh
<1> HIDE DEF n
<1>6. Fresh(n) /\ addr \in DOMAIN n.candidates
  BY <1>1, <1>2, <1>3, <1>5
<1>7. /\ n.candidates[addr] \in Candidate /\ n.candidates[addr].finished = FALSE
      /\ n.candidates[addr].thumb = IsThumb(n, addr)
  BY <1>6, CandidateFacts DEF Fresh
<1> QED BY <1>6, <1>7 DEF n

LEMMA DeclaredFresh ==
    ASSUME NEW m, Fresh(m), NEW addr
    PROVE  Fresh(DeclaredAt(m, addr)) /\ Fresh(Vouched(m, addr))
<1>1. m = [modes |-> m.modes, conflicts |-> m.conflicts, candidates |-> m.candidates,
           queue |-> m.queue, strong |-> m.strong, declared |-> m.declared, calls |-> m.calls]
  BY DEF Fresh, ManagerOk
<1>2. ASSUME NEW n, n = DeclaredAt(m, addr) \/ n = Vouched(m, addr)
      PROVE  Fresh(n)
  <2>1. /\ n.modes = m.modes /\ n.candidates = m.candidates /\ n.queue = m.queue
        /\ n.conflicts = m.conflicts /\ n.declared \subseteq n.strong
        /\ n = [modes |-> n.modes, conflicts |-> n.conflicts, candidates |-> n.candidates,
                queue |-> n.queue, strong |-> n.strong, declared |-> n.declared, calls |-> n.calls]
    <3>1. m.declared \subseteq m.strong
      BY DEF Fresh, ManagerOk
    <3>2. CASE n = Vouched(m, addr)
      BY <1>1, <3>1, <3>2 DEF Vouched
    <3>3. CASE n = DeclaredAt(m, addr)
      <4>1. n = [modes |-> m.modes, conflicts |-> m.conflicts, candidates |-> m.candidates,
                 queue |-> m.queue, strong |-> m.strong \cup {addr},
                 declared |-> m.declared \cup {addr}, calls |-> m.calls]
        BY <1>1, <3>3 DEF DeclaredAt
      <4> QED BY <3>1, <4>1
    <3> QED BY <1>2, <3>2, <3>3
  <2>2. ManagerOk(n)
    BY <2>1 DEF Fresh, ManagerOk
  <2>3. \A a : IsThumb(n, a) = IsThumb(m, a)
    BY <2>1, <2>2, ModeFacts DEF Fresh
  <2> QED BY <2>1, <2>2, <2>3 DEF Fresh
<1> QED BY <1>2

LEMMA AddReferenceFresh ==
    ASSUME NEW m, Fresh(m), Functions = {}, NEW addr \in Int, NEW source \in Int
    PROVE  Fresh(AddReferenceCandidate(m, addr, source))
<1> DEFINE e == EnsureCandidate(m, addr)
           c == [e.candidates[addr] EXCEPT !.refs = @ \cup {source}]
           u == Updated(e, addr, c)
           n == AddReferenceCandidate(m, addr, source)
<1>1. /\ Fresh(e) /\ addr \in DOMAIN e.candidates
      /\ e.candidates[addr] \in Candidate /\ e.candidates[addr].finished = FALSE
      /\ e.candidates[addr].thumb = IsThumb(e, addr)
  BY EnsureFresh
<1>2. n = [u EXCEPT !.calls = With(u.calls, source, addr)]
  BY DEF AddReferenceCandidate, AddRef
<1> HIDE DEF e
<1>3. c \in Candidate /\ c.thumb = IsThumb(e, addr) /\ c.finished = FALSE
  BY <1>1 DEF Candidate
<1> HIDE DEF c
<1>4. Fresh(u)
  BY <1>1, <1>3, FlagFresh
<1> HIDE DEF u, n
<1>5. u = [modes |-> u.modes, conflicts |-> u.conflicts, candidates |-> u.candidates,
           queue |-> u.queue, strong |-> u.strong, declared |-> u.declared, calls |-> u.calls]
  BY <1>4 DEF Fresh, ManagerOk
<1>6. /\ n.modes = u.modes /\ n.candidates = u.candidates /\ n.queue = u.queue
      /\ n.strong = u.strong /\ n.declared = u.declared /\ n.conflicts = u.conflicts
      /\ n = [modes |-> n.modes, conflicts |-> n.conflicts, candidates |-> n.candidates,
              queue |-> n.queue, strong |-> n.strong, declared |-> n.declared, calls |-> n.calls]
  BY <1>2, <1>5
<1>7. ManagerOk(n)
  BY <1>4, <1>6 DEF Fresh, ManagerOk
<1>8. \A a : IsThumb(n, a) = IsThumb(u, a)
  BY <1>4, <1>6, <1>7, ModeFacts DEF Fresh
<1>9. Fresh(n)
  BY <1>4, <1>6, <1>7, <1>8 DEF Fresh
<1> QED BY <1>9 DEF n

LEMMA AddExceptionFresh ==
    ASSUME NEW m, Fresh(m), Functions = {}, NEW addr \in Int
    PROVE  Fresh(AddExceptionCandidate(m, addr))
<1> DEFINE e == EnsureCandidate(m, addr)
           c == [e.candidates[addr] EXCEPT !.exception = TRUE]
           u == Updated(e, addr, c)
<1>1. /\ Fresh(e) /\ addr \in DOMAIN e.candidates
      /\ e.candidates[addr] \in Candidate /\ e.candidates[addr].finished = FALSE
      /\ e.candidates[addr].thumb = IsThumb(e, addr)
  BY EnsureFresh
<1>2. AddExceptionCandidate(m, addr) \in {m, u}
  BY Zenon DEF AddExceptionCandidate
<1> HIDE DEF e
<1>3. c \in Candidate /\ c.thumb = IsThumb(e, addr) /\ c.finished = FALSE
  BY <1>1 DEF Candidate
<1> HIDE DEF c
<1>4. Fresh(u)
  BY <1>1, <1>3, FlagFresh
<1> QED BY <1>2, <1>4

LEMMA AddSymbolFresh ==
    ASSUME NEW m, Fresh(m), Functions = {}, NEW value \in Int
    PROVE  Fresh(AddSymbolCandidate(m, value))
<1> DEFINE addr == Even(value)
           e == EnsureCandidate(m, addr)
           c == [e.candidates[addr] EXCEPT !.symbol = TRUE]
           u == Updated(e, addr, c)
           w == NoteMode(u, addr, TRUE, Decoded)
<1>1. addr \in Int
  BY DEF Even
<1>2. AddSymbolCandidate(m, value) \in {m, u, w}
  BY Zenon DEF AddSymbolCandidate
<1> HIDE DEF addr
<1>3. /\ Fresh(e) /\ addr \in DOMAIN e.candidates
      /\ e.candidates[addr] \in Candidate /\ e.candidates[addr].finished = FALSE
      /\ e.candidates[addr].thumb = IsThumb(e, addr)
  BY <1>1, EnsureFresh
<1> HIDE DEF e
<1>4. c \in Candidate /\ c.thumb = IsThumb(e, addr) /\ c.finished = FALSE
  BY <1>3 DEF Candidate
<1> HIDE DEF c
<1>5. Fresh(u)
  BY <1>1, <1>3, <1>4, FlagFresh
<1> HIDE DEF u
<1>6. Fresh(w)
  BY <1>1, <1>5, NoteFresh, Strength
<1> QED BY <1>2, <1>5, <1>6

LEMMA BookCallFresh ==
    ASSUME NEW m, Fresh(m), Functions = {}, NEW target \in Int, NEW thumb \in BOOLEAN,
           NEW source \in Int
    PROVE  Fresh(BookCall(m, target, thumb, source))
<1> DEFINE r == AddReferenceCandidate(m, target, source)
           w == NoteMode(r, target, thumb, Scanned)
<1>1. BookCall(m, target, thumb, source) \in {m, Vouched(w, target)}
  BY Zenon DEF BookCall
<1>2. Fresh(r)
  BY AddReferenceFresh
<1> HIDE DEF r
<1>3. Fresh(w)
  BY <1>2, NoteFresh, Strength
<1> HIDE DEF w
<1>4. Fresh(Vouched(w, target))
  BY <1>3, DeclaredFresh
<1> QED BY <1>1, <1>4

LEMMA BookPointerFresh ==
    ASSUME NEW m, Fresh(m), Functions = {}, NEW slot \in Int, img.words[slot] \in Int
    PROVE  Fresh(BookPointer(m, slot))
<1> DEFINE value == img.words[slot]
           target == Even(value)
           r == AddReferenceCandidate(m, target, slot)
           w == NoteMode(r, target, IsThumbBit(value), Decoded)
<1>1. BookPointer(m, slot) \in {m, w}
  BY Zenon DEF BookPointer
<1>2. target \in Int /\ IsThumbBit(value) \in BOOLEAN
  BY DEF Even, IsThumbBit
<1> HIDE DEF value, target
<1>3. Fresh(r)
  BY <1>2, AddReferenceFresh
<1> HIDE DEF r
<1>4. Fresh(w)
  BY <1>2, <1>3, NoteFresh, Strength
<1> QED BY <1>1, <1>4

LEMMA BookPrologueFresh ==
    ASSUME NEW m, Fresh(m), Functions = {}, NEW a \in Int
    PROVE  Fresh(BookPrologue(m, a))
<1> DEFINE thumb == TRUE \in ScanModes(a)
           e == EnsureCandidate(m, a)
           w == NoteMode(e, a, thumb, Scanned)
<1>1. BookPrologue(m, a) \in {m, w}
  BY Zenon DEF BookPrologue
<1>2. thumb \in BOOLEAN
  OBVIOUS
<1> HIDE DEF thumb
<1>3. Fresh(e)
  BY EnsureFresh
<1> HIDE DEF e
<1>4. Fresh(w)
  BY <1>2, <1>3, NoteFresh, Strength
<1> QED BY <1>1, <1>4

LEMMA UnwoundFresh ==
    ASSUME NEW m, Fresh(m), Functions = {}, NEW e \in [value : Int, opens : SUBSET BOOLEAN]
    PROVE  /\ Fresh(DeclareUnwound(m, e)) /\ Fresh(ReadOpening(m, e)) /\ Fresh(AddUnwound(m, e))
<1> DEFINE addr == Even(e.value)
<1>1. addr \in Int
  BY DEF Even
<1>2. Fresh(AddUnwound(m, e))
  BY <1>1, AddExceptionFresh DEF AddUnwound
<1>3. Fresh(DeclareUnwound(m, e))
  <2> DEFINE d == IF PassesCodeFilter(addr) THEN DeclaredAt(m, addr) ELSE m
  <2>1. DeclareUnwound(m, e) \in {d, NoteMode(d, addr, TRUE, Decoded)}
    BY Zenon DEF DeclareUnwound
  <2> HIDE DEF addr
  <2>2. Fresh(d)
    BY DeclaredFresh
  <2> HIDE DEF d
  <2>3. Fresh(NoteMode(d, addr, TRUE, Decoded))
    BY <1>1, <2>2, NoteFresh, Strength
  <2> QED BY <2>1, <2>2, <2>3
<1>4. Fresh(ReadOpening(m, e))
  <2> DEFINE thumb == TRUE \in (IF WordAligned(addr) THEN e.opens ELSE {TRUE})
  <2>1. ReadOpening(m, e) \in {m, NoteMode(m, addr, thumb, Scanned)}
    BY Zenon DEF ReadOpening
  <2>2. thumb \in BOOLEAN
    OBVIOUS
  <2> HIDE DEF addr, thumb
  <2>3. Fresh(NoteMode(m, addr, thumb, Scanned))
    BY <1>1, <2>2, NoteFresh, Strength
  <2> QED BY <2>1, <2>3
<1> QED BY <1>2, <1>3, <1>4

LEMMA StatedFresh ==
    ASSUME NEW m, Fresh(m), Functions = {}, NEW value \in Int
    PROVE  Fresh(StateSymbol(m, value)) /\ Fresh(StateEntry(m, value))
<1> DEFINE n == NoteMode(m, Even(value), IsThumbBit(value), Stated)
<1>1. Even(value) \in Int /\ IsThumbBit(value) \in BOOLEAN
  BY DEF Even, IsThumbBit
<1>2. Fresh(n)
  BY <1>1, NoteFresh, Strength
<1>3. StateSymbol(m, value) = DeclaredAt(n, Even(value)) /\ StateEntry(m, value) = n
  BY DEF StateSymbol, StateEntry
<1> HIDE DEF n
<1> QED BY <1>2, <1>3, DeclaredFresh

LEMMA CalledThumbBoolean ==
    ASSUME NEW kind, NEW thumb \in BOOLEAN
    PROVE  CalledThumb(kind, thumb) \in BOOLEAN
<1>1. CASE kind = "callx"
  BY <1>1 DEF CalledThumb
<1>2. CASE kind # "callx"
  BY <1>2 DEF CalledThumb
<1> QED BY <1>1, <1>2

(* What is left of a pass is of that pass.                                  *)
Reads == {"symbols", "entry", "candidates", "declared", "opened", "unwound", "references",
          "pointers", "prologues"}
WorkOk == pass \in Reads => work \subseteq Items(pass)

Read ==
    \/ ReadSymbol \/ ReadEntry \/ ReadCandidate \/ ReadDeclared \/ ReadOpened \/ ReadUnwound
    \/ ReadCall \/ ReadPointer \/ ReadPrologue

LEMMA ReadFresh ==
    ASSUME Fresh(fcm), Functions = {}, WorkOk, img \in Images, Read
    PROVE  /\ Fresh(fcm') /\ pass \in Reads /\ work' \subseteq work
           /\ UNCHANGED <<img, results, pass, frames, gapPtr, gaps, previous, cur, history>>
<1>1. CASE ReadSymbol
  <2>1. PICK n \in work : Reading("symbols", n) /\ fcm' = StateSymbol(fcm, img.symbols[n])
    BY <1>1, Zenon DEF ReadSymbol
  <2>2. n \in DOMAIN img.symbols
    BY <2>1 DEF WorkOk, Items, Reading, Reads
  <2>3. img.symbols[n] \in Int
    BY <2>2, ImageFacts
  <2> QED BY <2>1, <2>3, StatedFresh DEF Reading, Reads
<1>2. CASE ReadEntry
  <2>1. PICK n \in work : Reading("entry", n) /\ fcm' = StateEntry(fcm, img.entry[n])
    BY <1>2, Zenon DEF ReadEntry
  <2>2. n \in DOMAIN img.entry
    BY <2>1 DEF WorkOk, Items, Reading, Reads
  <2>3. img.entry[n] \in Int
    BY <2>2, ImageFacts
  <2> QED BY <2>1, <2>3, StatedFresh DEF Reading, Reads
<1>3. CASE ReadCandidate
  <2>1. PICK n \in work : Reading("candidates", n) /\ fcm' = AddSymbolCandidate(fcm, SymbolValues[n])
    BY <1>3, Zenon DEF ReadCandidate
  <2>2. n \in DOMAIN SymbolValues
    BY <2>1 DEF WorkOk, Items, Reading, Reads
  <2>3. SymbolValues \in Seq(Int)
    BY ImageFacts DEF SymbolValues
  <2>4. SymbolValues[n] \in Int
    BY <2>2, <2>3
  <2> QED BY <2>1, <2>4, AddSymbolFresh DEF Reading, Reads
<1>4. CASE ReadDeclared \/ ReadOpened \/ ReadUnwound
  <2>1. PICK p \in {"declared", "opened", "unwound"}, n \in work :
           /\ Reading(p, n)
           /\ fcm' \in {DeclareUnwound(fcm, img.exidx[n]), ReadOpening(fcm, img.exidx[n]),
                        AddUnwound(fcm, img.exidx[n])}
    BY <1>4, Zenon DEF ReadDeclared, ReadOpened, ReadUnwound
  <2>2. n \in DOMAIN img.exidx
    BY <2>1 DEF WorkOk, Items, Reading, Reads
  <2>3. img.exidx[n] \in [value : Int, opens : SUBSET BOOLEAN]
    <3> DEFINE S == [value : Int, opens : SUBSET BOOLEAN]
    <3>1. img.exidx \in Seq(S)
      BY ImageFacts
    <3> HIDE DEF S
    <3>2. img.exidx[n] \in S
      BY <2>2, <3>1
    <3> QED BY <3>2 DEF S
  <2> QED BY <2>1, <2>3, UnwoundFresh DEF Reading, Reads
<1>5. CASE ReadCall
  <2>1. PICK n \in work : Reading("references", n) /\ fcm' = BookCallAt(fcm, n)
    BY <1>5, Zenon DEF ReadCall
  <2>2. n \in Calls(TRUE) \cup Calls(FALSE)
    BY <2>1 DEF WorkOk, Items, Reading, Reads
  <2> DEFINE thumb == n \in Calls(TRUE)
             called == CalledThumb(At(thumb, n).kind, thumb)
  <2>3. n \in Int
    <3>1. n \in Addresses
      BY <2>2, Zenon DEF Calls, ScannedAs
    <3> QED BY <3>1, ImageFacts
  <2>7. thumb \in BOOLEAN
    OBVIOUS
  <2>4. called \in BOOLEAN
    BY <2>7, CalledThumbBoolean
  <2>5. fcm' = BookCall(fcm, At(thumb, n).target, called, n)
    BY <2>1, Zenon DEF BookCallAt
  <2> HIDE DEF thumb, called
  <2>6. At(thumb, n).target \in Int
    BY <2>7, InstructionFacts, Zenon
  <2>8. Fresh(fcm')
    BY <2>3, <2>4, <2>5, <2>6, BookCallFresh
  <2> QED BY <2>1, <2>8 DEF Reading, Reads
<1>6. CASE ReadPointer
  <2>1. PICK n \in work : Reading("pointers", n) /\ fcm' = BookPointer(fcm, n)
    BY <1>6, Zenon DEF ReadPointer
  <2>2. n \in DOMAIN img.words
    BY <2>1 DEF WorkOk, Items, Reading, Reads, PointerSlots
  <2>3. n \in Int /\ img.words[n] \in Int
    BY <2>2, ImageFacts
  <2> QED BY <2>1, <2>3, BookPointerFresh DEF Reading, Reads
<1>7. CASE ReadPrologue
  <2>1. PICK n \in work : Reading("prologues", n) /\ fcm' = BookPrologue(fcm, n)
    BY <1>7, Zenon DEF ReadPrologue
  <2>2. n \in Pushes
    BY <2>1 DEF WorkOk, Items, Reading, Reads
  <2>3. n \in Int
    BY <2>2, ImageFacts DEF Pushes, ScannedAs
  <2> QED BY <2>1, <2>3, BookPrologueFresh DEF Reading, Reads
<1> QED BY <1>1, <1>2, <1>3, <1>4, <1>5, <1>6, <1>7 DEF Read

-----------------------------------------------------------------------------
(* The calls in progress. *)

Phases == {"decode", "restore", "restored"}

Frame ==
    [start : Int, thumb : BOOLEAN, gap : BOOLEAN, queue : Seq(Int), seen : SUBSET Int, at : Int,
     prev : Int, ins : SUBSET Int, bytes : SUBSET Int, current : BOOLEAN, blocks : Int,
     zeros : 0..1, sane : BOOLEAN, data : SUBSET Int, repeated : BOOLEAN, reverted : Seq(Int),
     phase : Phases]

(* A frame of entries that are candidates. *)
FrameOf(D) ==
    {f \in Frame : /\ f.ins \subseteq f.bytes /\ f.ins \subseteq Addresses
                   /\ f.start \in D /\ f.reverted \in Seq(D)
                   /\ f.phase = "restored" => f.reverted # <<>>}

LEMMA FrameParts ==
    ASSUME NEW D, NEW f \in FrameOf(D)
    PROVE  /\ f.start \in Int /\ f.thumb \in BOOLEAN /\ f.gap \in BOOLEAN /\ f.queue \in Seq(Int)
           /\ f.seen \subseteq Int /\ f.at \in Int /\ f.prev \in Int /\ f.ins \subseteq f.bytes
           /\ f.bytes \subseteq Int /\ f.sane \in BOOLEAN /\ f.data \subseteq Int /\ f.zeros \in 0..1
           /\ f.repeated \in BOOLEAN /\ f.reverted \in Seq(D) /\ f.phase \in Phases
           /\ f.start \in D /\ f.ins \subseteq Addresses /\ f.blocks \in Int
BY DEF FrameOf, Frame

LEMMA FramesGrow ==
    ASSUME NEW D, NEW E, D \subseteq E, NEW q \in Seq(FrameOf(D))
    PROVE  q \in Seq(FrameOf(E))
<1>1. \A f \in FrameOf(D) : f.reverted \in Seq(E)
  <2>1. Seq(D) \subseteq Seq(E)
    OBVIOUS
  <2> QED BY <2>1 DEF FrameOf
<1>2. FrameOf(D) \subseteq FrameOf(E)
  BY <1>1 DEF FrameOf
<1> HIDE DEF FrameOf
<1> QED BY <1>2

LEMMA ReplaceTop ==
    ASSUME NEW S, NEW q \in Seq(S), q # <<>>, NEW f \in S, NEW r,
           r = [q EXCEPT ![Len(q)] = f]
    PROVE  /\ r \in Seq(S) /\ r # <<>> /\ Len(r) = Len(q) /\ r[Len(r)] = f
           /\ \A k \in 1..(Len(q) - 1) : r[k] = q[k]
<1>1. Len(q) \in Nat /\ Len(q) \in 1..Len(q)
  OBVIOUS
<1>2. /\ r \in Seq(S) /\ Len(r) = Len(q)
      /\ \A j \in 1..Len(q) : r[j] = IF j = Len(q) THEN f ELSE q[j]
  BY <1>1, ExceptSeq
<1>3. r # <<>> /\ r[Len(r)] = f
  <2>1. r[Len(r)] = f
    BY <1>1, <1>2
  <2>2. Len(r) # 0
    BY <1>1, <1>2
  <2> QED BY <2>1, <2>2, EmptySeq
<1>4. ASSUME NEW k \in 1..(Len(q) - 1)
      PROVE  r[k] = q[k]
  <2>1. k \in 1..Len(q) /\ k # Len(q)
    BY <1>1
  <2> QED BY <1>2, <2>1
<1> QED BY <1>2, <1>3, <1>4

LEMMA PushTop ==
    ASSUME NEW S, NEW q \in Seq(S), q # <<>>, NEW f \in S, NEW c \in S, NEW r,
           r = Append([q EXCEPT ![Len(q)] = f], c)
    PROVE  /\ r \in Seq(S) /\ r # <<>> /\ Len(r) = Len(q) + 1 /\ r[Len(r)] = c /\ r[Len(q)] = f
           /\ \A k \in 1..(Len(q) - 1) : r[k] = q[k]
<1> DEFINE p == [q EXCEPT ![Len(q)] = f]
<1>1. /\ p \in Seq(S) /\ Len(p) = Len(q) /\ p[Len(p)] = f
      /\ \A k \in 1..(Len(q) - 1) : p[k] = q[k]
  BY ReplaceTop
<1>2. r = Append(p, c) /\ Len(q) \in Nat /\ Len(q) >= 1
  OBVIOUS
<1> HIDE DEF p
<1> QED BY <1>1, <1>2, AppendProperties

LEMMA PopTop ==
    ASSUME NEW S, NEW q \in Seq(S), q # <<>>, NEW r, r = Front(q)
    PROVE  /\ r \in Seq(S) /\ Len(r) = Len(q) - 1 /\ Len(q) >= 1
           /\ r = <<>> \/ Len(r) >= 1
           /\ \A k \in 1..Len(r) : r[k] = q[k]
<1>1. Len(q) >= 1 /\ r = SubSeq(q, 1, Len(q) - 1)
  BY DEF Front
<1>2. /\ r \in Seq(S) /\ Len(r) = Len(q) - 1
      /\ \A k \in 1..(Len(q) - 1) : r[k] = q[k]
  <2>1. \A i \in 1..(Len(q) - 1) : q[i] \in S
    OBVIOUS
  <2>2. /\ SubSeq(q, 1, Len(q) - 1) \in Seq(S)
        /\ Len(SubSeq(q, 1, Len(q) - 1)) = IF 1 <= Len(q) - 1 THEN Len(q) - 1 - 1 + 1 ELSE 0
        /\ \A i \in 1..(Len(q) - 1 - 1 + 1) : SubSeq(q, 1, Len(q) - 1)[i] = q[1 + i - 1]
    BY <1>1, <2>1, SubSeqProperties
  <2>3. Len(q) \in Nat
    OBVIOUS
  <2>4. r \in Seq(S)
    BY <1>1, <2>2
  <2>5. Len(r) = Len(q) - 1
    <3> DEFINE n == Len(q)
               l == Len(r)
    <3>1. l = IF 1 <= n - 1 THEN n - 1 - 1 + 1 ELSE 0
      BY <1>1, <2>2
    <3>2. n \in Nat /\ n >= 1
      BY <1>1, <2>3
    <3> HIDE DEF n, l
    <3>3. l = n - 1
      BY <3>1, <3>2
    <3> QED BY <3>3 DEF n, l
  <2>6. ASSUME NEW k \in 1..(Len(q) - 1)
        PROVE  r[k] = q[k]
    <3>1. k \in 1..(Len(q) - 1 - 1 + 1) /\ 1 + k - 1 = k
      BY <2>3
    <3>2. SubSeq(q, 1, Len(q) - 1)[k] = q[1 + k - 1]
      BY <2>2, <3>1
    <3> QED BY <1>1, <3>1, <3>2
  <2> QED BY <2>4, <2>5, <2>6
<1>3. ASSUME r # <<>>
      PROVE  Len(r) >= 1
  <2>1. Len(r) \in Nat \ {0}
    BY <1>2, <1>3, EmptySeq
  <2> QED BY <2>1
<1> QED BY <1>1, <1>2, <1>3

LEMMA Appended ==
    ASSUME NEW S, NEW q \in Seq(S), NEW e \in S
    PROVE  Append(q, e) \in Seq(S) /\ Append(q, e) # <<>>
<1>1. Append(q, e) \in Seq(S) /\ Append(q, e) # <<>>
  BY AppendProperties
<1> QED BY <1>1

(* What a step of a walk leaves as it was in the frame.                     *)
Carries(D, f, g) ==
    /\ g \in FrameOf(D)
    /\ g.start = f.start /\ g.thumb = f.thumb /\ g.gap = f.gap /\ g.repeated = f.repeated
    /\ g.phase = f.phase /\ g.reverted = f.reverted /\ g.ins = f.ins /\ g.bytes = f.bytes
    /\ f.data \subseteq g.data

LEMMA CarriesOn ==
    ASSUME NEW D, NEW f, NEW g, NEW h, Carries(D, f, g), Carries(D, g, h)
    PROVE  Carries(D, f, h)
BY DEF Carries

LEMMA EndBlockCarries ==
    ASSUME NEW D, NEW f \in FrameOf(D)
    PROVE  Carries(D, f, EndBlock(f)) /\ EndBlock(f).at = NoAddr /\ EndBlock(f).prev = NoAddr
<1> DEFINE blocks == IF f.current THEN f.blocks + 1 ELSE f.blocks
<1>1. EndBlock(f) = [f EXCEPT !.blocks = blocks, !.current = FALSE, !.at = NoAddr, !.prev = NoAddr]
  BY DEF EndBlock
<1>2. blocks \in Int /\ NoAddr \in Int
  BY FrameParts DEF NoAddr
<1> HIDE DEF blocks
<1> QED BY <1>1, <1>2 DEF Carries, FrameOf, Frame

LEMMA SaneCarries ==
    ASSUME NEW D, NEW f \in FrameOf(D)
    PROVE  Carries(D, f, Sane(f)) /\ Sane(f).at = f.at /\ Sane(f).prev = f.prev
BY DEF Sane, Carries, FrameOf, Frame

LEMMA AddBlockCarries ==
    ASSUME NEW D, NEW f \in FrameOf(D), NEW addr \in Int
    PROVE  /\ Carries(D, f, AddBlock(f, addr))
           /\ AddBlock(f, addr).at = f.at /\ AddBlock(f, addr).prev = f.prev
<1> DEFINE queue == Append(f.queue, addr)
           seen == f.seen \cup {addr}
           g == [f EXCEPT !.queue = queue, !.seen = seen]
<1>1. queue \in Seq(Int) /\ seen \in SUBSET Int
  BY FrameParts
<1>2. AddBlock(f, addr) \in {f, g}
  BY Zenon DEF AddBlock
<1> HIDE DEF queue, seen
<1>3. Carries(D, f, g) /\ g.at = f.at /\ g.prev = f.prev
  BY <1>1 DEF Carries, FrameOf, Frame
<1>4. Carries(D, f, f)
  BY DEF Carries
<1> QED BY <1>2, <1>3, <1>4

LEMMA HereFacts ==
    ASSUME img \in Images, NEW D, Top \in FrameOf(D), AtInstruction
    PROVE  /\ Top.at \in Addresses /\ Top.at \in Int /\ Here.target \in Int /\ Here.size \in {2, 4}
           /\ HereBytes \subseteq Int /\ Top.at \in HereBytes /\ NextAddr(Top) \in Int
           /\ NextAddr(Top) = Top.at + Here.size
<1>1. Top.thumb \in BOOLEAN /\ Top.at \in Int
  BY FrameParts
<1>2. /\ Here.target \in Int /\ Here.size \in {2, 4}
      /\ Here.kind # "none" => Top.at \in Addresses
  BY <1>1, InstructionFacts, Zenon DEF Here, InsAt
<1>3. HereBytes \subseteq Int /\ Top.at \in HereBytes
  BY <1>1, <1>2 DEF HereBytes, Span
<1>4. NextAddr(Top) = Top.at + Here.size
  BY DEF NextAddr, Here
<1> QED BY <1>1, <1>2, <1>3, <1>4 DEF AtInstruction

(* An instruction is classified: the frame has counted it and read its pool *)
(* word.                                                                    *)
LEMMA SeenCarries ==
    ASSUME img \in Images, NEW D, Top \in FrameOf(D), Classifying
    PROVE  Carries(D, Top, Seen) /\ Seen.at = Top.at /\ Seen.prev = Top.prev
<1> DEFINE c == Counted(Top)
           data == c.data \cup Span(Here.target, 4)
<1>1. Here.target \in Int
  BY HereFacts DEF Classifying
<1>2. Carries(D, Top, c) /\ c.at = Top.at /\ c.prev = Top.prev
  <2>1. CASE Here.kind # "zero"
    BY <2>1 DEF Counted, Carries
  <2>2. CASE Here.kind = "zero"
    <3>1. Top.zeros = 0
      BY <2>2, FrameParts DEF Classifying, SecondZero
    <3>2. c = [Top EXCEPT !.zeros = 1]
      BY <2>2, <3>1 DEF Counted
    <3> DEFINE t == Top
    <3>3. c = [t EXCEPT !.zeros = 1] /\ t \in FrameOf(D)
      BY <3>2
    <3> HIDE DEF c, t
    <3>5. t \in Frame
      BY <3>3 DEF FrameOf
    <3>6. /\ c \in Frame
          /\ c.at = t.at /\ c.prev = t.prev /\ c.start = t.start /\ c.thumb = t.thumb
          /\ c.gap = t.gap /\ c.repeated = t.repeated /\ c.phase = t.phase
          /\ c.reverted = t.reverted /\ c.ins = t.ins /\ c.bytes = t.bytes /\ c.data = t.data
      BY <3>3, <3>5 DEF Frame
    <3>4. Carries(D, t, c) /\ c.at = t.at /\ c.prev = t.prev
      BY <3>3, <3>6 DEF Carries, FrameOf
    <3> QED BY <3>4 DEF t
  <2> QED BY <2>1, <2>2
<1>3. Seen = IF Here.kind = "lit" /\ Here.target \in Addresses THEN [c EXCEPT !.data = data] ELSE c
  BY DEF Seen, PoolRead
<1> HIDE DEF c
<1>4. c \in FrameOf(D)
  BY <1>2 DEF Carries
<1>5. data \in SUBSET Int /\ c.data \subseteq data
  BY <1>1, <1>4, FrameParts DEF Span
<1> HIDE DEF data
<1>6. Carries(D, c, c) /\ Carries(D, c, [c EXCEPT !.data = data])
  BY <1>4, <1>5 DEF Carries, FrameOf, Frame
<1>7. [c EXCEPT !.data = data].at = c.at /\ [c EXCEPT !.data = data].prev = c.prev
  BY <1>4 DEF FrameOf, Frame
<1>8. Carries(D, c, Seen) /\ Seen.at = c.at /\ Seen.prev = c.prev
  BY <1>3, <1>6, <1>7
<1> QED BY <1>2, <1>8, CarriesOn

LEMMA NotedFollows ==
    ASSUME img \in Images, ManagerOk(fcm), Stands(fcm), NEW D, Top \in FrameOf(D), Classifying
    PROVE  Follows(fcm, Noted)
<1> DEFINE value == img.words[Here.target]
<1>1. Noted = fcm \/ (Here.target \in DOMAIN img.words /\ Noted = AddPointerCandidate(fcm, value, Top.at))
  BY Zenon DEF Noted, PointerRead
<1>2. CASE Noted = fcm
  BY <1>2, FollowsItself
<1>3. CASE Here.target \in DOMAIN img.words /\ Noted = AddPointerCandidate(fcm, value, Top.at)
  <2>1. value \in Int
    BY <1>3, ImageFacts
  <2>2. Top.at \in Int
    BY FrameParts
  <2> HIDE DEF value
  <2> QED BY <1>3, <2>1, <2>2, AddPointerCandidateFollows
<1> QED BY <1>1, <1>2, <1>3

(* What a step within a walk changes: nothing is booked; the instruction is *)
(* booked; or it is booked over a gap function, which is undone.            *)
Keeps(g) ==
    /\ g \in FrameOf(DOMAIN fcm.candidates)
    /\ g.start = Top.start /\ g.thumb = Top.thumb /\ g.gap = Top.gap
    /\ g.repeated = Top.repeated /\ g.phase = Top.phase /\ Top.data \subseteq g.data

Books(g) ==
    Classifying /\ Seen.data \subseteq g.data /\ g.ins = Top.ins \cup {Top.at} /\ g.bytes = Top.bytes \cup HereBytes

Passing(g) ==
    /\ g.reverted = Top.reverted /\ g.ins = Top.ins /\ g.bytes = Top.bytes
    /\ UNCHANGED dis /\ Follows(fcm, fcm')

Booking(g) ==
    /\ g.reverted = Top.reverted /\ Books(g)
    /\ ~IsCode(Top.at) /\ Top.at \notin dis.dataMap \cup Top.bytes
    /\ UNCHANGED dis /\ Follows(fcm, fcm')

Undoing(g) ==
    /\ Books(g) /\ IsCode(Top.at) /\ ~Top.gap
    /\ \E fn \in Functions : \E m :
          /\ GapOwner(Top.at) = {fn} /\ fn = dis.ins2fn[Top.at] /\ fn # Top.start
          /\ dis' = Ungapped(dis, {fn}) /\ Follows(fcm, m) /\ fcm' = Aborted(m, fn)
          /\ g.reverted = Append(Top.reverted, fn)

WalkStep ==
    /\ Decoding /\ UNCHANGED <<img, meta, pools, undone, pass, scan, history>>
    /\ \E g : Update(g) /\ Keeps(g) /\ (Passing(g) \/ Booking(g) \/ Undoing(g))

LEMMA BookedFacts ==
    ASSUME img \in Images, NEW D, Top \in FrameOf(D), AtInstruction,
           NEW f \in FrameOf(D), f.at = Top.at, f.thumb = Top.thumb, NEW ends \in BOOLEAN
    PROVE  LET g == Followed(Booked(f), ends)
           IN  /\ g \in FrameOf(D) /\ g.start = f.start /\ g.thumb = f.thumb /\ g.gap = f.gap
               /\ g.repeated = f.repeated /\ g.phase = f.phase /\ g.reverted = f.reverted
               /\ g.data = f.data \/ f.data \subseteq g.data
               /\ g.ins = f.ins \cup {Top.at} /\ g.bytes = f.bytes \cup HereBytes
               /\ g.at = IF ends THEN NoAddr ELSE NextAddr(Top)
               /\ g.prev = IF ends THEN NoAddr ELSE Top.at
<1> DEFINE ins == f.ins \cup {Top.at}
           bytes == f.bytes \cup HereBytes
           b == [f EXCEPT !.ins = ins, !.bytes = bytes, !.current = TRUE]
           g == Followed(Booked(f), ends)
           next == NextAddr(b)
<1>1. /\ ins \subseteq Addresses /\ ins \subseteq bytes /\ bytes \in SUBSET Int /\ ins \in SUBSET Int
  BY HereFacts, FrameParts, ImageFacts
<1>2. Booked(f) = b
  BY DEF Booked
<1>3. g = IF ends THEN EndBlock(b) ELSE [b EXCEPT !.prev = b.at, !.at = next]
  BY <1>2 DEF Followed
<1> HIDE DEF ins, bytes, g
<1>4. /\ b \in FrameOf(D) /\ b.ins = ins /\ b.bytes = bytes /\ b.at = Top.at
      /\ b.start = f.start /\ b.thumb = f.thumb /\ b.gap = f.gap
      /\ b.repeated = f.repeated /\ b.phase = f.phase /\ b.reverted = f.reverted /\ b.data = f.data
  BY <1>1 DEF FrameOf, Frame
<1> HIDE DEF b
<1>5. next = NextAddr(Top) /\ next \in Int
  BY <1>4, HereFacts DEF NextAddr, InsAt
<1> HIDE DEF next
<1>6. CASE ends
  <2>1. g = EndBlock(b)
    BY <1>3, <1>6
  <2>2. Carries(D, b, g) /\ g.at = NoAddr /\ g.prev = NoAddr
    BY <1>4, <2>1, EndBlockCarries
  <2> QED BY <1>4, <1>6, <2>2 DEF Carries, g, ins, bytes
<1>7. CASE ~ends
  <2>1. g = [b EXCEPT !.prev = b.at, !.at = next]
    BY <1>3, <1>7
  <2>2. b.at \in Int
    BY <1>4, FrameParts
  <2>3. Carries(D, b, g) /\ g.at = next /\ g.prev = b.at
    BY <1>4, <1>5, <2>1, <2>2 DEF Carries, FrameOf, Frame
  <2> QED BY <1>4, <1>5, <1>7, <2>3 DEF Carries, g, ins, bytes
<1> QED BY <1>6, <1>7

LEMMA GapOwnerFacts ==
    ASSUME NEW addr, GapOwner(addr) # {}
    PROVE  \E fn \in Functions :
              /\ GapOwner(addr) = {fn} /\ fn = dis.ins2fn[addr] /\ fn # Top.start
              /\ fn \in DOMAIN fcm.candidates /\ addr \in DOMAIN dis.ins2fn
<1>1. PICK fn \in GapOwner(addr) : TRUE
  OBVIOUS
<1>2. \A g \in GapOwner(addr) : /\ g = dis.ins2fn[addr] /\ addr \in DOMAIN dis.ins2fn
                                /\ g \in Functions /\ g # Top.start /\ g \in DOMAIN fcm.candidates
  BY DEF GapOwner
<1> QED BY <1>1, <1>2

LEMMA BookStep ==
    ASSUME img \in Images, ManagerOk(fcm), Stands(fcm), Top \in FrameOf(DOMAIN fcm.candidates),
           Classifying, NEW f, Carries(DOMAIN fcm.candidates, Top, f), f.at = Top.at,
           Seen.data \subseteq f.data,
           NEW m, Follows(fcm, m), NEW ends \in BOOLEAN, Book(f, m, ends),
           UNCHANGED <<img, pass, meta, pools, undone, scan, history>>
    PROVE  WalkStep
<1> DEFINE D == DOMAIN fcm.candidates
           owner == IF Top.gap THEN {} ELSE GapOwner(Top.at)
           fn == CHOOSE x \in owner : TRUE
           r == [f EXCEPT !.reverted = Append(f.reverted, fn)]
           h == Followed(Booked(r), ends)
           g == Followed(Booked(f), ends)
           e == EndBlock(f)
<1>0. Decoding /\ AtInstruction /\ f \in FrameOf(D)
  BY DEF Classifying, AtInstruction, Carries
<1>1. \/ IsCode(Top.at) /\ owner # {} /\ Update(h) /\ dis' = Ungapped(dis, owner) /\ fcm' = Aborted(m, fn)
      \/ fcm' = m /\ UNCHANGED dis /\ Update(e)
      \/ /\ fcm' = m /\ UNCHANGED dis /\ Update(g)
         /\ ~(IsCode(Top.at) \/ Top.at \in dis.dataMap \cup Top.bytes)
  BY Zenon DEF Book
<1>2. CASE fcm' = m /\ UNCHANGED dis /\ Update(e)
  <2>1. Carries(D, f, e)
    BY <1>0, EndBlockCarries
  <2>2. Carries(D, Top, e)
    BY <2>1, CarriesOn
  <2> HIDE DEF e
  <2>3. Keeps(e) /\ Passing(e)
    BY <1>2, <2>2 DEF Carries, Keeps, Passing
  <2> QED BY <1>0, <1>2, <2>3 DEF WalkStep
<1>3. CASE /\ fcm' = m /\ UNCHANGED dis /\ Update(g)
           /\ ~(IsCode(Top.at) \/ Top.at \in dis.dataMap \cup Top.bytes)
  <2>1. /\ g \in FrameOf(D) /\ g.start = f.start /\ g.thumb = f.thumb /\ g.gap = f.gap
        /\ g.repeated = f.repeated /\ g.phase = f.phase /\ g.reverted = f.reverted
        /\ f.data \subseteq g.data
        /\ g.ins = f.ins \cup {Top.at} /\ g.bytes = f.bytes \cup HereBytes
    BY <1>0, BookedFacts DEF Carries
  <2> HIDE DEF g
  <2>2. Keeps(g) /\ Booking(g)
    BY <1>3, <2>1 DEF Carries, Keeps, Booking, Books
  <2> QED BY <1>0, <1>3, <2>2 DEF WalkStep
<1>4. CASE /\ IsCode(Top.at) /\ owner # {} /\ Update(h) /\ dis' = Ungapped(dis, owner)
           /\ fcm' = Aborted(m, fn)
  <2>1. ~Top.gap /\ owner = GapOwner(Top.at)
    BY <1>4
  <2>2. PICK o \in Functions : /\ owner = {o} /\ o = dis.ins2fn[Top.at] /\ o # Top.start
                               /\ o \in D
    BY <1>4, <2>1, GapOwnerFacts
  <2>3. fn = o
    BY <2>2
  <2> HIDE DEF fn, owner
  <2>4. /\ r \in FrameOf(D) /\ r.at = f.at /\ r.thumb = f.thumb
        /\ r.start = f.start /\ r.gap = f.gap /\ r.repeated = f.repeated /\ r.phase = f.phase
        /\ r.reverted = Append(f.reverted, fn) /\ r.data = f.data /\ r.ins = f.ins
        /\ r.bytes = f.bytes
    <3> DEFINE reverted == Append(f.reverted, fn)
    <3>1. reverted \in Seq(D) /\ reverted \in Seq(Int) /\ reverted # <<>>
      <4>1. fn \in D /\ fn \in Int
        BY <2>2, <2>3, CandidateFacts
      <4>2. f.reverted \in Seq(D) /\ f.reverted \in Seq(Int)
        BY <1>0 DEF FrameOf, Frame
      <4>3. reverted \in Seq(D) /\ reverted # <<>>
        BY <4>1, <4>2, Appended
      <4>4. reverted \in Seq(Int)
        BY <4>1, <4>2, Appended
      <4> QED BY <4>3, <4>4
    <3> HIDE DEF reverted
    <3>2. r = [f EXCEPT !.reverted = reverted]
      BY DEF reverted
    <3>3. f \in Frame
      BY <1>0 DEF FrameOf
    <3> HIDE DEF r
    <3>4. /\ r \in Frame /\ r.at = f.at /\ r.thumb = f.thumb
          /\ r.start = f.start /\ r.gap = f.gap /\ r.repeated = f.repeated /\ r.phase = f.phase
          /\ r.reverted = reverted /\ r.data = f.data /\ r.ins = f.ins
          /\ r.bytes = f.bytes
      BY <3>1, <3>2, <3>3 DEF Frame
    <3> QED BY <1>0, <3>1, <3>4 DEF FrameOf, reverted
  <2> HIDE DEF r
  <2>5. r.at = Top.at /\ r.thumb = Top.thumb
    BY <2>4 DEF Carries
  <2>6. /\ h \in FrameOf(D) /\ h.start = r.start /\ h.thumb = r.thumb /\ h.gap = r.gap
        /\ h.repeated = r.repeated /\ h.phase = r.phase /\ h.reverted = r.reverted
        /\ r.data \subseteq h.data
        /\ h.ins = r.ins \cup {Top.at} /\ h.bytes = r.bytes \cup HereBytes
    BY <1>0, <2>4, <2>5, BookedFacts
  <2> HIDE DEF h
  <2>7. Keeps(h)
    BY <2>4, <2>6 DEF Carries, Keeps
  <2>8. h.reverted = Append(Top.reverted, o) /\ Books(h)
    BY <2>3, <2>4, <2>6 DEF Carries, Books
  <2>9. GapOwner(Top.at) = {o} /\ dis' = Ungapped(dis, {o}) /\ fcm' = Aborted(m, o)
    BY <1>4, <2>1, <2>2, <2>3 DEF owner
  <2>10. Undoing(h)
    BY <1>4, <2>1, <2>2, <2>8, <2>9 DEF Undoing
  <2> QED BY <1>0, <1>4, <2>7, <2>10 DEF WalkStep
<1> QED BY <1>1, <1>2, <1>3, <1>4

Ready ==
    /\ img \in Images /\ ManagerOk(fcm) /\ Stands(fcm)
    /\ Top \in FrameOf(DOMAIN fcm.candidates)

OnTop(f) ==
    /\ Carries(DOMAIN fcm.candidates, Top, f) /\ f.at = Top.at /\ f.prev = Top.prev
    /\ Seen.data \subseteq f.data

LEMMA OnTopStays ==
    ASSUME NEW f, OnTop(f), NEW addr \in Int
    PROVE  OnTop(Sane(f)) /\ OnTop(AddBlock(f, addr))
<1> DEFINE D == DOMAIN fcm.candidates
           s == Sane(f)
           a == AddBlock(f, addr)
<1>1. f \in FrameOf(D)
  BY DEF OnTop, Carries
<1>2. /\ Carries(D, f, s) /\ s.at = f.at /\ s.prev = f.prev
      /\ Carries(D, f, a) /\ a.at = f.at /\ a.prev = f.prev
  BY <1>1, SaneCarries, AddBlockCarries
<1> HIDE DEF s, a
<1>3. OnTop(s)
  BY <1>2, CarriesOn DEF OnTop, Carries
<1>4. OnTop(a)
  BY <1>2, CarriesOn DEF OnTop, Carries
<1> QED BY <1>3, <1>4 DEF s, a

LEMMA ClassifyStep ==
    ASSUME Ready, NEW kinds, Classify(kinds), NEW f, OnTop(f), NEW m, Follows(fcm, m),
           NEW ends \in BOOLEAN, Book(f, m, ends)
    PROVE  WalkStep
BY BookStep DEF Ready, OnTop, Classify

LEMMA ClassifyFacts ==
    ASSUME Ready, NEW kinds, Classify(kinds)
    PROVE  /\ OnTop(Seen) /\ OnTop(Sane(Seen)) /\ Follows(fcm, Noted)
           /\ ManagerOk(Noted) /\ Stands(Noted)
           /\ Here.target \in Int /\ NextAddr(Top) \in Int /\ Top.at \in Int
           /\ Top.thumb \in BOOLEAN
<1>1. Classifying /\ AtInstruction
  BY DEF Classify, Classifying
<1>2. OnTop(Seen)
  BY <1>1, SeenCarries DEF Ready, OnTop
<1>3. OnTop(Sane(Seen))
  <2>1. 0 \in Int
    OBVIOUS
  <2> QED BY <1>2, <2>1, OnTopStays
<1>4. Follows(fcm, Noted)
  BY <1>1, NotedFollows DEF Ready
<1>5. Here.target \in Int /\ NextAddr(Top) \in Int /\ Top.at \in Int
  BY <1>1, HereFacts DEF Ready
<1>6. Top.thumb \in BOOLEAN
  BY FrameParts DEF Ready
<1> QED BY <1>2, <1>3, <1>4, <1>5, <1>6, FollowsOk DEF Ready

LEMMA BookInsSteps ==
    ASSUME Ready, BookIns
    PROVE  WalkStep
<1>1. CASE BookPlain
  <2> DEFINE kinds == {"op", "zero", "nop", "push", "unlink", "lit"}
  <2>1. Classify(kinds) /\ Book(Seen, Noted, FALSE)
    BY <1>1 DEF BookPlain
  <2> HIDE DEF kinds
  <2>2. OnTop(Seen) /\ Follows(fcm, Noted)
    BY <2>1, ClassifyFacts
  <2> QED BY <2>1, <2>2, ClassifyStep
<1>2. CASE BookEnd
  <2> DEFINE kinds == {"ret", "trap"}
  <2>1. Classify(kinds) /\ Book(Sane(Seen), Noted, TRUE)
    BY <1>2 DEF BookEnd
  <2> HIDE DEF kinds
  <2>2. OnTop(Sane(Seen)) /\ Follows(fcm, Noted)
    BY <2>1, ClassifyFacts
  <2> QED BY <2>1, <2>2, ClassifyStep
<1>3. CASE BookBranchOut
  <2> DEFINE kinds == {"jmp", "cond"}
             f == IF Here.kind = "cond" THEN AddBlock(Seen, NextAddr(Top)) ELSE Seen
  <2>1. Classify(kinds) /\ Book(f, Noted, TRUE)
    BY <1>3 DEF BookBranchOut
  <2> HIDE DEF kinds
  <2>2. OnTop(Seen) /\ Follows(fcm, Noted) /\ NextAddr(Top) \in Int
    BY <2>1, ClassifyFacts
  <2>3. OnTop(AddBlock(Seen, NextAddr(Top)))
    BY <2>2, OnTopStays
  <2>4. OnTop(f)
    BY <2>2, <2>3
  <2> HIDE DEF f
  <2> QED BY <2>1, <2>2, <2>4, ClassifyStep
<1>4. CASE BookJump
  <2> DEFINE kinds == {"jmp"}
             target == Here.target
  <2>1. /\ Classify(kinds)
        /\ \/ Book(Sane(Seen), Noted, TRUE)
           \/ Book(Sane(Seen), NoteMode(Noted, target, Top.thumb, Decoded), TRUE)
           \/ Book(Sane(Seen), AddTailcallCandidate(Noted, target, Top.thumb), TRUE)
           \/ Book(AddBlock(Seen, target), Noted, TRUE)
    BY <1>4, Zenon DEF BookJump
  <2> HIDE DEF kinds
  <2>2. /\ OnTop(Seen) /\ OnTop(Sane(Seen)) /\ Follows(fcm, Noted) /\ target \in Int
        /\ ManagerOk(Noted) /\ Stands(Noted) /\ Top.thumb \in BOOLEAN
    BY <2>1, ClassifyFacts
  <2> HIDE DEF target
  <2>3. OnTop(AddBlock(Seen, target))
    BY <2>2, OnTopStays
  <2>4. Follows(Noted, NoteMode(Noted, target, Top.thumb, Decoded))
    BY <2>2, NoteDecoded
  <2>5. Follows(Noted, AddTailcallCandidate(Noted, target, Top.thumb))
    BY <2>2, AddTailcallCandidateFollows
  <2>6. /\ Follows(fcm, NoteMode(Noted, target, Top.thumb, Decoded))
        /\ Follows(fcm, AddTailcallCandidate(Noted, target, Top.thumb))
    BY <2>2, <2>4, <2>5, FollowsOn
  <2> QED BY <2>1, <2>2, <2>3, <2>6, ClassifyStep
<1>5. CASE BookCond
  <2> DEFINE kinds == {"cond"}
             target == Here.target
             queued == AddBlock(Seen, NextAddr(Top))
  <2>1. /\ Classify(kinds)
        /\ \/ Book(Sane(queued), Noted, TRUE)
           \/ Book(Sane(queued), NoteMode(Noted, target, Top.thumb, Decoded), TRUE)
           \/ Book(AddBlock(queued, target), Noted, TRUE)
    BY <1>5, Zenon DEF BookCond
  <2> HIDE DEF kinds
  <2>2. /\ OnTop(Seen) /\ Follows(fcm, Noted) /\ target \in Int /\ NextAddr(Top) \in Int
        /\ ManagerOk(Noted) /\ Stands(Noted) /\ Top.thumb \in BOOLEAN
    BY <2>1, ClassifyFacts
  <2> HIDE DEF target
  <2>3. OnTop(queued)
    BY <2>2, OnTopStays
  <2> HIDE DEF queued
  <2>4. OnTop(Sane(queued)) /\ OnTop(AddBlock(queued, target))
    BY <2>2, <2>3, OnTopStays
  <2>5. Follows(fcm, NoteMode(Noted, target, Top.thumb, Decoded))
    BY <2>2, NoteDecoded, FollowsOn
  <2> QED BY <2>1, <2>2, <2>4, <2>5, ClassifyStep
<1>6. CASE BookCallIns
  <2> DEFINE kinds == {"call", "callx"}
             thumb == CalledThumb(Here.kind, Top.thumb)
             called == AddCallCandidate(Noted, Here.target, thumb, Top.at)
             ends == DataBehind(Seen)
             f == IF ends THEN Sane(Seen) ELSE Seen
  <2>1. Classify(kinds) /\ Book(f, called, ends)
    BY <1>6, Zenon DEF BookCallIns
  <2> HIDE DEF kinds
  <2>2. /\ OnTop(Seen) /\ OnTop(Sane(Seen)) /\ Follows(fcm, Noted) /\ Here.target \in Int
        /\ Top.at \in Int /\ ManagerOk(Noted) /\ Stands(Noted) /\ Top.thumb \in BOOLEAN
    BY <2>1, ClassifyFacts
  <2>3. OnTop(f)
    BY <2>2
  <2>4. ends \in BOOLEAN
    BY Zenon DEF DataBehind
  <2>5. thumb \in BOOLEAN
    BY <2>2, CalledThumbBoolean
  <2> HIDE DEF f, ends, thumb
  <2>6. Follows(Noted, called)
    BY <2>2, <2>5, AddCallCandidateFollows
  <2>7. Follows(fcm, called)
    BY <2>2, <2>6, FollowsOn
  <2> HIDE DEF called
  <2> QED BY <2>1, <2>3, <2>4, <2>7, ClassifyStep
<1> QED BY <1>1, <1>2, <1>3, <1>4, <1>5, <1>6 DEF BookIns

LEMMA PassingStep ==
    ASSUME Ready, Decoding, NEW f, Carries(DOMAIN fcm.candidates, Top, f), Update(f),
           Follows(fcm, fcm'),
           UNCHANGED <<img, results, pass, scan, history>>
    PROVE  WalkStep
<1>1. Keeps(f) /\ Passing(f)
  BY DEF Carries, Keeps, Passing, results
<1> QED BY <1>1 DEF WalkStep, results

LEMMA LastAndFront ==
    ASSUME NEW S, NEW q \in Seq(S), q # <<>>
    PROVE  Last(q) \in S /\ Front(q) \in Seq(S)
<1>1. Front(q) \in Seq(S) /\ Len(q) >= 1
  BY PopTop
<1>2. Last(q) \in S
  BY <1>1 DEF Last
<1> QED BY <1>1, <1>2

LEMMA PathSteps ==
    ASSUME Ready, ChooseBlock \/ LeaveBlock \/ CutAtTable \/ CutBlock
    PROVE  WalkStep
<1> DEFINE D == DOMAIN fcm.candidates
<1>0. Top \in FrameOf(D) /\ Follows(fcm, fcm)
  BY FollowsItself DEF Ready
<1>1. CASE ChooseBlock
  <2> DEFINE next == Last(Top.queue)
             rest == Front(Top.queue)
             t == Top
             f == [t EXCEPT !.at = next, !.queue = rest]
  <2>1. /\ Decoding /\ Top.queue # <<>> /\ Update(f)
        /\ UNCHANGED <<img, results, fcm, pass, scan, history>>
    BY <1>1 DEF ChooseBlock
  <2>2. next \in Int /\ rest \in Seq(Int)
    BY <1>0, <2>1, FrameParts, LastAndFront
  <2> HIDE DEF next, rest, t
  <2>3. t \in FrameOf(D)
    BY <1>0 DEF t
  <2>4. Carries(D, t, f)
    <3>1. t \in Frame
      BY <2>3 DEF FrameOf
    <3>2. /\ f \in Frame
          /\ f.start = t.start /\ f.thumb = t.thumb
          /\ f.gap = t.gap /\ f.repeated = t.repeated /\ f.phase = t.phase
          /\ f.reverted = t.reverted /\ f.ins = t.ins /\ f.bytes = t.bytes /\ f.data = t.data
      BY <2>2, <3>1 DEF Frame
    <3> QED BY <2>3, <3>2 DEF Carries, FrameOf
  <2> HIDE DEF f
  <2> QED BY <1>0, <2>1, <2>4, PassingStep DEF t
<1>2. CASE LeaveBlock
  <2> DEFINE t == Top
             f == [t EXCEPT !.at = NoAddr, !.prev = NoAddr]
  <2>1. Decoding /\ Update(f) /\ UNCHANGED <<img, results, fcm, pass, scan, history>>
    BY <1>2 DEF LeaveBlock
  <2> HIDE DEF t
  <2>2. t \in FrameOf(D) /\ NoAddr \in Int
    BY <1>0 DEF t, NoAddr
  <2>3. Carries(D, t, f)
    BY <2>2 DEF Carries, FrameOf, Frame
  <2> HIDE DEF f
  <2> QED BY <1>0, <2>1, <2>3, PassingStep DEF t
<1>3. ASSUME NEW f \in FrameOf(D)
      PROVE  Carries(D, f, Cut(f)) /\ Cut(f).at = NoAddr /\ Cut(f).prev = NoAddr
  <2> DEFINE e == EndBlock(f)
             s == Sane(e)
  <2>1. Carries(D, f, e) /\ e \in FrameOf(D) /\ e.at = NoAddr /\ e.prev = NoAddr
    BY EndBlockCarries DEF Carries
  <2> HIDE DEF e
  <2>2. Carries(D, e, s) /\ s.at = e.at /\ s.prev = e.prev
    BY <2>1, SaneCarries
  <2>3. Cut(f) = s
    BY DEF Cut, e
  <2> HIDE DEF s
  <2> QED BY <2>1, <2>2, <2>3, CarriesOn
<1>4. CASE CutAtTable
  <2>1. Decoding /\ Update(Cut(Top)) /\ UNCHANGED <<img, results, fcm, pass, scan, history>>
    BY <1>4 DEF CutAtTable, AtInstruction
  <2>2. Carries(D, Top, Cut(Top))
    BY <1>0, <1>3
  <2> QED BY <1>0, <2>1, <2>2, PassingStep
<1>5. CASE CutBlock
  <2>1. /\ Classifying /\ Update(Cut(Seen)) /\ fcm' = Noted
        /\ UNCHANGED <<img, results, pass, scan, history>>
    BY <1>5 DEF CutBlock
  <2>2. Carries(D, Top, Seen) /\ Decoding
    BY <2>1, SeenCarries DEF Ready, Classifying, AtInstruction
  <2>3. Carries(D, Seen, Cut(Seen))
    BY <1>3, <2>2 DEF Carries
  <2>4. Carries(D, Top, Cut(Seen))
    BY <2>2, <2>3, CarriesOn
  <2>5. Follows(fcm, fcm')
    BY <2>1, NotedFollows DEF Ready
  <2> QED BY <2>1, <2>2, <2>4, <2>5, PassingStep
<1> QED BY <1>1, <1>2, <1>4, <1>5

-----------------------------------------------------------------------------
(* The steps around a walk. *)

IsNew(f, D, start, known) ==
    /\ f \in FrameOf(D) /\ f.start = start /\ f.thumb = IsThumb(fcm, start)
    /\ f.ins = {} /\ f.bytes = {} /\ f.data = known /\ f.phase = "decode"
    /\ f.repeated = (known # {}) /\ f.reverted = <<>>
    /\ f.at = NoAddr /\ f.prev = NoAddr /\ f.seen = {start} /\ f.queue = <<start>>

LEMMA NewFrameFacts ==
    ASSUME NEW D, NEW start \in D, start \in Int, NEW gap \in BOOLEAN, NEW known, known \subseteq Int
    PROVE  IsNew(NewFrame(start, gap, known), D, start, known)
<1> DEFINE f == NewFrame(start, gap, known)
           thumb == IsThumb(fcm, start)
           repeated == known # {}
<1>1. thumb \in BOOLEAN
  BY ThumbBoolean
<1>2. repeated \in BOOLEAN
  OBVIOUS
<1>3. f = [start |-> start, thumb |-> thumb, gap |-> gap,
           queue |-> <<start>>, seen |-> {start}, at |-> NoAddr, prev |-> NoAddr,
           ins |-> {}, bytes |-> {}, current |-> FALSE, blocks |-> 0, zeros |-> 0, sane |-> FALSE,
           data |-> known, repeated |-> repeated, reverted |-> <<>>, phase |-> "decode"]
  BY DEF NewFrame
<1>4. <<start>> \in Seq(Int) /\ <<>> \in Seq(Int) /\ <<>> \in Seq(D) /\ NoAddr \in Int
  BY DEF NoAddr
<1> HIDE DEF thumb, repeated, f
<1>5. f \in Frame
  BY <1>1, <1>2, <1>3, <1>4 DEF Frame, Phases
<1>6. f \in FrameOf(D)
  BY <1>3, <1>4, <1>5 DEF FrameOf
<1> QED BY <1>3, <1>6 DEF f, thumb, repeated, IsNew

(* The wrapper around an analysis.                                          *)
NotedMeta(d, start, thumb) ==
    IF start \in DOMAIN d.functions THEN With(meta, start, thumb) ELSE meta
BookedPools(d, start, data) ==
    IF start \in DOMAIN d.functions /\ data # {} THEN With(pools, start, data) ELSE pools

Requeues(m, n, fns) ==
    /\ ManagerOk(n) /\ n.modes = m.modes /\ n.conflicts = {} /\ n.queue = m.queue \cup fns
    /\ n.strong = m.strong /\ n.declared = m.declared
    /\ DOMAIN n.candidates = DOMAIN m.candidates
    /\ \A a \in fns : n.candidates[a].thumb = m.modes[a].thumb /\ ~n.candidates[a].finished
    /\ \A a \in DOMAIN m.candidates \ fns : n.candidates[a] = m.candidates[a]

Redecodes(d, m, start, thumb, data, fns) ==
    /\ fns = ToRedecode(d, m, NotedMeta(d, start, thumb))
    /\ fns \subseteq m.conflicts \cap DOMAIN d.functions
    /\ dis' = [functions |-> Without(d.functions, fns),
               ins2fn |-> Without(d.ins2fn, BytesOf(d, fns)),
               dataMap |-> d.dataMap \ OnlyPools(BookedPools(d, start, data), fns)]
    /\ meta' = Without(NotedMeta(d, start, thumb), fns)
    /\ pools' = Without(BookedPools(d, start, data), fns)
    /\ DOMAIN undone' = DOMAIN undone \cup fns
    /\ \A fn \in DOMAIN undone \ fns : undone'[fn] = undone[fn]
    /\ \A fn \in fns \ DOMAIN undone : undone'[fn] = 1
    /\ \A fn \in DOMAIN undone' : undone'[fn] \in Int
    /\ Requeues(m, fcm', fns)

LEMMA WrappedFacts ==
    ASSUME NEW d, NEW m, ManagerOk(m), DOMAIN d.functions \subseteq DOMAIN m.candidates,
           NEW start, NEW thumb, NEW data, \A fn \in DOMAIN undone : undone[fn] \in Int,
           Result(Wrapped(d, m, start, thumb, data))
    PROVE  \E fns : Redecodes(d, m, start, thumb, data, fns)
<1> DEFINE noted == NotedMeta(d, start, thumb)
           booked == BookedPools(d, start, data)
           fns == ToRedecode(d, m, noted)
           o == [m EXCEPT !.conflicts = {}]
           w == [dis |-> d, fcm |-> o, meta |-> noted, pools |-> booked, undone |-> undone]
<1>1. Result(Redecoded(w, fns))
  BY DEF Wrapped, NotedMeta, BookedPools
<1>2. fns \subseteq m.conflicts \cap DOMAIN d.functions
  BY DEF ToRedecode
<1> HIDE DEF noted, booked, fns, o
<1>3. /\ ManagerOk(o) /\ o.conflicts = {} /\ o.queue = m.queue
      /\ o.modes = m.modes /\ o.candidates = m.candidates
      /\ o.strong = m.strong /\ o.declared = m.declared
  BY NoConflictFacts DEF o
<1>4. w.dis = d /\ w.fcm = o /\ w.meta = noted /\ w.pools = booked /\ w.undone = undone
  OBVIOUS
<1> HIDE DEF w
<1>5. /\ dis' = [functions |-> Without(d.functions, fns),
                 ins2fn |-> Without(d.ins2fn, BytesOf(d, fns)),
                 dataMap |-> d.dataMap \ OnlyPools(booked, fns)]
      /\ fcm' = RequeueInMode(o, fns)
      /\ meta' = Without(noted, fns) /\ pools' = Without(booked, fns)
      /\ undone' = [fn \in DOMAIN undone \cup fns |->
                      (IF fn \in DOMAIN undone THEN undone[fn] ELSE 0) + (IF fn \in fns THEN 1 ELSE 0)]
  BY <1>1, <1>4 DEF Result, Redecoded
<1>6. fns \subseteq DOMAIN o.candidates \cap DOMAIN o.modes
  BY <1>2, <1>3 DEF ManagerOk
<1>7. Requeues(m, fcm', fns)
  <2> DEFINE n == RequeueInMode(o, fns)
  <2>1. /\ ManagerOk(n)
        /\ n.modes = o.modes /\ n.conflicts = o.conflicts /\ n.queue = o.queue \cup fns
        /\ n.strong = o.strong /\ n.declared = o.declared
        /\ DOMAIN n.candidates = DOMAIN o.candidates
        /\ \A a \in fns : n.candidates[a].thumb = o.modes[a].thumb /\ ~n.candidates[a].finished
        /\ \A a \in DOMAIN o.candidates \ fns : n.candidates[a] = o.candidates[a]
    BY <1>3, <1>6, RequeuedFacts
  <2>2. fcm' = n
    BY <1>5
  <2> HIDE DEF n
  <2> QED BY <1>3, <2>1, <2>2 DEF Requeues
<1>8. /\ DOMAIN undone' = DOMAIN undone \cup fns
      /\ \A fn \in DOMAIN undone \ fns : undone'[fn] = undone[fn]
      /\ \A fn \in fns \ DOMAIN undone : undone'[fn] = 1
      /\ \A fn \in DOMAIN undone' : undone'[fn] \in Int
  BY <1>5
<1>9. Redecodes(d, m, start, thumb, data, fns)
  BY <1>2, <1>5, <1>7, <1>8 DEF Redecodes, noted, booked, fns
<1> QED BY <1>9

-----------------------------------------------------------------------------
(* What holds of every image: types, what is a candidate, and that only the *)
(* last call decodes.                                                       *)
Passes == {"drain", "gap", "redrain", "done"}

DisOk(d) ==
    /\ d = [functions |-> d.functions, ins2fn |-> d.ins2fn, dataMap |-> d.dataMap]
    /\ \A fn \in DOMAIN d.functions :
          /\ fn \in d.functions[fn].ins
          /\ d.functions[fn].ins \subseteq d.functions[fn].bytes
          /\ d.functions[fn].ins \subseteq Addresses

Records ==
    /\ DisOk(dis) /\ Stands(fcm)
    /\ Functions \subseteq DOMAIN meta /\ Functions \subseteq DOMAIN history
    /\ DOMAIN meta \subseteq Addresses
    /\ DOMAIN history \subseteq DOMAIN fcm.candidates
    /\ DOMAIN pools \subseteq DOMAIN history
    /\ \A fn \in DOMAIN undone : undone[fn] \in Int

CallsOk ==
    /\ frames \in Seq(FrameOf(DOMAIN fcm.candidates))
    /\ \A k \in 1..(Len(frames) - 1) : frames[k].phase # "decode"
    /\ ~Decoding => fcm.conflicts = {}

Discovering ==
    pass \in Reads => /\ Fresh(fcm) /\ frames = <<>> /\ Functions = {} /\ DOMAIN history = {}
                      /\ DOMAIN undone = {}

Base ==
    /\ img \in Images /\ pass \in Reads \cup Passes /\ WorkOk /\ ManagerOk(fcm)
    /\ Discovering /\ Records /\ CallsOk

(* The steps by what they change.  Discovery; *)
Discovers ==
    /\ pass \in Reads /\ pass' \in Reads \cup {"drain"} /\ WorkOk'
    /\ Fresh(fcm') /\ UNCHANGED <<img, results, frames, history>>

(* no analysis is in progress and none starts;                              *)
Rests ==
    /\ Idle /\ pass \in Passes /\ pass' \in Passes
    /\ UNCHANGED <<img, results, frames, history>>
    /\ pass' = "done" => fcm'.queue = {}
    /\ \/ UNCHANGED fcm
       \/ /\ pass \in DOMAIN AfterDrain
          /\ \E c \in fcm.queue : Best(c) /\ ~Eligible(c) /\ fcm' = Dequeued(c)
       \/ cur \notin Functions /\ fcm' = Aborted(fcm, cur)

(* a candidate is taken that is code already;                               *)
Refuses ==
    /\ Idle /\ pass \in DOMAIN AfterDrain /\ UNCHANGED <<img, pass, frames, history>>
    /\ \E c \in fcm.queue : Eligible(c) /\ IsCode(c) /\ Refused(Dequeued(c), c)

(* an analysis starts, of a candidate from the queue or of a gap;           *)
Begun(f) ==
    /\ f \in FrameOf(DOMAIN fcm'.candidates) /\ f.phase = "decode" /\ ~IsCode(f.start)
    /\ f.ins = {} /\ f.bytes = {} /\ f.data = {} /\ f.repeated = FALSE /\ f.reverted = <<>>
    /\ f.at = NoAddr /\ f.prev = NoAddr /\ f.seen = {f.start} /\ f.queue = <<f.start>>

Begins ==
    /\ Idle /\ pass \in Passes \ {"done"} /\ UNCHANGED <<img, results, pass, history>>
    /\ \E f : /\ Begun(f) /\ frames' = <<f>>
              /\ \/ f.start \in fcm.queue /\ fcm' = Dequeued(f.start)
                    /\ f.start \in DOMAIN fcm.candidates
                 \/ /\ Grows(fcm, fcm')
                    /\ Functions \subseteq DOMAIN dis.ins2fn => Follows(fcm, fcm')

(* another analysis is called by the one in progress, of its own entry with *)
(* the pools known, or of a gap function it undid;                          *)
Called(g) ==
    /\ g \in FrameOf(DOMAIN fcm.candidates) /\ g.phase = "decode" /\ g.ins = {} /\ g.bytes = {}
    /\ g.reverted = <<>> /\ g.repeated = (g.data # {})
    /\ g.at = NoAddr /\ g.prev = NoAddr /\ g.seen = {g.start} /\ g.queue = <<g.start>>

CallsOn ==
    /\ frames # <<>> /\ UNCHANGED <<img, results, pass, scan, history>>
    /\ \E f, g :
          /\ Call(f, g) /\ Called(g) /\ f \in FrameOf(DOMAIN fcm.candidates) /\ f.phase # "decode"
          /\ f.start = Top.start
          /\ \/ /\ Walked /\ RanIntoPool /\ UNCHANGED fcm
                /\ g.start = Top.start /\ g.data = Top.data /\ f.data = Top.data
             \/ /\ ~Decoding /\ ~IsCode(g.start) /\ g.data = {} /\ Like(fcm, fcm')
                /\ \A c \in DOMAIN fcm.candidates :
                      fcm'.candidates[c].finished = fcm.candidates[c].finished

(* it goes on behind such a call;                                           *)
Resumes ==
    /\ frames # <<>> /\ ~Decoding /\ UNCHANGED <<img, results, pass, scan, history>>
    /\ \E f : Update(f) /\ f \in FrameOf(DOMAIN fcm.candidates) /\ f.phase # "decode"
    /\ UNCHANGED fcm \/ (Reverted \notin Functions /\ fcm' = Aborted(fcm, Reverted))

(* a walk ends, with or without a function; a call that had called another  *)
(* one returns.                                                             *)
Returns ==
    /\ Decoding /\ frames' = Front(frames) /\ UNCHANGED <<img, pass, scan>>
    /\ \E d, m :
          /\ Result(Wrapped(d, m, Top.start, Top.thumb, Top.data)) /\ HadItsTurn(fcm, m, Top.start)
          /\ \/ d = dis /\ UNCHANGED history
             \/ /\ d = Stored /\ Walked /\ ~RanIntoPool /\ Accepted
                /\ history' = With(history, Top.start, Top.thumb)

Completes ==
    /\ Restoring /\ frames' = Front(frames) /\ UNCHANGED <<img, pass, scan, history>>
    /\ Result(Wrapped(dis, fcm, Top.start, Top.thumb, {}))

LEMMA ReadyTop ==
    ASSUME Base, frames # <<>>
    PROVE  Ready
<1>1. frames \in Seq(FrameOf(DOMAIN fcm.candidates))
  BY DEF Base, CallsOk
<1>2. Len(frames) \in DOMAIN frames
  BY <1>1
<1>3. Top \in FrameOf(DOMAIN fcm.candidates)
  BY <1>1, <1>2 DEF Top
<1> QED BY <1>3 DEF Base, Records, Ready

LEMMA DiscoverEffects ==
    ASSUME Base, Discover
    PROVE  Discovers
<1>1. CASE Read
  <2>1. pass \in Reads
    BY <1>1, Zenon DEF Read, ReadSymbol, ReadEntry, ReadCandidate, ReadDeclared, ReadOpened,
                       ReadUnwound, ReadCall, ReadPointer, ReadPrologue, Reading, Reads
  <2>2. Fresh(fcm) /\ Functions = {} /\ WorkOk /\ img \in Images
    BY <2>1 DEF Base, Discovering
  <2>3. /\ Fresh(fcm') /\ work' \subseteq work
        /\ UNCHANGED <<img, results, pass, frames, gapPtr, gaps, previous, cur, history>>
    BY <1>1, <2>2, ReadFresh
  <2>4. WorkOk'
    <3> SUFFICES ASSUME pass' \in Reads PROVE work' \subseteq Items(pass)'
      BY DEF WorkOk
    <3>1. Items(pass)' = Items(pass)
      BY <2>3 DEF Items, SymbolValues, Calls, PointerSlots, Pushes, ScannedAs, ScanModes, At,
                  Nothing, RegionThumb, MappingKind, Addresses, NoAddr
    <3> QED BY <2>1, <2>2, <2>3, <3>1 DEF WorkOk
  <2> QED BY <2>1, <2>3, <2>4 DEF Discovers
<1>2. CASE ReadOn
  <2>1. pass \in DOMAIN Following /\ pass' = Following[pass] /\ work' = Items(Following[pass])
        /\ UNCHANGED <<img, results, fcm, frames, history>>
    BY <1>2 DEF ReadOn
  <2>2. pass \in Reads /\ pass' \in Reads
    BY <2>1 DEF Following, Reads
  <2>3. Fresh(fcm')
    BY <2>1, <2>2 DEF Base, Discovering
  <2>4. WorkOk'
    <3>1. Items(pass)' = Items(Following[pass])
      BY <2>1 DEF Items, SymbolValues, Calls, PointerSlots, Pushes, ScannedAs, ScanModes, At,
                  Nothing, RegionThumb, MappingKind, Addresses, NoAddr
    <3> QED BY <2>1, <3>1 DEF WorkOk
  <2> QED BY <2>1, <2>2, <2>3, <2>4 DEF Discovers
<1>3. CASE BuildQueue
  <2> DEFINE queue == DOMAIN fcm.candidates
             n == [fcm EXCEPT !.queue = queue]
  <2>1. pass = "prologues" /\ pass' = "drain" /\ fcm' = n
        /\ UNCHANGED <<img, results, frames, history>>
    BY <1>3 DEF BuildQueue
  <2>2. Fresh(fcm)
    BY <2>1 DEF Base, Discovering, Reads
  <2>3. /\ ManagerOk(n) /\ n.conflicts = fcm.conflicts
        /\ n.modes = fcm.modes /\ n.candidates = fcm.candidates
    BY <2>2, QueueFacts DEF Fresh
  <2> HIDE DEF n
  <2>4. \A a : IsThumb(n, a) = IsThumb(fcm, a)
    BY <2>2, <2>3, ModeFacts DEF Fresh
  <2>5. Fresh(fcm')
    BY <2>1, <2>2, <2>3, <2>4 DEF Fresh
  <2> QED BY <2>1, <2>5 DEF Discovers, WorkOk, Reads
<1> QED BY <1>1, <1>2, <1>3 DEF Discover, Read

LEMMA GapFacts ==
    ASSUME Base, ~GapsOver
    PROVE  GapAddr \in Int /\ GapThumb \in BOOLEAN
<1>1. gapPtr \in Int
  BY ImageFacts DEF GapsOver, Base
<1>2. GapThumb \in BOOLEAN
  BY ThumbBoolean DEF GapThumb
<1>3. Stride \in {2, 4}
  BY DEF Stride, Step
<1>4. gapPtr % Stride \in Int /\ (Stride - (gapPtr % Stride)) % Stride \in Int
  BY <1>1, <1>3
<1>5. GapAddr \in Int
  BY <1>1, <1>4 DEF GapAddr, Aligned
<1> QED BY <1>2, <1>5

LEMMA OfferEffect ==
    ASSUME Base, Offer
    PROVE  Begins
<1> DEFINE n == AddGapCandidate(NoteMode(fcm, GapAddr, GapThumb, Guess), GapAddr)
           D == DOMAIN n.candidates
           f == NewFrame(GapAddr, TRUE, {})
           thumb == IsThumb(n, GapAddr)
           g == [f EXCEPT !.thumb = thumb]
<1>1. /\ Idle /\ pass = "gap" /\ ~GapsOver /\ ~IsCode(GapAddr)
      /\ fcm' = n /\ frames' = <<g>> /\ UNCHANGED <<img, results, pass, history>>
  BY DEF Offer, Scanning, Passed
<1>2. GapAddr \in Int /\ GapThumb \in BOOLEAN
  BY <1>1, GapFacts
<1>3. /\ Grows(fcm, n) /\ GapAddr \in D
      /\ ~(GapAddr \in Functions \/ IsCode(GapAddr)) => Follows(fcm, n)
  BY <1>2, OfferedFollows DEF Base, Records
<1>4. thumb \in BOOLEAN
  BY ThumbBoolean
<1> HIDE DEF n, thumb
<1>5. /\ f \in FrameOf(D) /\ f.start = GapAddr
      /\ f.ins = {} /\ f.bytes = {} /\ f.data = {} /\ f.phase = "decode"
      /\ f.repeated = FALSE /\ f.reverted = <<>>
      /\ f.at = NoAddr /\ f.prev = NoAddr /\ f.seen = {GapAddr} /\ f.queue = <<GapAddr>>
  <2> DEFINE nothing == {}
  <2>1. TRUE \in BOOLEAN /\ nothing \subseteq Int
    OBVIOUS
  <2> HIDE DEF nothing
  <2>2. IsNew(NewFrame(GapAddr, TRUE, nothing), D, GapAddr, nothing)
    BY <1>2, <1>3, <2>1, NewFrameFacts
  <2> QED BY <2>2 DEF nothing, IsNew
<1> HIDE DEF f
<1>6. /\ g \in Frame /\ g.start = f.start /\ g.ins = f.ins /\ g.bytes = f.bytes /\ g.data = f.data
      /\ g.phase = f.phase /\ g.repeated = f.repeated /\ g.reverted = f.reverted
      /\ g.at = f.at /\ g.prev = f.prev /\ g.seen = f.seen /\ g.queue = f.queue
  BY <1>4, <1>5 DEF FrameOf, Frame
<1> HIDE DEF g
<1>7. Begun(g)
  BY <1>1, <1>5, <1>6 DEF Begun, FrameOf
<1>8. Functions \subseteq DOMAIN dis.ins2fn => Follows(fcm, fcm')
  BY <1>1, <1>3 DEF IsCode
<1> QED BY <1>1, <1>3, <1>7, <1>8 DEF Begins, Passes

LEMMA TakeEffect ==
    ASSUME Base, TakeCandidate
    PROVE  Refuses \/ Begins
<1>1. PICK c \in fcm.queue :
         /\ Best(c) /\ Eligible(c)
         /\ \/ IsCode(c) /\ Refused(Dequeued(c), c) /\ UNCHANGED frames
            \/ ~IsCode(c) /\ frames' = <<NewFrame(c, FALSE, {})>> /\ fcm' = Dequeued(c)
               /\ UNCHANGED results
  BY Zenon DEF TakeCandidate
<1>2. Idle /\ pass \in DOMAIN AfterDrain /\ UNCHANGED <<img, pass, scan, history>>
  BY DEF TakeCandidate
<1>3. pass \in Passes \ {"done"}
  BY <1>2 DEF AfterDrain, Passes
<1>4. CASE IsCode(c) /\ Refused(Dequeued(c), c) /\ UNCHANGED frames
  BY <1>1, <1>2, <1>4 DEF Refuses
<1>5. CASE /\ ~IsCode(c) /\ frames' = <<NewFrame(c, FALSE, {})>> /\ fcm' = Dequeued(c)
           /\ UNCHANGED results
  <2> DEFINE f == NewFrame(c, FALSE, {})
             n == Dequeued(c)
             D == DOMAIN n.candidates
             nothing == {}
  <2>1. c \in DOMAIN fcm.candidates /\ ManagerOk(fcm)
    BY DEF Base, ManagerOk
  <2>2. c \in Int /\ n.candidates = fcm.candidates
    <3> DEFINE rest == fcm.queue \ {c}
    <3>1. rest \subseteq DOMAIN fcm.candidates
      BY <2>1 DEF ManagerOk
    <3>2. n = [fcm EXCEPT !.queue = rest]
      BY DEF Dequeued
    <3> HIDE DEF rest, n
    <3> QED BY <2>1, <3>1, <3>2, QueueFacts, CandidateFacts
  <2>3. FALSE \in BOOLEAN /\ nothing \subseteq Int /\ c \in D
    BY <2>1, <2>2
  <2>4. f = NewFrame(c, FALSE, nothing)
    OBVIOUS
  <2> HIDE DEF nothing, f, n
  <2>5. /\ f \in FrameOf(D) /\ f.start = c
        /\ f.ins = {} /\ f.bytes = {} /\ f.data = nothing /\ f.phase = "decode"
        /\ f.repeated = (nothing # {}) /\ f.reverted = <<>>
        /\ f.at = NoAddr /\ f.prev = NoAddr /\ f.seen = {c} /\ f.queue = <<c>>
    <3>1. IsNew(f, D, c, nothing)
      BY <2>2, <2>3, <2>4, NewFrameFacts
    <3> QED BY <3>1 DEF IsNew
  <2>6. Begun(f) /\ frames' = <<f>> /\ fcm' = n
    BY <1>5, <2>5 DEF Begun, f, n, nothing
  <2> QED BY <1>2, <1>3, <1>5, <2>1, <2>5, <2>6 DEF Begins, n
<1> QED BY <1>1, <1>4, <1>5

LEMMA RestEffects ==
    ASSUME Base, PassOver \/ Finish \/ (Scan /\ ~Offer)
    PROVE  Rests
<1>1. CASE PassOver
  <2>1. /\ Idle /\ pass \in DOMAIN AfterDrain /\ UNCHANGED <<img, results, pass, frames, scan, history>>
        /\ \E c \in fcm.queue : Best(c) /\ ~Eligible(c) /\ fcm' = Dequeued(c)
    BY <1>1 DEF PassOver
  <2>2. pass \in Passes /\ pass # "done"
    BY <2>1 DEF AfterDrain, Passes
  <2> QED BY <2>1, <2>2 DEF Rests
<1>2. CASE Finish
  BY <1>2 DEF Finish, Rests, Passes
<1>3. CASE SettleGap
  BY <1>3 DEF SettleGap, Rests, Passes
<1>4. CASE OpenGaps \/ CloseGaps
  BY <1>4 DEF OpenGaps, CloseGaps, Scanning, Rests, Passes
<1>5. CASE SkipPassed \/ SkipOutside \/ SkipFiller
  BY <1>5 DEF SkipPassed, SkipOutside, SkipFiller, MoveTo, Scanning, Rests, Passes
<1> QED BY <1>1, <1>2, <1>3, <1>4, <1>5 DEF Scan

(* The frame goes on in another phase.                                      *)
LEMMA SamePhased ==
    ASSUME NEW D, NEW f \in FrameOf(D), NEW phase \in Phases,
           phase = "restored" => f.reverted # <<>>
    PROVE  LET g == [f EXCEPT !.phase = phase]
           IN  g \in FrameOf(D) /\ g.phase = phase /\ g.start = f.start /\ g.data = f.data
<1> DEFINE g == [f EXCEPT !.phase = phase]
<1>1. f \in Frame
  BY DEF FrameOf
<1>2. /\ g \in Frame /\ g.start = f.start /\ g.ins = f.ins /\ g.bytes = f.bytes
      /\ g.reverted = f.reverted /\ g.phase = phase /\ g.data = f.data
  BY <1>1 DEF Frame
<1> HIDE DEF g
<1>3. g \in FrameOf(D) /\ g.phase = phase /\ g.start = f.start /\ g.data = f.data
  BY <1>2 DEF FrameOf
<1> QED BY <1>3 DEF g

LEMMA RepeatEffect ==
    ASSUME Base, Repeat
    PROVE  CallsOn
<1> DEFINE D == DOMAIN fcm.candidates
           t == Top
           f == [t EXCEPT !.phase = "restore"]
           g == NewFrame(Top.start, Top.gap, Top.data)
<1>1. /\ Walked /\ RanIntoPool /\ Call(f, g) /\ UNCHANGED <<img, results, fcm, pass, scan, history>>
  BY DEF Repeat
<1>2. frames # <<>> /\ Decoding
  BY <1>1 DEF Walked, Decoding
<1>3. Top \in FrameOf(D)
  BY <1>2, ReadyTop DEF Ready
<1>4. Top.start \in D /\ Top.start \in Int /\ Top.gap \in BOOLEAN /\ Top.data \subseteq Int
  BY <1>3, FrameParts
<1>5. IsNew(g, D, Top.start, Top.data)
  BY <1>4, NewFrameFacts
<1> HIDE DEF g
<1>6. f \in FrameOf(D) /\ f.phase = "restore" /\ f.start = t.start /\ f.data = t.data
  <2> HIDE DEF t
  <2>1. "restore" \in Phases /\ t \in FrameOf(D)
    BY <1>3 DEF Phases, t
  <2> QED BY <2>1, SamePhased
<1> HIDE DEF f
<1>7. Called(g)
  BY <1>5 DEF IsNew, Called
<1>8. /\ f.start = Top.start /\ g.start = Top.start /\ UNCHANGED fcm
      /\ g.data = Top.data /\ f.data = Top.data
  BY <1>1, <1>5, <1>6 DEF IsNew
<1> QED BY <1>1, <1>2, <1>6, <1>7, <1>8 DEF CallsOn

LEMMA RevertedFacts ==
    ASSUME Base, frames # <<>>, Top.reverted # <<>>
    PROVE  /\ Top \in FrameOf(DOMAIN fcm.candidates)
           /\ Reverted \in DOMAIN fcm.candidates /\ Reverted \in Int
           /\ Tail(Top.reverted) \in Seq(DOMAIN fcm.candidates) /\ Tail(Top.reverted) \in Seq(Int)
<1> DEFINE D == DOMAIN fcm.candidates
           q == Top.reverted
<1>1. Top \in FrameOf(D)
  BY ReadyTop DEF Ready
<1>2. q \in Seq(D) /\ q \in Seq(Int)
  BY <1>1 DEF FrameOf, Frame
<1> HIDE DEF D, q
<1>3. Head(q) \in D /\ Tail(q) \in Seq(D) /\ Tail(q) \in Seq(Int)
  BY <1>2, HeadTailProperties DEF q
<1>4. Head(q) \in Int
  BY <1>3, CandidateFacts DEF D, Base
<1> QED BY <1>1, <1>3, <1>4 DEF D, q, Reverted

LEMMA RestoreEffects ==
    ASSUME Base, RestoreNext \/ Settle
    PROVE  CallsOn \/ Resumes
<1> DEFINE D == DOMAIN fcm.candidates
           t == Top
           rest == Tail(t.reverted)
<1>1. CASE Settle
  <2> DEFINE r == [t EXCEPT !.reverted = rest]
             f == [r EXCEPT !.phase = "restore"]
  <2>1. /\ frames # <<>> /\ Top.phase = "restored" /\ Update(f)
        /\ UNCHANGED <<img, results, pass, scan, history>>
        /\ UNCHANGED fcm \/ (Reverted \notin Functions /\ fcm' = Aborted(fcm, Reverted))
    BY <1>1 DEF Settle
  <2>2. Top \in FrameOf(D) /\ Top.reverted # <<>>
    BY <2>1, ReadyTop DEF Ready, FrameOf
  <2>3. rest \in Seq(D) /\ rest \in Seq(Int)
    BY <2>1, <2>2, RevertedFacts, Zenon
  <2>4. t \in FrameOf(D)
    BY <2>2
  <2> HIDE DEF t, rest
  <2>5. t \in Frame
    BY <2>4 DEF FrameOf
  <2>6. r \in Frame /\ r.start = t.start /\ r.ins = t.ins /\ r.bytes = t.bytes /\ r.reverted = rest
    BY <2>3, <2>5 DEF Frame
  <2> HIDE DEF r
  <2>7. /\ f \in Frame /\ f.start = r.start /\ f.ins = r.ins /\ f.bytes = r.bytes
        /\ f.reverted = r.reverted /\ f.phase = "restore"
    BY <2>6 DEF Frame, Phases
  <2> HIDE DEF f
  <2>8. f \in FrameOf(D)
    BY <2>3, <2>4, <2>6, <2>7 DEF FrameOf
  <2> QED BY <2>1, <2>7, <2>8 DEF Resumes, Decoding
<1>2. CASE RestoreNext
  <2>1. /\ frames # <<>> /\ Top.phase = "restore" /\ Top.reverted # <<>>
        /\ UNCHANGED <<img, results, pass, scan, history>>
    BY <1>2 DEF RestoreNext, Restoring
  <2>2. /\ Top \in FrameOf(D) /\ Reverted \in D /\ Reverted \in Int
        /\ rest \in Seq(D) /\ rest \in Seq(Int)
    BY <2>1, RevertedFacts
  <2>3. CASE IsCode(Reverted)
    <3> DEFINE f == [t EXCEPT !.reverted = rest]
    <3>1. Update(f) /\ UNCHANGED fcm
      BY <1>2, <2>3 DEF RestoreNext
    <3>2. t \in FrameOf(D) /\ t.phase = "restore"
      BY <2>1, <2>2
    <3> HIDE DEF t, rest
    <3>3. t \in Frame
      BY <3>2 DEF FrameOf
    <3>4. /\ f \in Frame /\ f.start = t.start /\ f.ins = t.ins /\ f.bytes = t.bytes
          /\ f.reverted = rest /\ f.phase = t.phase
      BY <2>2, <3>3 DEF Frame
    <3> HIDE DEF f
    <3>5. f \in FrameOf(D)
      BY <2>2, <3>2, <3>4 DEF FrameOf
    <3> QED BY <2>1, <3>1, <3>2, <3>4, <3>5 DEF Resumes, Decoding
  <2>4. CASE ~IsCode(Reverted)
    <3> DEFINE f == [t EXCEPT !.phase = "restored"]
               nothing == {}
               g == NewFrame(Reverted, TRUE, nothing)
    <3>1. Call(f, g) /\ fcm' = Unaborted(fcm, Reverted)
      BY <1>2, <2>4 DEF RestoreNext
    <3>2. t \in FrameOf(D) /\ t.reverted # <<>> /\ "restored" \in Phases
      BY <2>1, <2>2 DEF Phases
    <3>3. TRUE \in BOOLEAN /\ nothing \subseteq Int
      OBVIOUS
    <3> HIDE DEF nothing
    <3>4. IsNew(g, D, Reverted, nothing)
      BY <2>2, <3>3, NewFrameFacts
    <3> HIDE DEF g
    <3>5. Called(g) /\ g.start = Reverted /\ g.data = {}
      BY <3>4 DEF IsNew, Called, nothing
    <3>6. f \in FrameOf(D) /\ f.phase = "restored" /\ f.start = Top.start
      <4>1. t.start = Top.start
        OBVIOUS
      <4> HIDE DEF t
      <4> QED BY <3>2, <4>1, SamePhased
    <3> HIDE DEF f
    <3>7. /\ Like(fcm, fcm')
          /\ \A c \in DOMAIN fcm.candidates : fcm'.candidates[c].finished = fcm.candidates[c].finished
      BY <3>1, UnabortedFacts DEF Base
    <3>8. ~Decoding
      BY <2>1 DEF Decoding
    <3> QED BY <2>1, <2>4, <3>1, <3>5, <3>6, <3>7, <3>8 DEF CallsOn
  <2> QED BY <2>3, <2>4
<1> QED BY <1>1, <1>2

LEMMA ReturnEffects ==
    ASSUME Base, GiveUp \/ StoreFunction \/ DropFunction
    PROVE  Returns
<1>0. ManagerOk(fcm)
  BY DEF Base
<1>1. CASE GiveUp
  <2>1. HadItsTurn(fcm, Aborted(fcm, Top.start), Top.start)
    BY <1>0, AbortedFacts
  <2>2. /\ Decoding /\ Return(dis, Aborted(fcm, Top.start)) /\ UNCHANGED <<img, pass, scan, history>>
    BY <1>1 DEF GiveUp, AtInstruction
  <2> QED BY <2>1, <2>2 DEF Return, Returns
<1>2. CASE StoreFunction
  <2>1. HadItsTurn(fcm, Concluded(fcm), Top.start)
    BY <1>0, ConcludedFacts
  <2>2. /\ Walked /\ ~RanIntoPool /\ Accepted /\ Return(Stored, Concluded(fcm))
        /\ history' = With(history, Top.start, Top.thumb) /\ UNCHANGED <<img, pass, scan>>
    BY <1>2 DEF StoreFunction
  <2>3. Decoding
    BY <2>2 DEF Walked
  <2> QED BY <2>1, <2>2, <2>3 DEF Return, Returns
<1>3. CASE DropFunction
  <2>1. HadItsTurn(fcm, Concluded(fcm), Top.start)
    BY <1>0, ConcludedFacts
  <2>2. /\ Walked /\ Return(dis, Concluded(fcm)) /\ UNCHANGED <<img, pass, scan, history>>
    BY <1>3 DEF DropFunction
  <2>3. Decoding
    BY <2>2 DEF Walked
  <2> QED BY <2>1, <2>2, <2>3 DEF Return, Returns
<1> QED BY <1>1, <1>2, <1>3

Walks == ChooseBlock \/ LeaveBlock \/ CutAtTable \/ CutBlock \/ BookIns

Effects ==
    \/ Discovers \/ Rests \/ Refuses \/ Begins \/ (Walks /\ WalkStep) \/ CallsOn \/ Resumes
    \/ Returns \/ Completes

LEMMA NextEffects ==
    ASSUME Base, Next
    PROVE  Effects
<1>1. CASE Discover
  BY <1>1, DiscoverEffects DEF Effects
<1>2. CASE TakeCandidate
  BY <1>2, TakeEffect DEF Effects
<1>3. CASE PassOver \/ Finish
  BY <1>3, RestEffects DEF Effects
<1>4. CASE Scan
  BY <1>4, RestEffects, OfferEffect DEF Effects
<1>5. CASE Walk
  <2>1. CASE GiveUp
    BY <2>1, ReturnEffects DEF Effects
  <2>2. CASE ~GiveUp
    <3>1. ChooseBlock \/ LeaveBlock \/ CutAtTable \/ CutBlock
      BY <1>5, <2>2 DEF Walk
    <3>2. Decoding
      BY <3>1 DEF ChooseBlock, LeaveBlock, CutAtTable, CutBlock, Classifying, AtInstruction
    <3>3. Ready
      BY <3>2, ReadyTop DEF Decoding
    <3> QED BY <3>1, <3>3, PathSteps DEF Effects, Walks
  <2> QED BY <2>1, <2>2
<1>6. CASE BookIns
  <2>1. Classifying
    BY <1>6 DEF BookIns, BookPlain, BookEnd, BookBranchOut, BookJump, BookCond, BookCallIns, Classify
  <2>2. Ready
    BY <2>1, ReadyTop DEF Decoding, Classifying, AtInstruction
  <2> QED BY <1>6, <2>2, BookInsSteps DEF Effects, Walks
<1>7. CASE Conclude
  <2>1. CASE RestoreDone
    BY <2>1 DEF RestoreDone, Completes, Effects
  <2>2. CASE Repeat
    BY <2>2, RepeatEffect DEF Effects
  <2>3. CASE RestoreNext \/ Settle
    BY <2>3, RestoreEffects DEF Effects
  <2>4. CASE StoreFunction \/ DropFunction
    BY <2>4, ReturnEffects DEF Effects
  <2> QED BY <1>7, <2>1, <2>2, <2>3, <2>4 DEF Conclude
<1> QED BY <1>1, <1>2, <1>3, <1>4, <1>5, <1>6, <1>7 DEF Next

-----------------------------------------------------------------------------
(* Every step keeps Base.                                                   *)
LEMMA CallsIntro ==
    ASSUME UNCHANGED img, frames' \in Seq(FrameOf(DOMAIN fcm'.candidates)),
           \A k \in 1..(Len(frames') - 1) : frames'[k].phase # "decode",
           frames' = <<>> \/ frames'[Len(frames')].phase # "decode" => fcm'.conflicts = {}
    PROVE  CallsOk'
<1>1. FrameOf(DOMAIN fcm.candidates)' = FrameOf(DOMAIN fcm'.candidates)
  BY DEF FrameOf, Addresses
<1> QED BY <1>1 DEF CallsOk, Decoding, Top

LEMMA RecordsKeep ==
    ASSUME Records, UNCHANGED <<img, results, history>>,
           DOMAIN fcm.candidates \subseteq DOMAIN fcm'.candidates, Stands(fcm')
    PROVE  Records'
<1>1. DisOk(dis)'
  BY DEF Records, DisOk, results, Addresses
<1>2. Stands(fcm)'
  BY DEF Stands, results, Functions
<1>3. /\ Functions' = Functions /\ UNCHANGED <<meta, pools, undone, history>>
      /\ Addresses' = Addresses
  BY DEF Functions, results, Addresses
<1> QED BY <1>1, <1>2, <1>3 DEF Records

LEMMA BaseIntro ==
    ASSUME Base, UNCHANGED img, pass' \in Passes, ManagerOk(fcm'), Records', CallsOk'
    PROVE  Base'
<1>1. ManagerOk(fcm)'
  BY DEF ManagerOk, PartialMap, Mode, Candidate
<1>2. pass' \notin Reads
  BY DEF Passes, Reads
<1>3. WorkOk' /\ Discovering'
  BY <1>2 DEF WorkOk, Discovering, Reads
<1>4. (pass \in Reads \cup Passes)'
  BY DEF Passes
<1> QED BY <1>1, <1>3, <1>4 DEF Base

LEMMA NotReading ==
    ASSUME Base, frames # <<>>
    PROVE  pass \in Passes
BY DEF Base, Discovering

LEMMA DiscoversBase ==
    ASSUME Base, Discovers
    PROVE  Base'
<1>1. /\ Fresh(fcm) /\ frames = <<>> /\ Functions = {} /\ DOMAIN history = {} /\ DOMAIN undone = {}
  BY DEF Base, Discovering, Discovers
<1>2. /\ Fresh(fcm') /\ ManagerOk(fcm') /\ fcm'.conflicts = {}
      /\ pass' \in Reads \cup {"drain"} /\ WorkOk' /\ UNCHANGED <<img, results, frames, history>>
  BY DEF Discovers, Fresh
<1>3. /\ Functions' = {} /\ DOMAIN history' = {} /\ frames' = <<>> /\ UNCHANGED <<meta, pools, undone>>
      /\ Addresses' = Addresses
  BY <1>1, <1>2 DEF Functions, results, Addresses
<1>4. Records'
  <2>1. DisOk(dis)'
    BY <1>2 DEF Base, Records, DisOk, results, Addresses
  <2>2. Stands(fcm)'
    BY <1>3 DEF Stands
  <2> QED BY <1>1, <1>3, <2>1, <2>2 DEF Base, Records
<1>5. CallsOk'
  <2>1. <<>> \in Seq(FrameOf(DOMAIN fcm'.candidates)) /\ Len(<<>>) = 0
    OBVIOUS
  <2> QED BY <1>2, <1>3, <2>1, CallsIntro
<1>6. Fresh(fcm)'
  <2>1. \A a : IsThumb(fcm, a)' = IsThumb(fcm', a)
    BY <1>2 DEF IsThumb, DeclaredThumb, MappingKind, RegionThumb
  <2>2. ManagerOk(fcm)'
    BY <1>2 DEF ManagerOk, PartialMap, Mode, Candidate
  <2> QED BY <1>2, <2>1, <2>2 DEF Fresh
<1>7. Discovering'
  BY <1>1, <1>3, <1>6 DEF Discovering
<1>8. (pass \in Reads \cup Passes)'
  BY <1>2 DEF Passes
<1>9. ManagerOk(fcm)'
  BY <1>6 DEF Fresh
<1>10. (img \in Images)'
  BY <1>2 DEF Base
<1> QED BY <1>2, <1>4, <1>5, <1>7, <1>8, <1>9, <1>10 DEF Base

(* The manager of a candidate that is out of the queue.                     *)
LEMMA DequeuedFacts ==
    ASSUME ManagerOk(fcm), NEW c
    PROVE  LET n == Dequeued(c)
           IN  /\ ManagerOk(n) /\ n.queue = fcm.queue \ {c} /\ n.conflicts = fcm.conflicts
               /\ n.modes = fcm.modes /\ n.candidates = fcm.candidates
               /\ n.strong = fcm.strong /\ n.declared = fcm.declared
<1> DEFINE rest == fcm.queue \ {c}
           n == [fcm EXCEPT !.queue = rest]
<1>1. rest \subseteq DOMAIN fcm.candidates
  BY DEF ManagerOk
<1>2. Dequeued(c) = n
  BY DEF Dequeued
<1> HIDE DEF rest
<1>3. /\ ManagerOk(n) /\ n.queue = rest /\ n.conflicts = fcm.conflicts
      /\ n.modes = fcm.modes /\ n.candidates = fcm.candidates
      /\ n.strong = fcm.strong /\ n.declared = fcm.declared
  BY <1>1, QueueFacts
<1> QED BY <1>2, <1>3 DEF rest

LEMMA RestsBase ==
    ASSUME Base, Rests
    PROVE  Base'
<1>1. /\ frames = <<>> /\ frames' = <<>> /\ pass' \in Passes /\ UNCHANGED <<img, results, history>>
  BY DEF Rests, Idle
<1>2. ManagerOk(fcm) /\ Records /\ Stands(fcm) /\ fcm.conflicts = {}
  BY <1>1 DEF Base, Records, CallsOk, Decoding
<1>3. /\ ManagerOk(fcm') /\ fcm'.conflicts = {} /\ DOMAIN fcm'.candidates = DOMAIN fcm.candidates
      /\ Stands(fcm')
  <2>1. CASE UNCHANGED fcm
    BY <1>2, <2>1
  <2>2. ASSUME NEW c \in fcm.queue, fcm' = Dequeued(c)
        PROVE  /\ ManagerOk(fcm') /\ fcm'.conflicts = {}
               /\ DOMAIN fcm'.candidates = DOMAIN fcm.candidates /\ Stands(fcm')
    BY <1>2, <2>2, DequeuedFacts DEF Stands
  <2>3. CASE fcm' = Aborted(fcm, cur)
    <3>1. HadItsTurn(fcm, fcm', cur)
      BY <1>2, <2>3, AbortedFacts
    <3> QED BY <1>2, <3>1 DEF HadItsTurn, Like, Stands
  <2> QED BY <2>1, <2>2, <2>3 DEF Rests
<1>4. Records'
  BY <1>1, <1>2, <1>3, RecordsKeep
<1>5. CallsOk'
  <2>1. <<>> \in Seq(FrameOf(DOMAIN fcm'.candidates)) /\ Len(<<>>) = 0
    OBVIOUS
  <2> QED BY <1>1, <1>3, <2>1, CallsIntro
<1> QED BY <1>1, <1>3, <1>4, <1>5, BaseIntro

(* Undoing functions whose instruction set was wrong keeps the records.     *)
LEMMA RedecodesRecords ==
    ASSUME NEW d, NEW m, NEW start, NEW thumb, NEW data, NEW fns,
           Redecodes(d, m, start, thumb, data, fns),
           UNCHANGED img, DisOk(d),
           \A fn \in DOMAIN d.functions : fn \in DOMAIN m.candidates /\ m.candidates[fn].finished,
           DOMAIN d.functions \subseteq DOMAIN meta \cup {start}, DOMAIN meta \subseteq Addresses,
           DOMAIN d.functions \subseteq DOMAIN history', DOMAIN history' \subseteq DOMAIN m.candidates,
           DOMAIN pools \subseteq DOMAIN history'
    PROVE  /\ Records' /\ ManagerOk(fcm') /\ fcm'.conflicts = {}
           /\ DOMAIN fcm'.candidates = DOMAIN m.candidates
           /\ dis'.functions = Without(d.functions, fns) /\ Functions' = DOMAIN d.functions \ fns
<1> DEFINE functions == Without(d.functions, fns)
           noted == NotedMeta(d, start, thumb)
           booked == BookedPools(d, start, data)
           code == Without(d.ins2fn, BytesOf(d, fns))
           map == d.dataMap \ OnlyPools(BookedPools(d, start, data), fns)
<1>1. dis' = [functions |-> functions, ins2fn |-> code, dataMap |-> map]
      /\ meta' = Without(noted, fns) /\ pools' = Without(booked, fns)
  BY DEF Redecodes
<1>2. /\ DOMAIN functions = DOMAIN d.functions \ fns
      /\ \A fn \in DOMAIN functions : functions[fn] = d.functions[fn]
  BY Zenon DEF Without
<1>3. \A fn \in DOMAIN undone' : undone'[fn] \in Int
  BY DEF Redecodes
<1>4. Requeues(m, fcm', fns)
  BY DEF Redecodes
<1>5. DOMAIN meta' = DOMAIN noted \ fns /\ DOMAIN pools' = DOMAIN booked \ fns
  BY <1>1, WithoutFacts
<1>6. DOMAIN noted = IF start \in DOMAIN d.functions THEN DOMAIN meta \cup {start} ELSE DOMAIN meta
  <2>1. DOMAIN With(meta, start, thumb) = DOMAIN meta \cup {start}
    BY DEF With
  <2> HIDE DEF noted
  <2>2. noted = IF start \in DOMAIN d.functions THEN With(meta, start, thumb) ELSE meta
    BY DEF noted, NotedMeta
  <2> QED BY <2>1, <2>2
<1>7. DOMAIN booked \subseteq DOMAIN pools \cup (IF start \in DOMAIN d.functions THEN {start} ELSE {})
  <2>1. DOMAIN With(pools, start, data) = DOMAIN pools \cup {start}
    BY DEF With
  <2> HIDE DEF booked
  <2>2. booked = IF start \in DOMAIN d.functions /\ data # {} THEN With(pools, start, data) ELSE pools
    BY DEF booked, BookedPools
  <2> QED BY <2>1, <2>2
<1> HIDE DEF functions, noted, booked, code, map
<1>8. dis'.functions = functions /\ Functions' = DOMAIN functions
      /\ dis' = [functions |-> dis'.functions, ins2fn |-> dis'.ins2fn, dataMap |-> dis'.dataMap]
  BY <1>1 DEF Functions
<1>9. DisOk(dis)'
  BY <1>2, <1>8 DEF DisOk, Addresses
<1>10. start \in DOMAIN d.functions => start \in Addresses
  BY DEF DisOk
<1>11. Stands(fcm)'
  <2> SUFFICES ASSUME NEW fn \in DOMAIN functions
               PROVE  fn \in DOMAIN fcm'.candidates /\ fcm'.candidates[fn].finished
    BY <1>8 DEF Stands
  <2>1. fn \in DOMAIN d.functions \ fns
    BY <1>2
  <2> QED BY <1>4, <2>1 DEF Requeues
<1>12. /\ DOMAIN functions \subseteq DOMAIN meta' /\ DOMAIN functions \subseteq DOMAIN history'
       /\ DOMAIN meta' \subseteq Addresses /\ DOMAIN pools' \subseteq DOMAIN history'
  BY <1>2, <1>5, <1>6, <1>7, <1>10
<1>13. DOMAIN fcm'.candidates = DOMAIN m.candidates /\ ManagerOk(fcm') /\ fcm'.conflicts = {}
  BY <1>4 DEF Requeues
<1>14. Addresses' = Addresses
  BY DEF Addresses
<1>15. Records'
  BY <1>3, <1>8, <1>9, <1>11, <1>12, <1>13, <1>14 DEF Records
<1> QED BY <1>2, <1>8, <1>13, <1>15 DEF functions

LEMMA TurnFacts ==
    ASSUME NEW m, NEW n, NEW addr, HadItsTurn(m, n, addr)
    PROVE  /\ ManagerOk(n) /\ DOMAIN n.candidates = DOMAIN m.candidates
           /\ n.conflicts = m.conflicts /\ n.modes = m.modes /\ n.queue = m.queue
           /\ n.strong = m.strong /\ n.declared = m.declared
           /\ \A c \in DOMAIN m.candidates :
                 /\ n.candidates[c].thumb = m.candidates[c].thumb
                 /\ m.candidates[c].finished => n.candidates[c].finished
                 /\ c # addr => n.candidates[c].finished = m.candidates[c].finished
           /\ addr \in DOMAIN m.candidates => n.candidates[addr].finished
BY DEF HadItsTurn, Like

(* What a step that refuses a candidate does, unfolded.                     *)
LEMMA RefusesFacts ==
    ASSUME Base, Refuses
    PROVE  \E c \in fcm.queue : \E m : \E thumb : \E fns :
              /\ Eligible(c) /\ IsCode(c) /\ HadItsTurn(Dequeued(c), m, c)
              /\ ManagerOk(Dequeued(c)) /\ Dequeued(c).candidates = fcm.candidates
              /\ Dequeued(c).conflicts = {} /\ Dequeued(c).queue = fcm.queue \ {c}
              /\ Dequeued(c).modes = fcm.modes /\ Dequeued(c).strong = fcm.strong
              /\ Dequeued(c).declared = fcm.declared
              /\ thumb = IsThumb(m, c) /\ Redecodes(dis, m, c, thumb, {}, fns)
<1>1. PICK c \in fcm.queue : Eligible(c) /\ IsCode(c) /\ Refused(Dequeued(c), c)
  BY DEF Refuses
<1> DEFINE n == Dequeued(c)
           m == Aborted(n, c)
           thumb == IsThumb(n, c)
           nothing == {}
<1>2. ManagerOk(fcm) /\ fcm.conflicts = {} /\ Records /\ Idle
  BY DEF Base, CallsOk, Refuses, Idle, Decoding
<1>3. /\ ManagerOk(n) /\ n.queue = fcm.queue \ {c} /\ n.conflicts = fcm.conflicts
      /\ n.modes = fcm.modes /\ n.candidates = fcm.candidates
      /\ n.strong = fcm.strong /\ n.declared = fcm.declared
  BY <1>2, DequeuedFacts
<1>4. Result(Wrapped(dis, m, c, thumb, nothing))
  BY <1>1 DEF Refused
<1> HIDE DEF n
<1>5. HadItsTurn(n, m, c)
  BY <1>3, AbortedFacts
<1>6. thumb = IsThumb(m, c)
  <2>1. m.modes = n.modes /\ ManagerOk(m)
    BY <1>5, TurnFacts
  <2> HIDE DEF m
  <2> QED BY <1>3, <2>1, ModeFacts
<1> HIDE DEF m, thumb, nothing
<1>7. ManagerOk(m) /\ DOMAIN m.candidates = DOMAIN fcm.candidates
  BY <1>3, <1>5, TurnFacts
<1>8. DOMAIN dis.functions \subseteq DOMAIN m.candidates /\ \A fn \in DOMAIN undone : undone[fn] \in Int
  BY <1>2, <1>7 DEF Records, Stands, Functions
<1>9. PICK fns : Redecodes(dis, m, c, thumb, nothing, fns)
  BY <1>4, <1>7, <1>8, WrappedFacts
<1> QED BY <1>1, <1>2, <1>3, <1>5, <1>6, <1>9 DEF n, nothing

LEMMA RefusesBase ==
    ASSUME Base, Refuses
    PROVE  Base'
<1>1. PICK c, m, thumb, fns :
              /\ c \in fcm.queue
              /\ Eligible(c) /\ IsCode(c) /\ HadItsTurn(Dequeued(c), m, c)
              /\ ManagerOk(Dequeued(c)) /\ Dequeued(c).candidates = fcm.candidates
              /\ Dequeued(c).conflicts = {} /\ Dequeued(c).queue = fcm.queue \ {c}
              /\ Dequeued(c).modes = fcm.modes /\ Dequeued(c).strong = fcm.strong
              /\ Dequeued(c).declared = fcm.declared
              /\ thumb = IsThumb(m, c) /\ Redecodes(dis, m, c, thumb, {}, fns)
  BY RefusesFacts
<1> DEFINE nothing == {}
<1>2. Redecodes(dis, m, c, thumb, nothing, fns)
  BY <1>1
<1> HIDE DEF nothing
<1>3. /\ Records /\ frames = <<>> /\ UNCHANGED <<img, pass, frames, history>>
      /\ pass \in Passes
  BY DEF Base, Refuses, Idle, AfterDrain, Passes
<1>4. /\ DOMAIN m.candidates = DOMAIN fcm.candidates
      /\ \A k \in DOMAIN fcm.candidates : fcm.candidates[k].finished => m.candidates[k].finished
  BY <1>1, TurnFacts
<1>5. /\ DisOk(dis)
      /\ \A fn \in DOMAIN dis.functions : fn \in DOMAIN m.candidates /\ m.candidates[fn].finished
      /\ DOMAIN dis.functions \subseteq DOMAIN meta \cup {c} /\ DOMAIN meta \subseteq Addresses
      /\ DOMAIN dis.functions \subseteq DOMAIN history' /\ DOMAIN history' \subseteq DOMAIN m.candidates
      /\ DOMAIN pools \subseteq DOMAIN history'
  BY <1>3, <1>4 DEF Records, Stands, Functions
<1>6. /\ Records' /\ ManagerOk(fcm') /\ fcm'.conflicts = {}
      /\ DOMAIN fcm'.candidates = DOMAIN m.candidates
  BY <1>2, <1>3, <1>5, RedecodesRecords
<1>7. CallsOk'
  <2>1. <<>> \in Seq(FrameOf(DOMAIN fcm'.candidates)) /\ Len(<<>>) = 0
    OBVIOUS
  <2> QED BY <1>3, <1>6, <2>1, CallsIntro
<1> QED BY <1>3, <1>6, <1>7, BaseIntro

LEMMA BeginsBase ==
    ASSUME Base, Begins
    PROVE  Base'
<1>1. PICK f : /\ Begun(f) /\ frames' = <<f>>
               /\ \/ f.start \in fcm.queue /\ fcm' = Dequeued(f.start)
                     /\ f.start \in DOMAIN fcm.candidates
                  \/ /\ Grows(fcm, fcm')
                     /\ Functions \subseteq DOMAIN dis.ins2fn => Follows(fcm, fcm')
  BY DEF Begins
<1>2. pass' \in Passes /\ UNCHANGED <<img, results, history>> /\ ManagerOk(fcm) /\ Records /\ Stands(fcm)
  BY DEF Begins, Base, Records
<1>3. /\ ManagerOk(fcm') /\ DOMAIN fcm.candidates \subseteq DOMAIN fcm'.candidates /\ Stands(fcm')
  <2>1. CASE fcm' = Dequeued(f.start)
    BY <1>2, <2>1, DequeuedFacts DEF Stands
  <2>2. CASE Grows(fcm, fcm')
    BY <1>2, <2>2, StandsStill DEF Grows
  <2> QED BY <1>1, <2>1, <2>2
<1>4. Records'
  BY <1>2, <1>3, RecordsKeep
<1>5. CallsOk'
  <2> DEFINE S == FrameOf(DOMAIN fcm'.candidates)
  <2>1. f \in S /\ f.phase = "decode"
    BY <1>1 DEF Begun
  <2> HIDE DEF S
  <2>2. <<f>> \in Seq(S) /\ Len(<<f>>) = 1 /\ <<f>>[1] = f
    BY <2>1
  <2> QED BY <1>1, <1>2, <2>1, <2>2, CallsIntro DEF S
<1> QED BY <1>2, <1>3, <1>4, <1>5, BaseIntro

LEMMA WalkBase ==
    ASSUME Base, WalkStep
    PROVE  Base'
<1> DEFINE D == DOMAIN fcm.candidates
<1>1. PICK g : Update(g) /\ Keeps(g) /\ (Passing(g) \/ Booking(g) \/ Undoing(g))
  BY DEF WalkStep
<1>2. /\ frames # <<>> /\ Decoding /\ UNCHANGED <<img, meta, pools, undone, pass, history>>
      /\ ManagerOk(fcm) /\ Records /\ Stands(fcm) /\ frames \in Seq(FrameOf(D))
      /\ \A k \in 1..(Len(frames) - 1) : frames[k].phase # "decode"
  BY DEF WalkStep, Decoding, Base, Records, CallsOk
<1>3. pass' \in Passes
  BY <1>2, NotReading
<1>4. ManagerOk(fcm') /\ D \subseteq DOMAIN fcm'.candidates /\ Records'
  <2>1. CASE UNCHANGED dis /\ Follows(fcm, fcm')
    <3>1. Grows(fcm, fcm')
      BY <2>1 DEF Follows
    <3>2. Stands(fcm') /\ ManagerOk(fcm') /\ D \subseteq DOMAIN fcm'.candidates
      BY <1>2, <3>1, StandsStill DEF Grows
    <3> QED BY <1>2, <2>1, <3>2, RecordsKeep DEF results
  <2>2. CASE Undoing(g)
    <3>1. PICK fn, m :
            fn \in Functions /\ dis' = Ungapped(dis, {fn}) /\ Follows(fcm, m) /\ fcm' = Aborted(m, fn)
      BY <2>2 DEF Undoing
    <3>2. ManagerOk(m) /\ Stands(m) /\ D \subseteq DOMAIN m.candidates
      BY <1>2, <3>1, StandsStill DEF Follows, Grows
    <3>3. HadItsTurn(m, fcm', fn)
      BY <3>1, <3>2, AbortedFacts
    <3>4. /\ ManagerOk(fcm') /\ D \subseteq DOMAIN fcm'.candidates
          /\ \A c \in DOMAIN m.candidates : c \in DOMAIN fcm'.candidates
                                            /\ (m.candidates[c].finished => fcm'.candidates[c].finished)
      BY <3>2, <3>3, TurnFacts
    <3> DEFINE functions == Without(dis.functions, {fn})
               code == Without(dis.ins2fn, BytesOf(dis, {fn}))
    <3>5. dis = [functions |-> dis.functions, ins2fn |-> dis.ins2fn, dataMap |-> dis.dataMap]
      BY <1>2 DEF Records, DisOk
    <3>6. dis' = [dis EXCEPT !.functions = functions, !.ins2fn = code]
      BY <3>1 DEF Ungapped
    <3>7. /\ DOMAIN functions = Functions \ {fn}
          /\ \A x \in DOMAIN functions : functions[x] = dis.functions[x]
      BY Zenon DEF Functions, Without
    <3> HIDE DEF functions, code
    <3>8. dis' = [functions |-> functions, ins2fn |-> code, dataMap |-> dis.dataMap]
      BY <3>5, <3>6
    <3>9. DisOk(dis)'
      BY <1>2, <3>7, <3>8 DEF Records, DisOk, Addresses, Functions
    <3>10. Functions' = Functions \ {fn}
      BY <3>7, <3>8 DEF Functions
    <3>11. Stands(fcm)'
      BY <3>2, <3>4, <3>10 DEF Stands
    <3>12. Addresses' = Addresses
      BY <1>2 DEF Addresses
    <3> QED BY <1>2, <3>4, <3>9, <3>10, <3>11, <3>12 DEF Records
  <2> QED BY <1>1, <2>1, <2>2 DEF Passing, Booking
<1>5. CallsOk'
  <2> DEFINE S == FrameOf(D)
  <2>1. g \in S /\ g.phase = "decode" /\ frames' = [frames EXCEPT ![Len(frames)] = g] /\ frames \in Seq(S)
    BY <1>1, <1>2 DEF Keeps, Update, Decoding
  <2> HIDE DEF S, D
  <2>2. /\ frames' \in Seq(S) /\ frames' # <<>> /\ Len(frames') = Len(frames)
        /\ frames'[Len(frames')] = g /\ \A k \in 1..(Len(frames) - 1) : frames'[k] = frames[k]
    BY <1>2, <2>1, ReplaceTop
  <2>3. frames' \in Seq(FrameOf(DOMAIN fcm'.candidates))
    BY <1>4, <2>2, FramesGrow DEF S
  <2>4. \A k \in 1..(Len(frames') - 1) : frames'[k].phase # "decode"
    BY <1>2, <2>2
  <2> QED BY <1>2, <2>1, <2>2, <2>3, <2>4, CallsIntro
<1> QED BY <1>2, <1>3, <1>4, <1>5, BaseIntro

LEMMA StoredFacts ==
    ASSUME DisOk(dis), NEW D, Top \in FrameOf(D), Accepted
    PROVE  /\ DisOk(Stored) /\ DOMAIN Stored.functions = Functions \cup {Top.start}
           /\ Stored.functions[Top.start] = [ins |-> Top.ins, bytes |-> Top.bytes]
           /\ \A fn \in Functions \ {Top.start} : Stored.functions[fn] = dis.functions[fn]
           /\ Stored.dataMap = dis.dataMap \cup Top.data
           /\ DOMAIN Stored.ins2fn = DOMAIN dis.ins2fn \cup Top.bytes
           /\ \A b \in Top.bytes : Stored.ins2fn[b] = Top.start
           /\ \A b \in DOMAIN dis.ins2fn \ Top.bytes : Stored.ins2fn[b] = dis.ins2fn[b]
<1> DEFINE f == [ins |-> Top.ins, bytes |-> Top.bytes]
           functions == With(dis.functions, Top.start, f)
           code == [b \in DOMAIN dis.ins2fn \cup Top.bytes |->
                       IF b \in Top.bytes THEN Top.start ELSE dis.ins2fn[b]]
           data == dis.dataMap \cup Top.data
           s == Stored
<1>1. s = [functions |-> functions, ins2fn |-> code, dataMap |-> data]
  BY DEF Stored
<1>2. /\ DOMAIN functions = Functions \cup {Top.start} /\ functions[Top.start] = f
      /\ \A fn \in Functions \ {Top.start} : functions[fn] = dis.functions[fn]
  BY DEF With, Functions
<1>3. /\ DOMAIN code = DOMAIN dis.ins2fn \cup Top.bytes /\ \A b \in Top.bytes : code[b] = Top.start
      /\ \A b \in DOMAIN dis.ins2fn \ Top.bytes : code[b] = dis.ins2fn[b]
  OBVIOUS
<1>4. f.ins = Top.ins /\ f.bytes = Top.bytes
  OBVIOUS
<1>5. Top.start \in Top.ins /\ Top.ins \subseteq Top.bytes /\ Top.ins \subseteq Addresses
  BY FrameParts DEF Accepted
<1> HIDE DEF f, functions, code, s
<1>6. s = [functions |-> s.functions, ins2fn |-> s.ins2fn, dataMap |-> s.dataMap]
      /\ s.functions = functions /\ s.ins2fn = code /\ s.dataMap = data
  BY <1>1
<1>7. DisOk(s)
  <2> SUFFICES ASSUME NEW fn \in DOMAIN functions
               PROVE  /\ fn \in functions[fn].ins
                      /\ functions[fn].ins \subseteq functions[fn].bytes
                      /\ functions[fn].ins \subseteq Addresses
    BY <1>6 DEF DisOk
  <2>1. CASE fn = Top.start
    BY <1>2, <1>4, <1>5, <2>1
  <2>2. CASE fn # Top.start
    <3>1. fn \in Functions /\ functions[fn] = dis.functions[fn]
      BY <1>2, <2>2
    <3> QED BY <3>1 DEF DisOk, Functions
  <2> QED BY <2>1, <2>2
<1> QED BY <1>2, <1>3, <1>6, <1>7 DEF s, f, data

(* What a step that ends a walk does, unfolded.                             *)
LEMMA ReturnsFacts ==
    ASSUME Base, Returns
    PROVE  \E d : \E m : \E fns :
              /\ HadItsTurn(fcm, m, Top.start)
              /\ Redecodes(d, m, Top.start, Top.thumb, Top.data, fns)
              /\ \/ d = dis /\ UNCHANGED history
                 \/ /\ d = Stored /\ Walked /\ ~RanIntoPool /\ Accepted
                    /\ history' = With(history, Top.start, Top.thumb)
<1>1. PICK d, m :
          /\ Result(Wrapped(d, m, Top.start, Top.thumb, Top.data)) /\ HadItsTurn(fcm, m, Top.start)
          /\ \/ d = dis /\ UNCHANGED history
             \/ /\ d = Stored /\ Walked /\ ~RanIntoPool /\ Accepted
                /\ history' = With(history, Top.start, Top.thumb)
  BY DEF Returns
<1>2. ManagerOk(fcm) /\ Records /\ Top \in FrameOf(DOMAIN fcm.candidates)
  BY ReadyTop DEF Base, Returns, Decoding, Ready
<1>3. ManagerOk(m) /\ DOMAIN m.candidates = DOMAIN fcm.candidates
  BY <1>1, TurnFacts
<1>4. DOMAIN d.functions \subseteq DOMAIN m.candidates
  <2>1. Functions \subseteq DOMAIN fcm.candidates /\ Top.start \in DOMAIN fcm.candidates /\ DisOk(dis)
    BY <1>2, FrameParts DEF Records, Stands
  <2>2. CASE d = dis
    BY <1>3, <2>1, <2>2 DEF Functions
  <2>3. CASE d = Stored /\ Accepted
    <3>1. DOMAIN Stored.functions = Functions \cup {Top.start}
      BY <1>2, <2>1, <2>3, StoredFacts
    <3> QED BY <1>3, <2>1, <2>3, <3>1
  <2> QED BY <1>1, <2>2, <2>3
<1>5. \A fn \in DOMAIN undone : undone[fn] \in Int
  BY <1>2 DEF Records
<1>6. PICK fns : Redecodes(d, m, Top.start, Top.thumb, Top.data, fns)
  BY <1>1, <1>3, <1>4, <1>5, WrappedFacts
<1> QED BY <1>1, <1>6

LEMMA PoppedCalls ==
    ASSUME Base, frames # <<>>, frames' = Front(frames), UNCHANGED img, fcm'.conflicts = {},
           DOMAIN fcm.candidates \subseteq DOMAIN fcm'.candidates
    PROVE  CallsOk'
<1> DEFINE S == FrameOf(DOMAIN fcm.candidates)
<1>1. frames \in Seq(S) /\ \A k \in 1..(Len(frames) - 1) : frames[k].phase # "decode"
  BY DEF Base, CallsOk
<1> HIDE DEF S
<1>2. /\ frames' \in Seq(S) /\ Len(frames') = Len(frames) - 1 /\ Len(frames) >= 1
      /\ \A k \in 1..Len(frames') : frames'[k] = frames[k]
  BY <1>1, PopTop
<1>3. frames' \in Seq(FrameOf(DOMAIN fcm'.candidates))
  BY <1>2, FramesGrow DEF S
<1>4. \A k \in 1..(Len(frames') - 1) : frames'[k].phase # "decode"
  <2>1. Len(frames) \in Nat
    BY <1>1
  <2> QED BY <1>1, <1>2, <2>1
<1> QED BY <1>3, <1>4, CallsIntro

LEMMA ReturnsBase ==
    ASSUME Base, Returns
    PROVE  Base'
<1>1. PICK d, m, fns :
              /\ HadItsTurn(fcm, m, Top.start)
              /\ Redecodes(d, m, Top.start, Top.thumb, Top.data, fns)
              /\ \/ d = dis /\ UNCHANGED history
                 \/ /\ d = Stored /\ Walked /\ ~RanIntoPool /\ Accepted
                    /\ history' = With(history, Top.start, Top.thumb)
  BY ReturnsFacts
<1>2. /\ ManagerOk(fcm) /\ Records /\ Top \in FrameOf(DOMAIN fcm.candidates) /\ frames # <<>>
      /\ frames' = Front(frames) /\ UNCHANGED <<img, pass>>
  BY ReadyTop DEF Base, Returns, Decoding, Ready
<1>3. /\ DOMAIN m.candidates = DOMAIN fcm.candidates
      /\ \A c \in DOMAIN fcm.candidates : fcm.candidates[c].finished => m.candidates[c].finished
      /\ Top.start \in DOMAIN fcm.candidates => m.candidates[Top.start].finished
  BY <1>1, TurnFacts
<1>4. Functions \subseteq DOMAIN fcm.candidates /\ Top.start \in DOMAIN fcm.candidates /\ DisOk(dis)
  BY <1>2, FrameParts DEF Records, Stands
<1>5. /\ DisOk(d) /\ Functions \subseteq DOMAIN d.functions
      /\ DOMAIN d.functions \subseteq Functions \cup {Top.start}
      /\ DOMAIN d.functions \subseteq DOMAIN history'
      /\ DOMAIN history \subseteq DOMAIN history'
      /\ DOMAIN history' \subseteq DOMAIN history \cup {Top.start}
  <2>1. CASE d = dis /\ UNCHANGED history
    BY <1>2, <1>4, <2>1 DEF Functions, Records
  <2>2. CASE d = Stored /\ Accepted /\ history' = With(history, Top.start, Top.thumb)
    <3>1. DisOk(d) /\ DOMAIN d.functions = Functions \cup {Top.start}
      BY <1>2, <1>4, <2>2, StoredFacts
    <3>2. DOMAIN history' = DOMAIN history \cup {Top.start}
      BY <2>2 DEF With
    <3> QED BY <1>2, <3>1, <3>2 DEF Records
  <2> QED BY <1>1, <2>1, <2>2
<1>6. /\ \A fn \in DOMAIN d.functions : fn \in DOMAIN m.candidates /\ m.candidates[fn].finished
      /\ DOMAIN d.functions \subseteq DOMAIN meta \cup {Top.start} /\ DOMAIN meta \subseteq Addresses
      /\ DOMAIN history' \subseteq DOMAIN m.candidates /\ DOMAIN pools \subseteq DOMAIN history'
  BY <1>2, <1>3, <1>4, <1>5 DEF Records, Stands
<1>7. /\ Records' /\ ManagerOk(fcm') /\ fcm'.conflicts = {}
      /\ DOMAIN fcm'.candidates = DOMAIN m.candidates
  BY <1>1, <1>2, <1>5, <1>6, RedecodesRecords
<1>8. CallsOk'
  BY <1>2, <1>3, <1>7, PoppedCalls
<1>9. pass' \in Passes
  BY <1>2, NotReading
<1> QED BY <1>2, <1>7, <1>8, <1>9, BaseIntro

LEMMA CompletesFacts ==
    ASSUME Base, Completes
    PROVE  \E fns : Redecodes(dis, fcm, Top.start, Top.thumb, {}, fns) /\ fns = {}
<1> DEFINE nothing == {}
<1>1. ManagerOk(fcm) /\ Records /\ fcm.conflicts = {}
  BY DEF Base, CallsOk, Completes, Restoring, Decoding
<1>2. Result(Wrapped(dis, fcm, Top.start, Top.thumb, nothing))
  BY DEF Completes
<1>3. DOMAIN dis.functions \subseteq DOMAIN fcm.candidates /\ \A fn \in DOMAIN undone : undone[fn] \in Int
  BY <1>1 DEF Records, Stands, Functions
<1> HIDE DEF nothing
<1>4. PICK fns : Redecodes(dis, fcm, Top.start, Top.thumb, nothing, fns)
  BY <1>1, <1>2, <1>3, WrappedFacts
<1>5. fns = {}
  BY <1>1, <1>4 DEF Redecodes
<1> QED BY <1>4, <1>5 DEF nothing

LEMMA CompletesBase ==
    ASSUME Base, Completes
    PROVE  Base'
<1> DEFINE nothing == {}
<1>1. PICK fns : Redecodes(dis, fcm, Top.start, Top.thumb, nothing, fns)
  BY CompletesFacts
<1> HIDE DEF nothing
<1>2. /\ ManagerOk(fcm) /\ Records /\ frames # <<>>
      /\ frames' = Front(frames) /\ UNCHANGED <<img, pass, history>>
  BY DEF Base, Completes, Restoring
<1>3. /\ DisOk(dis)
      /\ \A fn \in DOMAIN dis.functions : fn \in DOMAIN fcm.candidates /\ fcm.candidates[fn].finished
      /\ DOMAIN dis.functions \subseteq DOMAIN meta \cup {Top.start} /\ DOMAIN meta \subseteq Addresses
      /\ DOMAIN dis.functions \subseteq DOMAIN history'
      /\ DOMAIN history' \subseteq DOMAIN fcm.candidates /\ DOMAIN pools \subseteq DOMAIN history'
  BY <1>2 DEF Records, Stands, Functions
<1>4. /\ Records' /\ ManagerOk(fcm') /\ fcm'.conflicts = {}
      /\ DOMAIN fcm'.candidates = DOMAIN fcm.candidates
  BY <1>1, <1>2, <1>3, RedecodesRecords
<1>5. CallsOk'
  BY <1>2, <1>4, PoppedCalls
<1>6. pass' \in Passes
  BY <1>2, NotReading
<1> QED BY <1>2, <1>4, <1>5, <1>6, BaseIntro

LEMMA CallsOnBase ==
    ASSUME Base, CallsOn
    PROVE  Base'
<1> DEFINE S == FrameOf(DOMAIN fcm.candidates)
<1>1. PICK f, g :
          /\ Call(f, g) /\ Called(g) /\ f \in S /\ f.phase # "decode"
          /\ \/ UNCHANGED fcm
             \/ /\ Like(fcm, fcm')
                /\ \A c \in DOMAIN fcm.candidates :
                      fcm'.candidates[c].finished = fcm.candidates[c].finished
  BY DEF CallsOn
<1>2. /\ frames # <<>> /\ UNCHANGED <<img, results, pass, history>> /\ ManagerOk(fcm) /\ Records
      /\ Stands(fcm) /\ frames \in Seq(S)
      /\ \A k \in 1..(Len(frames) - 1) : frames[k].phase # "decode"
  BY DEF CallsOn, Base, CallsOk, Records, scan
<1>3. ManagerOk(fcm') /\ DOMAIN fcm'.candidates = DOMAIN fcm.candidates /\ Stands(fcm')
  <2>1. CASE UNCHANGED fcm
    BY <1>2, <2>1
  <2>2. CASE /\ Like(fcm, fcm')
             /\ \A c \in DOMAIN fcm.candidates : fcm'.candidates[c].finished = fcm.candidates[c].finished
    BY <1>2, <2>2 DEF Like, Stands
  <2> QED BY <1>1, <2>1, <2>2
<1>4. Records'
  BY <1>2, <1>3, RecordsKeep
<1>5. g \in S /\ g.phase = "decode" /\ frames' = Append([frames EXCEPT ![Len(frames)] = f], g)
  BY <1>1 DEF Called, Call
<1> HIDE DEF S
<1>6. /\ frames' \in Seq(S) /\ frames' # <<>> /\ Len(frames') = Len(frames) + 1
      /\ frames'[Len(frames')] = g /\ frames'[Len(frames)] = f
      /\ \A k \in 1..(Len(frames) - 1) : frames'[k] = frames[k]
  BY <1>1, <1>2, <1>5, PushTop
<1>7. CallsOk'
  <2>1. frames' \in Seq(FrameOf(DOMAIN fcm'.candidates))
    BY <1>3, <1>6 DEF S
  <2>2. Len(frames) \in Nat
    BY <1>2
  <2>3. \A k \in 1..(Len(frames') - 1) : frames'[k].phase # "decode"
    BY <1>1, <1>2, <1>6, <2>2
  <2> QED BY <1>2, <1>5, <1>6, <2>1, <2>3, CallsIntro
<1>8. pass' \in Passes
  BY <1>2, NotReading
<1> QED BY <1>2, <1>3, <1>4, <1>7, <1>8, BaseIntro

LEMMA ResumesBase ==
    ASSUME Base, Resumes
    PROVE  Base'
<1> DEFINE S == FrameOf(DOMAIN fcm.candidates)
<1>1. PICK f : Update(f) /\ f \in S /\ f.phase # "decode"
  BY DEF Resumes
<1>2. /\ frames # <<>> /\ UNCHANGED <<img, results, pass, history>> /\ ManagerOk(fcm) /\ Records
      /\ Stands(fcm) /\ frames \in Seq(S) /\ fcm.conflicts = {}
      /\ \A k \in 1..(Len(frames) - 1) : frames[k].phase # "decode"
      /\ UNCHANGED fcm \/ (Reverted \notin Functions /\ fcm' = Aborted(fcm, Reverted))
  BY DEF Resumes, Base, CallsOk, Records, scan
<1>3. /\ ManagerOk(fcm') /\ DOMAIN fcm'.candidates = DOMAIN fcm.candidates /\ Stands(fcm')
      /\ fcm'.conflicts = {}
  <2>1. CASE UNCHANGED fcm
    BY <1>2, <2>1
  <2>2. CASE fcm' = Aborted(fcm, Reverted)
    <3>1. HadItsTurn(fcm, fcm', Reverted)
      BY <1>2, <2>2, AbortedFacts
    <3> QED BY <1>2, <3>1, TurnFacts DEF Stands
  <2> QED BY <1>2, <2>1, <2>2
<1>4. Records'
  BY <1>2, <1>3, RecordsKeep
<1>5. frames' = [frames EXCEPT ![Len(frames)] = f]
  BY <1>1 DEF Update
<1> HIDE DEF S
<1>6. /\ frames' \in Seq(S) /\ frames' # <<>> /\ Len(frames') = Len(frames)
      /\ frames'[Len(frames')] = f /\ \A k \in 1..(Len(frames) - 1) : frames'[k] = frames[k]
  BY <1>1, <1>2, <1>5, ReplaceTop
<1>7. CallsOk'
  <2>1. frames' \in Seq(FrameOf(DOMAIN fcm'.candidates))
    BY <1>3, <1>6 DEF S
  <2>2. \A k \in 1..(Len(frames') - 1) : frames'[k].phase # "decode"
    BY <1>2, <1>6
  <2> QED BY <1>2, <1>3, <2>1, <2>2, CallsIntro
<1>8. pass' \in Passes
  BY <1>2, NotReading
<1> QED BY <1>2, <1>3, <1>4, <1>7, <1>8, BaseIntro

LEMMA StutterBase ==
    ASSUME Base, UNCHANGED vars
    PROVE  Base'
<1>1. UNCHANGED <<img, dis, fcm, pass, work, frames, meta, pools, history, undone>>
  BY DEF vars
<1>2. CASE pass \in Reads
  <2>1. Items(pass)' = Items(pass)
    BY <1>1 DEF Items, SymbolValues, Calls, PointerSlots, Pushes, ScannedAs, ScanModes, At,
                Nothing, RegionThumb, MappingKind, Addresses, NoAddr
  <2>2. Discovers
    BY <1>1, <1>2, <2>1 DEF Discovers, WorkOk, Base, Discovering, results
  <2> QED BY <2>2, DiscoversBase
<1>3. CASE pass \in Passes
  <2>1. Records /\ Stands(fcm) /\ ManagerOk(fcm)
    BY DEF Base, Records
  <2>2. Records'
    BY <1>1, <2>1, RecordsKeep DEF results, Stands
  <2>3. CallsOk'
    BY <1>1 DEF Base, CallsOk, FrameOf, Addresses, Decoding, Top
  <2> QED BY <1>1, <1>3, <2>1, <2>2, <2>3, BaseIntro
<1> QED BY <1>2, <1>3 DEF Base

LEMMA BaseKept ==
    ASSUME Base, [Next]_vars
    PROVE  Base'
<1>1. CASE Next
  BY <1>1, NextEffects, DiscoversBase, RestsBase, RefusesBase, BeginsBase, WalkBase, CallsOnBase,
     ResumesBase, ReturnsBase, CompletesBase DEF Effects
<1>2. CASE UNCHANGED vars
  BY <1>2, StutterBase
<1> QED BY <1>1, <1>2

LEMMA InitBase ==
    ASSUME Init
    PROVE  Base
<1> DEFINE nothing == <<>>
<1>1. /\ img \in Images /\ pass = "symbols" /\ work = DOMAIN img.symbols /\ frames = nothing
      /\ meta = nothing /\ pools = nothing /\ history = nothing /\ undone = nothing
      /\ dis = [functions |-> nothing, ins2fn |-> nothing, dataMap |-> {}]
      /\ fcm = [modes |-> nothing, conflicts |-> {}, candidates |-> nothing, queue |-> {},
                strong |-> {}, declared |-> {}, calls |-> nothing]
  BY DEF Init
<1>2. DOMAIN nothing = {} /\ nothing = [x \in DOMAIN nothing |-> nothing[x]] /\ nothing \in Seq({})
  OBVIOUS
<1>3. frames \in Seq(FrameOf(DOMAIN fcm.candidates)) /\ Len(frames) = 0
  BY <1>1
<1> HIDE DEF nothing
<1>4. ManagerOk(fcm) /\ fcm.conflicts = {} /\ DOMAIN fcm.candidates = {}
  BY <1>1, <1>2 DEF ManagerOk, PartialMap
<1>5. Functions = {} /\ DOMAIN history = {} /\ DOMAIN undone = {} /\ DOMAIN meta = {} /\ DOMAIN pools = {}
  BY <1>1, <1>2 DEF Functions
<1>6. Records
  BY <1>1, <1>5 DEF Records, DisOk, Stands, Functions
<1>7. CallsOk
  BY <1>3, <1>4 DEF CallsOk
<1>8. Discovering
  BY <1>1, <1>4, <1>5 DEF Discovering, Fresh, nothing
<1>9. WorkOk
  BY <1>1 DEF WorkOk, Items
<1>10. pass \in Reads
  BY <1>1 DEF Reads
<1> QED BY <1>1, <1>4, <1>6, <1>7, <1>8, <1>9, <1>10 DEF Base

LEMMA BaseTypes ==
    ASSUME Base
    PROVE  TypeOK
<1>1. pass \in DOMAIN Following \cup {"prologues", "drain", "gap", "redrain", "done"}
  BY DEF Base, Following, Reads, Passes
<1>2. ASSUME NEW k \in DOMAIN frames
      PROVE  FrameOk(frames[k])
  <2>1. frames[k] \in FrameOf(DOMAIN fcm.candidates)
    BY DEF Base, CallsOk
  <2> DEFINE f == frames[k]
  <2>2. f \in FrameOf(DOMAIN fcm.candidates)
    BY <2>1
  <2> HIDE DEF f
  <2>3. FrameOk(f)
    BY <2>2, FrameParts DEF FrameOk, Phases
  <2> QED BY <2>3 DEF f
<1>3. \A a \in DOMAIN fcm.modes : fcm.modes[a].thumb \in BOOLEAN
  BY ModeFacts DEF Base
<1> QED BY <1>1, <1>2, <1>3 DEF TypeOK, Base, Records, ManagerOk

LEMMA SpecBase == Spec => []Base
<1>1. Init => Base
  BY InitBase
<1>2. Base /\ [Next]_vars => Base'
  BY BaseKept
<1> QED BY <1>1, <1>2, PTL DEF Spec

(* What the model is built of keeps its shape for every image: the pass is  *)
(* one of the passes, every call in progress a frame whose instructions lie *)
(* in its bytes, the metadata tells of addresses of the image, pools belong *)
(* to what once was a function, and only candidates wait in the queue.      *)
THEOREM TypesHold == Spec => []TypeOK
<1>1. Base => TypeOK
  BY BaseTypes
<1> QED BY <1>1, SpecBase, PTL

-----------------------------------------------------------------------------
(* The call on top behind a step.                                           *)
LEMMA UpdateTop ==
    ASSUME Base, frames # <<>>, NEW g \in FrameOf(DOMAIN fcm.candidates), Update(g)
    PROVE  Top' = g /\ frames' # <<>>
<1> DEFINE S == FrameOf(DOMAIN fcm.candidates)
<1>1. frames \in Seq(S) /\ g \in S /\ frames' = [frames EXCEPT ![Len(frames)] = g]
  BY DEF Base, CallsOk, Update
<1> HIDE DEF S
<1>2. frames' # <<>> /\ frames'[Len(frames')] = g
  BY <1>1, ReplaceTop
<1> QED BY <1>2 DEF Top

LEMMA CallTop ==
    ASSUME Base, frames # <<>>, NEW f \in FrameOf(DOMAIN fcm.candidates),
           NEW g \in FrameOf(DOMAIN fcm.candidates), Call(f, g)
    PROVE  Top' = g /\ frames' # <<>>
<1> DEFINE S == FrameOf(DOMAIN fcm.candidates)
<1>1. /\ frames \in Seq(S) /\ f \in S /\ g \in S
      /\ frames' = Append([frames EXCEPT ![Len(frames)] = f], g)
  BY DEF Base, CallsOk, Call
<1> HIDE DEF S
<1>2. frames' # <<>> /\ frames'[Len(frames')] = g
  BY <1>1, PushTop
<1> QED BY <1>2 DEF Top

LEMMA BeginTop ==
    ASSUME NEW f, frames' = <<f>>
    PROVE  Top' = f /\ frames' # <<>>
BY DEF Top

LEMMA PoppedIdles ==
    ASSUME Base, frames # <<>>, frames' = Front(frames)
    PROVE  ~Decoding'
<1> DEFINE S == FrameOf(DOMAIN fcm.candidates)
<1>1. frames \in Seq(S) /\ \A k \in 1..(Len(frames) - 1) : frames[k].phase # "decode"
  BY DEF Base, CallsOk
<1> HIDE DEF S
<1>2. /\ frames' \in Seq(S) /\ Len(frames') = Len(frames) - 1 /\ Len(frames) >= 1
      /\ frames' = <<>> \/ Len(frames') >= 1
      /\ \A k \in 1..Len(frames') : frames'[k] = frames[k]
  BY <1>1, PopTop
<1>3. ASSUME frames' # <<>>
      PROVE  frames'[Len(frames')].phase # "decode"
  <2>1. Len(frames') \in 1..Len(frames') /\ Len(frames') \in 1..(Len(frames) - 1)
    BY <1>2, <1>3
  <2> QED BY <1>1, <1>2, <2>1
<1> QED BY <1>3 DEF Decoding, Top

-----------------------------------------------------------------------------
(* Ownership.  The code map is what the functions hold; what is decoded is  *)
(* not in it, and not of an entry that is a function.                       *)
OwnedIn(d) ==
    /\ DOMAIN d.ins2fn = BytesOf(d, DOMAIN d.functions)
    /\ \A fn \in DOMAIN d.functions : \A b \in d.functions[fn].bytes : d.ins2fn[b] = fn

Owned ==
    /\ OwnedIn(dis)
    /\ Decoding => Top.bytes \cap Code = {} /\ Top.start \notin Functions

LEMMA BytesFacts ==
    ASSUME NEW d, NEW fns
    PROVE  \A b : b \in BytesOf(d, fns) <=> \E fn \in fns : b \in d.functions[fn].bytes
BY DEF BytesOf

LEMMA WithoutOwned ==
    ASSUME NEW d, OwnedIn(d), NEW fns, fns \subseteq DOMAIN d.functions, NEW e,
           e.functions = Without(d.functions, fns),
           e.ins2fn = Without(d.ins2fn, BytesOf(d, fns))
    PROVE  /\ OwnedIn(e) /\ DOMAIN e.functions = DOMAIN d.functions \ fns
           /\ DOMAIN e.ins2fn = DOMAIN d.ins2fn \ BytesOf(d, fns)
           /\ \A fn \in DOMAIN e.functions : e.functions[fn] = d.functions[fn]
<1>1. /\ DOMAIN e.functions = DOMAIN d.functions \ fns
      /\ \A fn \in DOMAIN e.functions : e.functions[fn] = d.functions[fn]
  BY Zenon DEF Without
<1>2. /\ DOMAIN e.ins2fn = DOMAIN d.ins2fn \ BytesOf(d, fns)
      /\ \A b \in DOMAIN e.ins2fn : e.ins2fn[b] = d.ins2fn[b]
  BY Zenon DEF Without
<1>3. \A b : b \in DOMAIN d.ins2fn <=> \E fn \in DOMAIN d.functions : b \in d.functions[fn].bytes
  BY BytesFacts DEF OwnedIn
<1>4. \A b : b \in BytesOf(d, fns) <=> \E fn \in fns : b \in d.functions[fn].bytes
  BY BytesFacts
<1>5. \A fn \in DOMAIN d.functions : \A b \in d.functions[fn].bytes : d.ins2fn[b] = fn
  BY DEF OwnedIn
<1>6. \A b : b \in DOMAIN e.ins2fn <=> \E fn \in DOMAIN e.functions : b \in e.functions[fn].bytes
  BY <1>1, <1>2, <1>3, <1>4, <1>5
<1>7. DOMAIN e.ins2fn = BytesOf(e, DOMAIN e.functions)
  <2>1. \A b : b \in BytesOf(e, DOMAIN e.functions)
               <=> \E fn \in DOMAIN e.functions : b \in e.functions[fn].bytes
    BY BytesFacts
  <2> QED BY <1>6, <2>1
<1>8. \A fn \in DOMAIN e.functions : \A b \in e.functions[fn].bytes : e.ins2fn[b] = fn
  BY <1>1, <1>2, <1>5, <1>6
<1> QED BY <1>1, <1>2, <1>7, <1>8 DEF OwnedIn

LEMMA StoredOwned ==
    ASSUME DisOk(dis), NEW D, Top \in FrameOf(D), Accepted, Owned, Decoding
    PROVE  OwnedIn(Stored)
<1> DEFINE s == Stored
           own == Top.bytes
           start == Top.start
<1>1. /\ DOMAIN s.functions = Functions \cup {start} /\ s.functions[start].bytes = own
      /\ \A fn \in Functions : s.functions[fn] = dis.functions[fn]
      /\ DOMAIN s.ins2fn = Code \cup own /\ \A b \in own : s.ins2fn[b] = start
      /\ \A b \in Code \ own : s.ins2fn[b] = dis.ins2fn[b]
      /\ start \notin Functions /\ own \cap Code = {}
  BY StoredFacts DEF Owned, Code
<1>2. /\ \A b : b \in Code <=> \E fn \in Functions : b \in dis.functions[fn].bytes
      /\ \A fn \in Functions : \A b \in dis.functions[fn].bytes : dis.ins2fn[b] = fn
  BY BytesFacts DEF Owned, OwnedIn, Code, Functions
<1> HIDE DEF s, own, start
<1>3. \A b : b \in DOMAIN s.ins2fn <=> \E fn \in DOMAIN s.functions : b \in s.functions[fn].bytes
  BY <1>1, <1>2
<1>4. DOMAIN s.ins2fn = BytesOf(s, DOMAIN s.functions)
  <2>1. \A b : b \in BytesOf(s, DOMAIN s.functions)
               <=> \E fn \in DOMAIN s.functions : b \in s.functions[fn].bytes
    BY BytesFacts
  <2> QED BY <1>3, <2>1
<1>5. ASSUME NEW fn \in DOMAIN s.functions, NEW b \in s.functions[fn].bytes
      PROVE  s.ins2fn[b] = fn
  <2>1. CASE fn = start
    BY <1>1, <1>5, <2>1
  <2>2. CASE fn # start
    BY <1>1, <1>2, <1>5, <2>2
  <2> QED BY <2>1, <2>2
<1> QED BY <1>4, <1>5 DEF OwnedIn, s

LEMMA OwnedFunctions ==
    ASSUME Base, Owned
    PROVE  Functions \subseteq Code
<1>1. ASSUME NEW fn \in Functions
      PROVE  fn \in Code
  <2>1. fn \in dis.functions[fn].bytes
    BY DEF Base, Records, DisOk, Functions
  <2> QED BY <2>1, BytesFacts DEF Owned, OwnedIn, Code, Functions
<1> QED BY <1>1

(* Undoing some functions behind an analysis.                               *)
LEMMA RedecodesOwned ==
    ASSUME NEW d, OwnedIn(d), NEW m, NEW start, NEW thumb, NEW data, NEW fns,
           Redecodes(d, m, start, thumb, data, fns)
    PROVE  OwnedIn(dis)' /\ Functions' \subseteq DOMAIN d.functions
<1> DEFINE functions == Without(d.functions, fns)
           code == Without(d.ins2fn, BytesOf(d, fns))
           map == d.dataMap \ OnlyPools(BookedPools(d, start, data), fns)
<1>1. dis' = [functions |-> functions, ins2fn |-> code, dataMap |-> map]
      /\ fns \subseteq DOMAIN d.functions
  BY DEF Redecodes
<1> HIDE DEF functions, code, map
<1>2. dis'.functions = functions /\ dis'.ins2fn = code
  BY <1>1
<1>3. OwnedIn(dis') /\ DOMAIN dis'.functions = DOMAIN d.functions \ fns
  BY <1>1, <1>2, WithoutOwned DEF functions, code
<1> QED BY <1>3 DEF OwnedIn, BytesOf, Functions

(* Undoing gap functions, in the result.                                    *)
LEMMA UngappedFacts ==
    ASSUME NEW d, DisOk(d), NEW fns, NEW e, e = Ungapped(d, fns)
    PROVE  /\ e.functions = Without(d.functions, fns)
           /\ e.ins2fn = Without(d.ins2fn, BytesOf(d, fns)) /\ e.dataMap = d.dataMap
<1> DEFINE functions == Without(d.functions, fns)
           code == Without(d.ins2fn, BytesOf(d, fns))
<1>1. d = [functions |-> d.functions, ins2fn |-> d.ins2fn, dataMap |-> d.dataMap]
  BY DEF DisOk
<1>2. e = [d EXCEPT !.functions = functions, !.ins2fn = code]
  BY DEF Ungapped
<1> HIDE DEF functions, code
<1>3. e.functions = functions /\ e.ins2fn = code /\ e.dataMap = d.dataMap
  BY <1>1, <1>2
<1> QED BY <1>3 DEF functions, code

LEMMA OwnedKept ==
    ASSUME Base, Base', Owned, NothingStraddles, [Next]_vars
    PROVE  Owned'
<1>1. ASSUME UNCHANGED dis, ~Decoding'
      PROVE  Owned'
  BY <1>1 DEF Owned, OwnedIn, BytesOf
<1>2. ASSUME UNCHANGED dis, NEW f, Top' = f, f.bytes = {}, f.start \notin Functions
      PROVE  Owned'
  BY <1>2 DEF Owned, OwnedIn, BytesOf, Code, Functions
<1>3. CASE UNCHANGED vars
  BY <1>3 DEF vars, Owned, OwnedIn, BytesOf, Code, Functions, Decoding, Top
<1>4. CASE Discovers
  BY <1>1, <1>4 DEF Discovers, results, Base, Discovering, Decoding
<1>5. CASE Rests
  BY <1>1, <1>5 DEF Rests, results, Idle, Decoding
<1>6. CASE Refuses
  <2>1. PICK c, m, thumb, fns : c \in fcm.queue /\ Redecodes(dis, m, c, thumb, {}, fns)
    BY <1>6, RefusesFacts
  <2>2. OwnedIn(dis)'
    BY <2>1, RedecodesOwned DEF Owned
  <2>3. ~Decoding'
    BY <1>6 DEF Refuses, Idle, Decoding
  <2> QED BY <2>2, <2>3 DEF Owned
<1>7. CASE Begins
  <2>1. PICK f : Begun(f) /\ frames' = <<f>>
    BY <1>7 DEF Begins
  <2>2. Top' = f /\ f.bytes = {} /\ f.start \notin Functions
    BY <2>1, BeginTop, OwnedFunctions DEF Begun, IsCode, Code
  <2> QED BY <1>2, <1>7, <2>2 DEF Begins, results
<1>8. CASE WalkStep
  <2>1. PICK g : Update(g) /\ Keeps(g) /\ (Passing(g) \/ Booking(g) \/ Undoing(g))
    BY <1>8 DEF WalkStep
  <2>2. Decoding /\ frames # <<>> /\ OwnedIn(dis) /\ Top.bytes \cap Code = {} /\ Top.start \notin Functions
    BY <1>8 DEF WalkStep, Decoding, Owned
  <2>3. Top' = g /\ g.start = Top.start
    BY <2>1, <2>2, UpdateTop DEF Keeps
  <2>4. CASE Passing(g)
    <3>1. UNCHANGED dis /\ g.bytes = Top.bytes
      BY <2>4 DEF Passing
    <3> QED BY <2>2, <2>3, <3>1 DEF Owned, OwnedIn, BytesOf, Code, Functions
  <2>5. CASE Booking(g)
    <3>1. UNCHANGED dis /\ g.bytes = Top.bytes \cup HereBytes /\ HereBytes \cap Code = {}
      BY <2>5 DEF Booking, Books, NothingStraddles
    <3>2. g.bytes \cap Code = {}
      BY <2>2, <3>1
    <3> QED BY <2>2, <2>3, <3>1, <3>2 DEF Owned, OwnedIn, BytesOf, Code, Functions
  <2>6. CASE Undoing(g)
    <3>1. PICK fn \in Functions : GapOwner(Top.at) = {fn} /\ dis' = Ungapped(dis, {fn})
      BY <2>6 DEF Undoing
    <3>2. g.bytes = Top.bytes \cup HereBytes /\ HereBytes \cap Code \subseteq dis.functions[fn].bytes
      BY <2>6, <3>1 DEF Undoing, Books, NothingStraddles
    <3> DEFINE fns == {fn}
    <3>3. fns \subseteq DOMAIN dis.functions /\ dis' = Ungapped(dis, fns)
      BY <3>1 DEF Functions
    <3> HIDE DEF fns
    <3>4. /\ dis'.functions = Without(dis.functions, fns)
          /\ dis'.ins2fn = Without(dis.ins2fn, BytesOf(dis, fns))
      <4>1. DisOk(dis)
        BY DEF Base, Records
      <4> QED BY <3>3, <4>1, UngappedFacts
    <3>5. /\ OwnedIn(dis') /\ DOMAIN dis'.functions = DOMAIN dis.functions \ fns
          /\ DOMAIN dis'.ins2fn = DOMAIN dis.ins2fn \ BytesOf(dis, fns)
      <4>1. OwnedIn(dis) /\ fns \subseteq DOMAIN dis.functions
        BY <2>2, <3>3
      <4>2. PICK e : e = dis'
        OBVIOUS
      <4>3. OwnedIn(e) /\ DOMAIN e.functions = DOMAIN dis.functions \ fns
            /\ DOMAIN e.ins2fn = DOMAIN dis.ins2fn \ BytesOf(dis, fns)
        BY <3>4, <4>1, <4>2, WithoutOwned
      <4> QED BY <4>2, <4>3
    <3>6. /\ OwnedIn(dis') /\ DOMAIN dis'.functions = DOMAIN dis.functions \ {fn}
          /\ DOMAIN dis'.ins2fn = DOMAIN dis.ins2fn \ BytesOf(dis, {fn})
      BY <3>5 DEF fns
    <3>7. BytesOf(dis, {fn}) = dis.functions[fn].bytes
      BY DEF BytesOf
    <3>8. g.bytes \cap Code' = {} /\ g.start \notin Functions'
      BY <2>2, <2>3, <3>2, <3>6, <3>7 DEF Code, Functions
    <3>9. OwnedIn(dis)'
      BY <3>6 DEF OwnedIn, BytesOf
    <3> QED BY <2>3, <3>8, <3>9 DEF Owned
  <2> QED BY <2>1, <2>4, <2>5, <2>6
<1>9. CASE CallsOn
  <2>1. PICK f, g :
          /\ Call(f, g) /\ Called(g) /\ f \in FrameOf(DOMAIN fcm.candidates)
          /\ \/ Walked /\ g.start = Top.start
             \/ ~IsCode(g.start)
    BY <1>9 DEF CallsOn
  <2>2. frames # <<>> /\ g \in FrameOf(DOMAIN fcm.candidates) /\ g.bytes = {}
    BY <1>9, <2>1 DEF CallsOn, Called
  <2>3. Top' = g
    BY <2>1, <2>2, CallTop
  <2>4. g.start \notin Functions
    BY <2>1, OwnedFunctions DEF Owned, Walked, IsCode, Code
  <2> QED BY <1>2, <1>9, <2>2, <2>3, <2>4 DEF CallsOn, results
<1>10. CASE Resumes
  <2>1. PICK f : Update(f) /\ f \in FrameOf(DOMAIN fcm.candidates) /\ f.phase # "decode"
    BY <1>10 DEF Resumes
  <2>2. Top' = f
    BY <1>10, <2>1, UpdateTop DEF Resumes
  <2> QED BY <1>1, <1>10, <2>1, <2>2 DEF Resumes, results, Decoding
<1>11. CASE Returns
  <2>1. PICK d, m, fns :
          /\ Redecodes(d, m, Top.start, Top.thumb, Top.data, fns)
          /\ d = dis \/ (d = Stored /\ Accepted)
    BY <1>11, ReturnsFacts
  <2>2. /\ Decoding /\ frames # <<>> /\ frames' = Front(frames) /\ DisOk(dis)
        /\ Top \in FrameOf(DOMAIN fcm.candidates)
    BY <1>11, ReadyTop DEF Returns, Decoding, Ready, Base, Records
  <2>3. OwnedIn(d)
    BY <2>1, <2>2, StoredOwned DEF Owned
  <2>4. OwnedIn(dis)'
    BY <2>1, <2>3, RedecodesOwned
  <2>5. ~Decoding'
    BY <2>2, PoppedIdles
  <2> QED BY <2>4, <2>5 DEF Owned
<1>12. CASE Completes
  <2>1. PICK fns : Redecodes(dis, fcm, Top.start, Top.thumb, {}, fns)
    BY <1>12, CompletesFacts
  <2>2. OwnedIn(dis)'
    BY <2>1, RedecodesOwned DEF Owned
  <2>3. ~Decoding'
    BY <1>12, PoppedIdles DEF Completes, Restoring
  <2> QED BY <2>2, <2>3 DEF Owned
<1> QED BY <1>3, <1>4, <1>5, <1>6, <1>7, <1>8, <1>9, <1>10, <1>11, <1>12, NextEffects DEF Effects

LEMMA InitOwned ==
    ASSUME Init
    PROVE  Owned
<1> DEFINE nothing == <<>>
<1>1. dis = [functions |-> nothing, ins2fn |-> nothing, dataMap |-> {}] /\ ~Decoding
  BY DEF Init, Decoding
<1>2. DOMAIN nothing = {}
  OBVIOUS
<1> HIDE DEF nothing
<1>3. OwnedIn(dis)
  BY <1>1, <1>2 DEF OwnedIn, BytesOf
<1> QED BY <1>1, <1>3 DEF Owned

LEMMA SpecOwned == Spec /\ []NothingStraddles => []Owned
<1>1. Init => Owned
  BY InitOwned
<1>2. Base /\ Base' /\ Owned /\ NothingStraddles /\ [Next]_vars => Owned'
  BY OwnedKept
<1> QED BY <1>1, <1>2, SpecBase, PTL DEF Spec

(* Where no instruction begins outside code and ends in it, and none of a   *)
(* gap function's own code is run into from beside it, undoing functions    *)
(* and decoding them again leaves every byte with one function: the code    *)
(* map is what the functions hold, whoever was undone for whom.             *)
THEOREM OwnershipHolds == Spec /\ []NothingStraddles => []OneOwnerPerByte
<1>1. Owned => OneOwnerPerByte
  BY DEF Owned, OwnedIn, OneOwnerPerByte, BytesOf, Code, Functions
<1> QED BY <1>1, SpecOwned, PTL

-----------------------------------------------------------------------------
(* The record.  It only watches: its steps are steps of Arm; it forgets     *)
(* nothing; and it holds what is now.                                       *)
Remembered ==
    /\ TaughtNow \subseteq taught /\ WorthlessNow \subseteq worthless
    /\ LateNow \subseteq late /\ LeftNow \subseteq left

Remembers ==
    /\ taught \subseteq taught' /\ worthless \subseteq worthless'
    /\ late \subseteq late' /\ left \subseteq left'

LEMMA HistorySteps ==
    ASSUME [HistoryNext]_allVars
    PROVE  [Next]_vars /\ Remembers
BY DEF HistoryNext, Recorded, Remembers, allVars, historyVars

LEMMA HistoryIsSpec == HistorySpec => Spec
<1>1. HistoryInit => Init
  BY DEF HistoryInit
<1>2. [HistoryNext]_allVars => [Next]_vars
  BY HistorySteps
<1> QED BY <1>1, <1>2, PTL DEF HistorySpec, Spec

LEMMA InitRemembered ==
    ASSUME HistoryInit
    PROVE  Remembered
<1> DEFINE nothing == <<>>
<1>1. /\ frames = nothing /\ pools = nothing /\ fcm.queue = {}
  BY DEF HistoryInit, Init
<1>2. DOMAIN nothing = {}
  OBVIOUS
<1>3. ~Decoding
  BY <1>1 DEF Decoding
<1> HIDE DEF nothing
<1> QED BY <1>1, <1>2, <1>3 DEF Remembered, TaughtNow, WorthlessNow, LateNow, LeftNow

LEMMA RememberedKept ==
    ASSUME Remembered, [HistoryNext]_allVars
    PROVE  Remembered'
<1>1. CASE HistoryNext
  BY <1>1 DEF HistoryNext, Recorded, Remembered
<1>2. CASE UNCHANGED allVars
  <2>1. /\ UNCHANGED <<img, dis, fcm, pass, frames, pools>>
        /\ UNCHANGED <<taught, worthless, late, left>>
    BY <1>2 DEF allVars, historyVars, vars
  <2>2. TaughtNow' = TaughtNow
    BY <2>1 DEF TaughtNow, IsThumb, DeclaredThumb, MappingKind, RegionThumb
  <2>3. WorthlessNow' = WorthlessNow
    BY <2>1 DEF WorthlessNow, Idle, AfterDrain, Best, Eligible, Score, HasCommonFunctionStart, At,
                WordAligned
  <2>4. LateNow' = LateNow
    BY <2>1 DEF LateNow, Decoding, Top, FirstPass
  <2>5. LeftNow' = LeftNow
    BY <2>1 DEF LeftNow, Functions
  <2> QED BY <2>1, <2>2, <2>3, <2>4, <2>5 DEF Remembered
<1> QED BY <1>1, <1>2

LEMMA HistoryRemembered == HistorySpec => []Remembered
<1>1. HistoryInit => Remembered
  BY InitRemembered
<1>2. Remembered /\ [HistoryNext]_allVars => Remembered'
  BY RememberedKept
<1> QED BY <1>1, <1>2, PTL DEF HistorySpec

-----------------------------------------------------------------------------
(* Modes.  Candidates are in the instruction set known of them, or settled  *)
(* and done; a function is in the one it was decoded in, which is the one   *)
(* known unless a conflict is noted, or it was told its other one; what     *)
(* conflicts or was undone is settled, and no function is both; what is no  *)
(* function any more is done, waits, is under analysis, or was worthless.   *)
KnownIn(m, fn, mt, h) == mt[fn] = h[fn] /\ (IsThumb(m, fn) = mt[fn] \/ fn \in m.conflicts)

MetaIn(m, functions, mt, h) == \A fn \in functions \ taught : KnownIn(m, fn, mt, h)

UndoneIn(m, u) ==
    /\ \A fn \in m.conflicts \cup DOMAIN u : Settled(m, fn)
    /\ m.conflicts \cap DOMAIN u = {}
    /\ \A fn \in DOMAIN u : u[fn] = 1

WaitsIn(m, functions, once, started) ==
    \A fn \in once \ (functions \cup worthless) :
        m.candidates[fn].finished \/ fn \in m.queue \/ fn \in started

Started == IF Decoding THEN {Top.start} ELSE {}

Modes ==
    /\ Agree(fcm) /\ MetaIn(fcm, Functions, meta, history) /\ UndoneIn(fcm, undone)
    /\ WaitsIn(fcm, Functions, DOMAIN history, Started)
    /\ pass = "done" => fcm.queue = {} /\ frames = <<>>

LEMMA ThumbPrimed ==
    ASSUME UNCHANGED img
    PROVE  \A a : IsThumb(fcm, a)' = IsThumb(fcm', a)
BY DEF IsThumb, DeclaredThumb, MappingKind, RegionThumb

LEMMA ModesIntro ==
    ASSUME Remembers, UNCHANGED img, Agree(fcm'), MetaIn(fcm', Functions', meta', history'),
           UndoneIn(fcm', undone'), WaitsIn(fcm', Functions', DOMAIN history', Started'),
           pass' = "done" => fcm'.queue = {} /\ frames' = <<>>
    PROVE  Modes'
<1>1. \A a : IsThumb(fcm, a)' = IsThumb(fcm', a) /\ Settled(fcm, a)' = Settled(fcm', a)
  BY ThumbPrimed DEF Settled
<1>2. Agree(fcm)'
  BY <1>1 DEF Agree
<1>3. MetaIn(fcm, Functions, meta, history)'
  BY <1>1 DEF MetaIn, KnownIn, Remembers
<1>4. UndoneIn(fcm, undone)'
  BY <1>1 DEF UndoneIn
<1>5. WaitsIn(fcm, Functions, DOMAIN history, Started)'
  BY DEF WaitsIn, Remembers
<1> QED BY <1>2, <1>3, <1>4, <1>5 DEF Modes

LEMMA FollowsModes ==
    ASSUME NEW m, NEW n, Follows(m, n), Agree(m), NEW mt, NEW h, MetaIn(m, Functions, mt, h),
           NEW u, UndoneIn(m, u), NEW once, once \subseteq DOMAIN m.candidates,
           NEW started, WaitsIn(m, Functions, once, started)
    PROVE  /\ Agree(n) /\ MetaIn(n, Functions, mt, h) /\ UndoneIn(n, u)
           /\ WaitsIn(n, Functions, once, started)
<1>1. /\ Agree(n) /\ m.conflicts \subseteq n.conflicts
      /\ \A fn \in Functions : IsThumb(n, fn) = IsThumb(m, fn) \/ fn \in n.conflicts
      /\ \A a \in n.conflicts \ m.conflicts : a \in Functions /\ ~Settled(m, a) /\ Settled(n, a)
  BY DEF Follows
<1>2. MetaIn(n, Functions, mt, h)
  BY <1>1 DEF MetaIn, KnownIn
<1>3. UndoneIn(n, u)
  <2>1. \A fn : Settled(m, fn) => Settled(n, fn)
    BY SettledStays
  <2> QED BY <1>1, <2>1 DEF UndoneIn
<1>4. WaitsIn(n, Functions, once, started)
  <2>1. /\ m.queue \subseteq n.queue
        /\ \A c \in DOMAIN m.candidates : \/ n.candidates[c].finished = m.candidates[c].finished
                                          \/ n.candidates[c].finished = FALSE /\ c \in n.queue \ Functions
    BY DEF Follows, Grows
  <2> QED BY <2>1 DEF WaitsIn
<1> QED BY <1>1, <1>2, <1>3, <1>4

(* Nothing said about instruction sets, and nothing done again.             *)
Akin(m, n) ==
    /\ ManagerOk(n) /\ n.modes = m.modes /\ n.conflicts = m.conflicts
    /\ DOMAIN n.candidates = DOMAIN m.candidates
    /\ \A c \in DOMAIN m.candidates :
          /\ n.candidates[c].thumb = m.candidates[c].thumb
          /\ m.candidates[c].finished => n.candidates[c].finished

LEMMA AkinModes ==
    ASSUME NEW m, ManagerOk(m), NEW n, Akin(m, n), Agree(m)
    PROVE  /\ Agree(n)
           /\ \A functions, mt, h : MetaIn(m, functions, mt, h) => MetaIn(n, functions, mt, h)
           /\ \A u : UndoneIn(m, u) => UndoneIn(n, u)
           /\ \A functions, once, started :
                 once \subseteq DOMAIN m.candidates /\ m.queue \subseteq n.queue
                 /\ WaitsIn(m, functions, once, started) => WaitsIn(n, functions, once, started)
<1>1. \A a : IsThumb(n, a) = IsThumb(m, a) /\ Settled(n, a) = Settled(m, a)
  BY ModeFacts DEF Akin, Settled
<1>2. Agree(n)
  BY <1>1 DEF Agree, Akin
<1>3. \A functions, mt, h : MetaIn(m, functions, mt, h) => MetaIn(n, functions, mt, h)
  BY <1>1 DEF MetaIn, KnownIn, Akin
<1>4. \A u : UndoneIn(m, u) => UndoneIn(n, u)
  BY <1>1 DEF UndoneIn, Akin
<1>5. \A functions, once, started :
         once \subseteq DOMAIN m.candidates /\ m.queue \subseteq n.queue
         /\ WaitsIn(m, functions, once, started) => WaitsIn(n, functions, once, started)
  BY DEF WaitsIn, Akin
<1> QED BY <1>2, <1>3, <1>4, <1>5

LEMMA TurnAkin ==
    ASSUME NEW m, NEW n, NEW addr, HadItsTurn(m, n, addr)
    PROVE  Akin(m, n) /\ n.queue = m.queue
BY TurnFacts DEF Akin

LEMMA DequeuedAkin ==
    ASSUME ManagerOk(fcm), NEW c
    PROVE  Akin(fcm, Dequeued(c)) /\ Dequeued(c).queue = fcm.queue \ {c}
BY DequeuedFacts DEF Akin

(* Behind an analysis.                                                      *)
LEMMA RequeuesAgree ==
    ASSUME NEW m, ManagerOk(m), Agree(m), NEW n, NEW fns, fns \subseteq DOMAIN m.modes,
           Requeues(m, n, fns)
    PROVE  /\ Agree(n) /\ \A a : IsThumb(n, a) = IsThumb(m, a) /\ Settled(n, a) = Settled(m, a)
<1>1. \A a : IsThumb(n, a) = IsThumb(m, a) /\ Settled(n, a) = Settled(m, a)
  BY ModeFacts DEF Requeues, Settled
<1>2. ASSUME NEW c \in DOMAIN n.candidates
      PROVE  n.candidates[c].thumb = IsThumb(n, c) \/ (Settled(n, c) /\ n.candidates[c].finished)
  <2>1. CASE c \in fns
    <3>1. n.candidates[c].thumb = m.modes[c].thumb
      BY <2>1 DEF Requeues
    <3>2. IsThumb(m, c) = m.modes[c].thumb
      BY <2>1, ModeFacts
    <3> QED BY <1>1, <3>1, <3>2
  <2>2. CASE c \notin fns
    <3>1. c \in DOMAIN m.candidates /\ n.candidates[c] = m.candidates[c]
      BY <2>2 DEF Requeues
    <3> QED BY <1>1, <3>1 DEF Agree
  <2> QED BY <2>1, <2>2
<1> QED BY <1>1, <1>2 DEF Agree

LEMMA RedecodesModes ==
    ASSUME NEW d, NEW m, ManagerOk(m), NEW start, NEW thumb, NEW data, NEW fns,
           Redecodes(d, m, start, thumb, data, fns), Agree(m),
           start \in DOMAIN d.functions \ taught =>
              IsThumb(m, start) = thumb /\ history'[start] = thumb,
           \A fn \in DOMAIN d.functions \ (taught \cup {start}) : KnownIn(m, fn, meta, history'),
           UndoneIn(m, undone), DOMAIN d.functions \subseteq DOMAIN meta \cup {start},
           DOMAIN history' \subseteq DOMAIN m.candidates,
           WaitsIn(m, DOMAIN d.functions, DOMAIN history', {}), Functions' = DOMAIN d.functions \ fns
    PROVE  /\ Agree(fcm') /\ MetaIn(fcm', Functions', meta', history') /\ UndoneIn(fcm', undone')
           /\ WaitsIn(fcm', Functions', DOMAIN history', {})
<1> DEFINE noted == NotedMeta(d, start, thumb)
<1>1. /\ Requeues(m, fcm', fns) /\ fns = ToRedecode(d, m, noted)
      /\ fns \subseteq m.conflicts \cap DOMAIN d.functions
      /\ meta' = Without(noted, fns)
      /\ DOMAIN undone' = DOMAIN undone \cup fns
      /\ \A fn \in DOMAIN undone \ fns : undone'[fn] = undone[fn]
      /\ \A fn \in fns \ DOMAIN undone : undone'[fn] = 1
  BY DEF Redecodes
<1>2. fns \subseteq DOMAIN m.modes /\ m.conflicts \subseteq DOMAIN m.modes
  BY <1>1 DEF ManagerOk
<1>3. Agree(fcm') /\ \A a : IsThumb(fcm', a) = IsThumb(m, a) /\ Settled(fcm', a) = Settled(m, a)
  BY <1>1, <1>2, RequeuesAgree
<1>4. \A fn \in DOMAIN d.functions :
         fn \in DOMAIN noted /\ noted[fn] = IF fn = start THEN thumb ELSE meta[fn]
  BY Zenon DEF NotedMeta, With
<1> HIDE DEF noted
<1>5. \A fn \in DOMAIN noted \ fns : meta'[fn] = noted[fn]
  BY <1>1, Zenon DEF Without
<1>6. MetaIn(fcm', Functions', meta', history')
  <2> SUFFICES ASSUME NEW fn \in DOMAIN d.functions \ fns, fn \notin taught
               PROVE  meta'[fn] = history'[fn] /\ IsThumb(fcm', fn) = meta'[fn]
    BY DEF MetaIn, KnownIn
  <2>1. meta'[fn] = noted[fn] /\ noted[fn] = IF fn = start THEN thumb ELSE meta[fn]
    BY <1>4, <1>5
  <2>2. CASE fn = start
    BY <1>3, <2>1, <2>2
  <2>3. CASE fn # start
    <3>1. meta[fn] = history'[fn] /\ (IsThumb(m, fn) = meta[fn] \/ fn \in m.conflicts)
      BY <2>3 DEF KnownIn
    <3>2. ASSUME fn \in m.conflicts
          PROVE  IsThumb(m, fn) = noted[fn]
      <4>1. fn \in DOMAIN m.modes /\ noted[fn] = m.modes[fn].thumb
        BY <1>1, <1>2, <3>2 DEF ToRedecode
      <4> QED BY <4>1, ModeFacts
    <3> QED BY <1>3, <2>1, <2>3, <3>1, <3>2
  <2> QED BY <2>2, <2>3
<1>7. UndoneIn(fcm', undone')
  <2>1. fcm'.conflicts = {}
    BY <1>1 DEF Requeues
  <2>2. \A fn \in DOMAIN undone \cup fns : Settled(m, fn)
    BY <1>1 DEF UndoneIn
  <2>3. fns \cap DOMAIN undone = {}
    BY <1>1 DEF UndoneIn
  <2>4. \A fn \in DOMAIN undone' : undone'[fn] = 1
    BY <1>1, <2>3 DEF UndoneIn
  <2> QED BY <1>1, <1>3, <2>1, <2>2, <2>4 DEF UndoneIn
<1>8. WaitsIn(fcm', Functions', DOMAIN history', {})
  <2> SUFFICES ASSUME NEW fn \in DOMAIN history' \ Functions', fn \notin worthless
               PROVE  fcm'.candidates[fn].finished \/ fn \in fcm'.queue
    BY DEF WaitsIn
  <2>1. fcm'.queue = m.queue \cup fns
    BY <1>1 DEF Requeues
  <2>2. CASE fn \in fns
    BY <2>1, <2>2
  <2>3. CASE fn \notin fns
    <3>1. fn \notin DOMAIN d.functions /\ fn \in DOMAIN m.candidates
      BY <2>3
    <3>2. m.candidates[fn].finished \/ fn \in m.queue
      BY <3>1 DEF WaitsIn
    <3>3. fcm'.candidates[fn] = m.candidates[fn]
      BY <1>1, <2>3, <3>1 DEF Requeues
    <3> QED BY <2>1, <3>2, <3>3
  <2> QED BY <2>2, <2>3
<1> QED BY <1>3, <1>6, <1>7, <1>8

LEMMA SameModes ==
    ASSUME Remembers, Base, Modes, UNCHANGED <<img, results, history>>, Akin(fcm, fcm'),
           fcm.queue \subseteq fcm'.queue, Started \subseteq Started',
           pass' = "done" => fcm'.queue = {} /\ frames' = <<>>
    PROVE  Modes'
<1>1. ManagerOk(fcm) /\ DOMAIN history \subseteq DOMAIN fcm.candidates
  BY DEF Base, Records
<1>2. /\ Agree(fcm') /\ MetaIn(fcm', Functions, meta, history) /\ UndoneIn(fcm', undone)
      /\ WaitsIn(fcm', Functions, DOMAIN history, Started)
  BY <1>1, AkinModes DEF Modes
<1>3. UNCHANGED <<Functions, meta, undone, history>>
  BY DEF results, Functions
<1>4. WaitsIn(fcm', Functions', DOMAIN history', Started')
  BY <1>2, <1>3 DEF WaitsIn
<1> QED BY <1>2, <1>3, <1>4, ModesIntro

LEMMA FollowedModes ==
    ASSUME Remembers, Base, Modes, UNCHANGED <<img, results, history>>, Follows(fcm, fcm'),
           Started \subseteq Started', pass' = "done" => fcm'.queue = {} /\ frames' = <<>>
    PROVE  Modes'
<1>1. DOMAIN history \subseteq DOMAIN fcm.candidates
  BY DEF Base, Records
<1>2. /\ Agree(fcm') /\ MetaIn(fcm', Functions, meta, history) /\ UndoneIn(fcm', undone)
      /\ WaitsIn(fcm', Functions, DOMAIN history, Started)
  BY <1>1, FollowsModes DEF Modes
<1>3. UNCHANGED <<Functions, meta, undone, history>>
  BY DEF results, Functions
<1>4. WaitsIn(fcm', Functions', DOMAIN history', Started')
  BY <1>2, <1>3 DEF WaitsIn
<1> QED BY <1>2, <1>3, <1>4, ModesIntro

LEMMA RestsModes ==
    ASSUME Remembers, Base, Modes, Remembered, Rests
    PROVE  Modes'
<1>1. /\ frames = <<>> /\ frames' = <<>> /\ UNCHANGED <<img, results, history>>
      /\ pass' = "done" => fcm'.queue = {}
  BY DEF Rests, Idle
<1>2. Started = {} /\ Started' = {}
  BY <1>1 DEF Started, Decoding
<1>3. ManagerOk(fcm) /\ DOMAIN history \subseteq DOMAIN fcm.candidates
  BY DEF Base, Records
<1>4. CASE UNCHANGED fcm
  BY <1>1, <1>2, <1>3, <1>4, SameModes DEF Akin
<1>5. CASE fcm' = Aborted(fcm, cur)
  <2>1. Akin(fcm, fcm') /\ fcm'.queue = fcm.queue
    BY <1>3, <1>5, AbortedFacts, TurnAkin
  <2> QED BY <1>1, <1>2, <2>1, SameModes
<1>6. ASSUME NEW c \in fcm.queue, pass \in DOMAIN AfterDrain, Best(c), ~Eligible(c),
             fcm' = Dequeued(c)
      PROVE  Modes'
  <2>1. Akin(fcm, fcm') /\ fcm'.queue = fcm.queue \ {c}
    BY <1>3, <1>6, DequeuedAkin
  <2>2. /\ Agree(fcm') /\ MetaIn(fcm', Functions, meta, history) /\ UndoneIn(fcm', undone)
    BY <1>3, <2>1, AkinModes DEF Modes
  <2>3. UNCHANGED <<Functions, meta, undone, history>>
    BY <1>1 DEF results, Functions
  <2>4. fcm.candidates[c].finished \/ c \in worthless
    BY <1>1, <1>6 DEF Remembered, WorthlessNow, Idle
  <2>5. WaitsIn(fcm', Functions', DOMAIN history', Started')
    <3> SUFFICES ASSUME NEW fn \in DOMAIN history \ Functions, fn \notin worthless
                 PROVE  fcm'.candidates[fn].finished \/ fn \in fcm'.queue
      BY <2>3 DEF WaitsIn
    <3>1. fn \in DOMAIN fcm.candidates
      BY <1>3
    <3>2. fcm.candidates[fn].finished \/ fn \in fcm.queue
      BY <1>2 DEF Modes, WaitsIn
    <3>3. fcm.candidates[fn].finished => fcm'.candidates[fn].finished
      BY <2>1, <3>1 DEF Akin
    <3> QED BY <2>1, <2>4, <3>2, <3>3
  <2> QED BY <1>1, <2>2, <2>3, <2>5, ModesIntro
<1> QED BY <1>4, <1>5, <1>6 DEF Rests

LEMMA RefusesModes ==
    ASSUME Remembers, Base, Modes, Refuses
    PROVE  Modes'
<1>1. PICK c, m, thumb, fns :
              /\ c \in fcm.queue
              /\ Eligible(c) /\ IsCode(c) /\ HadItsTurn(Dequeued(c), m, c)
              /\ ManagerOk(Dequeued(c)) /\ Dequeued(c).candidates = fcm.candidates
              /\ Dequeued(c).conflicts = {} /\ Dequeued(c).queue = fcm.queue \ {c}
              /\ Dequeued(c).modes = fcm.modes /\ Dequeued(c).strong = fcm.strong
              /\ Dequeued(c).declared = fcm.declared
              /\ thumb = IsThumb(m, c) /\ Redecodes(dis, m, c, thumb, {}, fns)
  BY RefusesFacts
<1> DEFINE nothing == {}
           n == Dequeued(c)
<1>2. Redecodes(dis, m, c, thumb, nothing, fns)
  BY <1>1
<1> HIDE DEF nothing
<1>3. /\ ManagerOk(fcm) /\ DOMAIN history \subseteq DOMAIN fcm.candidates /\ Stands(fcm)
      /\ Functions \subseteq DOMAIN meta /\ frames = <<>> /\ frames' = <<>>
      /\ UNCHANGED <<img, pass, history>> /\ pass # "done"
  BY DEF Base, Records, Refuses, Idle, AfterDrain
<1>4. Started = {} /\ Started' = {}
  BY <1>3 DEF Started, Decoding
<1>5. c \notin Functions /\ c \in DOMAIN fcm.candidates /\ ManagerOk(n)
  BY <1>1, <1>3 DEF Stands, Eligible, ManagerOk
<1>6. /\ HadItsTurn(n, m, c) /\ n.candidates = fcm.candidates /\ n.queue = fcm.queue \ {c}
  BY <1>1
<1>7. Akin(fcm, n)
  BY <1>3, DequeuedAkin
<1> HIDE DEF n
<1>8. Akin(n, m) /\ m.queue = fcm.queue \ {c} /\ m.candidates[c].finished
  BY <1>5, <1>6, TurnAkin, TurnFacts
<1>9. Agree(n) /\ MetaIn(n, Functions, meta, history) /\ UndoneIn(n, undone)
  BY <1>3, <1>7, AkinModes DEF Modes
<1>10. Agree(m) /\ MetaIn(m, Functions, meta, history) /\ UndoneIn(m, undone)
  BY <1>5, <1>8, <1>9, AkinModes
<1>11. ManagerOk(m) /\ DOMAIN m.candidates = DOMAIN fcm.candidates
  BY <1>7, <1>8 DEF Akin
<1>12. WaitsIn(m, Functions, DOMAIN history, {})
  <2> SUFFICES ASSUME NEW fn \in DOMAIN history \ Functions, fn \notin worthless
               PROVE  m.candidates[fn].finished \/ fn \in m.queue
    BY DEF WaitsIn
  <2>1. fn \in DOMAIN fcm.candidates
    BY <1>3
  <2>2. fcm.candidates[fn].finished \/ fn \in fcm.queue
    BY <1>4 DEF Modes, WaitsIn
  <2>3. fcm.candidates[fn].finished => m.candidates[fn].finished
    BY <1>7, <1>8, <2>1 DEF Akin
  <2> QED BY <1>8, <2>2, <2>3
<1>13. /\ DOMAIN dis.functions = Functions
       /\ Functions' = DOMAIN dis.functions \ fns
  BY <1>2, Zenon DEF Redecodes, Functions, Without
<1>14. /\ c \notin DOMAIN dis.functions
       /\ \A fn \in DOMAIN dis.functions \ (taught \cup {c}) : KnownIn(m, fn, meta, history')
       /\ WaitsIn(m, DOMAIN dis.functions, DOMAIN history', {})
       /\ DOMAIN dis.functions \subseteq DOMAIN meta \cup {c} /\ DOMAIN history' \subseteq DOMAIN m.candidates
  BY <1>3, <1>5, <1>10, <1>11, <1>12, <1>13 DEF MetaIn, KnownIn
<1>15. /\ Agree(fcm') /\ MetaIn(fcm', Functions', meta', history') /\ UndoneIn(fcm', undone')
       /\ WaitsIn(fcm', Functions', DOMAIN history', {})
  BY <1>2, <1>10, <1>11, <1>13, <1>14, RedecodesModes
<1> QED BY <1>3, <1>4, <1>15, ModesIntro

LEMMA BeginsModes ==
    ASSUME Remembers, Base, Owned, Modes, Begins
    PROVE  Modes'
<1>1. PICK f : /\ Begun(f) /\ frames' = <<f>>
               /\ \/ f.start \in fcm.queue /\ fcm' = Dequeued(f.start)
                  \/ /\ Grows(fcm, fcm')
                     /\ Functions \subseteq DOMAIN dis.ins2fn => Follows(fcm, fcm')
  BY DEF Begins
<1>2. /\ frames = <<>> /\ pass' # "done" /\ UNCHANGED <<img, results, history>>
      /\ ManagerOk(fcm) /\ DOMAIN history \subseteq DOMAIN fcm.candidates
  BY DEF Begins, Base, Records, Idle
<1>3. Started = {} /\ Started' = {f.start}
  <2>1. Top' = f /\ frames' # <<>>
    BY <1>1, BeginTop
  <2>2. f.phase = "decode"
    BY <1>1 DEF Begun
  <2>3. Decoding' /\ ~Decoding
    BY <1>2, <2>1, <2>2 DEF Decoding
  <2> QED BY <2>1, <2>3 DEF Started
<1>4. CASE f.start \in fcm.queue /\ fcm' = Dequeued(f.start)
  <2>1. Akin(fcm, fcm') /\ fcm'.queue = fcm.queue \ {f.start}
    BY <1>2, <1>4, DequeuedAkin
  <2>2. /\ Agree(fcm') /\ MetaIn(fcm', Functions, meta, history) /\ UndoneIn(fcm', undone)
    BY <1>2, <2>1, AkinModes DEF Modes
  <2>3. UNCHANGED <<Functions, meta, undone, history>>
    BY <1>2 DEF results, Functions
  <2>4. WaitsIn(fcm', Functions', DOMAIN history', Started')
    <3> SUFFICES ASSUME NEW fn \in DOMAIN history \ Functions, fn \notin worthless
                 PROVE  fcm'.candidates[fn].finished \/ fn \in fcm'.queue \/ fn = f.start
      BY <1>3, <2>3 DEF WaitsIn
    <3>1. fn \in DOMAIN fcm.candidates
      BY <1>2
    <3>2. fcm.candidates[fn].finished \/ fn \in fcm.queue
      BY <1>3 DEF Modes, WaitsIn
    <3>3. fcm.candidates[fn].finished => fcm'.candidates[fn].finished
      BY <2>1, <3>1 DEF Akin
    <3> QED BY <2>1, <3>2, <3>3
  <2> QED BY <1>2, <2>2, <2>3, <2>4, ModesIntro
<1>5. CASE Functions \subseteq DOMAIN dis.ins2fn => Follows(fcm, fcm')
  <2>1. Follows(fcm, fcm')
    BY <1>5, OwnedFunctions DEF Code
  <2> QED BY <1>2, <1>3, <2>1, FollowedModes
<1> QED BY <1>1, <1>4, <1>5

LEMMA WalkModes ==
    ASSUME Remembers, Base, Modes, WalkStep
    PROVE  Modes'
<1>1. PICK g : Update(g) /\ Keeps(g) /\ (Passing(g) \/ Booking(g) \/ Undoing(g))
  BY DEF WalkStep
<1>2. /\ frames # <<>> /\ Decoding /\ UNCHANGED <<img, meta, pools, undone, pass, history>>
      /\ ManagerOk(fcm) /\ DOMAIN history \subseteq DOMAIN fcm.candidates /\ Stands(fcm)
  BY DEF WalkStep, Decoding, Base, Records
<1>3. Top' = g /\ frames' # <<>> /\ g.start = Top.start /\ g.phase = "decode"
  BY <1>1, <1>2, UpdateTop DEF Keeps, Decoding
<1>4. Started = {Top.start} /\ Started' = {Top.start}
  BY <1>2, <1>3 DEF Started, Decoding
<1>5. pass' # "done"
  BY <1>2 DEF Modes
<1>6. CASE Passing(g) \/ Booking(g)
  BY <1>2, <1>4, <1>5, <1>6, FollowedModes DEF Passing, Booking, results
<1>7. CASE Undoing(g)
  <2>1. PICK fn, m :
          fn \in Functions /\ dis' = Ungapped(dis, {fn}) /\ Follows(fcm, m) /\ fcm' = Aborted(m, fn)
    BY <1>7 DEF Undoing
  <2>2. /\ Agree(m) /\ MetaIn(m, Functions, meta, history) /\ UndoneIn(m, undone)
        /\ WaitsIn(m, Functions, DOMAIN history, Started)
    BY <1>2, <2>1, FollowsModes DEF Modes
  <2>3. ManagerOk(m) /\ Stands(m) /\ DOMAIN fcm.candidates \subseteq DOMAIN m.candidates
    BY <1>2, <2>1, StandsStill DEF Follows, Grows
  <2>4. HadItsTurn(m, fcm', fn)
    BY <2>1, <2>3, AbortedFacts
  <2>5. Akin(m, fcm') /\ m.queue = fcm'.queue
    BY <2>4, TurnAkin
  <2>6. /\ Agree(fcm') /\ MetaIn(fcm', Functions, meta, history) /\ UndoneIn(fcm', undone)
        /\ WaitsIn(fcm', Functions, DOMAIN history, Started)
    BY <1>2, <2>2, <2>3, <2>5, AkinModes
  <2>7. Functions' = Functions \ {fn}
    <3> DEFINE fns == {fn}
    <3>1. DisOk(dis) /\ dis' = Ungapped(dis, fns)
      BY <2>1 DEF Base, Records
    <3> HIDE DEF fns
    <3>2. dis'.functions = Without(dis.functions, fns)
      BY <3>1, UngappedFacts
    <3>3. DOMAIN Without(dis.functions, fns) = DOMAIN dis.functions \ fns
      BY DEF Without
    <3> QED BY <3>2, <3>3 DEF Functions, fns
  <2>8. fcm'.candidates[fn].finished
    <3>1. fn \in DOMAIN m.candidates
      BY <2>1, <2>3 DEF Stands
    <3> QED BY <2>4, <3>1, TurnFacts
  <2>9. MetaIn(fcm', Functions', meta', history')
    BY <1>2, <2>6, <2>7 DEF MetaIn, KnownIn
  <2>10. WaitsIn(fcm', Functions', DOMAIN history', Started')
    BY <1>2, <1>4, <2>6, <2>7, <2>8 DEF WaitsIn
  <2> QED BY <1>2, <1>5, <2>6, <2>9, <2>10, ModesIntro
<1> QED BY <1>1, <1>6, <1>7

LEMMA TopKeepsMode ==
    ASSUME Base, frames # <<>>, Remembered
    PROVE  Top.thumb = IsThumb(fcm, Top.start) \/ Top.start \in taught
<1>1. frames \in Seq(FrameOf(DOMAIN fcm.candidates))
  BY DEF Base, CallsOk
<1>2. Len(frames) \in DOMAIN frames
  BY <1>1
<1>3. ASSUME Top.thumb # IsThumb(fcm, Top.start)
      PROVE  Top.start \in TaughtNow
  BY <1>2, <1>3 DEF Top, TaughtNow
<1> QED BY <1>3 DEF Remembered

LEMMA CallsOnModes ==
    ASSUME Remembers, Base, Modes, CallsOn
    PROVE  Modes'
<1>1. PICK f, g :
          /\ Call(f, g) /\ Called(g) /\ f \in FrameOf(DOMAIN fcm.candidates)
          /\ \/ Walked /\ g.start = Top.start /\ UNCHANGED fcm
             \/ /\ ~Decoding /\ Like(fcm, fcm')
                /\ \A c \in DOMAIN fcm.candidates :
                      fcm'.candidates[c].finished = fcm.candidates[c].finished
  BY DEF CallsOn
<1>2. /\ frames # <<>> /\ UNCHANGED <<img, results, pass, history>> /\ ManagerOk(fcm)
      /\ g \in FrameOf(DOMAIN fcm.candidates) /\ g.phase = "decode"
  BY <1>1 DEF CallsOn, Base, Called
<1>3. Top' = g /\ frames' # <<>>
  BY <1>1, <1>2, CallTop
<1>4. Started' = {g.start}
  <2>1. Decoding'
    BY <1>2, <1>3 DEF Decoding
  <2> QED BY <1>3, <2>1 DEF Started
<1>5. Started \subseteq Started'
  BY <1>1, <1>4 DEF Started, Walked
<1>6. Akin(fcm, fcm') /\ fcm'.queue = fcm.queue
  BY <1>1, <1>2 DEF Akin, Like
<1>7. pass' # "done"
  BY <1>2 DEF Modes
<1> QED BY <1>2, <1>5, <1>6, <1>7, SameModes

LEMMA ResumesModes ==
    ASSUME Remembers, Base, Modes, Resumes
    PROVE  Modes'
<1>1. /\ frames # <<>> /\ ~Decoding /\ UNCHANGED <<img, results, pass, history>> /\ ManagerOk(fcm)
      /\ UNCHANGED fcm \/ fcm' = Aborted(fcm, Reverted)
  BY DEF Resumes, Base
<1>2. Started = {} /\ pass' # "done"
  BY <1>1 DEF Started, Modes
<1>3. Akin(fcm, fcm') /\ fcm'.queue = fcm.queue
  <2>1. CASE UNCHANGED fcm
    BY <1>1, <2>1 DEF Akin
  <2>2. CASE fcm' = Aborted(fcm, Reverted)
    <3>1. HadItsTurn(fcm, fcm', Reverted)
      BY <1>1, <2>2, AbortedFacts
    <3> QED BY <3>1, TurnAkin
  <2> QED BY <1>1, <2>1, <2>2
<1> QED BY <1>1, <1>2, <1>3, SameModes

LEMMA ReturnsModes ==
    ASSUME Remembers, Base, Owned, Modes, Remembered, Returns
    PROVE  Modes'
<1>1. PICK d, m, fns :
              /\ HadItsTurn(fcm, m, Top.start)
              /\ Redecodes(d, m, Top.start, Top.thumb, Top.data, fns)
              /\ \/ d = dis /\ UNCHANGED history
                 \/ /\ d = Stored /\ Accepted /\ history' = With(history, Top.start, Top.thumb)
  BY ReturnsFacts
<1> DEFINE start == Top.start
           thumb == Top.thumb
           data == Top.data
<1>2. /\ Decoding /\ frames # <<>> /\ frames' = Front(frames) /\ UNCHANGED <<img, pass>>
      /\ ManagerOk(fcm) /\ Records /\ Top \in FrameOf(DOMAIN fcm.candidates)
      /\ start \in DOMAIN fcm.candidates /\ start \notin Functions
      /\ DOMAIN history \subseteq DOMAIN fcm.candidates
  BY ReadyTop, FrameParts DEF Returns, Decoding, Ready, Base, Records, Owned
<1>3. thumb = IsThumb(fcm, start) \/ start \in taught
  BY <1>2, TopKeepsMode
<1>4. Started = {start} /\ Started' = {}
  BY <1>2, PoppedIdles DEF Started
<1>5. /\ Akin(fcm, m) /\ m.queue = fcm.queue /\ m.candidates[start].finished
  BY <1>1, <1>2, TurnAkin, TurnFacts
<1>6. /\ ManagerOk(m) /\ DOMAIN m.candidates = DOMAIN fcm.candidates
      /\ \A a : IsThumb(m, a) = IsThumb(fcm, a)
  BY <1>2, <1>5, ModeFacts DEF Akin
<1>7. /\ Agree(m) /\ MetaIn(m, Functions, meta, history) /\ UndoneIn(m, undone)
      /\ WaitsIn(m, Functions, DOMAIN history, {start})
  BY <1>2, <1>4, <1>5, AkinModes DEF Modes
<1> HIDE DEF start, thumb, data
<1>8. Redecodes(d, m, start, thumb, data, fns)
  BY <1>1 DEF start, thumb, data
<1>9. /\ Functions \subseteq DOMAIN d.functions
      /\ DOMAIN d.functions \subseteq Functions \cup {start}
      /\ \A fn \in DOMAIN history \ {start} : history'[fn] = history[fn]
      /\ start \in DOMAIN d.functions => history'[start] = thumb
      /\ DOMAIN history' \subseteq DOMAIN history \cup {start}
      /\ DOMAIN history \subseteq DOMAIN history'
  <2>1. CASE d = dis /\ UNCHANGED history
    BY <1>2, <2>1 DEF Functions
  <2>2. CASE d = Stored /\ Accepted /\ history' = With(history, start, thumb)
    <3>1. DOMAIN d.functions = Functions \cup {start}
      BY <1>2, <2>2, StoredFacts DEF Records, start
    <3>2. /\ DOMAIN history' = DOMAIN history \cup {start} /\ history'[start] = thumb
          /\ \A fn \in DOMAIN history \ {start} : history'[fn] = history[fn]
      BY <2>2 DEF With
    <3> QED BY <3>1, <3>2
  <2> QED BY <1>1, <2>1, <2>2 DEF start, thumb
<1>10. Functions \subseteq DOMAIN meta /\ Functions \subseteq DOMAIN history
  BY <1>2 DEF Records
<1>11. /\ start \in DOMAIN d.functions \ taught =>
             IsThumb(m, start) = thumb /\ history'[start] = thumb
       /\ \A fn \in DOMAIN d.functions \ (taught \cup {start}) : KnownIn(m, fn, meta, history')
       /\ DOMAIN d.functions \subseteq DOMAIN meta \cup {start}
       /\ DOMAIN history' \subseteq DOMAIN m.candidates
  BY <1>2, <1>3, <1>6, <1>7, <1>9, <1>10 DEF MetaIn, KnownIn
<1>12. WaitsIn(m, DOMAIN d.functions, DOMAIN history', {})
  BY <1>5, <1>7, <1>9 DEF WaitsIn
<1>13. Functions' = DOMAIN d.functions \ fns
  BY <1>8, Zenon DEF Redecodes, Functions, Without
<1>14. /\ Agree(fcm') /\ MetaIn(fcm', Functions', meta', history') /\ UndoneIn(fcm', undone')
       /\ WaitsIn(fcm', Functions', DOMAIN history', {})
  BY <1>6, <1>7, <1>8, <1>11, <1>12, <1>13, RedecodesModes
<1>15. pass' # "done"
  BY <1>2 DEF Modes
<1> QED BY <1>2, <1>4, <1>14, <1>15, ModesIntro

LEMMA CompletesModes ==
    ASSUME Remembers, Base, Modes, Remembered, Completes
    PROVE  Modes'
<1> DEFINE nothing == {}
           start == Top.start
           thumb == Top.thumb
<1>1. PICK fns : Redecodes(dis, fcm, start, thumb, nothing, fns)
  BY CompletesFacts
<1> HIDE DEF nothing
<1>2. /\ ~Decoding /\ frames # <<>> /\ frames' = Front(frames) /\ UNCHANGED <<img, pass, history>>
      /\ ManagerOk(fcm) /\ Records /\ fcm.conflicts = {}
      /\ DOMAIN history \subseteq DOMAIN fcm.candidates
  BY DEF Completes, Restoring, Decoding, Base, Records, CallsOk
<1>3. thumb = IsThumb(fcm, start) \/ start \in taught
  BY <1>2, TopKeepsMode
<1>4. Started = {} /\ Started' = {}
  BY <1>2, PoppedIdles DEF Started
<1> HIDE DEF start, thumb
<1>5. DOMAIN dis.functions = Functions /\ Functions \subseteq DOMAIN meta
  BY <1>2 DEF Records, Functions
<1>6. /\ start \in DOMAIN dis.functions \ taught =>
            IsThumb(fcm, start) = thumb /\ history'[start] = thumb
      /\ \A fn \in DOMAIN dis.functions \ (taught \cup {start}) : KnownIn(fcm, fn, meta, history')
  BY <1>2, <1>3, <1>5 DEF Modes, MetaIn, KnownIn
<1>7. Agree(fcm) /\ UndoneIn(fcm, undone) /\ WaitsIn(fcm, DOMAIN dis.functions, DOMAIN history', {})
  BY <1>2, <1>4, <1>5 DEF Modes
<1>8. Functions' = DOMAIN dis.functions \ fns
  BY <1>1, Zenon DEF Redecodes, Functions, Without
<1>9. /\ DOMAIN dis.functions \subseteq DOMAIN meta \cup {start}
      /\ DOMAIN history' \subseteq DOMAIN fcm.candidates
  BY <1>2, <1>5
<1>10. /\ Agree(fcm') /\ MetaIn(fcm', Functions', meta', history') /\ UndoneIn(fcm', undone')
       /\ WaitsIn(fcm', Functions', DOMAIN history', {})
  BY <1>1, <1>2, <1>6, <1>7, <1>8, <1>9, RedecodesModes
<1>11. pass' # "done"
  BY <1>2 DEF Modes
<1> QED BY <1>2, <1>4, <1>10, <1>11, ModesIntro

LEMMA DiscoversModes ==
    ASSUME Remembers, Base, Base', Discovers
    PROVE  Modes'
<1>1. /\ Fresh(fcm') /\ UNCHANGED <<img, frames, history, results>> /\ frames = <<>>
      /\ Functions = {} /\ DOMAIN history = {} /\ DOMAIN undone = {} /\ pass' # "done"
  BY DEF Discovers, Base, Discovering, Reads
<1>2. Functions' = {} /\ DOMAIN history' = {} /\ DOMAIN undone' = {}
  BY <1>1 DEF Functions, results
<1>3. Agree(fcm')
  BY <1>1 DEF Fresh, Agree
<1>4. UndoneIn(fcm', undone')
  BY <1>1, <1>2 DEF UndoneIn, Fresh
<1>5. MetaIn(fcm', Functions', meta', history') /\ WaitsIn(fcm', Functions', DOMAIN history', Started')
  BY <1>2 DEF MetaIn, KnownIn, WaitsIn
<1> QED BY <1>1, <1>3, <1>4, <1>5, ModesIntro

LEMMA ModesKept ==
    ASSUME Base, Base', Owned, Modes, Remembered, Remembers, [Next]_vars
    PROVE  Modes'
<1>1. CASE Next
  BY <1>1, NextEffects, DiscoversModes, RestsModes, RefusesModes, BeginsModes, WalkModes,
     CallsOnModes, ResumesModes, ReturnsModes, CompletesModes DEF Effects
<1>2. CASE UNCHANGED vars
  <2>1. UNCHANGED <<img, results, history, fcm, frames, pass>>
    BY <1>2 DEF vars, results
  <2>2. Started' = Started
    BY <2>1 DEF Started, Decoding, Top
  <2>3. Akin(fcm, fcm')
    BY <2>1 DEF Akin, Base
  <2> QED BY <2>1, <2>2, <2>3, SameModes DEF Modes
<1> QED BY <1>1, <1>2

LEMMA InitModes ==
    ASSUME Init
    PROVE  Modes
<1> DEFINE nothing == <<>>
<1>1. /\ pass = "symbols" /\ frames = nothing /\ history = nothing /\ undone = nothing
      /\ dis = [functions |-> nothing, ins2fn |-> nothing, dataMap |-> {}]
      /\ fcm = [modes |-> nothing, conflicts |-> {}, candidates |-> nothing, queue |-> {},
                strong |-> {}, declared |-> {}, calls |-> nothing]
  BY DEF Init
<1>2. DOMAIN nothing = {}
  OBVIOUS
<1> HIDE DEF nothing
<1>3. Functions = {} /\ DOMAIN history = {} /\ DOMAIN undone = {} /\ fcm.conflicts = {}
      /\ DOMAIN fcm.candidates = {}
  BY <1>1, <1>2 DEF Functions
<1> QED BY <1>1, <1>3 DEF Modes, Agree, MetaIn, UndoneIn, WaitsIn

LEMMA ModesSettle ==
    ASSUME Base, Modes
    PROVE  ModesAreSettled
<1>1. TypeOK
  BY BaseTypes
<1>2. MetaTellsHowDecoded
  <2> SUFFICES ASSUME frames = <<>>, NEW fn \in Functions \ taught
               PROVE  meta[fn] = history[fn] /\ IsThumb(fcm, fn) = meta[fn]
    BY DEF MetaTellsHowDecoded, Idle
  <2>1. fcm.conflicts = {}
    BY DEF Base, CallsOk, Decoding
  <2> QED BY <2>1 DEF Modes, MetaIn, KnownIn
<1>3. UndoneIsDecodedAgain
  <2> SUFFICES ASSUME pass = "done", NEW fn \in DOMAIN history \ (Functions \cup worthless)
               PROVE  fcm.candidates[fn].finished
    BY DEF UndoneIsDecodedAgain
  <2>1. fcm.queue = {} /\ Started = {}
    BY DEF Modes, Started, Decoding
  <2> QED BY <2>1 DEF Modes, WaitsIn
<1>4. UndoneOnce
  BY DEF Modes, UndoneIn, UndoneOnce
<1> QED BY <1>1, <1>2, <1>3, <1>4 DEF ModesAreSettled

(* Where nothing straddles code: the metadata tells how every function was  *)
(* decoded, which is what is known best of it, but for one that was told    *)
(* its other instruction set while it was under analysis; what was undone   *)
(* is decoded again or given up by the end, but where its turn came while   *)
(* nothing spoke for it; and no function is undone twice, however many      *)
(* functions disagree about each other.                                     *)
THEOREM ModesSettleHolds == HistorySpec /\ []NothingStraddles => []ModesAreSettled
<1>1. HistoryInit => Modes
  BY InitModes DEF HistoryInit
<1>2. Base /\ Base' /\ Owned /\ Modes /\ Remembered /\ [HistoryNext]_allVars => Modes'
  BY ModesKept, HistorySteps
<1>3. Base /\ Modes => ModesAreSettled
  BY ModesSettle
<1> QED BY <1>1, <1>2, <1>3, SpecBase, SpecOwned, HistoryIsSpec, HistoryRemembered, PTL
       DEF HistorySpec

-----------------------------------------------------------------------------
(* Pools.  What a walk has booked loads nothing it does not know as data,   *)
(* and in a second pass it keeps off what the first one read.  What is      *)
(* marked as data is in a pool of a function that stands, or was left       *)
(* behind; what is booked is marked; and what a function loads is in its    *)
(* pool, and none of its bytes, but for what was found late.                *)
FrameLoads ==
    Decoding =>
        /\ LoadedBy(Top.thumb, Top.ins) \subseteq Top.data
        /\ Top.repeated => /\ Len(frames) > 1 /\ FirstPass.data \subseteq Top.data
                           /\ FirstPass.data \cap Top.bytes = {}

LoadsIn(d, p, h) ==
    \A fn \in DOMAIN d.functions : \A b \in LoadedBy(h[fn], d.functions[fn].ins) :
        /\ fn \in DOMAIN p /\ b \in p[fn]
        /\ b \in d.functions[fn].bytes => <<fn, b>> \in late

PoolsIn(d, p) ==
    /\ \A b \in d.dataMap : b \in left \/ \E fn \in DOMAIN p \cap DOMAIN d.functions : b \in p[fn]
    /\ \A fn \in DOMAIN p : p[fn] \subseteq d.dataMap
    /\ \A fn \in DOMAIN p \ DOMAIN d.functions : p[fn] \subseteq left

PoolsBooked == PoolsIn(dis, pools) /\ LoadsIn(dis, pools, history) /\ FrameLoads

LEMMA LoadedFacts ==
    ASSUME NEW thumb, NEW ins
    PROVE  \A b : b \in LoadedBy(thumb, ins) <=>
                     \E a \in ins : /\ At(thumb, a).kind = "lit" /\ At(thumb, a).target \in Addresses
                                    /\ b \in Span(At(thumb, a).target, 4)
BY DEF LoadedBy

LEMMA LoadedPrimed ==
    ASSUME UNCHANGED img
    PROVE  \A thumb, ins : LoadedBy(thumb, ins)' = LoadedBy(thumb, ins)
BY DEF LoadedBy, At, Addresses

(* The load that is classified is in the data seen.                         *)
LEMMA SeenLoads ==
    ASSUME Ready, Classifying, Here.kind = "lit", Here.target \in Addresses
    PROVE  Span(Here.target, 4) \subseteq Seen.data
<1> DEFINE c == Counted(Top)
           data == c.data \cup Span(Here.target, 4)
<1>1. Seen = [c EXCEPT !.data = data]
  BY DEF Seen, PoolRead
<1>2. "data" \in DOMAIN c
  <2> DEFINE t == Top
  <2>1. t \in Frame
    BY DEF Ready, FrameOf
  <2>2. c = t \/ c = [t EXCEPT !.zeros = t.zeros + 1]
    BY Zenon DEF Counted
  <2> HIDE DEF t, c
  <2> QED BY <2>1, <2>2 DEF Frame
<1> HIDE DEF c
<1>3. Seen.data = data
  BY <1>1, <1>2
<1> QED BY <1>3

LEMMA BooksLoads ==
    ASSUME Ready, NEW g, Keeps(g), Books(g), LoadedBy(Top.thumb, Top.ins) \subseteq Top.data
    PROVE  LoadedBy(g.thumb, g.ins) \subseteq g.data
<1>1. /\ g.thumb = Top.thumb /\ g.ins = Top.ins \cup {Top.at} /\ Top.data \subseteq g.data
      /\ Classifying /\ Seen.data \subseteq g.data
  BY DEF Keeps, Books
<1> SUFFICES ASSUME NEW b \in LoadedBy(g.thumb, g.ins)
             PROVE  b \in g.data
  OBVIOUS
<1>2. PICK a \in g.ins : /\ At(g.thumb, a).kind = "lit" /\ At(g.thumb, a).target \in Addresses
                         /\ b \in Span(At(g.thumb, a).target, 4)
  BY LoadedFacts
<1>3. CASE a \in Top.ins
  <2>1. b \in LoadedBy(Top.thumb, Top.ins)
    BY <1>1, <1>2, <1>3, LoadedFacts
  <2> QED BY <1>1, <2>1
<1>4. CASE a = Top.at
  <2>1. Here = At(g.thumb, a)
    BY <1>1, <1>4 DEF Here, InsAt
  <2>2. Span(Here.target, 4) \subseteq Seen.data
    BY <1>1, <1>2, <2>1, SeenLoads
  <2> QED BY <1>1, <1>2, <2>1, <2>2
<1> QED BY <1>1, <1>3, <1>4

(* Replacing the call on top leaves the one below it.                       *)
LEMMA UpdateFirst ==
    ASSUME Base, frames # <<>>, NEW g \in FrameOf(DOMAIN fcm.candidates), Update(g)
    PROVE  Len(frames') = Len(frames) /\ (Len(frames) > 1 => FirstPass' = FirstPass)
<1> DEFINE S == FrameOf(DOMAIN fcm.candidates)
<1>1. frames \in Seq(S) /\ g \in S /\ frames' = [frames EXCEPT ![Len(frames)] = g]
  BY DEF Base, CallsOk, Update
<1> HIDE DEF S
<1>2. /\ Len(frames') = Len(frames) /\ Len(frames) \in Nat
      /\ \A k \in 1..(Len(frames) - 1) : frames'[k] = frames[k]
  BY <1>1, ReplaceTop
<1>3. Len(frames) > 1 => Len(frames) - 1 \in 1..(Len(frames) - 1)
  BY <1>2
<1> QED BY <1>2, <1>3 DEF FirstPass

LEMMA CallFirst ==
    ASSUME Base, frames # <<>>, NEW f \in FrameOf(DOMAIN fcm.candidates),
           NEW g \in FrameOf(DOMAIN fcm.candidates), Call(f, g)
    PROVE  Len(frames') > 1 /\ FirstPass' = f
<1> DEFINE S == FrameOf(DOMAIN fcm.candidates)
<1>1. /\ frames \in Seq(S) /\ f \in S /\ g \in S
      /\ frames' = Append([frames EXCEPT ![Len(frames)] = f], g)
  BY DEF Base, CallsOk, Call
<1> HIDE DEF S
<1>2. Len(frames') = Len(frames) + 1 /\ frames'[Len(frames)] = f
  BY <1>1, PushTop
<1>3. Len(frames) \in Nat /\ Len(frames) # 0
  BY <1>1, EmptySeq
<1>4. Len(frames') > 1 /\ Len(frames') - 1 = Len(frames)
  BY <1>2, <1>3
<1> QED BY <1>2, <1>4 DEF FirstPass

LEMMA WalkLoads ==
    ASSUME Base, FrameLoads, WalkStep
    PROVE  FrameLoads'
<1>1. PICK g : Update(g) /\ Keeps(g) /\ (Passing(g) \/ Booking(g) \/ Undoing(g))
  BY DEF WalkStep
<1>2. frames # <<>> /\ Decoding /\ UNCHANGED img /\ Ready
  BY ReadyTop DEF WalkStep, Decoding
<1>3. Top' = g
  BY <1>1, <1>2, UpdateTop DEF Keeps
<1>4. Len(frames') = Len(frames) /\ (Len(frames) > 1 => FirstPass' = FirstPass)
  BY <1>1, <1>2, UpdateFirst DEF Keeps
<1>5. /\ LoadedBy(Top.thumb, Top.ins) \subseteq Top.data
      /\ Top.repeated => /\ Len(frames) > 1 /\ FirstPass.data \subseteq Top.data
                         /\ FirstPass.data \cap Top.bytes = {}
  BY <1>2 DEF FrameLoads
<1>6. g.thumb = Top.thumb /\ g.repeated = Top.repeated /\ Top.data \subseteq g.data
  BY <1>1 DEF Keeps
<1>7. /\ LoadedBy(g.thumb, g.ins) \subseteq g.data
      /\ g.repeated => FirstPass.data \cap g.bytes = {}
  <2>1. CASE Passing(g)
    BY <1>5, <1>6, <2>1 DEF Passing
  <2>2. CASE Books(g)
    <3>1. LoadedBy(g.thumb, g.ins) \subseteq g.data
      BY <1>1, <1>2, <1>5, <2>2, BooksLoads
    <3>2. HereBytes \cap Top.data = {} /\ g.bytes = Top.bytes \cup HereBytes
      BY <2>2 DEF Books, Classifying, InPool
    <3> QED BY <1>5, <1>6, <3>1, <3>2
  <2> QED BY <1>1, <2>1, <2>2 DEF Booking, Undoing
<1>8. LoadedBy(g.thumb, g.ins)' = LoadedBy(g.thumb, g.ins)
  BY <1>2, LoadedPrimed DEF LoadedBy, At, Addresses
<1>9. LoadedBy(Top.thumb, Top.ins)' = LoadedBy(g.thumb, g.ins)
  BY <1>2, <1>3 DEF LoadedBy, At, Addresses
<1> QED BY <1>3, <1>4, <1>5, <1>6, <1>7, <1>9 DEF FrameLoads

LEMMA EmptyLoads ==
    ASSUME NEW thumb
    PROVE  LoadedBy(thumb, {}) = {}
BY DEF LoadedBy

LEMMA BeginsLoads ==
    ASSUME Begins
    PROVE  FrameLoads'
<1>1. PICK f : Begun(f) /\ frames' = <<f>>
  BY DEF Begins
<1>2. Top' = f
  BY <1>1, BeginTop
<1>3. f.ins = {} /\ f.repeated = FALSE
  BY <1>1 DEF Begun
<1>4. LoadedBy(Top.thumb, Top.ins)' = {}
  BY <1>2, <1>3 DEF LoadedBy
<1> QED BY <1>2, <1>3, <1>4 DEF FrameLoads

LEMMA CallsOnLoads ==
    ASSUME Base, CallsOn
    PROVE  FrameLoads'
<1>1. PICK f, g :
          /\ Call(f, g) /\ Called(g) /\ f \in FrameOf(DOMAIN fcm.candidates)
          /\ (g.data = Top.data /\ f.data = Top.data) \/ g.data = {}
  BY DEF CallsOn
<1>2. frames # <<>> /\ g \in FrameOf(DOMAIN fcm.candidates)
  BY <1>1 DEF CallsOn, Called
<1>3. Top' = g /\ Len(frames') > 1 /\ FirstPass' = f
  BY <1>1, <1>2, CallTop, CallFirst
<1>4. g.ins = {} /\ g.bytes = {} /\ g.repeated = (g.data # {})
  BY <1>1 DEF Called
<1>5. LoadedBy(Top.thumb, Top.ins)' = {}
  BY <1>3, <1>4 DEF LoadedBy
<1> QED BY <1>1, <1>3, <1>4, <1>5 DEF FrameLoads

LEMMA FrameLoadsKept ==
    ASSUME Base, FrameLoads, Effects
    PROVE  FrameLoads'
<1>1. CASE Discovers \/ Rests \/ Refuses
  <2>1. frames = <<>> /\ frames' = frames
    BY <1>1 DEF Discovers, Rests, Refuses, Idle, Base, Discovering
  <2> QED BY <2>1 DEF FrameLoads, Decoding
<1>2. CASE Resumes
  <2>1. PICK f : Update(f) /\ f \in FrameOf(DOMAIN fcm.candidates) /\ f.phase # "decode"
    BY <1>2 DEF Resumes
  <2>2. Top' = f
    BY <1>2, <2>1, UpdateTop DEF Resumes
  <2> QED BY <2>1, <2>2 DEF FrameLoads, Decoding
<1>3. CASE Returns \/ Completes
  <2>1. frames # <<>> /\ frames' = Front(frames)
    BY <1>3 DEF Returns, Completes, Decoding, Restoring
  <2>2. ~Decoding'
    BY <2>1, PoppedIdles
  <2> QED BY <2>2 DEF FrameLoads
<1> QED BY <1>1, <1>2, <1>3, WalkLoads, BeginsLoads, CallsOnLoads DEF Effects

LEMMA OnlyPoolsFacts ==
    ASSUME NEW p, NEW fns
    PROVE  \A b : b \in OnlyPools(p, fns) <=> /\ \E fn \in fns \cap DOMAIN p : b \in p[fn]
                                              /\ \A fn \in DOMAIN p \ fns : b \notin p[fn]
<1> SUFFICES ASSUME NEW b
             PROVE  b \in OnlyPools(p, fns) <=> /\ \E fn \in fns \cap DOMAIN p : b \in p[fn]
                                               /\ \A fn \in DOMAIN p \ fns : b \notin p[fn]
  OBVIOUS
<1>1. b \in OwnPools(p, fns) <=> \E fn \in fns \cap DOMAIN p : b \in p[fn]
  BY DEF OwnPools
<1>2. b \in OwnPools(p, DOMAIN p \ fns) <=> \E fn \in DOMAIN p \ fns : b \in p[fn]
  BY DEF OwnPools
<1>3. b \in OnlyPools(p, fns) <=> b \in OwnPools(p, fns) /\ ~(b \in OwnPools(p, DOMAIN p \ fns))
  BY DEF OnlyPools
<1> QED BY <1>1, <1>2, <1>3, Zenon

(* What is undone for its instruction set takes its pool along, but for     *)
(* what another reader holds.                                               *)
LEMMA RedecodesPools ==
    ASSUME NEW d, NEW m, NEW start, NEW thumb, NEW data, NEW fns, NEW h,
           Redecodes(d, m, start, thumb, data, fns),
           PoolsIn(d, BookedPools(d, start, data)), LoadsIn(d, BookedPools(d, start, data), h)
    PROVE  PoolsIn(dis', pools') /\ LoadsIn(dis', pools', h)
<1> DEFINE functions == Without(d.functions, fns)
           booked == BookedPools(d, start, data)
           code == Without(d.ins2fn, BytesOf(d, fns))
           map == d.dataMap \ OnlyPools(booked, fns)
<1>1. /\ dis' = [functions |-> functions, ins2fn |-> code, dataMap |-> map]
      /\ pools' = Without(booked, fns)
      /\ fns \subseteq DOMAIN d.functions
  BY DEF Redecodes
<1>2. /\ DOMAIN functions = DOMAIN d.functions \ fns
      /\ \A fn \in DOMAIN functions : functions[fn] = d.functions[fn]
  BY Zenon DEF Without
<1> HIDE DEF functions, booked, code, map
<1>3. dis'.functions = functions /\ dis'.dataMap = map
  BY <1>1
<1>4. /\ DOMAIN pools' = DOMAIN booked \ fns
      /\ \A fn \in DOMAIN pools' : pools'[fn] = booked[fn]
  BY <1>1, Zenon DEF Without
<1>5. \A b : b \in OnlyPools(booked, fns) <=> /\ \E fn \in fns \cap DOMAIN booked : b \in booked[fn]
                                              /\ \A fn \in DOMAIN booked \ fns : b \notin booked[fn]
  BY OnlyPoolsFacts
<1>6. PoolsIn(d, booked) /\ LoadsIn(d, booked, h)
  BY DEF booked
<1>7. ASSUME NEW b \in map, b \notin left
      PROVE  \E fn \in DOMAIN pools' \cap DOMAIN functions : b \in pools'[fn]
  <2>1. b \in d.dataMap /\ b \notin OnlyPools(booked, fns)
    BY <1>7 DEF map
  <2>2. PICK g \in DOMAIN booked \cap DOMAIN d.functions : b \in booked[g]
    BY <1>6, <1>7, <2>1 DEF PoolsIn
  <2>3. PICK fn \in DOMAIN booked \ fns : b \in booked[fn]
    BY <1>5, <2>1, <2>2
  <2>4. fn \in DOMAIN d.functions
    BY <1>6, <1>7, <2>3 DEF PoolsIn
  <2> QED BY <1>2, <1>4, <2>3, <2>4
<1>8. ASSUME NEW fn \in DOMAIN pools'
      PROVE  pools'[fn] \subseteq map
  <2>1. fn \in DOMAIN booked \ fns /\ pools'[fn] = booked[fn]
    BY <1>4
  <2>2. booked[fn] \subseteq d.dataMap
    BY <1>6, <2>1 DEF PoolsIn
  <2>3. \A b \in booked[fn] : b \notin OnlyPools(booked, fns)
    BY <1>5, <2>1
  <2> QED BY <2>1, <2>2, <2>3 DEF map
<1>9. ASSUME NEW fn \in DOMAIN pools' \ DOMAIN functions
      PROVE  pools'[fn] \subseteq left
  BY <1>2, <1>4, <1>6 DEF PoolsIn
<1>10. PoolsIn(dis', pools')
  BY <1>3, <1>7, <1>8, <1>9 DEF PoolsIn
<1>11. LoadsIn(dis', pools', h)
  BY <1>2, <1>3, <1>4, <1>6 DEF LoadsIn
<1> QED BY <1>10, <1>11

(* A function that is stored books what it read as its pool.                *)
LEMMA StoredPools ==
    ASSUME Base, Owned, PoolsBooked, Remembered, Decoding, ~RanIntoPool, Accepted, NEW h,
           h = With(history, Top.start, Top.thumb)
    PROVE  LET booked == BookedPools(Stored, Top.start, Top.data)
           IN  PoolsIn(Stored, booked) /\ LoadsIn(Stored, booked, h)
<1> DEFINE s == Stored
           start == Top.start
           data == Top.data
           own == Top.bytes
           loads == LoadedBy(Top.thumb, Top.ins)
           booked == BookedPools(s, start, data)
<1>1. DisOk(dis) /\ Top \in FrameOf(DOMAIN fcm.candidates) /\ start \notin Functions
  BY ReadyTop DEF Decoding, Base, Records, Ready, Owned
<1>2. /\ DOMAIN s.functions = Functions \cup {start}
      /\ s.functions[start].bytes = own /\ s.functions[start].ins = Top.ins
      /\ \A fn \in Functions \ {start} : s.functions[fn] = dis.functions[fn]
      /\ s.dataMap = dis.dataMap \cup data
  BY <1>1, StoredFacts
<1>3. /\ h[start] = Top.thumb
      /\ \A fn \in Functions : h[fn] = history[fn]
  BY <1>1 DEF With, Base, Records
<1>4. loads \subseteq data
  BY DEF PoolsBooked, FrameLoads
<1>5. ASSUME NEW b \in data \cap own
      PROVE  <<start, b>> \in late
  <2>1. Top.repeated
    BY <1>5 DEF RanIntoPool
  <2>2. Len(frames) > 1 /\ b \notin FirstPass.data
    BY <1>5, <2>1 DEF PoolsBooked, FrameLoads
  <2>3. <<start, b>> \in LateNow
    BY <1>5, <2>1, <2>2 DEF LateNow
  <2> QED BY <2>3 DEF Remembered
<1>6. booked = IF data # {} THEN With(pools, start, data) ELSE pools
  BY <1>2 DEF BookedPools
<1>7. /\ DOMAIN With(pools, start, data) = DOMAIN pools \cup {start}
      /\ With(pools, start, data)[start] = data
      /\ \A fn \in DOMAIN pools : fn # start => With(pools, start, data)[fn] = pools[fn]
  BY DEF With
<1>8. /\ \A b \in dis.dataMap : b \in left \/ \E fn \in DOMAIN pools \cap Functions : b \in pools[fn]
      /\ \A fn \in DOMAIN pools : pools[fn] \subseteq dis.dataMap
      /\ \A fn \in DOMAIN pools \ Functions : pools[fn] \subseteq left
      /\ \A fn \in Functions : \A b \in LoadedBy(history[fn], dis.functions[fn].ins) :
            /\ fn \in DOMAIN pools /\ b \in pools[fn]
            /\ b \in dis.functions[fn].bytes => <<fn, b>> \in late
  BY DEF PoolsBooked, PoolsIn, LoadsIn, Functions
<1> HIDE DEF s, start, data, own, loads, booked
<1>9. /\ \A fn \in Functions \cap DOMAIN pools : fn \in DOMAIN booked /\ booked[fn] = pools[fn]
      /\ DOMAIN booked \subseteq DOMAIN pools \cup {start}
      /\ \A fn \in DOMAIN booked : fn # start => fn \in DOMAIN pools /\ booked[fn] = pools[fn]
      /\ data # {} => start \in DOMAIN booked /\ booked[start] = data
      /\ data = {} => booked = pools
  BY <1>1, <1>6, <1>7
<1>10. ASSUME NEW b \in s.dataMap, b \notin left
       PROVE  \E fn \in DOMAIN booked \cap DOMAIN s.functions : b \in booked[fn]
  BY <1>2, <1>8, <1>9, <1>10
<1>11. ASSUME NEW fn \in DOMAIN booked
       PROVE  booked[fn] \subseteq s.dataMap
  <2>1. CASE fn = start /\ data # {}
    BY <1>2, <1>9, <2>1
  <2>2. CASE fn # start \/ data = {}
    BY <1>2, <1>8, <1>9, <2>2
  <2> QED BY <2>1, <2>2
<1>12. ASSUME NEW fn \in DOMAIN booked \ DOMAIN s.functions
       PROVE  booked[fn] \subseteq left
  BY <1>2, <1>8, <1>9
<1>13. PoolsIn(s, booked)
  BY <1>10, <1>11, <1>12 DEF PoolsIn
<1>14. LoadsIn(s, booked, h)
  <2> SUFFICES ASSUME NEW fn \in DOMAIN s.functions,
                      NEW b \in LoadedBy(h[fn], s.functions[fn].ins)
               PROVE  /\ fn \in DOMAIN booked /\ b \in booked[fn]
                      /\ b \in s.functions[fn].bytes => <<fn, b>> \in late
    BY DEF LoadsIn
  <2>1. CASE fn = start
    <3>1. b \in data
      BY <1>2, <1>3, <1>4, <2>1 DEF loads
    <3> QED BY <1>2, <1>5, <1>9, <2>1, <3>1
  <2>2. CASE fn # start
    <3>1. /\ fn \in Functions /\ s.functions[fn] = dis.functions[fn] /\ h[fn] = history[fn]
      BY <1>2, <1>3, <2>2
    <3>2. /\ fn \in DOMAIN pools /\ b \in pools[fn]
          /\ b \in dis.functions[fn].bytes => <<fn, b>> \in late
      BY <1>8, <3>1
    <3> QED BY <1>9, <3>1, <3>2
  <2> QED BY <2>1, <2>2
<1> QED BY <1>13, <1>14 DEF s, booked, start, data

LEMMA PoolsIntro ==
    ASSUME Remembers, UNCHANGED img, PoolsIn(dis', pools'), LoadsIn(dis', pools', history'),
           FrameLoads'
    PROVE  PoolsBooked'
<1>1. PoolsIn(dis, pools)'
  BY DEF PoolsIn, Remembers
<1>2. LoadsIn(dis, pools, history)'
  BY DEF LoadsIn, LoadedBy, At, Addresses, Remembers
<1> QED BY <1>1, <1>2 DEF PoolsBooked

LEMMA UndoingPools ==
    ASSUME Base, Base', PoolsBooked, Remembered', Remembers, WalkStep, FrameLoads',
           NEW g, Undoing(g)
    PROVE  PoolsBooked'
<1>1. PICK fn \in Functions : dis' = Ungapped(dis, {fn})
  BY DEF Undoing
<1>2. DisOk(dis) /\ UNCHANGED <<img, pools, history>>
  BY DEF Base, Records, WalkStep
<1>3. dis'.functions = Without(dis.functions, {fn}) /\ dis'.dataMap = dis.dataMap
  BY <1>1, <1>2, UngappedFacts
<1>4. /\ DOMAIN dis'.functions = DOMAIN dis.functions \ {fn}
      /\ \A h \in DOMAIN dis'.functions : dis'.functions[h] = dis.functions[h]
  BY <1>3 DEF Without
<1>5. \A h \in DOMAIN pools \ DOMAIN dis'.functions : pools[h] \subseteq left'
  BY <1>2 DEF Remembered, LeftNow, Functions
<1>6. PoolsIn(dis, pools)'
  <2>1. ASSUME NEW b \in dis.dataMap, b \notin left'
        PROVE  \E h \in DOMAIN pools \cap DOMAIN dis'.functions : b \in pools[h]
    <3>1. PICK h \in DOMAIN pools \cap DOMAIN dis.functions : b \in pools[h]
      BY <2>1 DEF PoolsBooked, PoolsIn, Remembers
    <3> QED BY <1>5, <2>1, <3>1
  <2> QED BY <1>2, <1>3, <1>5, <2>1 DEF PoolsBooked, PoolsIn
<1>7. LoadsIn(dis, pools, history)'
  BY <1>2, <1>4 DEF PoolsBooked, LoadsIn, LoadedBy, At, Addresses, Remembers
<1> QED BY <1>6, <1>7 DEF PoolsBooked

LEMMA PoolsKept ==
    ASSUME Base, Base', Owned, PoolsBooked, Remembered, Remembered', Remembers, [Next]_vars
    PROVE  PoolsBooked'
<1>1. CASE UNCHANGED vars
  <2>1. UNCHANGED <<img, dis, pools, history, frames>>
    BY <1>1 DEF vars
  <2>2. FrameLoads'
    BY <2>1 DEF PoolsBooked, FrameLoads, Decoding, Top, FirstPass, LoadedBy, At, Addresses
  <2> QED BY <2>1, <2>2, PoolsIntro DEF PoolsBooked
<1>2. CASE Next
  <2>1. Effects /\ FrameLoads'
    BY <1>2, NextEffects, FrameLoadsKept DEF PoolsBooked
  <2>2. UNCHANGED img
    BY <2>1 DEF Effects, Discovers, Rests, Refuses, Begins, WalkStep, CallsOn, Resumes, Returns,
                Completes
  <2>3. ASSUME UNCHANGED <<dis, pools, history>>
        PROVE  PoolsBooked'
    BY <2>1, <2>2, <2>3, PoolsIntro DEF PoolsBooked
  <2>4. ASSUME NEW m, NEW start, NEW thumb, NEW fns, Redecodes(dis, m, start, thumb, {}, fns),
               UNCHANGED history
        PROVE  PoolsBooked'
    <3> DEFINE nothing == {}
    <3>1. BookedPools(dis, start, nothing) = pools
      BY DEF BookedPools
    <3>2. Redecodes(dis, m, start, thumb, nothing, fns)
      BY <2>4
    <3> HIDE DEF nothing
    <3>3. PoolsIn(dis', pools') /\ LoadsIn(dis', pools', history)
      BY <3>1, <3>2, RedecodesPools DEF PoolsBooked
    <3> QED BY <2>1, <2>2, <2>4, <3>3, PoolsIntro
  <2>5. CASE Discovers \/ Rests \/ Begins \/ CallsOn \/ Resumes
    BY <2>3, <2>5 DEF Discovers, Rests, Begins, CallsOn, Resumes, results
  <2>6. CASE Refuses
    BY <2>4, <2>6, RefusesFacts DEF Refuses
  <2>7. CASE Completes
    BY <2>4, <2>7, CompletesFacts DEF Completes
  <2>8. CASE WalkStep
    <3>1. PICK g : Passing(g) \/ Booking(g) \/ Undoing(g)
      BY <2>8 DEF WalkStep
    <3>2. CASE Passing(g) \/ Booking(g)
      BY <2>3, <2>8, <3>2 DEF Passing, Booking, WalkStep
    <3>3. CASE Undoing(g)
      BY <2>1, <2>8, <3>3, UndoingPools
    <3> QED BY <3>1, <3>2, <3>3
  <2>9. CASE Returns
    <3>1. PICK d, m, fns :
            /\ Redecodes(d, m, Top.start, Top.thumb, Top.data, fns)
            /\ \/ d = dis /\ UNCHANGED history
               \/ /\ d = Stored /\ Walked /\ ~RanIntoPool /\ Accepted
                  /\ history' = With(history, Top.start, Top.thumb)
      BY <2>9, ReturnsFacts
    <3>2. Decoding
      BY <2>9 DEF Returns
    <3>3. /\ PoolsIn(d, BookedPools(d, Top.start, Top.data))
          /\ LoadsIn(d, BookedPools(d, Top.start, Top.data), history')
      <4>1. CASE d = dis /\ UNCHANGED history
        <5>1. Top.start \notin DOMAIN dis.functions
          BY <3>2 DEF Owned, Functions
        <5>2. BookedPools(d, Top.start, Top.data) = pools
          BY <4>1, <5>1 DEF BookedPools
        <5> QED BY <4>1, <5>2 DEF PoolsBooked
      <4>2. CASE d = Stored /\ ~RanIntoPool /\ Accepted /\ history' = With(history, Top.start, Top.thumb)
        BY <3>2, <4>2, StoredPools
      <4> QED BY <3>1, <4>1, <4>2
    <3>4. PoolsIn(dis', pools') /\ LoadsIn(dis', pools', history')
      BY <3>1, <3>3, RedecodesPools
    <3> QED BY <2>1, <2>2, <3>4, PoolsIntro
  <2> QED BY <2>1, <2>5, <2>6, <2>7, <2>8, <2>9 DEF Effects
<1> QED BY <1>1, <1>2

LEMMA InitPools ==
    ASSUME Init
    PROVE  PoolsBooked
<1> DEFINE nothing == <<>>
<1>1. /\ dis = [functions |-> nothing, ins2fn |-> nothing, dataMap |-> {}] /\ pools = nothing
      /\ frames = nothing
  BY DEF Init
<1>2. DOMAIN nothing = {}
  OBVIOUS
<1>3. ~Decoding
  BY <1>1 DEF Decoding
<1> HIDE DEF nothing
<1> QED BY <1>1, <1>2, <1>3 DEF PoolsBooked, PoolsIn, LoadsIn, FrameLoads

(* Where nothing straddles code: what a function that stands loads is data, *)
(* and no instruction of its own lies on it, but for a word that only the   *)
(* second pass over it found when it had decoded it; and what is marked as  *)
(* data is in the pool of a function that stands, but for what a gap        *)
(* function that was undone left behind: through the second pass, the       *)
(* undoing of gap functions, and the clearing of pools of functions to be   *)
(* decoded again.                                                           *)
THEOREM PoolsApartHolds == HistorySpec /\ []NothingStraddles => []PoolsAreApart
<1>1. HistoryInit => PoolsBooked
  BY InitPools DEF HistoryInit
<1>2. Base /\ Base' /\ Owned /\ PoolsBooked /\ Remembered /\ Remembered' /\ [HistoryNext]_allVars
        => PoolsBooked'
  BY PoolsKept, HistorySteps
<1>3. PoolsBooked => PoolsAreApart
  <2> SUFFICES ASSUME PoolsBooked
               PROVE  PoolsAreApart
    OBVIOUS
  <2>1. PoolsIn(dis, pools) /\ LoadsIn(dis, pools, history)
    BY DEF PoolsBooked
  <2>2. LoadedIsNotCode
    BY <2>1 DEF LoadsIn, LoadedIsNotCode, Loaded, Functions
  <2>3. DataIsSomeones
    BY <2>1 DEF PoolsIn, LoadsIn, DataIsSomeones, Loaded, Functions
  <2> QED BY <2>2, <2>3 DEF PoolsAreApart
<1> QED BY <1>1, <1>2, <1>3, SpecBase, SpecOwned, HistoryIsSpec, HistoryRemembered, PTL
       DEF HistorySpec

-----------------------------------------------------------------------------
(* Declared entries.  A walk reaches one other than its own start only      *)
(* behind a conditional branch it has booked: what waits for it is its      *)
(* start, a target that is no entry, or such a fall-through, and running on *)
(* it stops before an entry.                                                *)
CondBefore(thumb, ins, a) ==
    \E b \in ins : At(thumb, b).kind = "cond" /\ b + At(thumb, b).size = a

ReachedIn(f, declared) ==
    /\ \A a \in (f.ins \cup f.seen) \cap declared : a = f.start \/ CondBefore(f.thumb, f.ins, a)
    /\ \A k \in DOMAIN f.queue : f.queue[k] \in f.seen
    /\ f.at # NoAddr /\ f.prev = NoAddr => f.at \in f.seen

EntriesIn(d, h, declared) ==
    \A fn \in DOMAIN d.functions : \A a \in (declared \cap d.functions[fn].ins) \ {fn} :
        CondBefore(h[fn], d.functions[fn].ins, a)

EntriesKnown ==
    /\ EntriesIn(dis, history, fcm.declared)
    /\ Decoding => ReachedIn(Top, fcm.declared)

(* The blocks a frame knows of, and what is added to them.                  *)
SameBlocks(f, g) == g.queue = f.queue /\ g.seen = f.seen

Adds(f, added) ==
    /\ OnTop(f) /\ Top.seen \subseteq f.seen /\ f.seen \subseteq Top.seen \cup added
    /\ \A k \in DOMAIN f.queue : f.queue[k] \in f.seen

LEMMA EndBlockBlocks ==
    ASSUME NEW f
    PROVE  f \in Frame => SameBlocks(f, EndBlock(f))
<1> DEFINE blocks == IF f.current THEN f.blocks + 1 ELSE f.blocks
<1>1. EndBlock(f) = [f EXCEPT !.blocks = blocks, !.current = FALSE, !.at = NoAddr, !.prev = NoAddr]
  BY DEF EndBlock
<1> HIDE DEF blocks
<1> QED BY <1>1 DEF SameBlocks, Frame

LEMMA BookedBlocks ==
    ASSUME NEW f \in Frame, NEW ends \in BOOLEAN
    PROVE  SameBlocks(f, Followed(Booked(f), ends))
<1> DEFINE ins == f.ins \cup {f.at}
           bytes == f.bytes \cup HereBytes
           b == [f EXCEPT !.ins = ins, !.bytes = bytes, !.current = TRUE]
           next == NextAddr(b)
           blocks == IF b.current THEN b.blocks + 1 ELSE b.blocks
<1>1. Booked(f) = b
  BY DEF Booked
<1>2. Followed(b, ends) = IF ends THEN EndBlock(b) ELSE [b EXCEPT !.prev = b.at, !.at = next]
  BY DEF Followed
<1>3. EndBlock(b) = [b EXCEPT !.blocks = blocks, !.current = FALSE, !.at = NoAddr, !.prev = NoAddr]
  BY DEF EndBlock
<1> HIDE DEF ins, bytes, next, blocks
<1>4. b.queue = f.queue /\ b.seen = f.seen /\ DOMAIN b = DOMAIN f
  BY DEF Frame
<1>5. DOMAIN b = {"start", "thumb", "gap", "queue", "seen", "at", "prev", "ins", "bytes", "current",
                  "blocks", "zeros", "sane", "data", "repeated", "reverted", "phase"}
  BY <1>4 DEF Frame
<1> HIDE DEF b
<1>6. SameBlocks(b, EndBlock(b))
  BY <1>3, <1>5 DEF SameBlocks
<1>7. SameBlocks(b, [b EXCEPT !.prev = b.at, !.at = next])
  BY <1>5 DEF SameBlocks
<1> QED BY <1>1, <1>2, <1>4, <1>6, <1>7 DEF SameBlocks

LEMMA SeenAdds ==
    ASSUME Ready, Classifying, ReachedIn(Top, fcm.declared)
    PROVE  Adds(Seen, {}) /\ Adds(Sane(Seen), {}) /\ SameBlocks(Top, Seen)
<1> DEFINE t == Top
           c == Counted(t)
           data == c.data \cup Span(Here.target, 4)
<1>1. t \in Frame /\ OnTop(Seen)
  BY SeenCarries DEF Ready, FrameOf, OnTop
<1>2. c = t \/ c = [t EXCEPT !.zeros = t.zeros + 1]
  BY Zenon DEF Counted
<1>3. Seen = c \/ Seen = [c EXCEPT !.data = data]
  BY Zenon DEF Seen, PoolRead
<1> HIDE DEF t, c, data
<1>4. SameBlocks(t, c) /\ DOMAIN c = DOMAIN t
  BY <1>1, <1>2 DEF SameBlocks, Frame
<1>5. DOMAIN c = {"start", "thumb", "gap", "queue", "seen", "at", "prev", "ins", "bytes", "current",
                  "blocks", "zeros", "sane", "data", "repeated", "reverted", "phase"}
  BY <1>1, <1>4 DEF Frame
<1>6. SameBlocks(c, Seen)
  BY <1>3, <1>5 DEF SameBlocks
<1>7. SameBlocks(t, Seen)
  BY <1>4, <1>6 DEF SameBlocks
<1>8. Seen \in Frame /\ OnTop(Sane(Seen))
  <2>1. 0 \in Int
    OBVIOUS
  <2> QED BY <1>1, <2>1, OnTopStays DEF OnTop, Carries, FrameOf
<1>9. SameBlocks(Seen, Sane(Seen))
  BY <1>8 DEF Sane, SameBlocks, Frame
<1> QED BY <1>1, <1>7, <1>8, <1>9 DEF t, Adds, SameBlocks, ReachedIn

LEMMA SaneAdds ==
    ASSUME NEW f, NEW added, Adds(f, added)
    PROVE  Adds(Sane(f), added)
<1>1. f \in Frame /\ OnTop(Sane(f))
  <2>1. 0 \in Int
    OBVIOUS
  <2> QED BY <2>1, OnTopStays DEF Adds, OnTop, Carries, FrameOf
<1>2. SameBlocks(f, Sane(f))
  BY <1>1 DEF Sane, SameBlocks, Frame
<1> QED BY <1>1, <1>2 DEF Adds, SameBlocks

LEMMA AddBlockAdds ==
    ASSUME NEW f, NEW added, Adds(f, added), NEW addr \in Int
    PROVE  Adds(AddBlock(f, addr), added \cup {addr})
<1> DEFINE queue == Append(f.queue, addr)
           seen == f.seen \cup {addr}
           g == [f EXCEPT !.queue = queue, !.seen = seen]
<1>1. f \in Frame /\ OnTop(AddBlock(f, addr))
  BY OnTopStays DEF Adds, OnTop, Carries, FrameOf
<1>2. AddBlock(f, addr) \in {f, g}
  BY Zenon DEF AddBlock
<1>3. \A k \in DOMAIN queue : queue[k] \in seen
  <2>1. f.queue \in Seq(Int)
    BY <1>1 DEF Frame
  <2>2. /\ DOMAIN queue = 1..(Len(f.queue) + 1) /\ queue[Len(f.queue) + 1] = addr
        /\ \A k \in 1..Len(f.queue) : queue[k] = f.queue[k]
    BY <2>1, AppendProperties
  <2>3. DOMAIN f.queue = 1..Len(f.queue) /\ Len(f.queue) \in Nat
    BY <2>1
  <2> QED BY <2>2, <2>3 DEF Adds
<1> HIDE DEF queue, seen
<1>4. g.queue = queue /\ g.seen = seen
  BY <1>1 DEF Frame
<1> HIDE DEF g
<1>5. CASE AddBlock(f, addr) = f
  BY <1>1, <1>5 DEF Adds
<1>6. CASE AddBlock(f, addr) = g
  BY <1>1, <1>3, <1>4, <1>6 DEF Adds, seen
<1> QED BY <1>2, <1>5, <1>6

(* An instruction is booked, or the block ends before it.                   *)
LEMMA BookReached ==
    ASSUME Ready, Classifying, ~CutHere, EntriesAreNotAbsorbed, BranchesAreBooked,
           ReachedIn(Top, fcm.declared), NEW added, NEW f, Adds(f, added),
           \A a \in added \cap fcm.declared :
              a = Top.start \/ (Here.kind = "cond" /\ a = NextAddr(Top)),
           NEW m, NEW ends \in BOOLEAN, Book(f, m, ends)
    PROVE  \E g \in FrameOf(DOMAIN fcm.candidates) : Update(g) /\ ReachedIn(g, fcm.declared)
<1> DEFINE D == DOMAIN fcm.candidates
           owner == IF Top.gap THEN {} ELSE GapOwner(Top.at)
           fn == CHOOSE x \in owner : TRUE
           r == [f EXCEPT !.reverted = Append(f.reverted, fn)]
           h == Followed(Booked(r), ends)
           g == Followed(Booked(f), ends)
           e == EndBlock(f)
           known == IsCode(Top.at) \/ Top.at \in dis.dataMap \cup Top.bytes
<1>0. /\ AtInstruction /\ f \in FrameOf(D) /\ f \in Frame /\ img \in Images /\ Top \in FrameOf(D)
      /\ f.at = Top.at /\ f.start = Top.start /\ f.thumb = Top.thumb /\ f.ins = Top.ins
  BY DEF Classifying, Adds, OnTop, Carries, FrameOf, Ready
<1>1. \/ IsCode(Top.at) /\ owner # {} /\ Update(h)
      \/ known /\ Update(e)
      \/ ~known /\ Update(g)
  BY Zenon DEF Book
<1>2. NextAddr(Top) = Top.at + Here.size /\ Here = At(Top.thumb, Top.at) /\ Top.at # NoAddr
  BY <1>0, HereFacts DEF Here, InsAt, AtInstruction
<1>3. \A a \in (Top.ins \cup Top.seen) \cap fcm.declared :
         a = Top.start \/ CondBefore(Top.thumb, Top.ins, a)
  BY DEF ReachedIn
<1>4. f.seen \subseteq Top.seen \cup added /\ Top.seen \subseteq f.seen
      /\ \A k \in DOMAIN f.queue : f.queue[k] \in f.seen
  BY DEF Adds
<1>5. ASSUME NEW ins, Top.ins \subseteq ins, NEW a
      PROVE  CondBefore(Top.thumb, Top.ins, a) => CondBefore(Top.thumb, ins, a)
  BY <1>5 DEF CondBefore
<1>6. ASSUME NEW ins, Top.ins \subseteq ins, Here.kind = "cond" => Top.at \in ins \/ NextAddr(Top) \notin fcm.declared,
             NEW a \in f.seen \cap fcm.declared
      PROVE  a = Top.start \/ CondBefore(Top.thumb, ins, a)
  <2>1. CASE a \in Top.seen
    BY <1>3, <1>5, <1>6, <2>1
  <2>2. CASE a \in added /\ a # Top.start
    <3>1. Here.kind = "cond" /\ a = NextAddr(Top)
      BY <2>2
    <3>2. Top.at \in ins
      BY <1>6, <3>1
    <3> QED BY <1>2, <3>1, <3>2 DEF CondBefore
  <2> QED BY <1>4, <1>6, <2>1, <2>2
<1>7. CASE known /\ Update(e)
  <2>1. /\ e \in FrameOf(D) /\ e.start = Top.start /\ e.thumb = Top.thumb /\ e.ins = Top.ins
        /\ e.at = NoAddr /\ SameBlocks(f, e)
    BY <1>0, EndBlockCarries, EndBlockBlocks DEF Carries
  <2>2. Here.kind = "cond" => Top.at \in Top.ins \/ NextAddr(Top) \notin fcm.declared
    BY <1>7 DEF BranchesAreBooked
  <2> HIDE DEF e
  <2>3. \A a \in (e.ins \cup e.seen) \cap fcm.declared : a = e.start \/ CondBefore(e.thumb, e.ins, a)
    BY <1>3, <1>6, <2>1, <2>2 DEF SameBlocks
  <2>4. ReachedIn(e, fcm.declared)
    BY <1>4, <2>1, <2>3 DEF ReachedIn, SameBlocks
  <2> QED BY <1>7, <2>1, <2>4 DEF e
<1>8. ASSUME NEW s \in FrameOf(D), s.start = Top.start, s.thumb = Top.thumb, SameBlocks(f, s),
             s.ins = Top.ins \cup {Top.at}, s.prev = Top.at \/ s.at = NoAddr,
             Top.at \in fcm.declared => Top.at = Top.start \/ CondBefore(Top.thumb, Top.ins, Top.at)
      PROVE  ReachedIn(s, fcm.declared)
  <2>1. Top.ins \subseteq s.ins /\ Top.at \in s.ins
    BY <1>8
  <2>2. \A a \in f.seen \cap fcm.declared : a = Top.start \/ CondBefore(Top.thumb, s.ins, a)
    BY <1>6, <2>1
  <2>3. \A a \in s.ins \cap fcm.declared : a = Top.start \/ CondBefore(Top.thumb, s.ins, a)
    BY <1>3, <1>5, <1>8, <2>1
  <2> QED BY <1>2, <1>4, <1>8, <2>2, <2>3 DEF ReachedIn, SameBlocks
<1>9. CASE ~known /\ Update(g)
  <2>1. /\ g \in FrameOf(D) /\ g.start = Top.start /\ g.thumb = Top.thumb /\ SameBlocks(f, g)
        /\ g.ins = Top.ins \cup {Top.at}
        /\ g.prev = Top.at \/ g.at = NoAddr
    BY <1>0, BookedFacts, BookedBlocks
  <2>2. ASSUME Top.at \in fcm.declared, Top.at # Top.start
        PROVE  CondBefore(Top.thumb, Top.ins, Top.at)
    <3>1. Top.prev = NoAddr
      BY <1>9, <2>2 DEF CutHere, RunsIntoDeclaredStart
    <3>2. Top.at \in Top.seen
      BY <1>2, <3>1 DEF ReachedIn
    <3> QED BY <1>3, <2>2, <3>2
  <2> HIDE DEF g
  <2>3. ReachedIn(g, fcm.declared)
    BY <1>8, <2>1, <2>2
  <2> QED BY <1>9, <2>1, <2>3 DEF g
<1>10. CASE IsCode(Top.at) /\ owner # {} /\ Update(h)
  <2>1. ~Top.gap /\ owner = GapOwner(Top.at)
    BY <1>10
  <2>2. Top.at \notin fcm.declared
    BY <1>10, <2>1 DEF EntriesAreNotAbsorbed
  <2>3. PICK o \in Functions : owner = {o} /\ o \in D
    BY <1>10, <2>1, GapOwnerFacts
  <2>4. fn = o
    BY <2>3
  <2> HIDE DEF fn, owner
  <2>5. /\ r \in FrameOf(D) /\ r \in Frame /\ r.at = f.at /\ r.thumb = f.thumb
        /\ r.start = f.start /\ r.ins = f.ins /\ SameBlocks(f, r)
    <3> DEFINE reverted == Append(f.reverted, fn)
    <3>1. reverted \in Seq(D) /\ reverted \in Seq(Int) /\ reverted # <<>>
      <4>1. fn \in D /\ fn \in Int
        BY <2>3, <2>4, CandidateFacts DEF Ready
      <4>2. f.reverted \in Seq(D) /\ f.reverted \in Seq(Int)
        BY <1>0 DEF FrameOf, Frame
      <4>3. reverted \in Seq(D) /\ reverted # <<>>
        BY <4>1, <4>2, Appended
      <4>4. reverted \in Seq(Int)
        BY <4>1, <4>2, Appended
      <4> QED BY <4>3, <4>4
    <3> HIDE DEF reverted
    <3>2. r = [f EXCEPT !.reverted = reverted]
      BY DEF reverted
    <3> HIDE DEF r
    <3>3. /\ r \in Frame /\ r.at = f.at /\ r.thumb = f.thumb /\ r.phase = f.phase
          /\ r.start = f.start /\ r.ins = f.ins /\ r.bytes = f.bytes /\ SameBlocks(f, r)
          /\ r.reverted = reverted
      BY <1>0, <3>1, <3>2 DEF Frame, SameBlocks
    <3> QED BY <1>0, <3>1, <3>3 DEF FrameOf
  <2> HIDE DEF r
  <2>6. /\ h \in FrameOf(D) /\ h.start = Top.start /\ h.thumb = Top.thumb /\ SameBlocks(r, h)
        /\ h.ins = Top.ins \cup {Top.at}
        /\ h.prev = Top.at \/ h.at = NoAddr
    BY <1>0, <2>5, BookedFacts, BookedBlocks
  <2> HIDE DEF h
  <2>7. SameBlocks(f, h)
    BY <2>5, <2>6 DEF SameBlocks
  <2>8. ReachedIn(h, fcm.declared)
    BY <1>8, <2>2, <2>6, <2>7
  <2> QED BY <1>10, <2>6, <2>8 DEF h
<1> QED BY <1>1, <1>7, <1>9, <1>10

LEMMA PathReached ==
    ASSUME Ready, ChooseBlock \/ LeaveBlock \/ CutAtTable \/ CutBlock, ReachedIn(Top, fcm.declared)
    PROVE  \E g \in FrameOf(DOMAIN fcm.candidates) : Update(g) /\ ReachedIn(g, fcm.declared)
<1> DEFINE D == DOMAIN fcm.candidates
           t == Top
<1>0. t \in FrameOf(D) /\ t \in Frame /\ ReachedIn(t, fcm.declared)
  BY DEF Ready, FrameOf
<1>1. ASSUME NEW g \in FrameOf(D), g.start = t.start, g.thumb = t.thumb, g.ins = t.ins, SameBlocks(t, g),
             g.at = NoAddr
      PROVE  ReachedIn(g, fcm.declared)
  BY <1>0, <1>1 DEF ReachedIn, SameBlocks
<1>2. CASE ChooseBlock
  <2> DEFINE next == Last(t.queue)
             rest == Front(t.queue)
             g == [t EXCEPT !.at = next, !.queue = rest]
  <2>1. t.queue # <<>> /\ Update(g)
    BY <1>2 DEF ChooseBlock
  <2>2. next \in Int /\ rest \in Seq(Int) /\ t.queue \in Seq(Int)
    BY <1>0, <2>1, FrameParts, LastAndFront
  <2>3. next \in t.seen /\ \A k \in DOMAIN rest : rest[k] \in t.seen
    <3>1. /\ Len(rest) = Len(t.queue) - 1 /\ Len(t.queue) >= 1
          /\ \A k \in 1..Len(rest) : rest[k] = t.queue[k]
      <4> DEFINE q == t.queue
      <4>1. q \in Seq(Int) /\ q # <<>> /\ rest = Front(q)
        BY <2>1, <2>2
      <4> HIDE DEF q, rest
      <4>2. Len(rest) = Len(q) - 1 /\ Len(q) >= 1 /\ \A k \in 1..Len(rest) : rest[k] = q[k]
        BY <4>1, PopTop
      <4> QED BY <4>2 DEF q
    <3>2. DOMAIN t.queue = 1..Len(t.queue) /\ DOMAIN rest = 1..Len(rest) /\ next = t.queue[Len(t.queue)]
      BY <2>2 DEF Last
    <3> HIDE DEF rest, next, t
    <3>3. Len(t.queue) \in DOMAIN t.queue /\ \A k \in DOMAIN rest : k \in DOMAIN t.queue
      BY <2>2, <3>1, <3>2
    <3> QED BY <1>0, <3>1, <3>2, <3>3 DEF ReachedIn
  <2> HIDE DEF next, rest, t
  <2>4. /\ g \in Frame /\ g.start = t.start /\ g.thumb = t.thumb /\ g.ins = t.ins /\ g.seen = t.seen
        /\ g.bytes = t.bytes /\ g.reverted = t.reverted /\ g.phase = t.phase
        /\ g.at = next /\ g.queue = rest
    BY <1>0, <2>2 DEF Frame
  <2> HIDE DEF g
  <2>5. g \in FrameOf(D) /\ ReachedIn(g, fcm.declared)
    BY <1>0, <2>3, <2>4 DEF FrameOf, ReachedIn
  <2> QED BY <2>1, <2>5
<1>3. CASE LeaveBlock
  <2> DEFINE g == [t EXCEPT !.at = NoAddr, !.prev = NoAddr]
  <2>1. Update(g)
    BY <1>3 DEF LeaveBlock
  <2>2. NoAddr \in Int
    BY DEF NoAddr
  <2> HIDE DEF t
  <2>3. /\ g \in FrameOf(D) /\ g.start = t.start /\ g.thumb = t.thumb /\ g.ins = t.ins
        /\ SameBlocks(t, g) /\ g.at = NoAddr
    BY <1>0, <2>2 DEF FrameOf, Frame, SameBlocks
  <2> HIDE DEF g
  <2> QED BY <1>1, <2>1, <2>3
<1>4. ASSUME NEW f \in FrameOf(D), f.start = t.start, f.thumb = t.thumb, f.ins = t.ins, SameBlocks(t, f)
      PROVE  Cut(f) \in FrameOf(D) /\ ReachedIn(Cut(f), fcm.declared)
  <2> DEFINE e == EndBlock(f)
             s == Sane(e)
  <2>1. Carries(D, f, e) /\ e \in FrameOf(D) /\ e.at = NoAddr /\ SameBlocks(f, e)
    BY <1>4, EndBlockCarries, EndBlockBlocks DEF Carries, FrameOf
  <2> HIDE DEF e
  <2>2. Carries(D, e, s) /\ s.at = e.at /\ SameBlocks(e, s)
    BY <2>1, SaneCarries DEF FrameOf, Frame, Sane, SameBlocks
  <2>3. Cut(f) = s
    BY DEF Cut, e
  <2> HIDE DEF s
  <2>4. /\ s \in FrameOf(D) /\ s.start = t.start /\ s.thumb = t.thumb /\ s.ins = t.ins
        /\ SameBlocks(t, s) /\ s.at = NoAddr
    BY <1>4, <2>1, <2>2 DEF Carries, SameBlocks
  <2> QED BY <1>1, <2>3, <2>4
<1>5. CASE CutAtTable
  <2>1. Update(Cut(Top))
    BY <1>5 DEF CutAtTable
  <2>2. SameBlocks(t, t)
    BY DEF SameBlocks
  <2> QED BY <1>0, <1>4, <2>1, <2>2
<1>6. CASE CutBlock
  <2>1. Classifying /\ Update(Cut(Seen))
    BY <1>6 DEF CutBlock
  <2>2. SameBlocks(t, Seen) /\ Carries(D, t, Seen)
    BY <2>1, SeenAdds, SeenCarries DEF Ready
  <2> QED BY <1>4, <2>1, <2>2 DEF Carries
<1> QED BY <1>2, <1>3, <1>5, <1>6

LEMMA BookInsReached ==
    ASSUME Ready, BookIns, EntriesAreNotAbsorbed, BranchesAreBooked, ReachedIn(Top, fcm.declared)
    PROVE  \E g \in FrameOf(DOMAIN fcm.candidates) : Update(g) /\ ReachedIn(g, fcm.declared)
<1>1. ASSUME NEW kinds, Classify(kinds)
      PROVE  /\ Classifying /\ ~CutHere /\ Here.kind \in kinds
             /\ Adds(Seen, {}) /\ Adds(Sane(Seen), {})
             /\ Here.target \in Int /\ NextAddr(Top) \in Int
             /\ fcm.declared \subseteq Noted.strong
  <2>1. Classifying /\ ~CutHere /\ Here.kind \in kinds
    BY <1>1 DEF Classify
  <2>2. Follows(fcm, Noted) /\ Here.target \in Int /\ NextAddr(Top) \in Int
    BY <1>1, ClassifyFacts
  <2>3. fcm.declared \subseteq Noted.strong
    BY <2>2 DEF Follows, Grows, Ready, ManagerOk
  <2> QED BY <2>1, <2>2, <2>3, SeenAdds
<1>2. ASSUME NEW kinds, Classify(kinds), NEW f, Adds(f, {}), NEW m, NEW ends \in BOOLEAN, Book(f, m, ends)
      PROVE  \E g \in FrameOf(DOMAIN fcm.candidates) : Update(g) /\ ReachedIn(g, fcm.declared)
  <2> DEFINE none == {}
  <2>1. Classifying /\ ~CutHere
    BY <1>1, <1>2
  <2>2. Adds(f, none) /\ \A a \in none \cap fcm.declared : FALSE
    BY <1>2
  <2> HIDE DEF none
  <2> QED BY <1>2, <2>1, <2>2, BookReached
<1>3. CASE BookPlain
  <2> DEFINE kinds == {"op", "zero", "nop", "push", "unlink", "lit"}
  <2>1. Classify(kinds) /\ Book(Seen, Noted, FALSE)
    BY <1>3 DEF BookPlain
  <2> HIDE DEF kinds
  <2> QED BY <1>1, <1>2, <2>1
<1>4. CASE BookEnd
  <2> DEFINE kinds == {"ret", "trap"}
  <2>1. Classify(kinds) /\ Book(Sane(Seen), Noted, TRUE)
    BY <1>4 DEF BookEnd
  <2> HIDE DEF kinds
  <2> QED BY <1>1, <1>2, <2>1
<1>5. CASE BookBranchOut
  <2> DEFINE kinds == {"jmp", "cond"}
             f == IF Here.kind = "cond" THEN AddBlock(Seen, NextAddr(Top)) ELSE Seen
             added == {} \cup {NextAddr(Top)}
  <2>1. Classify(kinds) /\ Book(f, Noted, TRUE)
    BY <1>5 DEF BookBranchOut
  <2> HIDE DEF kinds
  <2>2. Classifying /\ ~CutHere /\ Adds(Seen, {}) /\ NextAddr(Top) \in Int
    BY <1>1, <2>1
  <2>3. CASE Here.kind = "cond"
    <3>1. Adds(AddBlock(Seen, NextAddr(Top)), added)
      BY <2>2, AddBlockAdds
    <3>2. \A a \in added : a = NextAddr(Top)
      OBVIOUS
    <3>3. f = AddBlock(Seen, NextAddr(Top))
      BY <2>3
    <3> HIDE DEF f, added
    <3> QED BY <2>1, <2>2, <2>3, <3>1, <3>2, <3>3, BookReached
  <2>4. CASE Here.kind # "cond"
    <3>1. f = Seen
      BY <2>4
    <3> HIDE DEF f
    <3> QED BY <1>2, <2>1, <2>2, <3>1
  <2> QED BY <2>3, <2>4
<1>6. CASE BookJump
  <2> DEFINE kinds == {"jmp"}
             target == Here.target
             added == {} \cup {target}
  <2>1. /\ Classify(kinds)
        /\ \/ \E m : Book(Sane(Seen), m, TRUE)
           \/ target \notin Noted.strong /\ Book(AddBlock(Seen, target), Noted, TRUE)
    BY <1>6, Zenon DEF BookJump
  <2> HIDE DEF kinds
  <2>2. /\ Classifying /\ ~CutHere /\ Adds(Seen, {}) /\ Adds(Sane(Seen), {}) /\ target \in Int
        /\ fcm.declared \subseteq Noted.strong
    BY <1>1, <2>1
  <2> HIDE DEF target
  <2>3. CASE \E m : Book(Sane(Seen), m, TRUE)
    BY <1>2, <2>1, <2>2, <2>3
  <2>4. CASE target \notin Noted.strong /\ Book(AddBlock(Seen, target), Noted, TRUE)
    <3>1. Adds(AddBlock(Seen, target), added)
      BY <2>2, AddBlockAdds
    <3>2. \A a \in added \cap fcm.declared : FALSE
      BY <2>2, <2>4
    <3> HIDE DEF added
    <3> QED BY <2>2, <2>4, <3>1, <3>2, BookReached
  <2> QED BY <2>1, <2>3, <2>4
<1>7. CASE BookCond
  <2> DEFINE kinds == {"cond"}
             target == Here.target
             next == NextAddr(Top)
             queued == AddBlock(Seen, next)
             one == {} \cup {next}
             two == one \cup {target}
  <2>1. /\ Classify(kinds)
        /\ \/ \E m : Book(Sane(queued), m, TRUE)
           \/ (target = Top.start \/ target \notin fcm.declared) /\ Book(AddBlock(queued, target), Noted, TRUE)
    BY <1>7, Zenon DEF BookCond
  <2>2. Here.kind = "cond"
    BY <1>1, <2>1
  <2> HIDE DEF kinds
  <2>3. Classifying /\ ~CutHere /\ Adds(Seen, {}) /\ target \in Int /\ next \in Int
    BY <1>1, <2>1
  <2> HIDE DEF target, next
  <2>4. Adds(queued, one)
    BY <2>3, AddBlockAdds
  <2> HIDE DEF queued
  <2>5. \A a \in one : a = next
    OBVIOUS
  <2>6. \A a \in two : a = next \/ a = target
    OBVIOUS
  <2> HIDE DEF one
  <2>7. Adds(Sane(queued), one) /\ Adds(AddBlock(queued, target), two)
    BY <2>3, <2>4, SaneAdds, AddBlockAdds
  <2> HIDE DEF two
  <2>8. CASE \E m : Book(Sane(queued), m, TRUE)
    BY <2>2, <2>3, <2>5, <2>7, <2>8, BookReached DEF next
  <2>9. CASE (target = Top.start \/ target \notin fcm.declared) /\ Book(AddBlock(queued, target), Noted, TRUE)
    <3>1. \A a \in two \cap fcm.declared : a = Top.start \/ (Here.kind = "cond" /\ a = NextAddr(Top))
      BY <2>2, <2>6, <2>9 DEF next
    <3> QED BY <2>3, <2>7, <2>9, <3>1, BookReached
  <2> QED BY <2>1, <2>8, <2>9
<1>8. CASE BookCallIns
  <2> DEFINE kinds == {"call", "callx"}
             ends == DataBehind(Seen)
             f == IF ends THEN Sane(Seen) ELSE Seen
  <2>1. Classify(kinds) /\ \E m : Book(f, m, ends)
    BY <1>8, Zenon DEF BookCallIns
  <2> HIDE DEF kinds
  <2>2. Adds(f, {})
    BY <1>1, <2>1
  <2>3. ends \in BOOLEAN
    BY Zenon DEF DataBehind
  <2> HIDE DEF f, ends
  <2> QED BY <1>2, <2>1, <2>2, <2>3
<1> QED BY <1>3, <1>4, <1>5, <1>6, <1>7, <1>8 DEF BookIns

(* What is declared is known before anything is analysed.                   *)
LEMMA DeclaredStays ==
    ASSUME Base, Effects, ~Discovers
    PROVE  fcm'.declared = fcm.declared
<1>0. ManagerOk(fcm)
  BY DEF Base
<1>1. \A m, n, a : HadItsTurn(m, n, a) => n.declared = m.declared
  BY DEF HadItsTurn, Like
<1>2. \A m, n : Follows(m, n) => n.declared = m.declared
  BY DEF Follows, Grows
<1>3. \A a : HadItsTurn(fcm, Aborted(fcm, a), a)
  BY <1>0, AbortedFacts
<1>4. \A c : Dequeued(c).declared = fcm.declared
  BY <1>0, DequeuedFacts
<1>5. \A d, m, start, thumb, data, fns : Redecodes(d, m, start, thumb, data, fns) => fcm'.declared = m.declared
  BY DEF Redecodes, Requeues
<1>6. CASE Rests
  BY <1>1, <1>3, <1>4, <1>6 DEF Rests
<1>7. CASE Refuses
  <2>1. PICK c, m, thumb, fns :
          c \in fcm.queue /\ HadItsTurn(Dequeued(c), m, c) /\ Redecodes(dis, m, c, thumb, {}, fns)
    BY <1>7, RefusesFacts
  <2> DEFINE n == Dequeued(c)
             none == {}
  <2>2. HadItsTurn(n, m, c) /\ Redecodes(dis, m, c, thumb, none, fns) /\ n.declared = fcm.declared
    BY <1>4, <2>1
  <2> HIDE DEF n, none
  <2> QED BY <1>1, <1>5, <2>2
<1>8. CASE Begins
  BY <1>4, <1>8 DEF Begins, Grows
<1>9. CASE WalkStep
  <2>1. CASE Follows(fcm, fcm')
    BY <1>2, <2>1
  <2>2. CASE \E m, fn : Follows(fcm, m) /\ fcm' = Aborted(m, fn)
    <3>1. PICK m, fn : Follows(fcm, m) /\ fcm' = Aborted(m, fn)
      BY <2>2
    <3>2. ManagerOk(m) /\ m.declared = fcm.declared
      BY <3>1 DEF Follows, Grows
    <3>3. HadItsTurn(m, fcm', fn)
      BY <3>1, <3>2, AbortedFacts
    <3> QED BY <1>1, <3>2, <3>3
  <2> QED BY <1>9, <2>1, <2>2 DEF WalkStep, Passing, Booking, Undoing
<1>10. CASE CallsOn
  BY <1>10 DEF CallsOn, Like
<1>11. CASE Resumes
  BY <1>1, <1>3, <1>11 DEF Resumes
<1>12. CASE Returns
  <2>1. PICK d, m, fns :
          HadItsTurn(fcm, m, Top.start) /\ Redecodes(d, m, Top.start, Top.thumb, Top.data, fns)
    BY <1>12, ReturnsFacts
  <2> QED BY <1>1, <1>5, <2>1
<1>13. CASE Completes
  <2> DEFINE none == {}
  <2>1. PICK fns : Redecodes(dis, fcm, Top.start, Top.thumb, none, fns)
    BY <1>13, CompletesFacts
  <2> HIDE DEF none
  <2> QED BY <1>5, <2>1
<1> QED BY <1>6, <1>7, <1>8, <1>9, <1>10, <1>11, <1>12, <1>13 DEF Effects

LEMMA EntriesIntro ==
    ASSUME UNCHANGED img, EntriesIn(dis', history', fcm'.declared),
           Decoding' => ReachedIn(Top', fcm'.declared)
    PROVE  EntriesKnown'
<1>1. \A thumb, a : At(thumb, a)' = At(thumb, a)
  BY DEF At
<1>2. \A thumb, ins, a : CondBefore(thumb, ins, a)' = CondBefore(thumb, ins, a)
  BY <1>1 DEF CondBefore
<1>3. EntriesIn(dis, history, fcm.declared)'
  BY <1>2 DEF EntriesIn
<1>4. Decoding' => ReachedIn(Top, fcm.declared)'
  BY <1>2 DEF ReachedIn
<1> QED BY <1>3, <1>4 DEF EntriesKnown

LEMMA NewReached ==
    ASSUME NEW f, NEW declared, f.ins = {}, f.at = NoAddr, f.seen = {f.start}, f.queue = <<f.start>>
    PROVE  ReachedIn(f, declared)
BY DEF ReachedIn

LEMMA FewerEntries ==
    ASSUME NEW d, NEW h, NEW declared, EntriesIn(d, h, declared), NEW e,
           DOMAIN e.functions \subseteq DOMAIN d.functions,
           \A fn \in DOMAIN e.functions : e.functions[fn] = d.functions[fn]
    PROVE  EntriesIn(e, h, declared)
BY DEF EntriesIn

LEMMA RedecodesEntries ==
    ASSUME NEW d, NEW m, NEW start, NEW thumb, NEW data, NEW fns,
           Redecodes(d, m, start, thumb, data, fns), NEW h, NEW declared, EntriesIn(d, h, declared)
    PROVE  EntriesIn(dis', h, declared)
<1> DEFINE functions == Without(d.functions, fns)
           code == Without(d.ins2fn, BytesOf(d, fns))
           map == d.dataMap \ OnlyPools(BookedPools(d, start, data), fns)
<1>1. dis' = [functions |-> functions, ins2fn |-> code, dataMap |-> map]
  BY DEF Redecodes
<1>2. /\ DOMAIN functions \subseteq DOMAIN d.functions
      /\ \A fn \in DOMAIN functions : functions[fn] = d.functions[fn]
  BY Zenon DEF Without
<1> HIDE DEF functions, code, map
<1>3. dis'.functions = functions
  BY <1>1
<1> QED BY <1>2, <1>3, FewerEntries

LEMMA StoredEntries ==
    ASSUME Base, Owned, EntriesKnown, Decoding, Accepted, history' = With(history, Top.start, Top.thumb)
    PROVE  EntriesIn(Stored, history', fcm.declared)
<1>1. DisOk(dis) /\ Top \in FrameOf(DOMAIN fcm.candidates) /\ Functions \subseteq DOMAIN history
  BY ReadyTop DEF Decoding, Base, Records, Ready
<1> DEFINE s == Stored
<1>2. /\ DOMAIN s.functions = Functions \cup {Top.start}
      /\ s.functions[Top.start].ins = Top.ins
      /\ \A fn \in Functions \ {Top.start} : s.functions[fn] = dis.functions[fn]
  BY <1>1, StoredFacts
<1>3. /\ history'[Top.start] = Top.thumb
      /\ \A fn \in DOMAIN history \ {Top.start} : history'[fn] = history[fn]
  BY DEF With
<1> HIDE DEF s
<1>4. ASSUME NEW fn \in DOMAIN s.functions, NEW a \in (fcm.declared \cap s.functions[fn].ins) \ {fn}
      PROVE  CondBefore(history'[fn], s.functions[fn].ins, a)
  <2>1. CASE fn = Top.start
    BY <1>2, <1>3, <1>4, <2>1 DEF EntriesKnown, ReachedIn
  <2>2. CASE fn # Top.start
    <3>1. fn \in Functions /\ s.functions[fn] = dis.functions[fn] /\ history'[fn] = history[fn]
      BY <1>1, <1>2, <1>3, <2>2
    <3>2. CondBefore(history[fn], dis.functions[fn].ins, a)
      BY <1>4, <3>1 DEF EntriesKnown, EntriesIn, Functions
    <3> QED BY <3>1, <3>2
  <2> QED BY <2>1, <2>2
<1> QED BY <1>4 DEF EntriesIn, s

LEMMA EntriesKept ==
    ASSUME Base, Base', Owned, EntriesKnown, EntriesAreNotAbsorbed, BranchesAreBooked, [Next]_vars
    PROVE  EntriesKnown'
<1> DEFINE declared == fcm.declared
<1>0. EntriesIn(dis, history, declared)
  BY DEF EntriesKnown
<1>1. CASE UNCHANGED vars
  <2>1. UNCHANGED <<img, dis, history, fcm, frames>>
    BY <1>1 DEF vars
  <2>2. Decoding' => ReachedIn(Top', fcm'.declared)
    BY <2>1 DEF Decoding, Top, EntriesKnown
  <2>3. EntriesIn(dis', history', fcm'.declared)
    BY <1>0, <2>1
  <2> QED BY <2>1, <2>2, <2>3, EntriesIntro
<1>2. CASE Discovers
  <2>1. /\ UNCHANGED <<img, dis, frames>> /\ DOMAIN dis.functions = {} /\ frames = <<>>
    BY <1>2 DEF Discovers, results, Base, Discovering, Functions
  <2>2. EntriesIn(dis', history', fcm'.declared)
    BY <2>1 DEF EntriesIn
  <2>3. ~Decoding'
    BY <2>1 DEF Decoding
  <2> QED BY <2>1, <2>2, <2>3, EntriesIntro
<1>3. CASE Effects /\ ~Discovers
  <2>0. fcm'.declared = declared
    BY <1>3, DeclaredStays
  <2> HIDE DEF declared
  <2>1. ASSUME UNCHANGED <<img, dis, history>>, Decoding' => ReachedIn(Top', declared)
        PROVE  EntriesKnown'
    BY <1>0, <2>0, <2>1, EntriesIntro
  <2>2. ASSUME UNCHANGED img, EntriesIn(dis', history', declared), ~Decoding'
        PROVE  EntriesKnown'
    BY <2>0, <2>2, EntriesIntro
  <2>3. CASE Rests
    <3>1. ~Decoding'
      BY <2>3 DEF Rests, Idle, Decoding
    <3> QED BY <2>1, <2>3, <3>1 DEF Rests, results
  <2>4. CASE Refuses
    <3>1. PICK c, m, thumb, fns : c \in fcm.queue /\ Redecodes(dis, m, c, thumb, {}, fns)
      BY <2>4, RefusesFacts
    <3> DEFINE none == {}
    <3>2. Redecodes(dis, m, c, thumb, none, fns)
      BY <3>1
    <3> HIDE DEF none
    <3>3. EntriesIn(dis', history, declared)
      BY <1>0, <3>2, RedecodesEntries
    <3>4. UNCHANGED <<img, history>> /\ ~Decoding'
      BY <2>4 DEF Refuses, Idle, Decoding
    <3> QED BY <2>2, <3>3, <3>4
  <2>5. CASE Begins
    <3>1. PICK f : Begun(f) /\ frames' = <<f>>
      BY <2>5 DEF Begins
    <3>2. Top' = f /\ ReachedIn(f, declared)
      BY <3>1, BeginTop, NewReached DEF Begun
    <3> QED BY <2>1, <2>5, <3>2 DEF Begins, results
  <2>6. CASE Walks /\ WalkStep
    <3>1. PICK g : Update(g) /\ (Passing(g) \/ Booking(g) \/ Undoing(g))
      BY <2>6 DEF WalkStep
    <3>2. Decoding /\ frames # <<>> /\ UNCHANGED <<img, history>> /\ Ready
      BY <2>6, ReadyTop DEF WalkStep, Decoding
    <3>3. ReachedIn(Top, declared)
      BY <3>2 DEF EntriesKnown, declared
    <3>4. PICK h \in FrameOf(DOMAIN fcm.candidates) : Update(h) /\ ReachedIn(h, declared)
      BY <2>6, <3>2, <3>3, PathReached, BookInsReached DEF Walks, declared
    <3>5. Top' = h
      BY <3>2, <3>4, UpdateTop
    <3>6. CASE Passing(g) \/ Booking(g)
      BY <2>1, <3>2, <3>4, <3>5, <3>6 DEF Passing, Booking
    <3>7. CASE Undoing(g)
      <4>1. PICK fn \in Functions : dis' = Ungapped(dis, {fn})
        BY <3>7 DEF Undoing
      <4>2. DisOk(dis)
        BY DEF Base, Records
      <4>3. dis'.functions = Without(dis.functions, {fn})
        BY <4>1, <4>2, UngappedFacts
      <4>4. /\ DOMAIN dis'.functions \subseteq DOMAIN dis.functions
            /\ \A x \in DOMAIN dis'.functions : dis'.functions[x] = dis.functions[x]
        BY <4>3 DEF Without
      <4>5. EntriesIn(dis', history, declared)
        BY <1>0, <4>4, FewerEntries
      <4> QED BY <2>0, <3>2, <3>4, <3>5, <4>5, EntriesIntro
    <3> QED BY <3>1, <3>6, <3>7
  <2>7. CASE CallsOn
    <3>1. PICK f, g : Call(f, g) /\ Called(g) /\ f \in FrameOf(DOMAIN fcm.candidates)
      BY <2>7 DEF CallsOn
    <3>2. frames # <<>> /\ g \in FrameOf(DOMAIN fcm.candidates)
      BY <2>7, <3>1 DEF CallsOn, Called
    <3>3. Top' = g /\ ReachedIn(g, declared)
      BY <3>1, <3>2, CallTop, NewReached DEF Called
    <3> QED BY <2>1, <2>7, <3>3 DEF CallsOn, results
  <2>8. CASE Resumes
    <3>1. PICK f : Update(f) /\ f \in FrameOf(DOMAIN fcm.candidates) /\ f.phase # "decode"
      BY <2>8 DEF Resumes
    <3>2. Top' = f
      BY <2>8, <3>1, UpdateTop DEF Resumes
    <3>3. ~Decoding'
      BY <3>1, <3>2 DEF Decoding
    <3> QED BY <2>1, <2>8, <3>3 DEF Resumes, results
  <2>9. CASE Returns
    <3>1. PICK d, m, fns :
            /\ Redecodes(d, m, Top.start, Top.thumb, Top.data, fns)
            /\ \/ d = dis /\ UNCHANGED history
               \/ d = Stored /\ Accepted /\ history' = With(history, Top.start, Top.thumb)
      BY <2>9, ReturnsFacts
    <3>2. Decoding /\ frames # <<>> /\ frames' = Front(frames) /\ UNCHANGED img
      BY <2>9 DEF Returns, Decoding
    <3>3. EntriesIn(d, history', declared)
      <4>1. CASE d = dis /\ UNCHANGED history
        BY <1>0, <4>1
      <4>2. CASE d = Stored /\ Accepted /\ history' = With(history, Top.start, Top.thumb)
        BY <3>2, <4>2, StoredEntries DEF declared
      <4> QED BY <3>1, <4>1, <4>2
    <3>4. EntriesIn(dis', history', declared)
      <4>1. PICK h : h = history'
        OBVIOUS
      <4>2. EntriesIn(dis', h, declared)
        BY <3>1, <3>3, <4>1, RedecodesEntries
      <4> QED BY <4>1, <4>2
    <3>5. ~Decoding'
      BY <3>2, PoppedIdles
    <3> QED BY <2>2, <3>2, <3>4, <3>5
  <2>10. CASE Completes
    <3> DEFINE none == {}
    <3>1. PICK fns : Redecodes(dis, fcm, Top.start, Top.thumb, none, fns)
      BY <2>10, CompletesFacts
    <3> HIDE DEF none
    <3>2. EntriesIn(dis', history, declared)
      BY <1>0, <3>1, RedecodesEntries
    <3>3. UNCHANGED <<img, history>> /\ ~Decoding'
      BY <2>10, PoppedIdles DEF Completes, Restoring
    <3> QED BY <2>2, <3>2, <3>3
  <2> QED BY <1>3, <2>3, <2>4, <2>5, <2>6, <2>7, <2>8, <2>9, <2>10 DEF Effects
<1> QED BY <1>1, <1>2, <1>3, NextEffects

LEMMA InitEntries ==
    ASSUME Init
    PROVE  EntriesKnown
<1> DEFINE nothing == <<>>
<1>1. dis = [functions |-> nothing, ins2fn |-> nothing, dataMap |-> {}] /\ ~Decoding
  BY DEF Init, Decoding
<1>2. DOMAIN nothing = {}
  OBVIOUS
<1> HIDE DEF nothing
<1> QED BY <1>1, <1>2 DEF EntriesKnown, EntriesIn

(* No two functions share a byte, and none runs on into an entry the image  *)
(* declares: what reaches one is a conditional branch right before it.      *)
THEOREM EntriesApartHolds ==
    Spec /\ []NothingStraddles /\ []EntriesAreNotAbsorbed /\ []BranchesAreBooked
        => []EntriesAreApart
<1>1. Init => EntriesKnown
  BY InitEntries
<1>2. Base /\ Base' /\ Owned /\ EntriesKnown /\ EntriesAreNotAbsorbed /\ BranchesAreBooked
        /\ [Next]_vars => EntriesKnown'
  BY EntriesKept
<1>3. EntriesKnown => DeclaredEntriesStayApart
  BY DEF EntriesKnown, EntriesIn, CondBefore, DeclaredEntriesStayApart, Functions
<1>4. DeclaredEntriesStayApart /\ OneOwnerPerByte => EntriesAreApart
  BY DEF EntriesAreApart
<1> QED BY <1>1, <1>2, <1>3, <1>4, SpecBase, SpecOwned, OwnershipHolds, PTL DEF Spec
===============================================================================
