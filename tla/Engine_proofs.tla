----------------------------- MODULE Engine_proofs -----------------------------
(***************************************************************************)
(* For every image: types, the consistency of every analysis in progress,  *)
(* what a spent budget stops, that candidates are decided, and, where no   *)
(* functions are split, that landing pads stay, that no branch is lost and *)
(* that code has one owner.                                                *)
(***************************************************************************)
EXTENDS Engine, FunctionState_proofs

(***************************************************************************)
(* The strengthening.  Instructions are booked, and classified ones wait   *)
(* to be booked, only where the image decodes one; every address the       *)
(* records carry is a number.                                              *)
(***************************************************************************)
FrameOk(f) ==
    /\ f \in FrameType
    /\ StateOk(f.st)
    /\ f.st.ins \subseteq DOMAIN img.ins
    /\ f.phase \in {"dispatch", "book"} => f.pc \in DOMAIN img.ins
    /\ f.phase = "restoredGap" => f.todo # <<>>

GoodFrames == {f \in FrameType : FrameOk(f)}

DisOk(d) ==
    /\ d = [functions |-> d.functions, ins2fn |-> d.ins2fn, instructions |-> d.instructions,
            borders |-> d.borders, codeRefs |-> d.codeRefs, dataMap |-> d.dataMap]
    /\ DOMAIN d.functions \subseteq Nat
    /\ DOMAIN d.ins2fn \subseteq Nat
    /\ \A b \in DOMAIN d.ins2fn : d.ins2fn[b] \in Nat
    /\ d.instructions \subseteq Nat
    /\ d.dataMap \subseteq Nat

FcmOk(m) ==
    /\ m = [candidates |-> m.candidates, offsets |-> m.offsets,
            queue |-> m.queue, allCallRefs |-> m.allCallRefs]
    /\ DOMAIN m.candidates \subseteq Nat
    /\ m.candidates \in [DOMAIN m.candidates -> CandidateType]
    /\ m.offsets \subseteq Nat
    /\ m.queue \subseteq Nat

FnNoted(r) ==
    /\ r = [start |-> r.start, ins |-> r.ins, refs |-> r.refs, isTailcall |-> r.isTailcall]
    /\ r.start \in Nat

TcaOk(t) ==
    /\ t = [jumps |-> t.jumps, tmp |-> t.tmp, fns |-> t.fns, calls |-> t.calls,
            created |-> t.created]
    /\ t.jumps \in References /\ t.tmp \in References
    /\ \A i \in DOMAIN t.fns : FnNoted(t.fns[i])
    /\ \A c \in t.calls : c.start \in Nat /\ c.to \in Nat
    /\ t.created \subseteq Nat

WorkOk(w) == \A x \in w : x \in Nat \X Nat

IInv ==
    /\ img \in Images
    /\ pass \in Passes
    /\ frames \in Seq(GoodFrames)
    /\ DisOk(dis)
    /\ FcmOk(fcm)
    /\ TcaOk(tca)
    /\ WorkOk(work)
    /\ cur \in MaybeAddr
    /\ pass \in {"gapPoll", "gapJudge"} => cur \in Nat
    /\ gapPtr \in Nat
    /\ timeout \in BOOLEAN

-----------------------------------------------------------------------------
(* The image. *)

LEMMA ImageFacts ==
    ASSUME img \in Images
    PROVE  /\ DOMAIN img.ins \subseteq Nat
           /\ \A a \in DOMAIN img.ins :
                 /\ img.ins[a].size \in Nat \ {0}
                 /\ img.ins[a].kind \in Kinds
                 /\ img.ins[a].target \in MaybeAddr
                 /\ img.ins[a].cases \in AddrList
                 /\ img.ins[a].table \in SUBSET Nat
                 /\ img.ins[a].kind \in {"jmp", "cjmp", "loop", "pad"}
                       => img.ins[a].target \in Nat
           /\ img.extent \subseteq Nat /\ img.candidates \subseteq Nat
           /\ \A r \in img.callRefs : r \in Nat \X Nat
           /\ img.deferred \in Seq(Nat) /\ img.late \in Seq(Nat)
<1>1. ImageOk(img)
  BY EngineAssumption
<1>2. \A a \in DOMAIN img.ins : img.ins[a] \in Instruction
  BY <1>1 DEF ImageOk
<1>3. QED
  BY <1>1, <1>2 DEF ImageOk, Instruction, MaybeAddr, AddrList

(* Instructions the image decodes take addresses only. *)
LEMMA BytesOfType ==
    ASSUME img \in Images, NEW addrs, addrs \subseteq DOMAIN img.ins
    PROVE  BytesOf(addrs) \subseteq Nat
<1>1. ASSUME NEW a \in addrs
      PROVE  Bytes(a, img.ins[a].size) \subseteq Nat
  <2>1. a \in Nat /\ img.ins[a].size \in Nat
    BY <1>1, ImageFacts
  <2>2. QED
    BY <2>1 DEF Bytes
<1>2. QED
  BY <1>1 DEF BytesOf

-----------------------------------------------------------------------------
(* The result. *)

LEMMA OverFacts ==
    ASSUME NEW f, NEW g
    PROVE  /\ DOMAIN Over(f, g) = DOMAIN f \cup DOMAIN g
           /\ \A x \in DOMAIN f : Over(f, g)[x] = f[x]
           /\ \A x \in DOMAIN g \ DOMAIN f : Over(f, g)[x] = g[x]
BY DEF Over

LEMMA WithFacts ==
    ASSUME NEW g, NEW x, NEW v
    PROVE  /\ DOMAIN With(g, x, v) = {x} \cup DOMAIN g
           /\ With(g, x, v)[x] = v
           /\ \A y \in DOMAIN g \ {x} : With(g, x, v)[y] = g[y]
BY DEF With, Over, Constantly

(* Laying a function to a set over another one keeps the set. *)
LEMMA OverType ==
    ASSUME NEW S, NEW f, NEW g,
           \A x \in DOMAIN f : f[x] \in S, \A x \in DOMAIN g : g[x] \in S
    PROVE  \A x \in DOMAIN Over(f, g) : Over(f, g)[x] \in S
BY DEF Over

(* A finished function adds its start, its bytes and its instructions. *)
LEMMA StoredOk ==
    ASSUME img \in Images, NEW d, DisOk(d), NEW s, Good(s), s.ins \subseteq DOMAIN img.ins
    PROVE  DisOk(Stored(d, s))
<1> DEFINE r == Stored(d, s)
<1>1. s.start \in Nat /\ s.ins \subseteq Nat /\ s.data \subseteq Nat
  BY DEF Good, FnState
<1>2. BytesOf(s.ins) \subseteq Nat
  BY BytesOfType
<1>3. DOMAIN r.functions = {s.start} \cup DOMAIN d.functions
  <2>1. r.functions = With(d.functions, s.start, GetBlocks(s, img.ins))
    BY DEF Stored
  <2>2. \A v : DOMAIN With(d.functions, s.start, v) = {s.start} \cup DOMAIN d.functions
    BY WithFacts
  <2>3. QED
    BY <2>1, <2>2
<1>4. /\ r.ins2fn = Over(Constantly(BytesOf(s.ins), s.start), d.ins2fn)
      /\ r.instructions = d.instructions \cup s.ins
      /\ r.dataMap = d.dataMap \cup s.data
  BY DEF Stored
<1>5. /\ DOMAIN Constantly(BytesOf(s.ins), s.start) = BytesOf(s.ins)
      /\ \A b \in BytesOf(s.ins) : Constantly(BytesOf(s.ins), s.start)[b] = s.start
  BY DEF Constantly
<1>6. /\ DOMAIN r.ins2fn \subseteq Nat
      /\ \A b \in DOMAIN r.ins2fn : r.ins2fn[b] \in Nat
  <2> DEFINE f == Constantly(BytesOf(s.ins), s.start)
             g == d.ins2fn
  <2>1. DOMAIN f \subseteq Nat /\ \A b \in DOMAIN f : f[b] \in Nat
    BY <1>1, <1>2, <1>5
  <2>2. DOMAIN g \subseteq Nat /\ \A b \in DOMAIN g : g[b] \in Nat
    BY DEF DisOk
  <2>3. r.ins2fn = Over(f, g)
    BY <1>4
  <2> HIDE DEF f, g, r
  <2>4. DOMAIN Over(f, g) = DOMAIN f \cup DOMAIN g
    BY OverFacts
  <2>5. \A b \in DOMAIN Over(f, g) : Over(f, g)[b] \in Nat
    BY <2>1, <2>2, OverType
  <2>6. QED
    BY <2>1, <2>2, <2>3, <2>4, <2>5
<1>7. r = [functions |-> r.functions, ins2fn |-> r.ins2fn, instructions |-> r.instructions,
           borders |-> r.borders, codeRefs |-> r.codeRefs, dataMap |-> r.dataMap]
  BY DEF Stored
<1>8. QED
  BY <1>1, <1>3, <1>4, <1>6, <1>7 DEF DisOk

LEMMA RevertedOk ==
    ASSUME NEW d, DisOk(d), NEW fn, NEW ins, NEW refs
    PROVE  DisOk(Reverted(d, fn, ins, refs))
BY DEF DisOk, Reverted, Without

LEMMA RevertStoredOk ==
    ASSUME NEW d, DisOk(d), NEW fn, NEW withRefs
    PROVE  DisOk(RevertStored(d, fn, withRefs))
BY RevertedOk DEF RevertStored

-----------------------------------------------------------------------------
(* The candidates. *)

(* The candidates are all there is to a manager's type beside its sets. *)
LEMMA CandidatesOk ==
    ASSUME NEW m, FcmOk(m), NEW c, DOMAIN c \subseteq Nat,
           c \in [DOMAIN c -> CandidateType]
    PROVE  FcmOk([m EXCEPT !.candidates = c])
<1> DEFINE r == [m EXCEPT !.candidates = c]
<1>1. r = [candidates |-> c, offsets |-> m.offsets, queue |-> m.queue,
           allCallRefs |-> m.allCallRefs]
  BY DEF FcmOk
<1>2. QED
  BY <1>1 DEF FcmOk

LEMMA EnsuredOk ==
    ASSUME NEW m, FcmOk(m), NEW addrs \in SUBSET Nat
    PROVE  /\ FcmOk(Ensured(m, addrs))
           /\ DOMAIN Ensured(m, addrs).candidates = DOMAIN m.candidates \cup addrs
           /\ Ensured(m, addrs).offsets = m.offsets /\ Ensured(m, addrs).queue = m.queue
<1> DEFINE f == m.candidates
           g == Constantly(addrs, NewCandidate)
           c == Over(f, g)
<1>1. DOMAIN f \subseteq Nat /\ \A x \in DOMAIN f : f[x] \in CandidateType
  BY DEF FcmOk
<1>2. DOMAIN g = addrs /\ \A x \in DOMAIN g : g[x] \in CandidateType
  BY DEF Constantly, NewCandidate, CandidateType
<1> HIDE DEF f, g
<1>3. DOMAIN c = DOMAIN f \cup addrs
  BY <1>2, OverFacts
<1>4. \A x \in DOMAIN c : c[x] \in CandidateType
  BY <1>1, <1>2, OverType
<1>5. c = [x \in DOMAIN c |-> c[x]]
  BY DEF Over
<1> HIDE DEF c
<1>6. c \in [DOMAIN c -> CandidateType]
  BY <1>4, <1>5
<1>7. Ensured(m, addrs) = [m EXCEPT !.candidates = c]
  BY DEF Ensured, c, f, g
<1>8. FcmOk(Ensured(m, addrs))
  BY <1>1, <1>3, <1>6, <1>7, CandidatesOk
<1>9. QED
  BY <1>3, <1>7, <1>8 DEF FcmOk, f

(* Changing one candidate to another one. *)
LEMMA CandidateSetOk ==
    ASSUME NEW m, FcmOk(m), NEW addr \in DOMAIN m.candidates, NEW v \in CandidateType
    PROVE  FcmOk([m EXCEPT !.candidates = [m.candidates EXCEPT ![addr] = v]])
<1> DEFINE c == [m.candidates EXCEPT ![addr] = v]
<1>1. c \in [DOMAIN m.candidates -> CandidateType] /\ DOMAIN c = DOMAIN m.candidates
  BY DEF FcmOk
<1>2. QED
  BY <1>1, CandidatesOk DEF FcmOk

LEMMA AbortedOk ==
    ASSUME NEW m, FcmOk(m), NEW addr
    PROVE  FcmOk(Aborted(m, addr))
<1>1. CASE addr \notin DOMAIN m.candidates
  BY <1>1 DEF Aborted
<1>2. CASE addr \in DOMAIN m.candidates
  <2> DEFINE v == [m.candidates[addr] EXCEPT !.finished = TRUE, !.aborted = TRUE]
  <2>1. m.candidates[addr] \in CandidateType
    BY <1>2 DEF FcmOk
  <2>2. v \in CandidateType
    BY <2>1 DEF CandidateType
  <2>3. Aborted(m, addr) = [m EXCEPT !.candidates = [m.candidates EXCEPT ![addr] = v]]
    BY <1>2 DEF Aborted, FcmOk
  <2> HIDE DEF v
  <2>4. QED
    BY <1>2, <2>2, <2>3, CandidateSetOk
<1>3. QED
  BY <1>1, <1>2

LEMMA UnabortedOk ==
    ASSUME NEW m, FcmOk(m), NEW addr
    PROVE  FcmOk(Unaborted(m, addr))
<1>1. CASE addr \notin DOMAIN m.candidates
  BY <1>1 DEF Unaborted
<1>2. CASE addr \in DOMAIN m.candidates
  <2> DEFINE v == [m.candidates[addr] EXCEPT !.aborted = FALSE]
  <2>1. m.candidates[addr] \in CandidateType
    BY <1>2 DEF FcmOk
  <2>2. v \in CandidateType
    BY <2>1 DEF CandidateType
  <2>3. Unaborted(m, addr) = [m EXCEPT !.candidates = [m.candidates EXCEPT ![addr] = v]]
    BY <1>2 DEF Unaborted, FcmOk
  <2> HIDE DEF v
  <2>4. QED
    BY <1>2, <2>2, <2>3, CandidateSetOk
<1>3. QED
  BY <1>1, <1>2

LEMMA FinishedOk ==
    ASSUME NEW m, FcmOk(m), NEW addr
    PROVE  FcmOk(Finished(m, addr))
<1>1. CASE addr \notin DOMAIN m.candidates
  BY <1>1 DEF Finished
<1>2. CASE addr \in DOMAIN m.candidates
  <2> DEFINE v == [m.candidates[addr] EXCEPT !.finished = TRUE]
  <2>1. m.candidates[addr] \in CandidateType
    BY <1>2 DEF FcmOk
  <2>2. v \in CandidateType
    BY <2>1 DEF CandidateType
  <2>3. Finished(m, addr) = [m EXCEPT !.candidates = [m.candidates EXCEPT ![addr] = v]]
    BY <1>2 DEF Finished, FcmOk
  <2> HIDE DEF v
  <2>4. QED
    BY <1>2, <2>2, <2>3, CandidateSetOk
<1>3. QED
  BY <1>1, <1>2

(* addCandidate(): call sites are addresses of instructions. *)
LEMMA AddCandidatesOk ==
    ASSUME NEW m, FcmOk(m), NEW addrs \in SUBSET Nat, NEW isGap \in BOOLEAN,
           NEW sites, \A r \in sites : r[1] \in Nat
    PROVE  FcmOk(AddCandidates(m, addrs, isGap, sites))
<1> DEFINE e == Ensured(m, addrs)
           sitesOf(c) == {r[1] : r \in {x \in sites : x[2] = c}}
           v(c) == [e.candidates[c] EXCEPT !.gap = isGap, !.callRefs = @ \cup sitesOf(c)]
           cs == [c \in DOMAIN e.candidates |-> IF c \in addrs THEN v(c) ELSE e.candidates[c]]
           a == AddCandidates(m, addrs, isGap, sites)
<1>1. FcmOk(e)
  BY EnsuredOk
<1>2. \A c \in DOMAIN e.candidates : e.candidates[c] \in CandidateType
  BY <1>1 DEF FcmOk
<1>3. ASSUME NEW c \in DOMAIN e.candidates
      PROVE  v(c) \in CandidateType
  <2>1. sitesOf(c) \in SUBSET Nat
    OBVIOUS
  <2>2. e.candidates[c] \in CandidateType
    BY <1>2
  <2> HIDE DEF e, sitesOf
  <2>3. QED
    BY <2>1, <2>2 DEF CandidateType
<1>4. /\ a.candidates = cs /\ a.offsets = m.offsets /\ a.queue = m.queue \cup addrs
      /\ a = [candidates |-> a.candidates, offsets |-> a.offsets, queue |-> a.queue,
              allCallRefs |-> a.allCallRefs]
  BY DEF AddCandidates
<1>5. DOMAIN e.candidates \subseteq Nat
  BY <1>1 DEF FcmOk
<1> HIDE DEF e, v, a
<1>6. cs \in [DOMAIN e.candidates -> CandidateType]
  BY <1>2, <1>3
<1>7. DOMAIN cs = DOMAIN e.candidates
  OBVIOUS
<1> HIDE DEF cs
<1>8. FcmOk(a)
  BY <1>4, <1>5, <1>6, <1>7 DEF FcmOk
<1>9. QED
  BY <1>8 DEF a

(* updateCandidates() takes call sites away. *)
LEMMA UpdateCandidatesOk ==
    ASSUME NEW m, FcmOk(m), NEW s
    PROVE  FcmOk(UpdateCandidates(m, s))
<1> DEFINE inner == (s.bytes \ s.ins) \cap DOMAIN m.allCallRefs
           v(c) == [m.candidates[c] EXCEPT !.callRefs =
                        @ \ {src \in inner : m.allCallRefs[src] = c}]
           cs == [c \in DOMAIN m.candidates |-> v(c)]
<1>1. ASSUME NEW c \in DOMAIN m.candidates
      PROVE  v(c) \in CandidateType
  <2>1. m.candidates[c] \in CandidateType
    BY DEF FcmOk
  <2> DEFINE gone == {src \in inner : m.allCallRefs[src] = c}
  <2>2. v(c) = [m.candidates[c] EXCEPT !.callRefs = @ \ gone]
    OBVIOUS
  <2> HIDE DEF gone, v
  <2>3. QED
    BY <2>1, <2>2 DEF CandidateType
<1>2. UpdateCandidates(m, s) = [m EXCEPT !.candidates = cs]
  BY DEF UpdateCandidates
<1> HIDE DEF v
<1>3. cs \in [DOMAIN m.candidates -> CandidateType] /\ DOMAIN cs = DOMAIN m.candidates
  BY <1>1
<1>4. DOMAIN m.candidates \subseteq Nat
  BY DEF FcmOk
<1> HIDE DEF cs
<1>5. QED
  BY <1>2, <1>3, <1>4, CandidatesOk

-----------------------------------------------------------------------------
(* The stack of frames. *)

LEMMA ReplaceLast ==
    ASSUME NEW S, NEW q \in Seq(S), q # <<>>, NEW e \in S
    PROVE  [q EXCEPT ![Len(q)] = e] \in Seq(S)
<1>1. Len(q) \in Nat /\ Len(q) \in 1..Len(q)
  OBVIOUS
<1>2. QED
  BY <1>1, ExceptSeq

LEMMA PushFrame ==
    ASSUME NEW S, NEW q \in Seq(S), q # <<>>, NEW e \in S, NEW c \in S
    PROVE  Append([q EXCEPT ![Len(q)] = e], c) \in Seq(S)
BY ReplaceLast, AppendProperties

LEMMA PopFrame ==
    ASSUME NEW S, NEW q \in Seq(S), q # <<>>
    PROVE  SubSeq(q, 1, Len(q) - 1) \in Seq(S)
<1>1. Len(q) >= 1
  OBVIOUS
<1>2. QED
  BY <1>1, FrontOfSeq

LEMMA SingleFrame ==
    ASSUME NEW S, NEW e \in S
    PROVE  <<e>> \in Seq(S)
OBVIOUS

LEMMA TopGood ==
    ASSUME IInv, Running
    PROVE  Top \in GoodFrames /\ FrameOk(Top)
<1>1. Top \in GoodFrames
  BY DEF IInv, Running, Top
<1>2. QED
  BY <1>1 DEF GoodFrames

(* A call of analyzeFunction() starts with a consistent state. *)
LEMMA FrameGood ==
    ASSUME NEW start \in Nat, NEW asGap \in BOOLEAN, NEW known \in BOOLEAN,
           NEW table \in SUBSET Nat
    PROVE  Frame(start, asGap, known, table) \in GoodFrames
<1> DEFINE f == Frame(start, asGap, known, table)
           s == AddTable(NewState(start), table)
<1>1. Good(NewState(start))
  BY NewStateGood
<1>2. Good(s) /\ s.ins = {}
  BY <1>1, AddTableGood DEF NewState
<1>3. <<>> \in AddrList /\ NoAddr \in MaybeAddr /\ "enter" \in Phases
  BY DEF AddrList, MaybeAddr, Phases
<1>4. f = [phase |-> "enter", st |-> s, asGap |-> asGap, tableKnown |-> known,
           pc |-> start, prev |-> NoAddr, blocks |-> 0,
           todo |-> <<>>, gapReverts |-> <<>>, completed |-> FALSE]
  BY DEF Frame
<1> HIDE DEF s, f
<1>5. f \in FrameType
  BY <1>2, <1>3, <1>4 DEF FrameType, Good
<1>6. FrameOk(f)
  BY <1>2, <1>4, <1>5 DEF FrameOk, Good
<1>7. QED
  BY <1>5, <1>6 DEF GoodFrames, f

(* A frame whose analysis goes on in another phase. *)
LEMMA MovedGood ==
    ASSUME IInv, Running, NEW s, Good(s), s.ins \subseteq DOMAIN img.ins,
           NEW p \in Phases, p \in {"dispatch", "book"} => Top.pc \in DOMAIN img.ins,
           p = "restoredGap" => Top.todo # <<>>
    PROVE  [Top EXCEPT !.phase = p, !.st = s] \in GoodFrames
<1> DEFINE f == [Top EXCEPT !.phase = p, !.st = s]
<1>1. Top \in FrameType
  BY TopGood DEF FrameOk
<1>2. s \in FnState
  BY DEF Good
<1>3. f \in FrameType
  BY <1>1, <1>2 DEF FrameType
<1>4. f.st = s /\ f.phase = p /\ f.pc = Top.pc /\ f.todo = Top.todo
  BY <1>1 DEF FrameType
<1> HIDE DEF f
<1>5. f \in GoodFrames
  BY <1>3, <1>4 DEF GoodFrames, FrameOk, Good
<1>6. QED
  BY <1>5 DEF f

(* Reaching another phase with the same state. *)
LEMMA PhasedGood ==
    ASSUME IInv, Running, NEW p \in Phases, p \notin {"dispatch", "book"},
           p = "restoredGap" => Top.todo # <<>>
    PROVE  [Top EXCEPT !.phase = p] \in GoodFrames
<1>1. Top \in FrameType /\ FrameOk(Top)
  BY TopGood DEF FrameOk
<1>2. Good(Top.st) /\ Top.st.ins \subseteq DOMAIN img.ins
  BY <1>1 DEF FrameOk, FrameType, Good
<1>3. [Top EXCEPT !.phase = p, !.st = Top.st] = [Top EXCEPT !.phase = p]
  BY <1>1 DEF FrameType
<1>4. [Top EXCEPT !.phase = p, !.st = Top.st] \in GoodFrames
  BY <1>2, MovedGood
<1>5. QED
  BY <1>3, <1>4

(* A frame that goes on with another list of addresses to handle. *)
LEMMA TodoGood ==
    ASSUME IInv, Running, NEW s, Good(s), s.ins \subseteq DOMAIN img.ins,
           NEW q \in AddrList,
           NEW p \in Phases, p \in {"dispatch", "book"} => Top.pc \in DOMAIN img.ins,
           p # "restoredGap"
    PROVE  [Top EXCEPT !.phase = p, !.todo = q, !.st = s] \in GoodFrames
<1> DEFINE f == [Top EXCEPT !.phase = p, !.todo = q, !.st = s]
<1>1. Top \in FrameType
  BY TopGood DEF FrameOk
<1>2. s \in FnState
  BY DEF Good
<1>3. f \in FrameType
  BY <1>1, <1>2 DEF FrameType
<1>4. f.st = s /\ f.phase = p /\ f.pc = Top.pc
  BY <1>1 DEF FrameType
<1> HIDE DEF f
<1>5. f \in GoodFrames
  BY <1>3, <1>4 DEF GoodFrames, FrameOk, Good
<1>6. QED
  BY <1>5 DEF f

(* What is left for a frame is analysed again, after its own end. *)
LEMMA ConcludingGood ==
    ASSUME NEW f \in GoodFrames
    PROVE  Concluding(f) \in GoodFrames
<1> DEFINE g == Concluding(f)
<1>1. f \in FrameType /\ FrameOk(f)
  BY DEF GoodFrames
<1>2. f.st.absorbed \in AddrList
  BY <1>1 DEF FrameType, FnState
<1>3. g \in FrameType
  BY <1>1, <1>2 DEF Concluding, FrameType, Phases
<1>4. g.st = f.st /\ g.phase = "restoreAbsorbed"
  BY <1>1 DEF Concluding, FrameType
<1> HIDE DEF g
<1>5. g \in GoodFrames
  BY <1>1, <1>3, <1>4 DEF GoodFrames, FrameOk
<1>6. QED
  BY <1>5 DEF g

(* What the frame that runs gives to the operators on its state. *)
LEMMA TopFacts ==
    ASSUME IInv, Running
    PROVE  /\ Good(Top.st) /\ Top.st.ins \subseteq DOMAIN img.ins
           /\ Top.pc \in Nat /\ Top.prev \in MaybeAddr /\ Top.blocks \in Nat
           /\ Top.todo \in AddrList /\ Top.gapReverts \in AddrList
           /\ Top.asGap \in BOOLEAN
           /\ Top.st.start \in Nat /\ Top.st.table \in SUBSET Nat
           /\ Top.phase \in {"dispatch", "book"} => Top.pc \in DOMAIN img.ins
           /\ Top.phase = "restoredGap" => Top.todo # <<>>
<1>1. FrameOk(Top) /\ Top \in FrameType
  BY TopGood DEF FrameOk
<1>2. Top.st \in FnState
  BY <1>1 DEF FrameType
<1>3. QED
  BY <1>1, <1>2 DEF FrameOk, FrameType, FnState, Good

(* The first of the addresses to handle, and those behind it. *)
LEMMA TodoFacts ==
    ASSUME IInv, Running, Top.todo # <<>>
    PROVE  Head(Top.todo) \in Nat /\ Tail(Top.todo) \in AddrList
<1>1. Top.todo \in Seq(Nat)
  BY TopFacts DEF AddrList
<1>2. QED
  BY <1>1, HeadTailProperties DEF AddrList

LEMMA HereFacts ==
    ASSUME IInv, Top.pc \in DOMAIN img.ins
    PROVE  /\ Here.size \in Nat \ {0} /\ NextPc \in Nat
           /\ Here.cases \in AddrList /\ Here.table \in SUBSET Nat
           /\ Here.kind \in {"jmp", "cjmp", "loop", "pad"} => Here.target \in Nat
<1>1. img \in Images
  BY DEF IInv
<1>2. Top.pc \in Nat
  BY <1>1, ImageFacts
<1>3. QED
  BY <1>1, <1>2, ImageFacts DEF Here, NextPc

LEMMA CountedGood ==
    ASSUME IInv, Running
    PROVE  Good(Counted) /\ Counted.ins = Top.st.ins
<1> DEFINE s == Top.st
           n == IF Here.kind = "zero" THEN s.suspicious + 1 ELSE s.suspicious
<1>1. Good(s) /\ s \in FnState
  BY TopFacts DEF Good
<1>2. n \in Nat
  BY <1>1 DEF FnState
<1>3. Counted = [s EXCEPT !.reachable = TRUE, !.suspicious = n]
  BY <1>1 DEF Counted, FnState
<1> HIDE DEF s, n
<1>4. Counted \in FnState
  BY <1>1, <1>2, <1>3 DEF FnState
<1>5. SameQueue(s, Counted) /\ SameRefs(s, Counted) /\ SameIns(s, Counted)
  BY <1>1, <1>3 DEF FnState, SameQueue, SameRefs, SameIns
<1>6. QED
  BY <1>1, <1>4, <1>5, AsideGood DEF SameIns, s

LEMMA JumpToGood ==
    ASSUME IInv, Running, NEW s, Good(s), NEW target
    PROVE  Good(JumpTo(s, target)) /\ JumpTo(s, target).ins = s.ins
<1>1. CASE target \notin img.extent
  BY <1>1 DEF JumpTo
<1>2. CASE target \in img.extent
  <2>1. target \in Nat /\ Top.pc \in Nat
    BY <1>2, ImageFacts, TopFacts DEF IInv
  <2>2. Good(AddBlockToQueue(s, target)) /\ AddBlockToQueue(s, target).ins = s.ins
    BY <2>1, AddBlockToQueueGood
  <2>3. QED
    BY <1>2, <2>1, <2>2, AddCodeRefGood DEF JumpTo
<1>3. QED
  BY <1>1, <1>2

-----------------------------------------------------------------------------
(* The steps. *)

LEMMA InvariantKept ==
    ASSUME IInv, img' = img, frames' \in Seq(GoodFrames),
           DisOk(dis'), FcmOk(fcm'), TcaOk(tca'), WorkOk(work'),
           pass' \in Passes, cur' \in MaybeAddr,
           pass' \in {"gapPoll", "gapJudge"} => cur' \in Nat,
           gapPtr' \in Nat, timeout' \in BOOLEAN
    PROVE  IInv'
<1>1. GoodFrames' = GoodFrames
  BY DEF GoodFrames, FrameOk
<1>2. QED
  BY <1>1 DEF IInv, DisOk, FcmOk, TcaOk, WorkOk

(* A step of the running frame that changes nothing else. *)
LEMMA FramesStep ==
    ASSUME IInv, Running, NEW f \in GoodFrames, Replace(f),
           UNCHANGED <<img, pass, dis, fcm, tca, work, cur, gapPtr, timeout>>
    PROVE  IInv'
<1>1. frames' \in Seq(GoodFrames)
  BY ReplaceLast DEF IInv, Running, Replace
<1>2. QED
  BY <1>1, InvariantKept DEF IInv

(* What a poll of the budget answers. *)
LEMMA PollType ==
    ASSUME NotTrips \/ Trips
    PROVE  timeout' \in BOOLEAN
BY DEF NotTrips, Trips

LEMMA DecodeSteps ==
    ASSUME IInv, Decode
    PROVE  IInv'
<1>1. CASE Enter
  <2>1. [Top EXCEPT !.phase = "block"] \in GoodFrames
    BY <1>1, PhasedGood DEF Enter, At, Phases
  <2>2. frames' \in Seq(GoodFrames)
    BY <1>1, <2>1, ReplaceLast DEF IInv, Enter, At, Running, Replace
  <2>3. TcaOk(tca')
    BY <1>1 DEF Enter, IInv, TcaOk, References
  <2>4. QED
    BY <1>1, <2>2, <2>3, InvariantKept DEF IInv, Enter
<1>2. CASE Refuse
  <2>1. frames' \in Seq(GoodFrames)
    BY <1>2, PopFrame DEF IInv, Refuse, At, Running, Return
  <2>2. TcaOk(tca')
    BY <1>2 DEF Refuse, IInv, TcaOk, References
  <2>3. FcmOk(fcm')
    BY <1>2, AbortedOk DEF Refuse, IInv
  <2>4. QED
    BY <1>2, <2>1, <2>2, <2>3, InvariantKept DEF IInv, Refuse
<1>3. CASE ChooseBlock
  <2> DEFINE s == ChooseNextBlock(Top.st)
             f == [Top EXCEPT !.phase = "decode", !.blocks = Top.blocks + 1, !.st = s,
                              !.pc = NextQueued(Top.st), !.prev = NoAddr]
  <2>0. Running
    BY <1>3 DEF ChooseBlock, At
  <2>1. Top \in FrameType /\ Good(Top.st) /\ Top.st.ins \subseteq DOMAIN img.ins
    BY <2>0, TopGood, TopFacts DEF FrameOk
  <2>2. Good(s) /\ NextQueued(Top.st) \in Nat
    BY <1>3, <2>1, ChooseNextBlockGood DEF ChooseBlock
  <2>3. s.ins = Top.st.ins
    BY <2>1 DEF ChooseNextBlock, Good, FnState
  <2>4. s \in FnState /\ NoAddr \in MaybeAddr /\ Top.blocks + 1 \in Nat /\ "decode" \in Phases
    BY <2>0, <2>2, TopFacts DEF Good, MaybeAddr, Phases
  <2> HIDE DEF s
  <2>5. f \in FrameType
    BY <2>1, <2>2, <2>4 DEF FrameType
  <2>6. f.st = s /\ f.phase = "decode"
    BY <2>1 DEF FrameType
  <2>7. Replace(f)
    BY <1>3 DEF ChooseBlock, s
  <2> HIDE DEF f
  <2>8. f \in GoodFrames
    BY <2>1, <2>2, <2>3, <2>5, <2>6 DEF GoodFrames, FrameOk, Good
  <2>9. frames' \in Seq(GoodFrames)
    BY <2>0, <2>7, <2>8, ReplaceLast DEF IInv, Running, Replace
  <2>10. timeout' \in BOOLEAN
    BY <1>3, PollType DEF ChooseBlock, IInv
  <2>11. QED
    BY <1>3, <2>9, <2>10, InvariantKept DEF ChooseBlock, IInv
<1>4. CASE TimeoutInFunction
  <2> DEFINE f == [Top EXCEPT !.phase = "decoded", !.blocks = Top.blocks + 1]
  <2>0. Running
    BY <1>4 DEF TimeoutInFunction, At
  <2>1. Top \in FrameType /\ FrameOk(Top)
    BY <2>0, TopGood DEF FrameOk
  <2>2. Top.blocks + 1 \in Nat /\ "decoded" \in Phases
    BY <2>0, TopFacts DEF Phases
  <2>3. f \in FrameType
    BY <2>1, <2>2 DEF FrameType
  <2>4. f.st = Top.st /\ f.phase = "decoded"
    BY <2>1 DEF FrameType
  <2>5. Replace(f)
    BY <1>4 DEF TimeoutInFunction
  <2> HIDE DEF f
  <2>6. f \in GoodFrames
    BY <2>1, <2>3, <2>4 DEF GoodFrames, FrameOk
  <2>7. frames' \in Seq(GoodFrames)
    BY <2>0, <2>5, <2>6, ReplaceLast DEF IInv, Running, Replace
  <2>8. QED
    BY <1>4, <2>7, PollType, InvariantKept DEF TimeoutInFunction, IInv
<1>5. CASE NoBlockLeft
  BY <1>5, PhasedGood, FramesStep DEF NoBlockLeft, At, Phases
<1>6. CASE RunsOut
  BY <1>6, PhasedGood, FramesStep DEF RunsOut, At, Phases
<1>7. CASE CutAtTable
  <2> DEFINE u == IF Top.prev # NoAddr THEN RemoveCodeRef(Top.st, Top.prev, Top.pc) ELSE Top.st
             s == SetSanelyEnding(EndBlock(SetBlockEnding(u)))
  <2>1. Running /\ Good(Top.st)
    BY <1>7, TopFacts DEF CutAtTable, At
  <2>2. Good(u) /\ u.ins = Top.st.ins
    <3>1. CASE Top.prev # NoAddr
      <4>1. Top.prev \in Nat /\ Top.pc \in Nat
        BY <2>1, <3>1, TopFacts DEF MaybeAddr
      <4>2. QED
        BY <2>1, <3>1, <4>1, RemoveCodeRefGood
    <3>2. CASE Top.prev = NoAddr
      BY <2>1, <3>2
    <3>3. QED
      BY <3>1, <3>2
  <2> HIDE DEF u
  <2>3. Good(s) /\ s.ins = u.ins
    BY <2>2, SetBlockEndingGood, EndBlockGood, SetSanelyEndingGood
  <2>4. Replace([Top EXCEPT !.phase = "block", !.st = s])
    BY <1>7 DEF CutAtTable, u
  <2> HIDE DEF s
  <2>5. [Top EXCEPT !.phase = "block", !.st = s] \in GoodFrames
    BY <2>1, <2>2, <2>3, TopFacts, MovedGood DEF Phases
  <2>6. QED
    BY <1>7, <2>1, <2>4, <2>5, FramesStep DEF CutAtTable
<1>8. CASE AbortSuspicious
  <2> DEFINE s == [Top.st EXCEPT !.suspicious = Top.st.suspicious + 1]
             f == [Top EXCEPT !.st.suspicious = Top.st.suspicious + 1]
  <2>1. Running /\ Good(Top.st) /\ Top.st \in FnState /\ Top \in FrameType
    BY <1>8, TopFacts, TopGood DEF AbortSuspicious, At, Good, FrameOk
  <2>2. f = [Top EXCEPT !.st = s]
    BY <2>1 DEF FrameType
  <2>3. Top.st.suspicious + 1 \in Nat
    BY <2>1 DEF FnState
  <2>4. s \in FnState
    BY <2>1, <2>3 DEF FnState
  <2>5. SameQueue(Top.st, s) /\ SameRefs(Top.st, s) /\ SameIns(Top.st, s)
    BY <2>1 DEF FnState, SameQueue, SameRefs, SameIns
  <2>6. Good(s) /\ s.ins = Top.st.ins
    BY <2>1, <2>4, <2>5, AsideGood DEF SameIns
  <2>7. Replace(Concluding(f))
    BY <1>8 DEF AbortSuspicious
  <2> HIDE DEF s
  <2>8. f \in FrameType /\ f.st = s /\ f.phase = "decode"
    BY <1>8, <2>1, <2>2, <2>4 DEF FrameType, AbortSuspicious, At
  <2> HIDE DEF f
  <2>9. f \in GoodFrames
    BY <2>1, <2>6, <2>8, TopFacts DEF GoodFrames, FrameOk, Good
  <2>10. Concluding(f) \in GoodFrames
    BY <2>9, ConcludingGood
  <2>11. frames' \in Seq(GoodFrames)
    BY <2>1, <2>7, <2>10, ReplaceLast DEF IInv, Running, Replace
  <2>12. FcmOk(fcm')
    BY <1>8, AbortedOk DEF AbortSuspicious, IInv
  <2>13. QED
    BY <1>8, <2>11, <2>12, InvariantKept DEF AbortSuspicious, IInv
<1>9. CASE CutAtLandingPad
  <2> DEFINE s == SetSanelyEnding(EndBlock(SetBlockEnding(Counted)))
  <2>1. Running
    BY <1>9 DEF CutAtLandingPad, Classifiable, At
  <2>2. Good(s) /\ s.ins = Top.st.ins
    BY <2>1, CountedGood, SetBlockEndingGood, EndBlockGood, SetSanelyEndingGood
  <2>3. Replace([Top EXCEPT !.phase = "block", !.st = s])
    BY <1>9 DEF CutAtLandingPad
  <2> HIDE DEF s
  <2>4. [Top EXCEPT !.phase = "block", !.st = s] \in GoodFrames
    BY <2>1, <2>2, TopFacts, MovedGood DEF Phases
  <2>5. QED
    BY <1>9, <2>1, <2>3, <2>4, FramesStep DEF CutAtLandingPad
<1>10. CASE CutAtPadding
  <2> DEFINE u == RemoveCodeRef(Counted, Top.prev, Top.pc)
             s == SetSanelyEnding(EndBlock(SetBlockEnding(u)))
  <2>1. Running /\ Top.pc \in DOMAIN img.ins /\ Top.prev # NoAddr
    BY <1>10 DEF CutAtPadding, Classifiable, At, Decodable, PaddingCut
  <2>2. Top.prev \in Nat /\ Top.pc \in Nat
    BY <2>1, TopFacts DEF MaybeAddr
  <2>3. Good(u) /\ u.ins = Top.st.ins
    BY <2>1, <2>2, CountedGood, RemoveCodeRefGood
  <2> HIDE DEF u
  <2>4. Good(s) /\ s.ins = u.ins
    BY <2>3, SetBlockEndingGood, EndBlockGood, SetSanelyEndingGood
  <2>5. Replace([Top EXCEPT !.phase = "block", !.st = s])
    BY <1>10 DEF CutAtPadding, u
  <2> HIDE DEF s
  <2>6. [Top EXCEPT !.phase = "block", !.st = s] \in GoodFrames
    BY <2>1, <2>3, <2>4, TopFacts, MovedGood DEF Phases
  <2>7. frames' \in Seq(GoodFrames)
    BY <2>1, <2>5, <2>6, ReplaceLast DEF IInv, Running, Replace
  <2>8. FcmOk(fcm')
    <3>1. CASE Here.kind = "pad"
      <4>1. Here.target \in Nat
        BY <2>1, <3>1, HereFacts
      <4>2. fcm' = AddCandidates(fcm, {Here.target}, TRUE, {})
        BY <1>10, <3>1 DEF CutAtPadding
      <4>3. QED
        BY <4>1, <4>2, AddCandidatesOk DEF IInv
    <3>2. CASE Here.kind # "pad"
      BY <1>10, <3>2 DEF CutAtPadding, IInv
    <3>3. QED
      BY <3>1, <3>2
  <2>9. QED
    BY <1>10, <2>7, <2>8, InvariantKept DEF CutAtPadding, IInv
<1>11. QED
  BY <1>1, <1>2, <1>3, <1>4, <1>5, <1>6, <1>7, <1>8, <1>9, <1>10 DEF Decode

(* A classified instruction waits to be booked. *)
LEMMA ClassifiedStep ==
    ASSUME IInv, Running, Top.pc \in DOMAIN img.ins,
           NEW s, Good(s), s.ins = Top.st.ins, Classified(s)
    PROVE  frames' \in Seq(GoodFrames)
<1>1. s.ins \subseteq DOMAIN img.ins
  BY TopFacts
<1>2. [Top EXCEPT !.phase = "book", !.st = s] \in GoodFrames
  BY <1>1, MovedGood DEF Phases
<1>3. QED
  BY <1>2, ReplaceLast DEF IInv, Running, Replace, Classified

LEMMA ClassifiableFacts ==
    ASSUME IInv, Classifiable
    PROVE  Running /\ Top.pc \in DOMAIN img.ins /\ Top.pc \in Nat
BY TopFacts DEF Classifiable, At, Decodable

(* The jumps an analysis collects for the tailcall pass. *)
LEMMA JumpNoted ==
    ASSUME IInv, Running, NEW to \in Nat,
           tca' = [tca EXCEPT !.tmp = @ \cup {<<Top.pc, to>>}]
    PROVE  TcaOk(tca')
<1>1. Top.pc \in Nat
  BY TopFacts
<1>2. tca.tmp \cup {<<Top.pc, to>>} \in References
  BY <1>1 DEF IInv, TcaOk, References
<1>3. QED
  BY <1>2 DEF IInv, TcaOk

LEMMA FlagsGood ==
    ASSUME NEW s, Good(s)
    PROVE  /\ Good([s EXCEPT !.reachable = FALSE, !.ending = TRUE])
           /\ [s EXCEPT !.reachable = FALSE, !.ending = TRUE].ins = s.ins
<1> DEFINE r == [s EXCEPT !.reachable = FALSE, !.ending = TRUE]
<1>1. r \in FnState
  BY DEF Good, FnState
<1>2. SameQueue(s, r) /\ SameRefs(s, r) /\ SameIns(s, r)
  BY DEF Good, FnState, SameQueue, SameRefs, SameIns
<1>3. QED
  BY <1>1, <1>2, AsideGood DEF SameIns

(* The taken branch of a conditional jump. *)
LEMMA CondTakenGood ==
    ASSUME IInv, Running, NEW s, Good(s), Here.target \in Nat
    PROVE  Good(CondTaken(s)) /\ CondTaken(s).ins = s.ins
<1>1. Top.pc \in Nat
  BY TopFacts
<1>2. /\ Good(AddCodeRef(s, Top.pc, Here.target, TRUE))
      /\ AddCodeRef(s, Top.pc, Here.target, TRUE).ins = s.ins
  BY <1>1, AddCodeRefGood
<1>3. QED
  BY <1>2, SetBlockEndingGood DEF CondTaken

LEMMA AnalyzeSteps ==
    ASSUME IInv, Analyze
    PROVE  IInv'
<1>1. CASE AnalyzePlain
  <2>1. Running /\ Top.pc \in DOMAIN img.ins
    BY <1>1, ClassifiableFacts DEF AnalyzePlain
  <2>2. frames' \in Seq(GoodFrames)
    BY <1>1, <2>1, CountedGood, ClassifiedStep DEF AnalyzePlain
  <2>3. QED
    BY <1>1, <2>2, InvariantKept DEF AnalyzePlain, IInv
<1>2. CASE AnalyzeCall
  <2> DEFINE s == IF Here.target \in img.extent
                  THEN AddCodeRef(Counted, Top.pc, Here.target, FALSE) ELSE Counted
  <2>1. Running /\ Top.pc \in DOMAIN img.ins /\ Top.pc \in Nat
    BY <1>2, ClassifiableFacts DEF AnalyzeCall
  <2>2. Good(s) /\ s.ins = Top.st.ins
    <3>1. CASE Here.target \in img.extent
      <4>1. Here.target \in Nat
        BY <3>1, ImageFacts DEF IInv
      <4>2. QED
        BY <2>1, <3>1, <4>1, CountedGood, AddCodeRefGood
    <3>2. CASE Here.target \notin img.extent
      BY <2>1, <3>2, CountedGood
    <3>3. QED
      BY <3>1, <3>2
  <2>3. Classified(s)
    BY <1>2 DEF AnalyzeCall
  <2> HIDE DEF s
  <2>4. frames' \in Seq(GoodFrames)
    BY <2>1, <2>2, <2>3, ClassifiedStep
  <2>5. QED
    BY <1>2, <2>4, InvariantKept DEF AnalyzeCall, IInv
<1>3. CASE AnalyzeRegisterCall
  <2> DEFINE s == [Counted EXCEPT !.regCalls = Counted.regCalls \cup {Top.pc}]
  <2>1. Running /\ Top.pc \in DOMAIN img.ins /\ Top.pc \in Nat
    BY <1>3, ClassifiableFacts DEF AnalyzeRegisterCall
  <2>2. Good(Counted) /\ Counted.ins = Top.st.ins /\ Counted \in FnState
    BY <2>1, CountedGood DEF Good
  <2>3. s \in FnState
    BY <2>1, <2>2 DEF FnState
  <2>4. SameQueue(Counted, s) /\ SameRefs(Counted, s) /\ SameIns(Counted, s)
    BY <2>2 DEF FnState, SameQueue, SameRefs, SameIns
  <2>5. Good(s) /\ s.ins = Top.st.ins
    BY <2>2, <2>3, <2>4, AsideGood DEF SameIns
  <2>6. Classified(s)
    BY <1>3 DEF AnalyzeRegisterCall
  <2> HIDE DEF s
  <2>7. frames' \in Seq(GoodFrames)
    BY <2>1, <2>5, <2>6, ClassifiedStep
  <2>8. QED
    BY <1>3, <2>7, InvariantKept DEF AnalyzeRegisterCall, IInv
<1>4. CASE AnalyzeLoop
  <2> DEFINE q == AddBlockToQueue(Counted, Here.target)
             taken == AddCodeRef(q, Top.pc, Here.target, TRUE)
             n == AddBlockToQueue(taken, NextPc)
             s == SetBlockEnding(n)
  <2>1. Running /\ Top.pc \in DOMAIN img.ins /\ Top.pc \in Nat
    BY <1>4, ClassifiableFacts DEF AnalyzeLoop
  <2>2. Here.target \in Nat /\ NextPc \in Nat
    BY <1>4, <2>1, HereFacts DEF AnalyzeLoop
  <2>3. Good(q) /\ q.ins = Top.st.ins
    BY <2>1, <2>2, CountedGood, AddBlockToQueueGood
  <2> HIDE DEF q
  <2>4. Good(taken) /\ taken.ins = Top.st.ins
    BY <2>1, <2>2, <2>3, AddCodeRefGood
  <2> HIDE DEF taken
  <2>5. Good(n) /\ n.ins = Top.st.ins
    BY <2>2, <2>4, AddBlockToQueueGood
  <2> HIDE DEF n
  <2>6. Good(s) /\ s.ins = Top.st.ins
    BY <2>5, SetBlockEndingGood
  <2>7. Classified(s)
    BY <1>4 DEF AnalyzeLoop, n, taken, q
  <2> HIDE DEF s
  <2>8. frames' \in Seq(GoodFrames)
    BY <2>1, <2>6, <2>7, ClassifiedStep
  <2>9. QED
    BY <1>4, <2>8, InvariantKept DEF AnalyzeLoop, IInv
<1>5. CASE AnalyzeReturn
  <2> DEFINE e == EndInstruction(Counted)
             s == JumpTo(e, Here.target)
  <2>1. Running /\ Top.pc \in DOMAIN img.ins
    BY <1>5, ClassifiableFacts DEF AnalyzeReturn
  <2>2. Good(e) /\ e.ins = Top.st.ins
    BY <2>1, CountedGood, EndInstructionGood
  <2> HIDE DEF e
  <2>3. Good(s) /\ s.ins = Top.st.ins
    BY <2>1, <2>2, JumpToGood
  <2>4. Classified(s)
    BY <1>5 DEF AnalyzeReturn, e
  <2> HIDE DEF s
  <2>5. frames' \in Seq(GoodFrames)
    BY <2>1, <2>3, <2>4, ClassifiedStep
  <2>6. QED
    BY <1>5, <2>5, InvariantKept DEF AnalyzeReturn, IInv
<1>6. CASE AnalyzeJmp
  <2> DEFINE known == CASE Here.target \in DOMAIN dis.functions -> SetSanelyEnding(Counted)
                        [] Here.target \notin DOMAIN dis.functions
                           /\ (Here.target \in fcm.offsets \/ Counted.ins = {}) -> Counted
                        [] OTHER -> AddBlockToQueue(Counted, Here.target)
             linked == AddCodeRef(known, Top.pc, Here.target, TRUE)
             s == [linked EXCEPT !.reachable = FALSE, !.ending = TRUE]
  <2>1. Running /\ Top.pc \in DOMAIN img.ins /\ Top.pc \in Nat
    BY <1>6, ClassifiableFacts DEF AnalyzeJmp
  <2>2. Here.target \in Nat
    BY <1>6, <2>1, HereFacts DEF AnalyzeJmp
  <2>3. \/ known = SetSanelyEnding(Counted)
        \/ known = Counted
        \/ known = AddBlockToQueue(Counted, Here.target)
    OBVIOUS
  <2> HIDE DEF known
  <2>4. Good(known) /\ known.ins = Top.st.ins
    BY <2>1, <2>2, <2>3, CountedGood, SetSanelyEndingGood, AddBlockToQueueGood
  <2>5. Good(linked) /\ linked.ins = Top.st.ins
    BY <2>1, <2>2, <2>4, AddCodeRefGood
  <2> HIDE DEF linked
  <2>6. Good(s) /\ s.ins = Top.st.ins
    BY <2>5, FlagsGood
  <2>7. Classified(s)
    BY <1>6 DEF AnalyzeJmp, linked, known
  <2> HIDE DEF s
  <2>8. frames' \in Seq(GoodFrames)
    BY <2>1, <2>6, <2>7, ClassifiedStep
  <2>9. TcaOk(tca')
    BY <1>6, <2>1, <2>2, JumpNoted DEF AnalyzeJmp
  <2>10. QED
    BY <1>6, <2>8, <2>9, InvariantKept DEF AnalyzeJmp, IInv
<1>7. CASE AnalyzeCondJmp
  <2> DEFINE fall == AddBlockToQueue(Counted, NextPc)
             taken == CASE Here.target \in DOMAIN dis.functions -> SetSanelyEnding(fall)
                        [] /\ Here.target \notin DOMAIN dis.functions
                           /\ Here.target \in fcm.offsets
                           /\ IsEvidencedEntry(Here.target) -> fall
                        [] OTHER -> AddBlockToQueue(fall, Here.target)
             s == CondTaken(taken)
  <2>1. Running /\ Top.pc \in DOMAIN img.ins /\ Top.pc \in Nat
    BY <1>7, ClassifiableFacts DEF AnalyzeCondJmp
  <2>2. Here.target \in Nat /\ NextPc \in Nat
    BY <1>7, <2>1, HereFacts DEF AnalyzeCondJmp
  <2>3. Good(fall) /\ fall.ins = Top.st.ins
    BY <2>1, <2>2, CountedGood, AddBlockToQueueGood
  <2> HIDE DEF fall
  <2>4. \/ taken = SetSanelyEnding(fall)
        \/ taken = fall
        \/ taken = AddBlockToQueue(fall, Here.target)
    OBVIOUS
  <2> HIDE DEF taken
  <2>5. Good(taken) /\ taken.ins = Top.st.ins
    BY <2>2, <2>3, <2>4, SetSanelyEndingGood, AddBlockToQueueGood
  <2>6. Good(s) /\ s.ins = Top.st.ins
    BY <2>1, <2>2, <2>5, CondTakenGood
  <2>7. Classified(s)
    BY <1>7 DEF AnalyzeCondJmp, fall, taken
  <2> HIDE DEF s
  <2>8. frames' \in Seq(GoodFrames)
    BY <2>1, <2>6, <2>7, ClassifiedStep
  <2>9. TcaOk(tca')
    BY <1>7, <2>1, <2>2, JumpNoted DEF AnalyzeCondJmp
  <2>10. QED
    BY <1>7, <2>8, <2>9, InvariantKept DEF AnalyzeCondJmp, IInv
<1>8. CASE AnalyzeCondJmpAbsorbing
  <2> DEFINE fall == AddBlockToQueue(Counted, NextPc)
             undone == [fall EXCEPT !.absorbed = Append(fall.absorbed, Here.target)]
             queued == AddBlockToQueue(undone, Here.target)
             s == CondTaken(queued)
  <2>1. Running /\ Top.pc \in DOMAIN img.ins /\ Top.pc \in Nat
    BY <1>8, ClassifiableFacts DEF AnalyzeCondJmpAbsorbing
  <2>2. Here.target \in Nat /\ NextPc \in Nat
    BY <1>8, <2>1, HereFacts DEF AnalyzeCondJmpAbsorbing
  <2>3. Good(fall) /\ fall.ins = Top.st.ins /\ fall \in FnState
    BY <2>1, <2>2, CountedGood, AddBlockToQueueGood DEF Good
  <2> HIDE DEF fall
  <2>4. fall.absorbed \in Seq(Nat)
    BY <2>3 DEF FnState, AddrList
  <2>5. Append(fall.absorbed, Here.target) \in AddrList
    BY <2>2, <2>4, AppendProperties DEF AddrList
  <2>6. undone \in FnState
    BY <2>3, <2>5 DEF FnState
  <2>7. SameQueue(fall, undone) /\ SameRefs(fall, undone) /\ SameIns(fall, undone)
    BY <2>3 DEF FnState, SameQueue, SameRefs, SameIns
  <2>8. Good(undone) /\ undone.ins = Top.st.ins
    BY <2>3, <2>6, <2>7, AsideGood DEF SameIns
  <2> HIDE DEF undone
  <2>9. Good(queued) /\ queued.ins = Top.st.ins
    BY <2>2, <2>8, AddBlockToQueueGood
  <2> HIDE DEF queued
  <2>10. Good(s) /\ s.ins = Top.st.ins
    BY <2>1, <2>2, <2>9, CondTakenGood
  <2>11. Classified(s)
    BY <1>8 DEF AnalyzeCondJmpAbsorbing, fall, undone, queued
  <2> HIDE DEF s
  <2>12. frames' \in Seq(GoodFrames)
    BY <2>1, <2>10, <2>11, ClassifiedStep
  <2>13. DisOk(dis') /\ FcmOk(fcm')
    BY <1>8, RevertStoredOk, AbortedOk DEF AnalyzeCondJmpAbsorbing, IInv
  <2>14. TcaOk(tca')
    <3> DEFINE fns == Discard(tca.fns, Here.target)
               tmp == tca.tmp \cup {<<Top.pc, Here.target>>}
    <3>1. tca' = [tca EXCEPT !.tmp = tmp, !.fns = fns]
      BY <1>8 DEF AnalyzeCondJmpAbsorbing, IInv, TcaOk
    <3>2. \A i \in DOMAIN fns : FnNoted(fns[i])
      BY DEF Discard, Without, IInv, TcaOk
    <3>3. tmp \in References
      BY <2>1, <2>2 DEF IInv, TcaOk, References
    <3> HIDE DEF fns, tmp
    <3>4. QED
      BY <3>1, <3>2, <3>3 DEF IInv, TcaOk
  <2>15. QED
    BY <1>8, <2>12, <2>13, <2>14, InvariantKept DEF AnalyzeCondJmpAbsorbing, IInv
<1>9. CASE AnalyzeTableJmp
  <2> DEFINE s == AddTable(Counted, Here.table)
  <2>1. Running /\ Top.pc \in DOMAIN img.ins
    BY <1>9, ClassifiableFacts DEF AnalyzeTableJmp
  <2>2. Here.cases \in AddrList /\ Here.table \in SUBSET Nat
    BY <2>1, HereFacts
  <2>3. Good(s) /\ s.ins = Top.st.ins
    BY <2>1, <2>2, CountedGood, AddTableGood
  <2>4. Replace([Top EXCEPT !.phase = "dispatch", !.todo = Here.cases, !.st = s])
    BY <1>9 DEF AnalyzeTableJmp
  <2> HIDE DEF s
  <2>5. [Top EXCEPT !.phase = "dispatch", !.todo = Here.cases, !.st = s] \in GoodFrames
    BY <2>1, <2>2, <2>3, TopFacts, TodoGood DEF Phases
  <2>6. QED
    BY <1>9, <2>1, <2>4, <2>5, FramesStep DEF AnalyzeTableJmp
<1>10. CASE DispatchCase
  <2> DEFINE s == JumpTo(Top.st, Head(Top.todo))
             f == [Top EXCEPT !.todo = Tail(Top.todo), !.st = s]
  <2>1. Running /\ Top.phase = "dispatch" /\ Top.todo # <<>> /\ Replace(f)
    BY <1>10 DEF DispatchCase, At
  <2>2. Good(s) /\ s.ins = Top.st.ins
    BY <2>1, TopFacts, JumpToGood
  <2> HIDE DEF s
  <2>3. [Top EXCEPT !.phase = "dispatch", !.todo = Tail(Top.todo), !.st = s] \in GoodFrames
    BY <2>1, <2>2, TodoFacts, TopFacts, TodoGood DEF Phases
  <2>4. f = [Top EXCEPT !.phase = "dispatch", !.todo = Tail(Top.todo), !.st = s]
    BY <2>1, TopGood DEF FrameOk, FrameType
  <2> HIDE DEF f
  <2>5. QED
    BY <1>10, <2>1, <2>3, <2>4, FramesStep DEF DispatchCase
<1>11. CASE Dispatched
  <2> DEFINE s == [Top.st EXCEPT !.reachable = FALSE, !.ending = TRUE]
  <2>1. Running /\ Top.pc \in DOMAIN img.ins
    BY <1>11, TopFacts DEF Dispatched, At
  <2>2. Good(s) /\ s.ins = Top.st.ins
    BY <2>1, TopFacts, FlagsGood
  <2>3. Classified(s)
    BY <1>11 DEF Dispatched
  <2> HIDE DEF s
  <2>4. frames' \in Seq(GoodFrames)
    BY <2>1, <2>2, <2>3, ClassifiedStep
  <2>5. QED
    BY <1>11, <2>4, InvariantKept DEF Dispatched, IInv
<1>12. QED
  BY <1>1, <1>2, <1>3, <1>4, <1>5, <1>6, <1>7, <1>8, <1>9, <1>10, <1>11 DEF Analyze

(* The instruction at hand is classified, and the frame moves behind it. *)
LEMMA BookedGood ==
    ASSUME IInv, At("book"), NEW s, Good(s), s.ins \subseteq DOMAIN img.ins
    PROVE  Booked(Top, s) \in GoodFrames
<1>1. Running /\ Top.pc \in DOMAIN img.ins /\ Top.pc \in MaybeAddr /\ NextPc \in Nat
  <2>1. Running /\ Top.pc \in DOMAIN img.ins
    BY TopFacts DEF At
  <2>2. QED
    BY <2>1, TopFacts, HereFacts DEF MaybeAddr
<1>2. Top \in FrameType
  BY <1>1, TopGood DEF FrameOk
<1>3. CASE s.ending
  <2> DEFINE e == EndBlock(s)
             f == [Top EXCEPT !.phase = "block", !.st = e, !.prev = Top.pc]
  <2>1. Good(e) /\ e.ins = s.ins /\ e \in FnState
    BY EndBlockGood DEF Good
  <2>2. Booked(Top, s) = f
    BY <1>3 DEF Booked
  <2> HIDE DEF e
  <2>3. f \in FrameType
    BY <1>1, <1>2, <2>1 DEF FrameType, Phases
  <2>4. f.st = e /\ f.phase = "block"
    BY <1>2 DEF FrameType
  <2> HIDE DEF f
  <2>5. QED
    BY <2>1, <2>2, <2>3, <2>4 DEF GoodFrames, FrameOk, Good
<1>4. CASE ~s.ending
  <2> DEFINE f == [Top EXCEPT !.phase = "decode", !.st = s, !.prev = Top.pc, !.pc = NextPc]
  <2>1. Booked(Top, s) = f
    BY <1>4 DEF Booked
  <2>2. s \in FnState
    BY DEF Good
  <2> HIDE DEF NextPc
  <2>3. f \in FrameType
    BY <1>1, <1>2, <2>2 DEF FrameType, Phases
  <2>4. f.st = s /\ f.phase = "decode"
    BY <1>2 DEF FrameType
  <2> HIDE DEF f
  <2>5. QED
    BY <2>1, <2>3, <2>4 DEF GoodFrames, FrameOk, Good
<1>5. QED
  BY <1>3, <1>4

(* Booking an instruction the image decodes. *)
LEMMA AddedGood ==
    ASSUME IInv, At("book")
    PROVE  LET s == AddInstruction(Top.st, Top.pc, Here.size)
           IN  Good(s) /\ s.ins \subseteq DOMAIN img.ins
<1>1. Running /\ Top.pc \in DOMAIN img.ins
  BY TopFacts DEF At
<1>2. Top.pc \in Nat /\ Here.size \in Nat \ {0}
  BY <1>1, TopFacts, HereFacts
<1>3. Good(Top.st) /\ Top.st.ins \subseteq DOMAIN img.ins
  BY <1>1, TopFacts
<1>4. QED
  BY <1>1, <1>2, <1>3, AddInstructionGood

LEMMA BookSteps ==
    ASSUME IInv, Book
    PROVE  IInv'
<1>1. CASE BookFree
  <2> DEFINE s == AddInstruction(Top.st, Top.pc, Here.size)
  <2>1. At("book") /\ Running /\ Replace(Booked(Top, s))
    BY <1>1 DEF BookFree, At
  <2>2. Booked(Top, s) \in GoodFrames
    BY <2>1, AddedGood, BookedGood
  <2>3. QED
    BY <1>1, <2>1, <2>2, FramesStep DEF BookFree
<1>2. CASE BookAgain
  <2> DEFINE s == SetBlockEnding(Top.st)
  <2>1. At("book") /\ Running /\ Replace(Booked(Top, s))
    BY <1>2 DEF BookAgain, At
  <2>2. Good(s) /\ s.ins \subseteq DOMAIN img.ins
    BY <2>1, TopFacts, SetBlockEndingGood
  <2>3. Booked(Top, s) \in GoodFrames
    BY <2>1, <2>2, BookedGood
  <2>4. QED
    BY <1>2, <2>1, <2>3, FramesStep DEF BookAgain
<1>3. CASE BookOverGapFunction
  <2> DEFINE owner == dis.ins2fn[Top.pc]
             s == AddInstruction(Top.st, Top.pc, Here.size)
             b == Booked(Top, s)
             q == Append(Top.gapReverts, owner)
             f == [b EXCEPT !.gapReverts = q]
  <2>1. At("book") /\ Running /\ Replace(f)
    BY <1>3 DEF BookOverGapFunction, At
  <2>2. b \in GoodFrames
    BY <2>1, AddedGood, BookedGood
  <2>3. owner \in Nat
    BY <1>3 DEF BookOverGapFunction, IsCode, IInv, DisOk
  <2>4. Top.gapReverts \in Seq(Nat)
    BY <2>1, TopFacts DEF AddrList
  <2>5. q \in AddrList
    BY <2>3, <2>4, AppendProperties DEF AddrList
  <2> HIDE DEF b, q
  <2>6. f \in FrameType /\ f.st = b.st /\ f.phase = b.phase /\ f.pc = b.pc
                           /\ f.todo = b.todo
    BY <2>2, <2>5 DEF GoodFrames, FrameType
  <2>7. FrameOk(b)
    BY <2>2 DEF GoodFrames
  <2> HIDE DEF f
  <2>8. f \in GoodFrames
    BY <2>6, <2>7 DEF GoodFrames, FrameOk
  <2>9. frames' \in Seq(GoodFrames)
    BY <2>1, <2>8, ReplaceLast DEF IInv, Running, Replace
  <2>10. DisOk(dis') /\ FcmOk(fcm')
    BY <1>3, RevertStoredOk, AbortedOk DEF BookOverGapFunction, IInv
  <2>11. QED
    BY <1>3, <2>9, <2>10, InvariantKept DEF BookOverGapFunction, IInv
<1>4. CASE BookCollision
  <2> DEFINE e == SetBlockEnding(Top.st)
             s == AddCollision(e, Top.pc)
  <2>1. At("book") /\ Running /\ Replace(Booked(Top, s))
    BY <1>4 DEF BookCollision, At
  <2>2. Good(e) /\ e.ins = Top.st.ins /\ Top.pc \in Nat
    BY <2>1, TopFacts, SetBlockEndingGood
  <2> HIDE DEF e
  <2>3. Good(s) /\ s.ins \subseteq DOMAIN img.ins
    BY <2>1, <2>2, TopFacts, AddCollisionGood
  <2>4. Booked(Top, s) \in GoodFrames
    BY <2>1, <2>3, BookedGood
  <2>5. QED
    BY <1>4, <2>1, <2>4, FramesStep DEF BookCollision
<1>5. QED
  BY <1>1, <1>2, <1>3, <1>4 DEF Book

(* The end of an analysis that came to one. *)
LEMMA CompletedGood ==
    ASSUME IInv, Running
    PROVE  Concluding([Top EXCEPT !.completed = TRUE]) \in GoodFrames
<1> DEFINE f == [Top EXCEPT !.completed = TRUE]
<1>1. Top \in FrameType /\ FrameOk(Top)
  BY TopGood DEF FrameOk
<1>2. f \in FrameType /\ f.st = Top.st /\ f.phase = Top.phase /\ f.pc = Top.pc
                         /\ f.todo = Top.todo
  BY <1>1 DEF FrameType
<1> HIDE DEF f
<1>3. f \in GoodFrames
  BY <1>1, <1>2 DEF GoodFrames, FrameOk
<1>4. QED
  BY <1>3, ConcludingGood DEF f

(* A frame whose list of addresses to handle is replaced. *)
LEMMA ListedGood ==
    ASSUME IInv, Running, NEW q \in AddrList,
           NEW p \in Phases, p \notin {"dispatch", "book", "restoredGap"}
    PROVE  [Top EXCEPT !.phase = p, !.todo = q] \in GoodFrames
<1>1. Top \in FrameType
  BY TopGood DEF FrameOk
<1>2. [Top EXCEPT !.phase = p, !.todo = q, !.st = Top.st]
          = [Top EXCEPT !.phase = p, !.todo = q]
  BY <1>1 DEF FrameType
<1>3. [Top EXCEPT !.phase = p, !.todo = q, !.st = Top.st] \in GoodFrames
  BY TopFacts, TodoGood
<1>4. QED
  BY <1>2, <1>3

(* Resolved register calls name addresses of the image. *)
LEMMA ResolvedCallsOk ==
    ASSUME IInv, Running, NEW calls, calls = ResolvedCalls(Top.st)
    PROVE  FcmOk(WithResolvedCalls(fcm, calls))
<1> DEFINE addrs == {img.ins[a].target : a \in calls}
           sites == {<<a, img.ins[a].target>> : a \in calls}
<1>1. Top.st.regCalls \subseteq Nat
  BY TopFacts DEF Good, FnState
<1>2. img.extent \subseteq Nat
  BY ImageFacts DEF IInv
<1>3. addrs \in SUBSET Nat
  BY <1>2 DEF ResolvedCalls
<1>4. \A r \in sites : r[1] \in Nat
  BY <1>1 DEF ResolvedCalls
<1>5. WithResolvedCalls(fcm, calls) = AddCandidates(fcm, addrs, FALSE, sites)
  BY DEF WithResolvedCalls
<1> HIDE DEF addrs, sites
<1>6. QED
  BY <1>3, <1>4, <1>5, AddCandidatesOk DEF IInv

(* One function state more. *)
LEMMA WithNoted ==
    ASSUME NEW g, \A i \in DOMAIN g : FnNoted(g[i]), NEW k, NEW r, FnNoted(r)
    PROVE  \A i \in DOMAIN With(g, k, r) : FnNoted(With(g, k, r)[i])
BY DEF With, Over, Constantly

(* The tailcall pass learns of a finished function. *)
LEMMA FunctionNoted ==
    ASSUME NEW t, TcaOk(t), NEW k, NEW r, FnNoted(r)
    PROVE  TcaOk([jumps |-> t.jumps \cup t.tmp, tmp |-> {}, fns |-> With(t.fns, k, r),
                  calls |-> t.calls, created |-> t.created])
<1> DEFINE fns == With(t.fns, k, r)
           jumps == t.jumps \cup t.tmp
<1>1. jumps \in References /\ {} \in References
  BY DEF TcaOk, References
<1>2. \A i \in DOMAIN fns : FnNoted(fns[i])
  BY WithNoted DEF TcaOk
<1>3. (\A c \in t.calls : c.start \in Nat /\ c.to \in Nat) /\ t.created \subseteq Nat
  BY DEF TcaOk
<1> HIDE DEF fns, jumps
<1>4. TcaOk([jumps |-> jumps, tmp |-> {}, fns |-> fns, calls |-> t.calls,
             created |-> t.created])
  BY <1>1, <1>2, <1>3 DEF TcaOk
<1>5. QED
  BY <1>4 DEF fns, jumps

LEMMA ConcludeSteps ==
    ASSUME IInv, Conclude
    PROVE  IInv'
<1>1. CASE DecodeAgain
  <2> DEFINE f == [Top EXCEPT !.phase = "restoreGaps", !.todo = Top.gapReverts]
             c == Frame(Top.st.start, Top.asGap, TRUE, Top.st.table)
  <2>1. Running /\ Call(f, c)
    BY <1>1 DEF DecodeAgain, At
  <2>2. f \in GoodFrames
    BY <2>1, TopFacts, ListedGood DEF Phases
  <2>3. c \in GoodFrames
    BY <2>1, TopFacts, FrameGood
  <2> HIDE DEF f, c
  <2>4. frames' \in Seq(GoodFrames)
    BY <2>1, <2>2, <2>3, PushFrame DEF IInv, Running, Call
  <2>5. QED
    BY <1>1, <2>4, InvariantKept DEF DecodeAgain, IInv
<1>2. CASE KeepFunction
  <2>1. Running
    BY <1>2 DEF KeepFunction, At
  <2>2. frames' \in Seq(GoodFrames)
    BY <1>2, <2>1, CompletedGood, ReplaceLast DEF KeepFunction, IInv, Running, Replace
  <2>3. DisOk(dis')
    BY <1>2, <2>1, TopFacts, StoredOk DEF KeepFunction, IInv
  <2>4. FcmOk(fcm')
    BY <1>2, <2>1, ResolvedCallsOk DEF KeepFunction
  <2>5. TcaOk(tca')
    <3>1. CASE RESOLVE_TAILCALLS
      <4> DEFINE k == Max(DOMAIN tca.fns \cup {0}) + 1
                 r == [start |-> Top.st.start, ins |-> Top.st.ins,
                       refs |-> RefsAfterBlocks(Top.st, img.ins), isTailcall |-> FALSE]
      <4>1. tca' = [jumps |-> tca.jumps \cup tca.tmp, tmp |-> {}, fns |-> With(tca.fns, k, r),
                    calls |-> tca.calls, created |-> tca.created]
        BY <1>2, <3>1 DEF KeepFunction
      <4>2. FnNoted(r)
        BY <2>1, TopFacts DEF FnNoted
      <4> HIDE DEF k, r
      <4>3. QED
        BY <4>1, <4>2, FunctionNoted DEF IInv
    <3>2. CASE ~RESOLVE_TAILCALLS
      BY <1>2, <3>2 DEF KeepFunction, IInv
    <3>3. QED
      BY <3>1, <3>2
  <2>6. QED
    BY <1>2, <2>2, <2>3, <2>4, <2>5, InvariantKept DEF KeepFunction, IInv
<1>3. CASE RejectFunction
  BY <1>3, CompletedGood, FramesStep DEF RejectFunction, At
<1>4. CASE RestoreGapFunction
  <2>1. Running /\ Head(Top.todo) \in Nat /\ Tail(Top.todo) \in AddrList
    BY <1>4, TodoFacts DEF RestoreGapFunction, At
  <2>2. CASE IsCode(Head(Top.todo))
    <3> DEFINE f == [Top EXCEPT !.todo = Tail(Top.todo)]
    <3>1. Replace(f) /\ fcm' = fcm
      BY <1>4, <2>2 DEF RestoreGapFunction
    <3>2. f = [Top EXCEPT !.phase = "restoreGaps", !.todo = Tail(Top.todo)]
      BY <1>4, <2>1, TopGood DEF RestoreGapFunction, At, FrameOk, FrameType
    <3>3. f \in GoodFrames
      BY <2>1, <3>2, ListedGood DEF Phases
    <3>4. QED
      BY <1>4, <2>1, <3>1, <3>3, FramesStep DEF RestoreGapFunction
  <2>3. CASE ~IsCode(Head(Top.todo))
    <3> DEFINE f == [Top EXCEPT !.phase = "restoredGap"]
               c == Frame(Head(Top.todo), TRUE, FALSE, {})
    <3>1. Call(f, c) /\ fcm' = Unaborted(fcm, Head(Top.todo))
      BY <1>4, <2>3 DEF RestoreGapFunction
    <3>2. f \in GoodFrames
      BY <1>4, <2>1, PhasedGood DEF RestoreGapFunction, Phases
    <3>3. c \in GoodFrames
      BY <2>1, FrameGood
    <3> HIDE DEF f, c
    <3>4. frames' \in Seq(GoodFrames)
      BY <2>1, <3>1, <3>2, <3>3, PushFrame DEF IInv, Running, Call
    <3>5. FcmOk(fcm')
      BY <3>1, UnabortedOk DEF IInv
    <3>6. QED
      BY <1>4, <3>4, <3>5, InvariantKept DEF RestoreGapFunction, IInv
  <2>4. QED
    BY <2>2, <2>3
<1>5. CASE RestoredGapFunction
  <2> DEFINE f == [Top EXCEPT !.phase = "restoreGaps", !.todo = Tail(Top.todo)]
  <2>1. Running /\ Top.phase = "restoredGap" /\ Replace(f)
    BY <1>5 DEF RestoredGapFunction, At
  <2>2. Tail(Top.todo) \in AddrList
    BY <2>1, TopFacts, TodoFacts
  <2>3. f \in GoodFrames
    BY <2>1, <2>2, ListedGood DEF Phases
  <2> HIDE DEF f
  <2>4. frames' \in Seq(GoodFrames)
    BY <2>1, <2>3, ReplaceLast DEF IInv, Running, Replace
  <2>5. FcmOk(fcm')
    BY <1>5, AbortedOk DEF RestoredGapFunction, IInv
  <2>6. QED
    BY <1>5, <2>4, <2>5, InvariantKept DEF RestoredGapFunction, IInv
<1>6. CASE GapFunctionsRestored
  <2>1. Top \in GoodFrames /\ Running
    BY <1>6, TopGood DEF GapFunctionsRestored, At
  <2>2. QED
    BY <1>6, <2>1, ConcludingGood, FramesStep DEF GapFunctionsRestored
<1>7. CASE RestoreAbsorbed
  <2> DEFINE f == [Top EXCEPT !.todo = Tail(Top.todo)]
             c == Frame(Head(Top.todo), FALSE, FALSE, {})
  <2>1. Running /\ Head(Top.todo) \in Nat /\ Tail(Top.todo) \in AddrList
    BY <1>7, TodoFacts DEF RestoreAbsorbed, At
  <2>2. f = [Top EXCEPT !.phase = "restoreAbsorbed", !.todo = Tail(Top.todo)]
    BY <1>7, <2>1, TopGood DEF RestoreAbsorbed, At, FrameOk, FrameType
  <2>3. f \in GoodFrames
    BY <2>1, <2>2, ListedGood DEF Phases
  <2>4. CASE IsCode(Head(Top.todo))
    <3>1. Replace(f) /\ fcm' = fcm
      BY <1>7, <2>4 DEF RestoreAbsorbed
    <3>2. QED
      BY <1>7, <2>1, <2>3, <3>1, FramesStep DEF RestoreAbsorbed
  <2>5. CASE ~IsCode(Head(Top.todo))
    <3>1. Call(f, c) /\ fcm' = Unaborted(fcm, Head(Top.todo))
      BY <1>7, <2>5 DEF RestoreAbsorbed
    <3>2. c \in GoodFrames
      BY <2>1, FrameGood
    <3> HIDE DEF f, c
    <3>3. frames' \in Seq(GoodFrames)
      BY <2>1, <2>3, <3>1, <3>2, PushFrame DEF IInv, Running, Call
    <3>4. FcmOk(fcm')
      BY <3>1, UnabortedOk DEF IInv
    <3>5. QED
      BY <1>7, <3>3, <3>4, InvariantKept DEF RestoreAbsorbed, IInv
  <2>6. QED
    BY <2>4, <2>5
<1>8. CASE ReturnFromFunction
  <2>1. frames' \in Seq(GoodFrames)
    BY <1>8, PopFrame DEF IInv, ReturnFromFunction, At, Running, Return
  <2>2. FcmOk(fcm')
    BY <1>8, FinishedOk, UpdateCandidatesOk DEF ReturnFromFunction, IInv
  <2>3. QED
    BY <1>8, <2>1, <2>2, InvariantKept DEF IInv, ReturnFromFunction
<1>9. QED
  BY <1>1, <1>2, <1>3, <1>4, <1>5, <1>6, <1>7, <1>8 DEF Conclude

-----------------------------------------------------------------------------
(* The passes. *)

LEMMA CalledGood ==
    ASSUME NEW start \in Nat, NEW asGap \in BOOLEAN
    PROVE  <<Frame(start, asGap, FALSE, {})>> \in Seq(GoodFrames)
<1>1. Frame(start, asGap, FALSE, {}) \in GoodFrames
  BY FrameGood
<1>2. QED
  BY <1>1, SingleFrame

LEMMA DequeuedOk ==
    ASSUME NEW m, FcmOk(m), NEW c
    PROVE  FcmOk([m EXCEPT !.queue = m.queue \ {c}])
<1> DEFINE q == m.queue \ {c}
           r == [m EXCEPT !.queue = q]
<1>1. r = [candidates |-> m.candidates, offsets |-> m.offsets, queue |-> q,
           allCallRefs |-> m.allCallRefs]
  BY DEF FcmOk
<1>2. q \subseteq Nat
  BY DEF FcmOk
<1> HIDE DEF q
<1>3. FcmOk(r)
  BY <1>1, <1>2 DEF FcmOk
<1>4. QED
  BY <1>3 DEF q

(* A source registers addresses as candidates and as offsets. *)
LEMMA RegisteredOk ==
    ASSUME NEW m, FcmOk(m), NEW addrs \in SUBSET Nat
    PROVE  FcmOk([Ensured(m, addrs) EXCEPT !.offsets = Ensured(m, addrs).offsets \cup addrs])
<1> DEFINE e == Ensured(m, addrs)
           o == e.offsets \cup addrs
           r == [e EXCEPT !.offsets = o]
<1>1. FcmOk(e)
  BY EnsuredOk
<1> HIDE DEF e
<1>2. o \subseteq Nat
  BY <1>1 DEF FcmOk
<1> HIDE DEF o
<1>3. r = [candidates |-> e.candidates, offsets |-> o, queue |-> e.queue,
           allCallRefs |-> e.allCallRefs]
  BY <1>1 DEF FcmOk
<1>4. FcmOk(r)
  BY <1>1, <1>2, <1>3 DEF FcmOk
<1>5. QED
  BY <1>4 DEF o, e

(* A gap candidate is marked as one. *)
LEMMA GapMarkedOk ==
    ASSUME NEW m, FcmOk(m), NEW a \in Nat
    PROVE  FcmOk([Ensured(m, {a}) EXCEPT !.candidates[a].gap = TRUE])
<1> DEFINE e == Ensured(m, {a})
           v == [e.candidates[a] EXCEPT !.gap = TRUE]
<1>1. FcmOk(e) /\ a \in DOMAIN e.candidates
  BY EnsuredOk
<1> HIDE DEF e
<1>2. e.candidates[a] \in CandidateType
  BY <1>1 DEF FcmOk
<1>3. v \in CandidateType
  BY <1>2 DEF CandidateType
<1>4. [e EXCEPT !.candidates[a].gap = TRUE]
          = [e EXCEPT !.candidates = [e.candidates EXCEPT ![a] = v]]
  BY <1>1 DEF FcmOk
<1> HIDE DEF v
<1>5. FcmOk([e EXCEPT !.candidates[a].gap = TRUE])
  BY <1>1, <1>3, <1>4, CandidateSetOk
<1>6. QED
  BY <1>5 DEF e

LEMMA DrainFacts ==
    ASSUME Draining
    PROVE  AfterDrain[pass] \in Passes /\ AfterDrain[pass] \notin {"gapPoll", "gapJudge"}
BY DEF Draining, AfterDrain, Passes

LEMMA SourceFacts ==
    ASSUME Walking
    PROVE  AfterSource[pass] \in Passes /\ AfterSource[pass] \notin {"gapPoll", "gapJudge"}
BY DEF Walking, AfterSource, Passes

LEMMA OpenedKept ==
    ASSUME IInv, NEW start, NEW walking, NEW named \in Seq(Nat),
           walking \in Passes, walking \notin {"gapPoll", "gapJudge"},
           OpenSource(start, walking, named)
    PROVE  IInv'
<1> DEFINE accepted == {k \in DOMAIN named : ~IsCode(named[k])}
           starts == {named[k] : k \in accepted}
<1>1. /\ work' = {<<k, named[k]>> : k \in accepted}
      /\ fcm' = [Ensured(fcm, starts) EXCEPT !.offsets = Ensured(fcm, starts).offsets \cup starts]
  BY DEF OpenSource
<1>2. \A k \in accepted : k \in Nat /\ named[k] \in Nat
  OBVIOUS
<1> HIDE DEF accepted
<1>3. starts \in SUBSET Nat
  BY <1>2
<1>4. WorkOk(work')
  BY <1>1, <1>2 DEF WorkOk
<1> HIDE DEF starts
<1>5. FcmOk(fcm')
  BY <1>1, <1>3, RegisteredOk DEF IInv
<1>6. QED
  BY <1>4, <1>5, InvariantKept DEF OpenSource, IInv

LEMMA DiscoverSteps ==
    ASSUME IInv, Discover
    PROVE  IInv'
<1>1. CASE TakeCandidate
  <2>1. PICK c \in fcm.queue :
           /\ Dequeue(c)
           /\ IF Eligible(c)
              THEN NotTrips /\ frames' = <<Frame(c, FALSE, FALSE, {})>>
              ELSE UNCHANGED <<timeout, frames>>
    BY <1>1 DEF TakeCandidate
  <2>2. c \in Nat
    BY <2>1 DEF IInv, FcmOk
  <2>3. FcmOk(fcm')
    BY <2>1, DequeuedOk DEF Dequeue, IInv
  <2>4. frames' \in Seq(GoodFrames) /\ timeout' \in BOOLEAN
    <3>1. CASE Eligible(c)
      BY <2>1, <2>2, <3>1, CalledGood, PollType
    <3>2. CASE ~Eligible(c)
      BY <2>1, <3>2 DEF IInv
    <3>3. QED
      BY <3>1, <3>2
  <2>5. QED
    BY <1>1, <2>3, <2>4, InvariantKept DEF TakeCandidate, IInv
<1>2. CASE TimeoutInDrain
  <2>1. PICK c \in fcm.queue : Dequeue(c)
    BY <1>2 DEF TimeoutInDrain
  <2>2. FcmOk(fcm')
    BY <2>1, DequeuedOk DEF Dequeue, IInv
  <2>3. QED
    BY <1>2, <2>2, DrainFacts, PollType, InvariantKept DEF TimeoutInDrain, IInv
<1>3. CASE Drained
  BY <1>3, DrainFacts, InvariantKept DEF Drained, IInv
<1>4. CASE OpenDeferred
  <2>1. img.deferred \in Seq(Nat)
    BY ImageFacts DEF IInv
  <2>2. QED
    BY <1>4, <2>1, OpenedKept DEF OpenDeferred, Passes
<1>5. CASE OpenLate
  <2>1. img.late \in Seq(Nat)
    BY ImageFacts DEF IInv
  <2>2. QED
    BY <1>5, <2>1, OpenedKept DEF OpenLate, Passes
<1>6. CASE NextFromSource
  <2>1. PICK w \in work :
           /\ IF IsCode(w[2]) THEN UNCHANGED <<frames, timeout>>
              ELSE NotTrips /\ frames' = <<Frame(w[2], FALSE, FALSE, {})>>
           /\ work' = work \ {w}
    BY <1>6 DEF NextFromSource
  <2>2. w[2] \in Nat /\ WorkOk(work')
    BY <2>1 DEF IInv, WorkOk
  <2>3. frames' \in Seq(GoodFrames) /\ timeout' \in BOOLEAN
    <3>1. CASE IsCode(w[2])
      BY <2>1, <3>1 DEF IInv
    <3>2. CASE ~IsCode(w[2])
      BY <2>1, <2>2, <3>2, CalledGood, PollType
    <3>3. QED
      BY <3>1, <3>2
  <2>4. QED
    BY <1>6, <2>2, <2>3, InvariantKept DEF NextFromSource, IInv
<1>7. CASE TimeoutInSource
  <2>1. WorkOk(work')
    BY <1>7 DEF TimeoutInSource, WorkOk
  <2>2. QED
    BY <1>7, <2>1, SourceFacts, PollType, InvariantKept DEF TimeoutInSource, IInv
<1>8. CASE SourceExhausted
  BY <1>8, SourceFacts, InvariantKept DEF SourceExhausted, IInv
<1>9. CASE NextGap
  <2>1. PICK a \in img.extent :
           /\ cur' = a
           /\ gapPtr' = a + 1
           /\ fcm' = [Ensured(fcm, {a}) EXCEPT !.candidates[a].gap = TRUE]
    BY <1>9 DEF NextGap
  <2>2. a \in Nat
    BY ImageFacts DEF IInv
  <2>3. FcmOk(fcm')
    BY <2>1, <2>2, GapMarkedOk DEF IInv
  <2>4. cur' \in Nat /\ cur' \in MaybeAddr /\ gapPtr' \in Nat
    BY <2>1, <2>2 DEF MaybeAddr
  <2>5. QED
    BY <1>9, <2>3, <2>4, InvariantKept DEF NextGap, IInv, Passes
<1>10. CASE NoGapLeft
  BY <1>10, InvariantKept DEF NoGapLeft, IInv, Passes
<1>11. CASE AnalyzeGap
  <2>1. cur \in Nat
    BY <1>11 DEF AnalyzeGap, IInv
  <2>2. frames' \in Seq(GoodFrames)
    BY <1>11, <2>1, CalledGood DEF AnalyzeGap
  <2>3. QED
    BY <1>11, <2>1, <2>2, PollType, InvariantKept DEF AnalyzeGap, IInv, Passes
<1>12. CASE TimeoutInGaps
  <2>1. cur' \in MaybeAddr
    BY <1>12 DEF TimeoutInGaps, MaybeAddr
  <2>2. QED
    BY <1>12, <2>1, PollType, InvariantKept DEF TimeoutInGaps, IInv, Passes
<1>13. CASE JudgeGap
  <2>1. cur' \in MaybeAddr
    BY <1>13 DEF JudgeGap, MaybeAddr
  <2>2. FcmOk(fcm')
    BY <1>13, AbortedOk DEF JudgeGap, IInv
  <2>3. QED
    BY <1>13, <2>1, <2>2, InvariantKept DEF JudgeGap, IInv, Passes
<1>14. QED
  BY <1>1, <1>2, <1>3, <1>4, <1>5, <1>6, <1>7, <1>8, <1>9, <1>10, <1>11, <1>12, <1>13
     DEF Discover

(* The tailcall pass replaces its calls, its functions and its results one *)
(* at a time.                                                              *)
LEMMA CallsSetOk ==
    ASSUME NEW t, TcaOk(t), NEW cs, \A c \in cs : c.start \in Nat /\ c.to \in Nat
    PROVE  TcaOk([t EXCEPT !.calls = cs])
<1>1. [t EXCEPT !.calls = cs] = [jumps |-> t.jumps, tmp |-> t.tmp, fns |-> t.fns,
                                 calls |-> cs, created |-> t.created]
  BY DEF TcaOk
<1>2. QED
  BY <1>1 DEF TcaOk

LEMMA FnsSetOk ==
    ASSUME NEW t, TcaOk(t), NEW fns, \A i \in DOMAIN fns : FnNoted(fns[i])
    PROVE  TcaOk([t EXCEPT !.fns = fns])
<1>1. [t EXCEPT !.fns = fns] = [jumps |-> t.jumps, tmp |-> t.tmp, fns |-> fns,
                                calls |-> t.calls, created |-> t.created]
  BY DEF TcaOk
<1>2. QED
  BY <1>1 DEF TcaOk

LEMMA CreatedSetOk ==
    ASSUME NEW t, TcaOk(t), NEW addrs \in SUBSET Nat
    PROVE  TcaOk([t EXCEPT !.created = addrs])
<1>1. [t EXCEPT !.created = addrs] = [jumps |-> t.jumps, tmp |-> t.tmp, fns |-> t.fns,
                                      calls |-> t.calls, created |-> addrs]
  BY DEF TcaOk
<1>2. QED
  BY <1>1 DEF TcaOk

(* Tailcalls lie between addresses of jumps and functions. *)
LEMMA TailcallsIntoOk ==
    ASSUME NEW i \in DOMAIN tca.fns, TcaOk(tca)
    PROVE  \A c \in TailcallsInto(i) : c.start \in Nat /\ c.to \in Nat
<1>1. tca.fns[i].start \in Nat
  BY DEF TcaOk, FnNoted
<1>2. \A j \in tca.jumps : j[2] \in Nat
  BY DEF TcaOk, References
<1>3. QED
  BY <1>1, <1>2 DEF TailcallsInto

(* What the pass created is marked among the candidates. *)
LEMMA TailcallMarkedOk ==
    ASSUME NEW m, FcmOk(m), NEW addrs
    PROVE  FcmOk([m EXCEPT !.candidates = [c \in DOMAIN m.candidates |->
                     IF c \in addrs THEN [m.candidates[c] EXCEPT !.tailcall = TRUE]
                     ELSE m.candidates[c]]])
<1> DEFINE v(c) == [m.candidates[c] EXCEPT !.tailcall = TRUE]
           cs == [c \in DOMAIN m.candidates |-> IF c \in addrs THEN v(c) ELSE m.candidates[c]]
<1>1. ASSUME NEW c \in DOMAIN m.candidates
      PROVE  m.candidates[c] \in CandidateType /\ v(c) \in CandidateType
  <2>1. m.candidates[c] \in CandidateType
    BY DEF FcmOk
  <2>2. QED
    BY <2>1 DEF CandidateType
<1> HIDE DEF v
<1>2. cs \in [DOMAIN m.candidates -> CandidateType] /\ DOMAIN cs = DOMAIN m.candidates
  BY <1>1
<1>3. DOMAIN m.candidates \subseteq Nat
  BY DEF FcmOk
<1> HIDE DEF cs
<1>4. FcmOk([m EXCEPT !.candidates = cs])
  BY <1>2, <1>3, CandidatesOk
<1>5. QED
  BY <1>4 DEF cs, v

LEMMA NotedMarked ==
    ASSUME NEW r, FnNoted(r), NEW v
    PROVE  FnNoted([r EXCEPT !.isTailcall = v])
<1> DEFINE m == [start |-> r.start, ins |-> r.ins, refs |-> r.refs, isTailcall |-> v]
<1>1. [r EXCEPT !.isTailcall = v] = m
  BY DEF FnNoted
<1>2. FnNoted(m)
  BY DEF FnNoted
<1>3. QED
  BY <1>1, <1>2

LEMMA TailcallSteps ==
    ASSUME IInv, Tailcalls
    PROVE  IInv'
<1>0. TcaOk(tca) /\ \A c \in tca.calls : c.start \in Nat /\ c.to \in Nat
  BY DEF IInv, TcaOk
<1>1. CASE FindTailcalls
  <2> DEFINE cs == UNION {TailcallsInto(i) : i \in DOMAIN tca.fns}
  <2>1. \A c \in cs : c.start \in Nat /\ c.to \in Nat
    BY <1>0, TailcallsIntoOk
  <2>2. tca' = [tca EXCEPT !.calls = cs]
    BY <1>1 DEF FindTailcalls
  <2> HIDE DEF cs
  <2>3. TcaOk(tca')
    BY <1>0, <2>1, <2>2, CallsSetOk
  <2>4. QED
    BY <1>1, <2>3, InvariantKept DEF FindTailcalls, IInv, Passes
<1>2. CASE RepeatTailcall
  <2>1. PICK c \in tca.calls :
           /\ frames' = <<Frame(c.start, FALSE, FALSE, {})>>
           /\ tca' = [tca EXCEPT !.calls = tca.calls \ {c}]
    BY <1>2 DEF RepeatTailcall
  <2>2. frames' \in Seq(GoodFrames)
    BY <1>0, <2>1, CalledGood
  <2>3. TcaOk(tca')
    BY <1>0, <2>1, CallsSetOk
  <2>4. QED
    BY <1>2, <2>2, <2>3, PollType, InvariantKept DEF RepeatTailcall, IInv
<1>3. CASE SplitAtTailcall
  <2>1. PICK c \in tca.calls, i \in DOMAIN tca.fns :
           /\ dis' = Reverted(dis, c.start, tca.fns[i].ins, tca.fns[i].refs)
           /\ tca' = [tca EXCEPT !.fns = Without(tca.fns, {i})]
           /\ frames' = <<Frame(c.to, FALSE, FALSE, {})>>
    BY <1>3 DEF SplitAtTailcall
  <2>2. frames' \in Seq(GoodFrames)
    BY <1>0, <2>1, CalledGood
  <2>3. DisOk(dis')
    BY <2>1, RevertedOk DEF IInv
  <2>4. \A k \in DOMAIN Without(tca.fns, {i}) : FnNoted(Without(tca.fns, {i})[k])
    BY <1>0 DEF TcaOk, Without
  <2>5. TcaOk(tca')
    BY <1>0, <2>1, <2>4, FnsSetOk
  <2>6. QED
    BY <1>3, <2>2, <2>3, <2>5, PollType, InvariantKept DEF SplitAtTailcall, IInv, Passes
<1>4. CASE AfterTailcallTarget
  <2>1. PICK c \in tca.calls :
           IF SplitRemains(c)
           THEN /\ frames' = <<Frame(c.start, FALSE, FALSE, {})>>
                /\ pass' = "tailcallMark"
                /\ tca' = [tca EXCEPT !.created = tca.created \cup {c.to}]
           ELSE /\ frames' = frames
                /\ pass' = "tailcall"
                /\ tca' = [tca EXCEPT !.created = tca.created \cup {c.to},
                                      !.calls = tca.calls \ {c}]
    BY <1>4 DEF AfterTailcallTarget
  <2>2. c.start \in Nat /\ tca.created \cup {c.to} \in SUBSET Nat
    BY <1>0, <2>1 DEF TcaOk
  <2>3. CASE SplitRemains(c)
    <3>1. frames' \in Seq(GoodFrames)
      BY <2>1, <2>2, <2>3, CalledGood
    <3>2. TcaOk(tca')
      BY <1>0, <2>1, <2>2, <2>3, CreatedSetOk
    <3>3. QED
      BY <1>4, <2>1, <2>3, <3>1, <3>2, InvariantKept DEF AfterTailcallTarget, IInv, Passes
  <2>4. CASE ~SplitRemains(c)
    <3> DEFINE created == tca.created \cup {c.to}
               t == [tca EXCEPT !.created = created]
               cs == tca.calls \ {c}
    <3>1. TcaOk(t)
      BY <1>0, <2>2, CreatedSetOk
    <3>2. \A d \in cs : d.start \in Nat /\ d.to \in Nat
      BY <1>0
    <3>3. TcaOk([t EXCEPT !.calls = cs])
      <4> HIDE DEF t, cs
      <4>1. QED
        BY <3>1, <3>2, CallsSetOk
    <3>4. tca' = [t EXCEPT !.calls = cs]
      BY <2>1, <2>4
    <3>5. TcaOk(tca')
      BY <3>3, <3>4
    <3>6. frames' \in Seq(GoodFrames)
      BY <2>1, <2>4 DEF IInv
    <3>7. QED
      BY <1>4, <2>1, <2>4, <3>5, <3>6, InvariantKept DEF AfterTailcallTarget, IInv, Passes
  <2>5. QED
    BY <2>3, <2>4
<1>5. CASE MarkTailcallFunction
  <2>1. PICK c \in tca.calls :
           tca' = [tca EXCEPT !.calls = tca.calls \ {c}, !.fns = Marked(tca.fns, c.start)]
    BY <1>5 DEF MarkTailcallFunction
  <2> DEFINE cs == tca.calls \ {c}
             t == [tca EXCEPT !.calls = cs]
             fns == Marked(tca.fns, c.start)
  <2>2. TcaOk(t)
    BY <1>0, CallsSetOk
  <2>3. ASSUME NEW i \in DOMAIN fns
        PROVE  FnNoted(fns[i])
    <3>1. i \in DOMAIN tca.fns /\ FnNoted(tca.fns[i])
      BY <1>0, <2>3 DEF TcaOk, Marked
    <3>2. FnNoted([tca.fns[i] EXCEPT !.isTailcall = TRUE])
      BY <3>1, NotedMarked
    <3>3. \/ fns[i] = tca.fns[i]
          \/ fns[i] = [tca.fns[i] EXCEPT !.isTailcall = TRUE]
      BY <3>1 DEF Marked
    <3>4. QED
      BY <3>1, <3>2, <3>3
  <2>4. TcaOk([t EXCEPT !.fns = fns])
    <3> HIDE DEF t, fns
    <3>1. QED
      BY <2>2, <2>3, FnsSetOk
  <2>5. TcaOk(tca')
    BY <2>1, <2>4
  <2>6. QED
    BY <1>5, <2>5, InvariantKept DEF MarkTailcallFunction, IInv, Passes
<1>6. CASE TimeoutInTailcalls
  <2>1. TcaOk([tca EXCEPT !.calls = {}])
    BY <1>0, CallsSetOk
  <2>2. QED
    BY <1>6, <2>1, PollType, InvariantKept DEF TimeoutInTailcalls, IInv
<1>7. CASE TailcallsResolved
  <2> DEFINE e == Ensured(fcm, tca.created)
  <2>1. tca.created \in SUBSET Nat
    BY <1>0 DEF TcaOk
  <2>2. FcmOk(e)
    BY <2>1, EnsuredOk DEF IInv
  <2>3. fcm' = [e EXCEPT !.candidates = [c \in DOMAIN e.candidates |->
                   IF c \in tca.created THEN [e.candidates[c] EXCEPT !.tailcall = TRUE]
                   ELSE e.candidates[c]]]
    BY <1>7 DEF TailcallsResolved
  <2> HIDE DEF e
  <2>4. FcmOk(fcm')
    BY <2>2, <2>3, TailcallMarkedOk
  <2>5. QED
    BY <1>7, <2>4, InvariantKept DEF TailcallsResolved, IInv, Passes
<1>8. QED
  BY <1>1, <1>2, <1>3, <1>4, <1>5, <1>6, <1>7 DEF Tailcalls

LEMMA FinishStep ==
    ASSUME IInv, Finish
    PROVE  IInv'
BY PollType, InvariantKept DEF Finish, IInv, Passes

LEMMA DoneStep ==
    ASSUME IInv, UNCHANGED vars
    PROVE  IInv'
BY InvariantKept DEF vars, IInv

-----------------------------------------------------------------------------
(* The invariant. *)

(* Before the first pass: the candidates of the reference scan, no results. *)
LEMMA InitGood ==
    ASSUME Init
    PROVE  IInv
<1>1. img \in Images
  BY DEF Init
<1>2. /\ img.candidates \subseteq Nat
      /\ \A r \in img.callRefs : r \in Nat \X Nat
  BY <1>1, ImageFacts
<1>3. FcmOk(fcm)
  <2> DEFINE sites(c) == {r[1] : r \in {x \in img.callRefs : x[2] = c}}
             v(c) == [NewCandidate EXCEPT !.callRefs = sites(c)]
             cs == [c \in img.candidates |-> v(c)]
  <2>1. ASSUME NEW c \in img.candidates
        PROVE  v(c) \in CandidateType
    <3>1. sites(c) \in SUBSET Nat
      BY <1>2
    <3>2. NewCandidate \in CandidateType
      BY DEF NewCandidate, CandidateType
    <3> HIDE DEF sites
    <3>3. QED
      BY <3>1, <3>2 DEF CandidateType
  <2>2. /\ fcm.candidates = cs /\ fcm.offsets = img.candidates /\ fcm.queue = img.candidates
        /\ fcm = [candidates |-> fcm.candidates, offsets |-> fcm.offsets,
                  queue |-> fcm.queue, allCallRefs |-> fcm.allCallRefs]
    BY DEF Init, Scanned
  <2> HIDE DEF v
  <2>3. cs \in [img.candidates -> CandidateType] /\ DOMAIN cs = img.candidates
    BY <2>1
  <2> HIDE DEF cs
  <2>4. QED
    BY <1>2, <2>2, <2>3 DEF FcmOk
<1>4. DisOk(dis)
  BY DEF Init, EmptyResult, DisOk
<1>5. TcaOk(tca)
  BY DEF Init, TcaOk, References
<1>6. frames \in Seq(GoodFrames)
  BY DEF Init
<1>7. WorkOk(work) /\ pass \in Passes /\ pass \notin {"gapPoll", "gapJudge"}
  BY DEF Init, WorkOk, Passes
<1>8. cur \in MaybeAddr /\ gapPtr \in Nat /\ timeout \in BOOLEAN
  BY DEF Init, MaybeAddr
<1>9. QED
  BY <1>1, <1>3, <1>4, <1>5, <1>6, <1>7, <1>8 DEF IInv

LEMMA NextGood ==
    ASSUME IInv, [Next]_vars
    PROVE  IInv'
<1>1. CASE Decode
  BY <1>1, DecodeSteps
<1>2. CASE Analyze
  BY <1>2, AnalyzeSteps
<1>3. CASE Book
  BY <1>3, BookSteps
<1>4. CASE Conclude
  BY <1>4, ConcludeSteps
<1>5. CASE Discover
  BY <1>5, DiscoverSteps
<1>6. CASE Tailcalls
  BY <1>6, TailcallSteps
<1>7. CASE Finish
  BY <1>7, FinishStep
<1>8. CASE Done
  BY <1>8, DoneStep DEF Done
<1>9. CASE UNCHANGED vars
  BY <1>9, DoneStep
<1>10. QED
  BY <1>1, <1>2, <1>3, <1>4, <1>5, <1>6, <1>7, <1>8, <1>9 DEF Next

(***************************************************************************)
(* The strengthened invariant holds in every state of every analysis: the  *)
(* induction the theorems below rest on.                                   *)
(***************************************************************************)
THEOREM Invariance == Spec => []IInv
<1>1. Init => IInv
  BY InitGood
<1>2. IInv /\ [Next]_vars => IInv'
  BY NextGood
<1>3. QED
  BY <1>1, <1>2, PTL DEF Spec

LEMMA TypeImplied ==
    ASSUME IInv
    PROVE  TypeOK
<1>1. frames \in Seq(FrameType)
  <2>1. Len(frames) \in Nat /\ frames \in [1..Len(frames) -> GoodFrames]
    BY DEF IInv
  <2>2. frames \in [1..Len(frames) -> FrameType]
    BY <2>1 DEF GoodFrames
  <2>3. QED
    BY <2>1, <2>2, SeqDef
<1>2. DOMAIN dis.functions \cup DOMAIN dis.ins2fn \cup dis.instructions \cup dis.dataMap
         \subseteq Nat
  BY DEF IInv, DisOk
<1>3. DOMAIN fcm.candidates \cup fcm.offsets \cup fcm.queue \subseteq Nat
  BY DEF IInv, FcmOk
<1>4. \A c \in DOMAIN fcm.candidates : fcm.candidates[c] \in CandidateType
  BY DEF IInv, FcmOk
<1>5. \A w \in work : w \in Nat \X Nat
  BY DEF IInv, WorkOk
<1>6. /\ \A i \in DOMAIN tca.fns : tca.fns[i].start \in Nat
      /\ \A c \in tca.calls : c.start \in Nat /\ c.to \in Nat
      /\ tca.jumps \cup tca.tmp \subseteq Nat \X Nat
  BY DEF IInv, TcaOk, FnNoted, References
<1>7. pass \in Passes /\ cur \in Nat \cup {NoAddr} /\ gapPtr \in Nat /\ timeout \in BOOLEAN
  BY DEF IInv, MaybeAddr
<1>8. QED
  BY <1>1, <1>2, <1>3, <1>4, <1>5, <1>6, <1>7 DEF TypeOK

LEMMA FramesImplied ==
    ASSUME IInv
    PROVE  FramesOk
<1>1. \A i \in DOMAIN frames : frames[i] \in GoodFrames
  BY DEF IInv
<1>2. QED
  BY <1>1 DEF FramesOk, GoodFrames, FrameOk

(***************************************************************************)
(* Every variable keeps its type, for every image and every budget.        *)
(***************************************************************************)
THEOREM TypeCorrect == Spec => []TypeOK
<1>1. IInv => TypeOK
  BY TypeImplied
<1>2. QED
  BY <1>1, Invariance, PTL

(***************************************************************************)
(* Every analysis in progress keeps its block queue, its jump references   *)
(* and its highest instruction in step: whatever the image holds, and      *)
(* however calls nest while functions are absorbed, reverted and restored. *)
(***************************************************************************)
THEOREM FramesConsistent == Spec => []FramesOk
<1>1. IInv => FramesOk
  BY FramesImplied
<1>2. QED
  BY <1>1, Invariance, PTL

(***************************************************************************)
(* What the analysis works on is sound after every step: types hold, and   *)
(* every state of a function agrees with itself.                           *)
(***************************************************************************)
THEOREM EngineConsistent == Spec => []Consistent
<1>1. TypeOK /\ FramesOk => Consistent
  BY DEF Consistent
<1>2. QED
  BY <1>1, TypeCorrect, FramesConsistent, PTL

-----------------------------------------------------------------------------
(* The budget. *)

Stopping ==
    /\ timeout'
    /\ frames = <<>> /\ frames' # <<>> => pass = "tailcallTarget"

(* A poll answers with the latched verdict for good. *)
LEMMA Latched ==
    ASSUME timeout
    PROVE  ~NotTrips /\ (Trips => timeout')
BY DEF NotTrips, Trips

LEMMA StopStep ==
    ASSUME Next, timeout
    PROVE  Stopping
<1>1. CASE Decode
  <2>1. Running
    BY <1>1 DEF Decode, Enter, Refuse, ChooseBlock, TimeoutInFunction, NoBlockLeft, RunsOut,
                CutAtTable, AbortSuspicious, CutAtLandingPad, CutAtPadding, Classifiable, At
  <2>2. timeout'
    BY <1>1, Latched DEF Decode, Enter, Refuse, ChooseBlock, TimeoutInFunction, NoBlockLeft,
                RunsOut, CutAtTable, AbortSuspicious, CutAtLandingPad, CutAtPadding
  <2>3. QED
    BY <2>1, <2>2 DEF Running, Stopping
<1>2. CASE Analyze
  <2>1. Running
    BY <1>2 DEF Analyze, AnalyzePlain, AnalyzeCall, AnalyzeRegisterCall, AnalyzeLoop,
                AnalyzeReturn, AnalyzeJmp, AnalyzeCondJmp, AnalyzeCondJmpAbsorbing,
                AnalyzeTableJmp, DispatchCase, Dispatched, Classifiable, At
  <2>2. timeout'
    BY <1>2 DEF Analyze, AnalyzePlain, AnalyzeCall, AnalyzeRegisterCall, AnalyzeLoop,
                AnalyzeReturn, AnalyzeJmp, AnalyzeCondJmp, AnalyzeCondJmpAbsorbing,
                AnalyzeTableJmp, DispatchCase, Dispatched
  <2>3. QED
    BY <2>1, <2>2 DEF Running, Stopping
<1>3. CASE Book
  <2>1. Running /\ timeout'
    BY <1>3 DEF Book, BookFree, BookAgain, BookOverGapFunction, BookCollision, At
  <2>2. QED
    BY <2>1 DEF Running, Stopping
<1>4. CASE Conclude
  <2>1. Running /\ timeout'
    BY <1>4 DEF Conclude, DecodeAgain, KeepFunction, RejectFunction, RestoreGapFunction,
                RestoredGapFunction, GapFunctionsRestored, RestoreAbsorbed,
                ReturnFromFunction, At
  <2>2. QED
    BY <2>1 DEF Running, Stopping
<1>5. CASE Discover
  <2>1. timeout' /\ frames' = frames
    <3>1. CASE TakeCandidate
      <4>1. PICK c \in fcm.queue :
               IF Eligible(c) THEN NotTrips ELSE UNCHANGED <<timeout, frames>>
        BY <3>1 DEF TakeCandidate
      <4>2. QED
        BY <4>1, Latched
    <3>2. CASE NextFromSource
      <4>1. PICK w \in work :
               IF IsCode(w[2]) THEN UNCHANGED <<frames, timeout>> ELSE NotTrips
        BY <3>2 DEF NextFromSource
      <4>2. QED
        BY <4>1, Latched
    <3>3. CASE TimeoutInDrain \/ TimeoutInSource \/ TimeoutInGaps
      BY <3>3, Latched DEF TimeoutInDrain, TimeoutInSource, TimeoutInGaps
    <3>4. CASE AnalyzeGap
      BY <3>4, Latched DEF AnalyzeGap
    <3>5. CASE OpenDeferred \/ OpenLate
      BY <3>5 DEF OpenDeferred, OpenLate, OpenSource
    <3>6. CASE Drained \/ SourceExhausted \/ NextGap \/ NoGapLeft \/ JudgeGap
      BY <3>6 DEF Drained, SourceExhausted, NextGap, NoGapLeft, JudgeGap
    <3>7. QED
      BY <1>5, <3>1, <3>2, <3>3, <3>4, <3>5, <3>6 DEF Discover
  <2>2. QED
    BY <2>1 DEF Stopping
<1>6. CASE Tailcalls
  <2>1. CASE RepeatTailcall \/ SplitAtTailcall
    BY <2>1, Latched DEF RepeatTailcall, SplitAtTailcall
  <2>2. CASE AfterTailcallTarget
    BY <2>2 DEF AfterTailcallTarget, Stopping
  <2>3. CASE FindTailcalls \/ MarkTailcallFunction \/ TimeoutInTailcalls \/ TailcallsResolved
    BY <2>3, Latched DEF FindTailcalls, MarkTailcallFunction, TimeoutInTailcalls,
                         TailcallsResolved, Stopping
  <2>4. QED
    BY <1>6, <2>1, <2>2, <2>3 DEF Tailcalls
<1>7. CASE Finish
  BY <1>7, Latched DEF Finish, Stopping
<1>8. CASE Done
  BY <1>8 DEF Done, vars, Stopping
<1>9. QED
  BY <1>1, <1>2, <1>3, <1>4, <1>5, <1>6, <1>7, <1>8 DEF Next

(***************************************************************************)
(* A budget that is spent stays spent at every poll of every pass, and no  *)
(* analysis begins afterwards but the one of what a split left.            *)
(***************************************************************************)
THEOREM BudgetRespected == Spec => StopsAfterTimeout
<1>1. ASSUME [Next]_vars
      PROVE  [timeout => Stopping]_vars
  BY <1>1, StopStep
<1>2. QED
  BY <1>1, PTL DEF Spec, StopsAfterTimeout, Stopping

-----------------------------------------------------------------------------
(* The candidates when the analysis is over. *)

(* The last drain leaves an empty queue or a spent budget, and what comes   *)
(* after it starts no analysis that could fill the queue again.             *)
QueueSettled ==
    pass \in {"finish", "done"} => frames = <<>> /\ (timeout \/ fcm.queue = {})

LEMMA RunningSteps ==
    ASSUME Decode \/ Analyze \/ Book \/ Conclude
    PROVE  Running /\ pass' = pass
<1>1. CASE Decode
  BY <1>1 DEF Decode, Enter, Refuse, ChooseBlock, TimeoutInFunction, NoBlockLeft, RunsOut,
              CutAtTable, AbortSuspicious, CutAtLandingPad, CutAtPadding, Classifiable, At
<1>2. CASE Analyze
  BY <1>2 DEF Analyze, AnalyzePlain, AnalyzeCall, AnalyzeRegisterCall, AnalyzeLoop,
              AnalyzeReturn, AnalyzeJmp, AnalyzeCondJmp, AnalyzeCondJmpAbsorbing,
              AnalyzeTableJmp, DispatchCase, Dispatched, Classifiable, At
<1>3. CASE Book
  BY <1>3 DEF Book, BookFree, BookAgain, BookOverGapFunction, BookCollision, At
<1>4. CASE Conclude
  BY <1>4 DEF Conclude, DecodeAgain, KeepFunction, RejectFunction, RestoreGapFunction,
              RestoredGapFunction, GapFunctionsRestored, RestoreAbsorbed,
              ReturnFromFunction, At
<1>5. QED
  BY <1>1, <1>2, <1>3, <1>4

LEMMA SettledStep ==
    ASSUME QueueSettled, [Next]_vars
    PROVE  QueueSettled'
<1> SUFFICES ASSUME pass' \in {"finish", "done"}
             PROVE  frames' = <<>> /\ (timeout' \/ fcm'.queue = {})
  BY DEF QueueSettled
<1>1. CASE Decode \/ Analyze \/ Book \/ Conclude
  BY <1>1, RunningSteps DEF QueueSettled, Running
<1>2. CASE Discover
  <2>1. CASE Drained
    BY <2>1 DEF Drained, Draining, Running
  <2>2. CASE TimeoutInDrain
    BY <2>2 DEF TimeoutInDrain, Draining, Running, Trips
  <2>3. CASE TakeCandidate
    BY <2>3 DEF TakeCandidate, Draining, AfterDrain
  <2>4. CASE OpenDeferred \/ OpenLate
    BY <2>4 DEF OpenDeferred, OpenLate, OpenSource
  <2>5. CASE NextFromSource
    BY <2>5 DEF NextFromSource, Walking, AfterSource
  <2>6. CASE TimeoutInSource \/ SourceExhausted
    BY <2>6 DEF TimeoutInSource, SourceExhausted, Walking, AfterSource
  <2>7. CASE NextGap \/ NoGapLeft \/ AnalyzeGap \/ TimeoutInGaps \/ JudgeGap
    BY <2>7 DEF NextGap, NoGapLeft, AnalyzeGap, TimeoutInGaps, JudgeGap
  <2>8. QED
    BY <1>2, <2>1, <2>2, <2>3, <2>4, <2>5, <2>6, <2>7 DEF Discover
<1>3. CASE Tailcalls
  <2>1. pass' \in {"tailcall", "tailcallTarget", "tailcallMark", "tailcallDrain"}
    BY <1>3 DEF Tailcalls, FindTailcalls, RepeatTailcall, SplitAtTailcall, AfterTailcallTarget,
                MarkTailcallFunction, TimeoutInTailcalls, TailcallsResolved, AtTailcall
  <2>2. QED
    BY <2>1
<1>4. CASE Finish
  BY <1>4 DEF Finish, QueueSettled, NotTrips, Trips
<1>5. CASE UNCHANGED vars
  BY <1>5 DEF QueueSettled, vars
<1>6. QED
  BY <1>1, <1>2, <1>3, <1>4, <1>5 DEF Next, Done

(***************************************************************************)
(* With budget left no candidate is left in the queue when the report is   *)
(* made: every pass that may add one is followed by a drain.               *)
(***************************************************************************)
THEOREM CandidatesDecided == Spec => []CandidatesAreDecided
<1>1. Init => QueueSettled
  BY DEF Init, QueueSettled
<1>2. QueueSettled => CandidatesAreDecided
  BY DEF QueueSettled, CandidatesAreDecided
<1>3. QED
  BY <1>1, <1>2, SettledStep, PTL DEF Spec

-----------------------------------------------------------------------------
(* What is undone. *)

TailcallPasses == {"tailcallStart", "tailcall", "tailcallTarget", "tailcallMark",
                   "tailcallDrain"}

(* The tailcall passes run only where the configuration asks for them.      *)
Unsplit == pass \notin TailcallPasses

LEMMA UnsplitStep ==
    ASSUME ~RESOLVE_TAILCALLS, Unsplit, [Next]_vars
    PROVE  Unsplit'
<1>1. CASE Decode \/ Analyze \/ Book \/ Conclude
  BY <1>1, RunningSteps DEF Unsplit
<1>2. CASE Discover
  <2>1. CASE Drained \/ TimeoutInDrain
    <3>1. pass \in {"heuristic", "gapDrain", "lateDrain"} /\ pass' = AfterDrain[pass]
      BY <2>1 DEF Drained, TimeoutInDrain, Draining, AfterDrain, Unsplit, TailcallPasses
    <3>2. AfterDrain[pass] \in {"deferredStart", "lateStart", "finish"}
      BY <3>1 DEF AfterDrain
    <3>3. QED
      BY <3>1, <3>2 DEF Unsplit, TailcallPasses
  <2>2. CASE TakeCandidate \/ NextFromSource
    BY <2>2 DEF TakeCandidate, NextFromSource, Unsplit
  <2>3. CASE OpenDeferred \/ OpenLate
    BY <2>3 DEF OpenDeferred, OpenLate, OpenSource, Unsplit, TailcallPasses
  <2>4. CASE TimeoutInSource \/ SourceExhausted
    BY <2>4 DEF TimeoutInSource, SourceExhausted, Walking, AfterSource, Unsplit, TailcallPasses
  <2>5. CASE NextGap \/ NoGapLeft \/ AnalyzeGap \/ TimeoutInGaps \/ JudgeGap
    BY <2>5 DEF NextGap, NoGapLeft, AnalyzeGap, TimeoutInGaps, JudgeGap, Unsplit,
                TailcallPasses
  <2>6. QED
    BY <1>2, <2>1, <2>2, <2>3, <2>4, <2>5 DEF Discover
<1>3. CASE Tailcalls
  BY <1>3 DEF Tailcalls, FindTailcalls, RepeatTailcall, SplitAtTailcall, AfterTailcallTarget,
              MarkTailcallFunction, TimeoutInTailcalls, TailcallsResolved, AtTailcall, Unsplit,
              TailcallPasses
<1>4. CASE Finish
  BY <1>4 DEF Finish, Unsplit, TailcallPasses
<1>5. CASE UNCHANGED vars
  BY <1>5 DEF Unsplit, vars
<1>6. QED
  BY <1>1, <1>2, <1>3, <1>4, <1>5 DEF Next, Done

LEMMA UnsplitAlways ==
    ASSUME ~RESOLVE_TAILCALLS
    PROVE  Spec => []Unsplit
<1>1. Init => Unsplit
  BY DEF Init, Unsplit, TailcallPasses
<1>2. Unsplit /\ [Next]_vars => Unsplit'
  BY UnsplitStep
<1>3. QED
  BY <1>1, <1>2, PTL DEF Spec

(* Outside the tailcall passes the result changes in three ways: a function *)
(* is absorbed, one of the gap scan gives way, and one is stored.           *)
LEMMA ResultChanges ==
    ASSUME Unsplit, [Next]_vars, dis' # dis
    PROVE  AnalyzeCondJmpAbsorbing \/ BookOverGapFunction \/ KeepFunction
<1>1. CASE Decode
  BY <1>1 DEF Decode, Enter, Refuse, ChooseBlock, TimeoutInFunction, NoBlockLeft, RunsOut,
              CutAtTable, AbortSuspicious, CutAtLandingPad, CutAtPadding
<1>2. CASE Analyze
  BY <1>2 DEF Analyze, AnalyzePlain, AnalyzeCall, AnalyzeRegisterCall, AnalyzeLoop,
              AnalyzeReturn, AnalyzeJmp, AnalyzeCondJmp, AnalyzeTableJmp, DispatchCase,
              Dispatched
<1>3. CASE Book
  BY <1>3 DEF Book, BookFree, BookAgain, BookCollision
<1>4. CASE Conclude
  BY <1>4 DEF Conclude, DecodeAgain, RejectFunction, RestoreGapFunction, RestoredGapFunction,
              GapFunctionsRestored, RestoreAbsorbed, ReturnFromFunction
<1>5. CASE Discover
  BY <1>5 DEF Discover, TakeCandidate, TimeoutInDrain, Drained, OpenDeferred, OpenLate,
              OpenSource, NextFromSource, TimeoutInSource, SourceExhausted, NextGap,
              NoGapLeft, AnalyzeGap, TimeoutInGaps, JudgeGap
<1>6. CASE Tailcalls
  BY <1>6 DEF Tailcalls, FindTailcalls, RepeatTailcall, SplitAtTailcall, AfterTailcallTarget,
              MarkTailcallFunction, TimeoutInTailcalls, TailcallsResolved, AtTailcall, Unsplit,
              TailcallPasses
<1>7. CASE Finish
  BY <1>7 DEF Finish
<1>8. CASE UNCHANGED vars
  BY <1>8 DEF vars
<1>9. QED
  BY <1>1, <1>2, <1>3, <1>4, <1>5, <1>6, <1>7, <1>8 DEF Next, Done

(* Undoing a function undoes no other one.                                  *)
LEMMA RevertedFunctions ==
    ASSUME NEW d, NEW fn, NEW ins, NEW refs
    PROVE  /\ DOMAIN Reverted(d, fn, ins, refs).functions = DOMAIN d.functions \ {fn}
           /\ \A g \in DOMAIN d.functions \ {fn} :
                 Reverted(d, fn, ins, refs).functions[g] = d.functions[g]
BY DEF Reverted, Without

LEMMA StoredFunctions ==
    ASSUME NEW d, NEW s
    PROVE  DOMAIN Stored(d, s).functions = {s.start} \cup DOMAIN d.functions
<1>1. Stored(d, s).functions = With(d.functions, s.start, GetBlocks(s, img.ins))
  BY DEF Stored
<1>2. \A v : DOMAIN With(d.functions, s.start, v) = {s.start} \cup DOMAIN d.functions
  BY WithFacts
<1>3. QED
  BY <1>1, <1>2

PadsStayNow == \A fn \in DOMAIN dis.functions \cap img.pads : fn \in DOMAIN dis'.functions

LEMMA PadsStep ==
    ASSUME Unsplit, [Next]_vars
    PROVE  PadsStayNow
<1>1. CASE dis' = dis
  BY <1>1 DEF PadsStayNow
<1>2. CASE AnalyzeCondJmpAbsorbing
  <2>1. /\ dis' = RevertStored(dis, Here.target, TRUE)
        /\ Absorbs(Here.target)
    BY <1>2 DEF AnalyzeCondJmpAbsorbing
  <2>2. Here.target \notin img.pads
    BY <2>1 DEF Absorbs, IsEvidencedEntry, HasEntryEvidence
  <2>3. DOMAIN dis'.functions = DOMAIN dis.functions \ {Here.target}
    BY <2>1, RevertedFunctions DEF RevertStored
  <2>4. QED
    BY <2>2, <2>3 DEF PadsStayNow
<1>3. CASE BookOverGapFunction
  <2>1. /\ dis' = RevertStored(dis, dis.ins2fn[Top.pc], FALSE)
        /\ dis.ins2fn[Top.pc] \notin img.pads
    BY <1>3 DEF BookOverGapFunction, RevertsGapFunction
  <2>2. DOMAIN dis'.functions = DOMAIN dis.functions \ {dis.ins2fn[Top.pc]}
    BY <2>1, RevertedFunctions DEF RevertStored
  <2>3. QED
    BY <2>1, <2>2 DEF PadsStayNow
<1>4. CASE KeepFunction
  <2>1. dis' = Stored(dis, Top.st) \/ dis' = dis
    BY <1>4 DEF KeepFunction
  <2>2. QED
    BY <2>1, StoredFunctions DEF PadsStayNow
<1>5. QED
  BY <1>1, <1>2, <1>3, <1>4, ResultChanges

(***************************************************************************)
(* No function at a landing pad is undone for another one, whichever of    *)
(* the two passes found it first.  Only the tailcall pass may undo one, to *)
(* split it where another function jumps into it.                          *)
(***************************************************************************)
THEOREM PadsStay ==
    ASSUME ~RESOLVE_TAILCALLS
    PROVE  Spec => LandingPadsStay
<1>1. Unsplit /\ [Next]_vars => [PadsStayNow]_vars
  BY PadsStep
<1>2. QED
  BY <1>1, UnsplitAlways, PTL DEF Spec, LandingPadsStay, PadsStayNow

-----------------------------------------------------------------------------
(* The edges of the result.                                                *)

(* A branch that may be taken to somewhere else than the next instruction. *)
Taken(a) ==
    /\ img.ins[a].kind \in {"cjmp", "loop"}
    /\ img.ins[a].target # a + img.ins[a].size

Noted(a, refs) == Taken(a) => <<a, img.ins[a].target>> \in refs

StateEdges(s) ==
    /\ \A r \in s.jumpRefs : img.ins[r[1]].kind \in Branches
    /\ \A a \in s.ins : Noted(a, s.refs)

(* The strengthening.  The jump latch is open when an instruction is        *)
(* decoded and marks a branch when it is booked; the taken edge is noted    *)
(* before the branch is; and the instruction before the one decoded ends    *)
(* where it begins, so that what a cut takes back is a fall-through.        *)
FrameEdges(f) ==
    /\ StateEdges(f.st)
    /\ f.phase = "decode" =>
          /\ ~f.st.isJmp
          /\ f.prev # NoAddr => f.pc = f.prev + img.ins[f.prev].size
    /\ f.phase = "dispatch" => img.ins[f.pc].kind = "jtab"
    /\ f.phase = "book" =>
          /\ f.st.isJmp => img.ins[f.pc].kind \in Branches
          /\ Noted(f.pc, f.st.refs)

CallEdges == \A i \in DOMAIN frames : FrameEdges(frames[i])

ResultEdges == \A a \in dis.instructions : Noted(a, dis.codeRefs)

Idle == {"enter", "block", "decoded", "restoreGaps", "restoredGap", "restoreAbsorbed"}

LEMMA SameStateEdges ==
    ASSUME NEW s, NEW t, SameEdges(s, t), StateEdges(s)
    PROVE  StateEdges(t)
BY DEF SameEdges, SameRefs, StateEdges

LEMMA IdleEdges ==
    ASSUME NEW f, StateEdges(f.st), f.phase \in Idle
    PROVE  FrameEdges(f)
BY DEF FrameEdges, Idle

LEMMA AddedRefEdges ==
    ASSUME NEW s \in FnState, NEW from, NEW to, NEW byJump \in BOOLEAN, StateEdges(s),
           byJump => img.ins[from].kind \in Branches
    PROVE  LET r == AddCodeRef(s, from, to, byJump)
           IN  StateEdges(r) /\ <<from, to>> \in r.refs
<1> DEFINE r == AddCodeRef(s, from, to, byJump)
<1>1. /\ r.refs = s.refs \cup {<<from, to>>} /\ r.ins = s.ins
      /\ byJump => r.jumpRefs = s.jumpRefs \cup {<<from, to>>}
      /\ ~byJump => r.jumpRefs = s.jumpRefs
  BY AddedRef
<1> HIDE DEF r
<1>2. \A x \in r.jumpRefs : img.ins[x[1]].kind \in Branches
  <2>1. CASE byJump
    BY <1>1, <2>1 DEF StateEdges
  <2>2. CASE ~byJump
    BY <1>1, <2>2 DEF StateEdges
  <2>3. QED
    BY <2>1, <2>2
<1>3. \A a \in r.ins : Noted(a, r.refs)
  BY <1>1 DEF StateEdges, Noted
<1>4. QED
  BY <1>1, <1>2, <1>3 DEF StateEdges, r

LEMMA RemovedRefEdges ==
    ASSUME NEW s \in FnState, NEW from, NEW to, StateEdges(s),
           to = from + img.ins[from].size
    PROVE  StateEdges(RemoveCodeRef(s, from, to))
<1> DEFINE r == RemoveCodeRef(s, from, to)
<1>1. /\ r.refs = s.refs \ {<<from, to>>} /\ r.ins = s.ins
      /\ r.jumpRefs = s.jumpRefs \ {<<from, to>>}
  BY RemovedRef
<1> HIDE DEF r
<1>2. \A x \in r.jumpRefs : img.ins[x[1]].kind \in Branches
  BY <1>1 DEF StateEdges
<1>3. ASSUME NEW a \in r.ins, Taken(a)
      PROVE  <<a, img.ins[a].target>> \in r.refs
  <2>1. <<a, img.ins[a].target>> \in s.refs
    BY <1>1, <1>3 DEF StateEdges, Noted
  <2>2. <<a, img.ins[a].target>> # <<from, to>>
    BY <1>3 DEF Taken
  <2>3. QED
    BY <1>1, <2>1, <2>2
<1>4. QED
  BY <1>2, <1>3 DEF StateEdges, Noted, r

LEMMA AddedInstructionEdges ==
    ASSUME NEW s \in FnState, NEW addr, NEW size, StateEdges(s), Noted(addr, s.refs),
           s.isJmp => img.ins[addr].kind \in Branches
    PROVE  LET r == AddInstruction(s, addr, size)
           IN  StateEdges(r) /\ ~r.isJmp
<1> DEFINE r == AddInstruction(s, addr, size)
           next == <<addr, addr + size>>
<1>1. /\ r.ins = s.ins \cup {addr} /\ ~r.isJmp
      /\ s.refs \subseteq r.refs
      /\ \/ r.jumpRefs = s.jumpRefs
         \/ s.isJmp /\ r.jumpRefs = s.jumpRefs \cup {next}
  BY AddedInstruction
<1>2. next[1] = addr
  OBVIOUS
<1> HIDE DEF r, next
<1>3. \A x \in r.jumpRefs : img.ins[x[1]].kind \in Branches
  BY <1>1, <1>2 DEF StateEdges
<1>4. \A a \in r.ins : Noted(a, r.refs)
  BY <1>1 DEF StateEdges, Noted
<1>5. QED
  BY <1>1, <1>3, <1>4 DEF StateEdges, r

LEMMA CountedEdges ==
    ASSUME IInv, Running, StateEdges(Top.st)
    PROVE  /\ Counted \in FnState /\ SameEdges(Top.st, Counted) /\ StateEdges(Counted)
           /\ Counted.isJmp = Top.st.isJmp
<1>1. Top.st \in FnState /\ Counted \in FnState
  BY TopFacts, CountedGood DEF Good
<1>2. SameEdges(Top.st, Counted) /\ Counted.isJmp = Top.st.isJmp
  BY <1>1 DEF Counted, FnState, SameEdges, SameRefs
<1>3. QED
  BY <1>1, <1>2, SameStateEdges

LEMMA JumpToEdges ==
    ASSUME NEW s \in FnState, NEW target, StateEdges(s), img.ins[Top.pc].kind \in Branches,
           IInv
    PROVE  StateEdges(JumpTo(s, target))
<1>1. CASE target \notin img.extent
  BY <1>1 DEF JumpTo
<1>2. CASE target \in img.extent
  <2> DEFINE q == AddBlockToQueue(s, target)
  <2>0. target \in Nat
    BY <1>2, ImageFacts DEF IInv
  <2>1. StateEdges(q)
    BY QueueEdges, SameStateEdges
  <2>2. q \in FnState
    <3>1. Append(s.queue, target) \in AddrList
      BY <2>0 DEF FnState, AddrList
    <3>2. QED
      BY <2>0, <3>1 DEF AddBlockToQueue, FnState
  <2>3. JumpTo(s, target) = AddCodeRef(q, Top.pc, target, TRUE)
    BY <1>2 DEF JumpTo
  <2> HIDE DEF q
  <2>4. QED
    BY <2>1, <2>2, <2>3, AddedRefEdges
<1>3. QED
  BY <1>1, <1>2

-----------------------------------------------------------------------------

LEMMA TopEdges ==
    ASSUME IInv, Running, CallEdges
    PROVE  FrameEdges(Top) /\ StateEdges(Top.st)
<1>1. Len(frames) \in DOMAIN frames
  BY DEF IInv, Running
<1>2. QED
  BY <1>1 DEF CallEdges, Top, FrameEdges

(* The frame that runs is replaced by one with edges in order.              *)
LEMMA ReplaceEdges ==
    ASSUME IInv, CallEdges, Running, NEW f, Replace(f), FrameEdges(f), img' = img
    PROVE  CallEdges'
<1>1. frames' = [frames EXCEPT ![Len(frames)] = f]
  BY DEF Replace
<1>2. ASSUME NEW i \in DOMAIN frames'
      PROVE  FrameEdges(frames'[i])
  BY <1>1, <1>2 DEF CallEdges
<1>3. QED
  BY <1>2 DEF CallEdges, FrameEdges, StateEdges, Noted, Taken

LEMMA FreshEdges ==
    ASSUME NEW start \in Nat, NEW asGap, NEW known, NEW table
    PROVE  FrameEdges(Frame(start, asGap, known, table))
<1> DEFINE f == Frame(start, asGap, known, table)
           s == AddTable(NewState(start), table)
<1>1. f.st = s /\ f.phase = "enter"
  BY DEF Frame
<1>2. s.jumpRefs = {} /\ s.ins = {}
  BY DEF AddTable, NewState
<1>3. StateEdges(f.st)
  BY <1>1, <1>2 DEF StateEdges
<1>4. QED
  BY <1>1, <1>3, IdleEdges DEF Idle

(* A call is pushed onto the one that makes it.                             *)
LEMMA CallEdgesKept ==
    ASSUME IInv, CallEdges, Running, NEW f, NEW callee, Call(f, callee), FrameEdges(f),
           FrameEdges(callee), img' = img
    PROVE  CallEdges'
<1> DEFINE q == [frames EXCEPT ![Len(frames)] = f]
<1>1. frames' = Append(q, callee) /\ frames \in Seq(GoodFrames)
  BY DEF Call, IInv
<1>2. Len(q) = Len(frames) /\ DOMAIN q = 1..Len(frames) /\ Len(frames) \in Nat
  BY <1>1
<1>3. \A i \in 1..Len(frames) : FrameEdges(q[i])
  BY <1>1 DEF CallEdges
<1>4. ASSUME NEW i \in DOMAIN frames'
      PROVE  FrameEdges(frames'[i])
  <2>1. DOMAIN frames' = 1..(Len(frames) + 1)
    BY <1>1, <1>2
  <2>2. CASE i \in 1..Len(frames)
    <3>1. frames'[i] = q[i]
      BY <1>1, <1>2, <2>2
    <3>2. QED
      BY <1>3, <2>2, <3>1
  <2>3. CASE i = Len(frames) + 1
    <3> DEFINE S == GoodFrames \cup {f, callee}
    <3>0. frames \in Seq(S) /\ f \in S /\ callee \in S /\ frames # <<>>
      BY <1>1 DEF Running
    <3> HIDE DEF S
    <3>2. q \in Seq(S)
      BY <3>0, ReplaceLast
    <3> HIDE DEF q
    <3>3. Append(q, callee)[Len(q) + 1] = callee
      BY <3>0, <3>2, AppendProperties
    <3>1. frames'[i] = callee
      BY <1>1, <1>2, <2>3, <3>3
    <3>4. QED
      BY <3>1
  <2>4. QED
    BY <1>2, <1>4, <2>1, <2>2, <2>3
<1>5. QED
  BY <1>4 DEF CallEdges, FrameEdges, StateEdges, Noted, Taken

LEMMA ReturnEdges ==
    ASSUME IInv, CallEdges, Running, Return, img' = img
    PROVE  CallEdges'
<1>1. frames' = SubSeq(frames, 1, Len(frames) - 1) /\ frames \in Seq(GoodFrames)
  BY DEF Return, IInv
<1>2. Len(frames) \in Nat /\ Len(frames) >= 1
  BY <1>1 DEF Running
<1>3. ASSUME NEW i \in DOMAIN frames'
      PROVE  FrameEdges(frames'[i])
  <2>1. i \in 1..(Len(frames) - 1) /\ frames'[i] = frames[i]
    BY <1>1, <1>2, <1>3
  <2>2. i \in DOMAIN frames
    BY <1>1, <1>2, <2>1
  <2>3. QED
    BY <2>1, <2>2 DEF CallEdges
<1>4. QED
  BY <1>3 DEF CallEdges, FrameEdges, StateEdges, Noted, Taken

(* The passes start one call, or none.                                      *)
LEMMA StartEdges ==
    ASSUME IInv, CallEdges, img' = img,
           frames' = frames \/ \E a \in Nat : \E g, k, t : frames' = <<Frame(a, g, k, t)>>
    PROVE  CallEdges'
<1>1. CASE frames' = frames
  BY <1>1 DEF CallEdges, FrameEdges, StateEdges, Noted, Taken
<1>2. CASE \E a \in Nat : \E g, k, t : frames' = <<Frame(a, g, k, t)>>
  <2>1. PICK a, g, k, t : a \in Nat /\ frames' = <<Frame(a, g, k, t)>>
    BY <1>2
  <2>2. FrameEdges(Frame(a, g, k, t))
    BY <2>1, FreshEdges
  <2>3. \A i \in DOMAIN frames' : FrameEdges(frames'[i])
    BY <2>1, <2>2
  <2>4. QED
    BY <2>3 DEF CallEdges, FrameEdges, StateEdges, Noted, Taken
<1>3. QED
  BY <1>1, <1>2

(* A frame that goes on with another state.                                 *)
LEMMA MovedFields ==
    ASSUME IInv, Running, NEW p, NEW s
    PROVE  LET f == [Top EXCEPT !.phase = p, !.st = s]
           IN  f.phase = p /\ f.st = s /\ f.pc = Top.pc /\ f.prev = Top.prev
<1>1. Top \in FrameType
  BY TopGood DEF FrameOk
<1>2. QED
  BY <1>1 DEF FrameType

LEMMA IdleReplaced ==
    ASSUME IInv, CallEdges, Running, img' = img,
           NEW f, Replace(f), f.phase \in Idle, StateEdges(f.st)
    PROVE  CallEdges'
BY IdleEdges, ReplaceEdges

LEMMA DecodeEdges ==
    ASSUME IInv, CallEdges, Decode
    PROVE  CallEdges'
<1>0. Running /\ img' = img
  <2>1. img' = img
    BY DEF Decode, Enter, Refuse, ChooseBlock, TimeoutInFunction, NoBlockLeft, RunsOut,
           CutAtTable, AbortSuspicious, CutAtLandingPad, CutAtPadding
  <2>2. QED
    BY <2>1, RunningSteps
<1> DEFINE s == Top.st
<1>s. /\ Good(s) /\ s \in FnState /\ StateEdges(s) /\ FrameEdges(Top) /\ Top \in FrameType
      /\ Top.pc \in Nat
  BY <1>0, TopFacts, TopEdges, TopGood DEF Good, FrameOk
<1>c. Good(Counted) /\ StateEdges(Counted)
  BY <1>0, <1>s, CountedGood, CountedEdges
<1>e. ASSUME NEW t, Good(t), StateEdges(t)
      PROVE  StateEdges(SetSanelyEnding(EndBlock(SetBlockEnding(t))))
  <2> DEFINE t1 == SetBlockEnding(t)
             t2 == EndBlock(t1)
  <2>1. Good(t1) /\ StateEdges(t1)
    BY <1>e, SetBlockEndingGood, FlagsEdges, SameStateEdges DEF Good
  <2> HIDE DEF t1
  <2>2. Good(t2) /\ StateEdges(t2)
    BY <2>1, EndBlockGood, QueueEdges, SameStateEdges DEF Good
  <2> HIDE DEF t2
  <2>3. StateEdges(SetSanelyEnding(t2))
    BY <2>2, FlagsEdges, SameStateEdges DEF Good
  <2>4. QED
    BY <2>3 DEF t1, t2
<1>u. ASSUME NEW t, Good(t), StateEdges(t), Top.prev # NoAddr, At("decode")
      PROVE  LET r == RemoveCodeRef(t, Top.prev, Top.pc) IN Good(r) /\ StateEdges(r)
  <2>1. Top.pc = Top.prev + img.ins[Top.prev].size
    BY <1>s, <1>u DEF FrameEdges, At
  <2>2. Good(RemoveCodeRef(t, Top.prev, Top.pc))
    <3>1. Top.prev \in Nat
      BY <1>0, <1>u, TopFacts DEF MaybeAddr
    <3>2. QED
      BY <1>s, <1>u, <3>1, RemoveCodeRefGood
  <2>3. QED
    BY <1>u, <2>1, <2>2, RemovedRefEdges DEF Good
<1>1. CASE Enter \/ NoBlockLeft \/ RunsOut
  <2>1. PICK p \in {"block", "decoded"} : Replace([Top EXCEPT !.phase = p])
    BY <1>1 DEF Enter, NoBlockLeft, RunsOut
  <2> DEFINE f == [Top EXCEPT !.phase = p]
  <2>2. f.phase = p /\ f.st = s
    BY <1>s DEF FrameType
  <2> HIDE DEF f
  <2>3. QED
    BY <1>0, <1>s, <2>1, <2>2, IdleReplaced DEF f, Idle
<1>2. CASE Refuse
  BY <1>0, <1>2, ReturnEdges DEF Refuse
<1>3. CASE ChooseBlock
  <2> DEFINE t == ChooseNextBlock(s)
             f == [Top EXCEPT !.phase = "decode", !.blocks = Top.blocks + 1, !.st = t,
                              !.pc = NextQueued(s), !.prev = NoAddr]
  <2>1. Replace(f)
    BY <1>3 DEF ChooseBlock
  <2>2. StateEdges(t) /\ ~t.isJmp
    BY <1>s, QueueEdges, SameStateEdges
  <2> HIDE DEF t
  <2>3. f.phase = "decode" /\ f.st = t /\ f.prev = NoAddr
    BY <1>s DEF FrameType
  <2> HIDE DEF f
  <2>4. FrameEdges(f)
    BY <2>2, <2>3 DEF FrameEdges
  <2>5. QED
    BY <1>0, <2>1, <2>4, ReplaceEdges
<1>4. CASE TimeoutInFunction
  <2> DEFINE f == [Top EXCEPT !.phase = "decoded", !.blocks = Top.blocks + 1]
  <2>1. Replace(f)
    BY <1>4 DEF TimeoutInFunction
  <2>2. f.phase = "decoded" /\ f.st = s
    BY <1>s DEF FrameType
  <2> HIDE DEF f
  <2>3. QED
    BY <1>0, <1>s, <2>1, <2>2, IdleReplaced DEF Idle
<1>5. CASE CutAtTable
  <2> DEFINE u == IF Top.prev # NoAddr THEN RemoveCodeRef(Top.st, Top.prev, Top.pc) ELSE Top.st
             t == SetSanelyEnding(EndBlock(SetBlockEnding(u)))
             f == [Top EXCEPT !.phase = "block", !.st = t]
  <2>1. Replace(f) /\ At("decode")
    BY <1>5 DEF CutAtTable
  <2>2. Good(u) /\ StateEdges(u)
    BY <1>s, <1>u, <2>1
  <2> HIDE DEF u
  <2>3. StateEdges(t)
    BY <1>e, <2>2
  <2> HIDE DEF t
  <2>4. f.phase = "block" /\ f.st = t
    BY <1>0, MovedFields
  <2> HIDE DEF f
  <2>5. QED
    BY <1>0, <2>1, <2>3, <2>4, IdleReplaced DEF Idle
<1>6. CASE AbortSuspicious
  <2> DEFINE t == [s EXCEPT !.suspicious = s.suspicious + 1]
             g == [Top EXCEPT !.st = t]
             f == Concluding(g)
  <2>1. Replace(f)
    <3>1. Replace(Concluding([Top EXCEPT !.st.suspicious = Top.st.suspicious + 1]))
      BY <1>6 DEF AbortSuspicious
    <3>2. [Top EXCEPT !.st.suspicious = Top.st.suspicious + 1] = g
      BY <1>s DEF FrameType
    <3>3. QED
      BY <3>1, <3>2
  <2>2. SameEdges(s, t)
    BY <1>s DEF FnState, SameEdges, SameRefs
  <2>3. StateEdges(t)
    BY <1>s, <2>2, SameStateEdges
  <2> HIDE DEF t
  <2>4. f.phase = "restoreAbsorbed" /\ f.st = t
    BY <1>s DEF FrameType, Concluding
  <2> HIDE DEF f
  <2>5. QED
    BY <1>0, <2>1, <2>3, <2>4, IdleReplaced DEF Idle
<1>7. CASE CutAtLandingPad
  <2> DEFINE t == SetSanelyEnding(EndBlock(SetBlockEnding(Counted)))
             f == [Top EXCEPT !.phase = "block", !.st = t]
  <2>1. Replace(f)
    BY <1>7 DEF CutAtLandingPad
  <2>2. StateEdges(t)
    BY <1>c, <1>e
  <2> HIDE DEF t
  <2>3. f.phase = "block" /\ f.st = t
    BY <1>0, MovedFields
  <2> HIDE DEF f
  <2>4. QED
    BY <1>0, <2>1, <2>2, <2>3, IdleReplaced DEF Idle
<1>8. CASE CutAtPadding
  <2> DEFINE u == RemoveCodeRef(Counted, Top.prev, Top.pc)
             t == SetSanelyEnding(EndBlock(SetBlockEnding(u)))
             f == [Top EXCEPT !.phase = "block", !.st = t]
  <2>1. Replace(f) /\ At("decode") /\ Top.prev # NoAddr
    BY <1>8 DEF CutAtPadding, Classifiable, PaddingCut
  <2>2. Good(u) /\ StateEdges(u)
    BY <1>c, <1>u, <2>1
  <2> HIDE DEF u
  <2>3. StateEdges(t)
    BY <1>e, <2>2
  <2> HIDE DEF t
  <2>4. f.phase = "block" /\ f.st = t
    BY <1>0, MovedFields
  <2> HIDE DEF f
  <2>5. QED
    BY <1>0, <2>1, <2>3, <2>4, IdleReplaced DEF Idle
<1>9. QED
  BY <1>1, <1>2, <1>3, <1>4, <1>5, <1>6, <1>7, <1>8 DEF Decode

(* An instruction classified is booked next.                                *)
LEMMA ClassifiedEdges ==
    ASSUME IInv, CallEdges, Running, img' = img, NEW s, Classified(s), StateEdges(s),
           s.isJmp => Here.kind \in Branches,
           Here.kind \in {"cjmp", "loop"} => <<Top.pc, Here.target>> \in s.refs
    PROVE  CallEdges'
<1> DEFINE f == [Top EXCEPT !.phase = "book", !.st = s]
<1>1. Replace(f)
  BY DEF Classified
<1>2. f.phase = "book" /\ f.st = s /\ f.pc = Top.pc
  BY MovedFields
<1> HIDE DEF f
<1>3. FrameEdges(f)
  BY <1>2 DEF FrameEdges, Noted, Taken, Here
<1>4. QED
  BY <1>1, <1>3, ReplaceEdges

(* A branch followed to a target is noted and latched.                      *)
LEMMA BranchEdges ==
    ASSUME IInv, CallEdges, Running, img' = img, Here.kind \in Branches,
           NEW s \in FnState, StateEdges(s), NEW t,
           SameEdges(AddCodeRef(s, Top.pc, Here.target, TRUE), t), Classified(t)
    PROVE  CallEdges'
<1> DEFINE r == AddCodeRef(s, Top.pc, Here.target, TRUE)
<1>1. StateEdges(r) /\ <<Top.pc, Here.target>> \in r.refs
  BY AddedRefEdges DEF Here
<1> HIDE DEF r
<1>2. StateEdges(t) /\ <<Top.pc, Here.target>> \in t.refs
  BY <1>1, SameStateEdges DEF SameEdges, SameRefs, r
<1>3. QED
  BY <1>2, ClassifiedEdges

LEMMA AnalyzeEdges ==
    ASSUME IInv, CallEdges, Analyze
    PROVE  CallEdges'
<1>0. Running /\ img' = img
  <2>1. img' = img
    BY DEF Analyze, AnalyzePlain, AnalyzeCall, AnalyzeRegisterCall, AnalyzeLoop, AnalyzeReturn,
           AnalyzeJmp, AnalyzeCondJmp, AnalyzeCondJmpAbsorbing, AnalyzeTableJmp, DispatchCase,
           Dispatched
  <2>2. QED
    BY <2>1, RunningSteps
<1>s. /\ Good(Top.st) /\ Top.st \in FnState /\ StateEdges(Top.st) /\ FrameEdges(Top)
      /\ Top \in FrameType
  BY <1>0, TopFacts, TopEdges, TopGood DEF Good, FrameOk
<1>c. /\ Good(Counted) /\ Counted \in FnState /\ StateEdges(Counted)
      /\ Counted.isJmp = Top.st.isJmp
  BY <1>0, <1>s, CountedGood, CountedEdges DEF Good
<1>l. ASSUME Classifiable
      PROVE  ~Counted.isJmp /\ Top.pc \in DOMAIN img.ins
  <2>1. Top.phase = "decode"
    BY <1>l DEF Classifiable, At
  <2>2. ~Top.st.isJmp
    BY <1>s, <2>1 DEF FrameEdges
  <2>3. QED
    BY <1>l, <1>c, <2>2 DEF Classifiable, Decodable
<1>a. ASSUME NEW t \in FnState, StateEdges(t), NEW b \in Nat
      PROVE  AddBlockToQueue(t, b) \in FnState /\ StateEdges(AddBlockToQueue(t, b))
  <2>1. Append(t.queue, b) \in AddrList
    BY <1>a DEF FnState, AddrList
  <2>2. AddBlockToQueue(t, b) \in FnState
    BY <1>a, <2>1 DEF AddBlockToQueue, FnState
  <2>3. QED
    BY <1>a, <2>2, QueueEdges, SameStateEdges
<1>1. CASE AnalyzePlain
  <2>1. Classified(Counted) /\ Classifiable /\ Here.kind \in Plain
    BY <1>1 DEF AnalyzePlain
  <2>2. Here.kind \notin {"cjmp", "loop"}
    BY <2>1 DEF Plain
  <2>3. QED
    BY <1>0, <1>c, <1>l, <2>1, <2>2, ClassifiedEdges
<1>2. CASE AnalyzeCall
  <2> DEFINE r == AddCodeRef(Counted, Top.pc, Here.target, FALSE)
             t == IF Here.target \in img.extent THEN r ELSE Counted
  <2>1. Classified(t) /\ Classifiable /\ Here.kind = "call"
    BY <1>2 DEF AnalyzeCall
  <2>2. StateEdges(r)
    BY <1>c, AddedRefEdges, FALSE \in BOOLEAN
  <2>3. r.isJmp = Counted.isJmp
    BY <1>c DEF AddCodeRef, FnState
  <2> HIDE DEF r
  <2>4. StateEdges(t) /\ ~t.isJmp
    BY <1>c, <1>l, <2>1, <2>2, <2>3
  <2> HIDE DEF t
  <2>5. QED
    BY <1>0, <2>1, <2>4, ClassifiedEdges
<1>3. CASE AnalyzeRegisterCall
  <2> DEFINE t == [Counted EXCEPT !.regCalls = Counted.regCalls \cup {Top.pc}]
  <2>1. Classified(t) /\ Classifiable /\ Here.kind = "rcall"
    BY <1>3 DEF AnalyzeRegisterCall
  <2>2. SameEdges(Counted, t) /\ t.isJmp = Counted.isJmp
    BY <1>c DEF FnState, SameEdges, SameRefs
  <2>3. StateEdges(t) /\ ~t.isJmp
    BY <1>c, <1>l, <2>1, <2>2, SameStateEdges
  <2> HIDE DEF t
  <2>4. QED
    BY <1>0, <2>1, <2>3, ClassifiedEdges
<1>4. CASE AnalyzeLoop
  <2> DEFINE q == AddBlockToQueue(Counted, Here.target)
             r == AddCodeRef(q, Top.pc, Here.target, TRUE)
             n == AddBlockToQueue(r, NextPc)
             t == SetBlockEnding(n)
  <2>1. Classified(t) /\ Classifiable /\ Here.kind = "loop"
    BY <1>4 DEF AnalyzeLoop
  <2>2. Here.target \in Nat /\ NextPc \in Nat /\ Top.pc \in Nat /\ Here.kind \in Branches
    BY <1>0, <1>l, <2>1, HereFacts, TopFacts DEF Branches
  <2>3. Good(q) /\ StateEdges(q)
    BY <1>c, <2>2, AddBlockToQueueGood, QueueEdges, SameStateEdges
  <2> HIDE DEF q
  <2>4. Good(r)
    BY <2>2, <2>3, AddCodeRefGood
  <2>5. Good(n) /\ SameEdges(r, n)
    BY <2>2, <2>4, AddBlockToQueueGood, QueueEdges DEF Good
  <2>6. SameEdges(n, t)
    <3> HIDE DEF n
    <3>1. QED
      BY <2>5, FlagsEdges DEF Good
  <2>7. SameEdges(r, t)
    BY <2>5, <2>6 DEF SameEdges, SameRefs
  <2> HIDE DEF n, t
  <2>8. QED
    BY <1>0, <2>1, <2>2, <2>3, <2>7, BranchEdges DEF Good
<1>5. CASE AnalyzeReturn
  <2> DEFINE e == EndInstruction(Counted)
             t == JumpTo(e, Here.target)
  <2>1. Classified(t) /\ Classifiable /\ Here.kind = "ret"
    BY <1>5 DEF AnalyzeReturn
  <2>2. Good(e) /\ StateEdges(e)
    BY <1>c, EndInstructionGood, FlagsEdges, SameStateEdges
  <2> HIDE DEF e
  <2>3. Here.kind \in Branches /\ img.ins[Top.pc].kind \in Branches
    BY <2>1 DEF Branches, Here
  <2>4. StateEdges(t)
    BY <2>2, <2>3, JumpToEdges DEF Good
  <2> HIDE DEF t
  <2>5. QED
    BY <1>0, <2>1, <2>3, <2>4, ClassifiedEdges
<1>6. CASE AnalyzeJmp
  <2> DEFINE known == CASE Here.target \in DOMAIN dis.functions -> SetSanelyEnding(Counted)
                        [] Here.target \notin DOMAIN dis.functions
                           /\ (Here.target \in fcm.offsets \/ Counted.ins = {}) -> Counted
                        [] OTHER -> AddBlockToQueue(Counted, Here.target)
             r == AddCodeRef(known, Top.pc, Here.target, TRUE)
             t == [r EXCEPT !.reachable = FALSE, !.ending = TRUE]
  <2>1. Classified(t) /\ Classifiable /\ Here.kind = "jmp"
    BY <1>6 DEF AnalyzeJmp
  <2>2. Here.target \in Nat /\ Top.pc \in Nat /\ Here.kind \in Branches
    BY <1>0, <1>l, <2>1, HereFacts, TopFacts DEF Branches
  <2>3. Good(known) /\ StateEdges(known)
    <3>1. Good(SetSanelyEnding(Counted)) /\ StateEdges(SetSanelyEnding(Counted))
      BY <1>c, SetSanelyEndingGood, FlagsEdges, SameStateEdges
    <3>2. /\ Good(AddBlockToQueue(Counted, Here.target))
          /\ StateEdges(AddBlockToQueue(Counted, Here.target))
      BY <1>c, <2>2, AddBlockToQueueGood, QueueEdges, SameStateEdges
    <3>3. known \in {SetSanelyEnding(Counted), Counted, AddBlockToQueue(Counted, Here.target)}
      OBVIOUS
    <3> HIDE DEF known
    <3>4. QED
      BY <1>c, <3>1, <3>2, <3>3
  <2> HIDE DEF known
  <2>4. Good(r)
    BY <2>2, <2>3, AddCodeRefGood
  <2>5. SameEdges(r, t)
    <3> HIDE DEF r
    <3>1. QED
      BY <2>4 DEF Good, FnState, SameEdges, SameRefs
  <2> HIDE DEF t
  <2>6. QED
    BY <1>0, <2>1, <2>2, <2>3, <2>5, BranchEdges DEF Good
<1>7. CASE AnalyzeCondJmp \/ AnalyzeCondJmpAbsorbing
  <2>1. PICK q : /\ Classified(CondTaken(q)) /\ Classifiable /\ Here.kind = "cjmp"
                 /\ Good(q) /\ StateEdges(q)
    <3> DEFINE fall == AddBlockToQueue(Counted, NextPc)
    <3>1. Classifiable /\ Here.kind = "cjmp"
      BY <1>7 DEF AnalyzeCondJmp, AnalyzeCondJmpAbsorbing
    <3>2. Here.target \in Nat /\ NextPc \in Nat
      BY <1>l, <3>1, HereFacts
    <3>3. Good(fall) /\ StateEdges(fall)
      BY <1>c, <3>2, AddBlockToQueueGood, QueueEdges, SameStateEdges
    <3>4. CASE AnalyzeCondJmp
      <4> DEFINE q == CASE Here.target \in DOMAIN dis.functions -> SetSanelyEnding(fall)
                        [] /\ Here.target \notin DOMAIN dis.functions
                           /\ Here.target \in fcm.offsets
                           /\ IsEvidencedEntry(Here.target) -> fall
                        [] OTHER -> AddBlockToQueue(fall, Here.target)
      <4>1. Classified(CondTaken(q))
        BY <3>4 DEF AnalyzeCondJmp
      <4>2. q \in {SetSanelyEnding(fall), fall, AddBlockToQueue(fall, Here.target)}
        OBVIOUS
      <4> HIDE DEF fall, q
      <4>3. Good(SetSanelyEnding(fall)) /\ StateEdges(SetSanelyEnding(fall))
        BY <3>3, SetSanelyEndingGood, FlagsEdges, SameStateEdges DEF Good
      <4>4. /\ Good(AddBlockToQueue(fall, Here.target))
            /\ StateEdges(AddBlockToQueue(fall, Here.target))
        BY <3>2, <3>3, AddBlockToQueueGood, QueueEdges, SameStateEdges DEF Good
      <4>5. Good(q) /\ StateEdges(q)
        BY <3>3, <4>2, <4>3, <4>4
      <4>6. QED
        BY <3>1, <4>1, <4>5
    <3>5. CASE AnalyzeCondJmpAbsorbing
      <4> DEFINE u == [fall EXCEPT !.absorbed = Append(fall.absorbed, Here.target)]
                 q == AddBlockToQueue(u, Here.target)
      <4>1. Classified(CondTaken(q))
        BY <3>5 DEF AnalyzeCondJmpAbsorbing
      <4> HIDE DEF fall
      <4>2. Good(u)
        <5>1. fall.absorbed \in Seq(Nat)
          BY <3>3 DEF Good, FnState, AddrList
        <5>2. Append(fall.absorbed, Here.target) \in AddrList
          BY <3>2, <5>1 DEF AddrList
        <5>3. u \in FnState
          BY <3>3, <5>2 DEF Good, FnState
        <5>4. SameQueue(fall, u) /\ SameRefs(fall, u) /\ SameIns(fall, u)
          BY <3>3 DEF Good, FnState, SameQueue, SameRefs, SameIns
        <5>5. QED
          BY <3>3, <5>3, <5>4, AsideGood
      <4>3. SameEdges(fall, u)
        BY <3>3 DEF Good, FnState, SameEdges, SameRefs
      <4>4. StateEdges(u)
        BY <3>3, <4>3, SameStateEdges
      <4> HIDE DEF u
      <4>5. Good(q) /\ StateEdges(q)
        BY <3>2, <4>2, <4>4, AddBlockToQueueGood, QueueEdges, SameStateEdges DEF Good
      <4>6. QED
        BY <3>1, <4>1, <4>5
    <3>6. QED
      BY <1>7, <3>4, <3>5
  <2>2. Here.target \in Nat /\ Top.pc \in Nat /\ Here.kind \in Branches
    BY <1>0, <1>l, <2>1, HereFacts, TopFacts DEF Branches
  <2>3. Good(AddCodeRef(q, Top.pc, Here.target, TRUE))
    BY <2>1, <2>2, AddCodeRefGood
  <2>4. SameEdges(AddCodeRef(q, Top.pc, Here.target, TRUE), CondTaken(q))
    BY <2>3, FlagsEdges DEF CondTaken, Good
  <2>5. QED
    BY <1>0, <2>1, <2>2, <2>4, BranchEdges DEF Good
<1>8. CASE AnalyzeTableJmp
  <2> DEFINE t == AddTable(Counted, Here.table)
             f == [Top EXCEPT !.phase = "dispatch", !.todo = Here.cases, !.st = t]
  <2>1. Replace(f) /\ Here.kind = "jtab"
    BY <1>8 DEF AnalyzeTableJmp
  <2>2. StateEdges(t)
    BY <1>c, TableEdges, SameStateEdges
  <2> HIDE DEF t
  <2>3. f.phase = "dispatch" /\ f.st = t /\ f.pc = Top.pc
    BY <1>s DEF FrameType
  <2> HIDE DEF f
  <2>4. FrameEdges(f)
    BY <2>1, <2>2, <2>3 DEF FrameEdges, Here
  <2>5. QED
    BY <1>0, <2>1, <2>4, ReplaceEdges
<1>9. CASE DispatchCase
  <2> DEFINE t == JumpTo(Top.st, Head(Top.todo))
             f == [Top EXCEPT !.todo = Tail(Top.todo), !.st = t]
  <2>1. Replace(f) /\ Top.phase = "dispatch"
    BY <1>9 DEF DispatchCase, At
  <2>2. img.ins[Top.pc].kind = "jtab"
    BY <1>s, <2>1 DEF FrameEdges
  <2>3. StateEdges(t)
    BY <1>s, <2>2, JumpToEdges DEF Branches
  <2> HIDE DEF t
  <2>4. f.phase = "dispatch" /\ f.st = t /\ f.pc = Top.pc
    BY <1>s, <2>1 DEF FrameType
  <2> HIDE DEF f
  <2>5. FrameEdges(f)
    BY <2>2, <2>3, <2>4 DEF FrameEdges
  <2>6. QED
    BY <1>0, <2>1, <2>5, ReplaceEdges
<1>10. CASE Dispatched
  <2> DEFINE t == [Top.st EXCEPT !.reachable = FALSE, !.ending = TRUE]
  <2>1. Classified(t) /\ Top.phase = "dispatch"
    BY <1>10 DEF Dispatched, At
  <2>2. Here.kind = "jtab"
    BY <1>s, <2>1 DEF FrameEdges, Here
  <2>3. SameEdges(Top.st, t)
    BY <1>s DEF FnState, SameEdges, SameRefs
  <2>4. StateEdges(t)
    BY <1>s, <2>3, SameStateEdges
  <2> HIDE DEF t
  <2>5. QED
    BY <1>0, <2>1, <2>2, <2>4, ClassifiedEdges DEF Branches
<1>11. QED
  BY <1>1, <1>2, <1>3, <1>4, <1>5, <1>6, <1>7, <1>8, <1>9, <1>10 DEF Analyze

(* What a booked instruction leaves behind.                                 *)
LEMMA BookedEdges ==
    ASSUME IInv, At("book"), NEW s, Good(s), StateEdges(s), s.ending \/ ~s.isJmp,
           NEW f, f.phase = Booked(Top, s).phase, f.st = Booked(Top, s).st,
           f.pc = Booked(Top, s).pc, f.prev = Booked(Top, s).prev
    PROVE  FrameEdges(f)
<1>0. Top \in FrameType
  BY TopGood DEF At, FrameOk
<1>1. CASE s.ending
  <2> DEFINE e == EndBlock(s)
  <2>1. StateEdges(e)
    BY QueueEdges, SameStateEdges DEF Good
  <2>2. Booked(Top, s) = [Top EXCEPT !.phase = "block", !.st = e, !.prev = Top.pc]
    BY <1>1 DEF Booked
  <2> HIDE DEF e
  <2>3. f.phase = "block" /\ f.st = e
    BY <1>0, <2>2 DEF FrameType
  <2>4. QED
    BY <2>1, <2>3, IdleEdges DEF Idle
<1>2. CASE ~s.ending
  <2>1. Booked(Top, s) = [Top EXCEPT !.phase = "decode", !.st = s, !.prev = Top.pc, !.pc = NextPc]
    BY <1>2 DEF Booked
  <2>2. f.phase = "decode" /\ f.st = s /\ f.prev = Top.pc /\ f.pc = NextPc
    BY <1>0, <2>1 DEF FrameType
  <2>3. ~s.isJmp
    BY <1>2
  <2>4. QED
    BY <2>2, <2>3 DEF FrameEdges, NextPc, Here
<1>3. QED
  BY <1>1, <1>2

LEMMA BookEdges ==
    ASSUME IInv, CallEdges, Book
    PROVE  CallEdges'
<1>0. At("book") /\ Running /\ img' = img
  BY DEF Book, BookFree, BookAgain, BookOverGapFunction, BookCollision, At
<1>s. /\ Good(Top.st) /\ Top.st \in FnState /\ StateEdges(Top.st) /\ FrameEdges(Top)
      /\ Top \in FrameType
  BY <1>0, TopFacts, TopEdges, TopGood DEF Good, FrameOk
<1>b. /\ Top.st.isJmp => img.ins[Top.pc].kind \in Branches
      /\ Noted(Top.pc, Top.st.refs)
  BY <1>0, <1>s DEF FrameEdges, At
<1> DEFINE added == AddInstruction(Top.st, Top.pc, Here.size)
<1>a. Good(added) /\ StateEdges(added) /\ ~added.isJmp
  BY <1>0, <1>s, <1>b, AddedGood, AddedInstructionEdges
<1> HIDE DEF added
<1>e. /\ Good(SetBlockEnding(Top.st)) /\ StateEdges(SetBlockEnding(Top.st))
      /\ SetBlockEnding(Top.st).ending
  <2>1. Good(SetBlockEnding(Top.st)) /\ StateEdges(SetBlockEnding(Top.st))
    BY <1>s, SetBlockEndingGood, FlagsEdges, SameStateEdges
  <2>2. SetBlockEnding(Top.st).ending
    BY <1>s DEF SetBlockEnding, FnState
  <2>3. QED
    BY <2>1, <2>2
<1>1. CASE BookFree
  <2>1. Replace(Booked(Top, added))
    BY <1>1 DEF BookFree, added
  <2>2. FrameEdges(Booked(Top, added))
    BY <1>0, <1>a, BookedEdges
  <2>3. QED
    BY <1>0, <2>1, <2>2, ReplaceEdges
<1>2. CASE BookAgain
  <2>1. Replace(Booked(Top, SetBlockEnding(Top.st)))
    BY <1>2 DEF BookAgain
  <2>2. FrameEdges(Booked(Top, SetBlockEnding(Top.st)))
    BY <1>0, <1>e, BookedEdges
  <2>3. QED
    BY <1>0, <2>1, <2>2, ReplaceEdges
<1>3. CASE BookOverGapFunction
  <2> DEFINE b == Booked(Top, added)
             q == Append(Top.gapReverts, dis.ins2fn[Top.pc])
             f == [b EXCEPT !.gapReverts = q]
  <2>1. Replace(f)
    BY <1>3 DEF BookOverGapFunction, added
  <2>2. b \in GoodFrames
    BY <1>0, AddedGood, BookedGood DEF added
  <2>3. f.phase = b.phase /\ f.st = b.st /\ f.pc = b.pc /\ f.prev = b.prev
    <3> HIDE DEF b, q
    <3>1. QED
      BY <2>2 DEF GoodFrames, FrameType
  <2> HIDE DEF f
  <2>4. FrameEdges(f)
    BY <1>0, <1>a, <2>3, BookedEdges
  <2>5. QED
    BY <1>0, <2>1, <2>4, ReplaceEdges
<1>4. CASE BookCollision
  <2> DEFINE e == SetBlockEnding(Top.st)
             c == AddCollision(e, Top.pc)
  <2>1. Replace(Booked(Top, c))
    BY <1>4 DEF BookCollision
  <2>2. Top.pc \in Nat
    BY <1>0, TopFacts
  <2> HIDE DEF e
  <2>3. Good(e) /\ StateEdges(e) /\ e.ending
    BY <1>e DEF e
  <2>4. Good(c) /\ StateEdges(c)
    BY <2>2, <2>3, AddCollisionGood, TableEdges, SameStateEdges DEF Good
  <2>5. c.ending
    BY <2>3 DEF AddCollision, Good, FnState
  <2> HIDE DEF c
  <2>6. FrameEdges(Booked(Top, c))
    BY <1>0, <2>4, <2>5, BookedEdges
  <2>7. QED
    BY <1>0, <2>1, <2>6, ReplaceEdges
<1>5. QED
  BY <1>1, <1>2, <1>3, <1>4 DEF Book

LEMMA ConcludeEdges ==
    ASSUME IInv, CallEdges, Conclude
    PROVE  CallEdges'
<1>0. Running /\ img' = img
  BY DEF Conclude, DecodeAgain, KeepFunction, RejectFunction, RestoreGapFunction,
         RestoredGapFunction, GapFunctionsRestored, RestoreAbsorbed, ReturnFromFunction, At
<1>s. StateEdges(Top.st) /\ Top \in FrameType /\ Top.st.start \in Nat
  <2>1. StateEdges(Top.st) /\ Top \in FrameType
    BY <1>0, TopEdges, TopGood DEF FrameOk
  <2>2. QED
    BY <2>1 DEF FrameType, FnState
<1>t. Top.todo # <<>> => Head(Top.todo) \in Nat
  BY <1>s DEF FrameType, AddrList
<1>1. CASE DecodeAgain
  <2> DEFINE f == [Top EXCEPT !.phase = "restoreGaps", !.todo = Top.gapReverts]
             g == Frame(Top.st.start, Top.asGap, TRUE, Top.st.table)
  <2>1. Call(f, g)
    BY <1>1 DEF DecodeAgain
  <2>2. f.phase = "restoreGaps" /\ f.st = Top.st
    BY <1>s DEF FrameType
  <2>3. FrameEdges(g)
    BY <1>s, FreshEdges
  <2> HIDE DEF f, g
  <2>4. FrameEdges(f)
    BY <1>s, <2>2, IdleEdges DEF Idle
  <2>5. QED
    BY <1>0, <2>1, <2>3, <2>4, CallEdgesKept
<1>2. CASE KeepFunction \/ RejectFunction
  <2> DEFINE f == Concluding([Top EXCEPT !.completed = TRUE])
  <2>1. Replace(f)
    BY <1>2 DEF KeepFunction, RejectFunction
  <2>2. f.phase = "restoreAbsorbed" /\ f.st = Top.st
    BY <1>s DEF FrameType, Concluding
  <2> HIDE DEF f
  <2>3. QED
    BY <1>0, <1>s, <2>1, <2>2, IdleReplaced DEF Idle
<1>3. CASE RestoreGapFunction
  <2>1. CASE IsCode(Head(Top.todo))
    <3> DEFINE f == [Top EXCEPT !.todo = Tail(Top.todo)]
    <3>1. Replace(f) /\ Top.phase = "restoreGaps"
      BY <1>3, <2>1 DEF RestoreGapFunction, At
    <3>2. f.phase = "restoreGaps" /\ f.st = Top.st
      BY <1>s, <3>1 DEF FrameType
    <3> HIDE DEF f
    <3>3. QED
      BY <1>0, <1>s, <3>1, <3>2, IdleReplaced DEF Idle
  <2>2. CASE ~IsCode(Head(Top.todo))
    <3> DEFINE f == [Top EXCEPT !.phase = "restoredGap"]
               g == Frame(Head(Top.todo), TRUE, FALSE, {})
    <3>1. Call(f, g) /\ Top.todo # <<>>
      BY <1>3, <2>2 DEF RestoreGapFunction
    <3>2. f.phase = "restoredGap" /\ f.st = Top.st
      BY <1>s DEF FrameType
    <3>3. FrameEdges(g)
      BY <1>t, <3>1, FreshEdges
    <3> HIDE DEF f, g
    <3>4. FrameEdges(f)
      BY <1>s, <3>2, IdleEdges DEF Idle
    <3>5. QED
      BY <1>0, <3>1, <3>3, <3>4, CallEdgesKept
  <2>3. QED
    BY <2>1, <2>2
<1>4. CASE RestoredGapFunction
  <2> DEFINE f == [Top EXCEPT !.phase = "restoreGaps", !.todo = Tail(Top.todo)]
  <2>1. Replace(f)
    BY <1>4 DEF RestoredGapFunction
  <2>2. f.phase = "restoreGaps" /\ f.st = Top.st
    BY <1>s DEF FrameType
  <2> HIDE DEF f
  <2>3. QED
    BY <1>0, <1>s, <2>1, <2>2, IdleReplaced DEF Idle
<1>5. CASE GapFunctionsRestored
  <2> DEFINE f == Concluding(Top)
  <2>1. Replace(f)
    BY <1>5 DEF GapFunctionsRestored
  <2>2. f.phase = "restoreAbsorbed" /\ f.st = Top.st
    BY <1>s DEF FrameType, Concluding
  <2> HIDE DEF f
  <2>3. QED
    BY <1>0, <1>s, <2>1, <2>2, IdleReplaced DEF Idle
<1>6. CASE RestoreAbsorbed
  <2> DEFINE f == [Top EXCEPT !.todo = Tail(Top.todo)]
             g == Frame(Head(Top.todo), FALSE, FALSE, {})
  <2>1. Top.phase = "restoreAbsorbed" /\ Top.todo # <<>>
    BY <1>6 DEF RestoreAbsorbed, At
  <2>2. f.phase = "restoreAbsorbed" /\ f.st = Top.st
    BY <1>s, <2>1 DEF FrameType
  <2>3. Replace(f) \/ Call(f, g)
    BY <1>6 DEF RestoreAbsorbed
  <2>4. FrameEdges(g)
    BY <1>t, <2>1, FreshEdges
  <2> HIDE DEF f, g
  <2>5. FrameEdges(f)
    BY <1>s, <2>2, IdleEdges DEF Idle
  <2>6. QED
    BY <1>0, <2>3, <2>4, <2>5, CallEdgesKept, ReplaceEdges
<1>7. CASE ReturnFromFunction
  BY <1>0, <1>7, ReturnEdges DEF ReturnFromFunction
<1>8. QED
  BY <1>1, <1>2, <1>3, <1>4, <1>5, <1>6, <1>7 DEF Conclude

(* The image never changes.                                                 *)
LEMMA NextKeepsImage ==
    ASSUME [Next]_vars
    PROVE  img' = img
<1>1. CASE Decode
  BY <1>1 DEF Decode, Enter, Refuse, ChooseBlock, TimeoutInFunction, NoBlockLeft, RunsOut,
              CutAtTable, AbortSuspicious, CutAtLandingPad, CutAtPadding
<1>2. CASE Analyze
  BY <1>2 DEF Analyze, AnalyzePlain, AnalyzeCall, AnalyzeRegisterCall, AnalyzeLoop,
              AnalyzeReturn, AnalyzeJmp, AnalyzeCondJmp, AnalyzeCondJmpAbsorbing,
              AnalyzeTableJmp, DispatchCase, Dispatched
<1>3. CASE Book
  BY <1>3 DEF Book, BookFree, BookAgain, BookOverGapFunction, BookCollision
<1>4. CASE Conclude
  BY <1>4 DEF Conclude, DecodeAgain, KeepFunction, RejectFunction, RestoreGapFunction,
              RestoredGapFunction, GapFunctionsRestored, RestoreAbsorbed, ReturnFromFunction
<1>5. CASE Discover \/ Tailcalls \/ Finish
  BY <1>5 DEF Discover, TakeCandidate, TimeoutInDrain, Drained, OpenDeferred, OpenLate,
              OpenSource, NextFromSource, TimeoutInSource, SourceExhausted, NextGap, NoGapLeft,
              AnalyzeGap, TimeoutInGaps, JudgeGap, Tailcalls, FindTailcalls, RepeatTailcall,
              SplitAtTailcall, AfterTailcallTarget, MarkTailcallFunction, TimeoutInTailcalls,
              TailcallsResolved, Finish
<1>6. CASE Done \/ UNCHANGED vars
  BY <1>6 DEF Done, vars
<1>7. QED
  BY <1>1, <1>2, <1>3, <1>4, <1>5, <1>6 DEF Next

(* Between two calls a pass starts one, or none.                            *)
LEMMA PassFrames ==
    ASSUME IInv, Discover \/ Tailcalls \/ Finish
    PROVE  frames' = frames \/ \E a \in Nat : \E g, k, t : frames' = <<Frame(a, g, k, t)>>
<1> DEFINE Started == \E a \in Nat : \E g, k, t : frames' = <<Frame(a, g, k, t)>>
<1>1. CASE Discover
  <2>1. CASE TakeCandidate
    <3>1. fcm.queue \subseteq Nat
      BY DEF IInv, FcmOk
    <3>2. QED
      BY <2>1, <3>1 DEF TakeCandidate
  <2>2. CASE NextFromSource
    <3>1. \A w \in work : w[2] \in Nat
      BY DEF IInv, WorkOk
    <3>2. QED
      BY <2>2, <3>1 DEF NextFromSource, Foremost
  <2>3. CASE AnalyzeGap
    <3>1. cur \in Nat
      BY <2>3 DEF AnalyzeGap, IInv
    <3>2. QED
      BY <2>3, <3>1 DEF AnalyzeGap
  <2>4. QED
    BY <1>1, <2>1, <2>2, <2>3 DEF Discover, TimeoutInDrain, Drained, OpenDeferred, OpenLate,
       OpenSource, TimeoutInSource, SourceExhausted, NextGap, NoGapLeft, TimeoutInGaps,
       JudgeGap
<1>2. CASE Tailcalls
  <2>1. \A c \in tca.calls : c.start \in Nat /\ c.to \in Nat
    BY DEF IInv, TcaOk
  <2>2. CASE RepeatTailcall
    BY <2>1, <2>2 DEF RepeatTailcall
  <2>3. CASE SplitAtTailcall
    BY <2>1, <2>3 DEF SplitAtTailcall
  <2>4. CASE AfterTailcallTarget
    BY <2>1, <2>4 DEF AfterTailcallTarget
  <2>5. QED
    BY <1>2, <2>2, <2>3, <2>4 DEF Tailcalls, FindTailcalls, MarkTailcallFunction,
       TimeoutInTailcalls, TailcallsResolved
<1>3. CASE Finish
  BY <1>3 DEF Finish
<1>4. QED
  BY <1>1, <1>2, <1>3

LEMMA PassEdges ==
    ASSUME IInv, CallEdges, Discover \/ Tailcalls \/ Finish
    PROVE  CallEdges'
<1>1. img' = img
  BY NextKeepsImage DEF Next
<1>2. QED
  BY <1>1, PassFrames, StartEdges

LEMMA CallEdgesStep ==
    ASSUME IInv, CallEdges, [Next]_vars
    PROVE  CallEdges'
<1>1. CASE Done \/ UNCHANGED vars
  BY <1>1 DEF Done, vars, CallEdges, FrameEdges, StateEdges, Noted, Taken
<1>2. QED
  BY <1>1, DecodeEdges, AnalyzeEdges, BookEdges, ConcludeEdges, PassEdges DEF Next

(* getBlocks() drops references to the next instruction, nothing else.      *)
LEMMA DroppedAreFallThroughs ==
    ASSUME NEW s, NEW ins, NEW r \in s.refs, r \notin RefsAfterBlocks(s, ins)
    PROVE  \E a : r = <<a, a + ins[a].size>>
BY DEF RefsAfterBlocks, Dropped

LEMMA ResultEdgesStep ==
    ASSUME IInv, Unsplit, CallEdges, ResultEdges, [Next]_vars
    PROVE  ResultEdges'
<1>0. img' = img
  BY NextKeepsImage
<1>1. SUFFICES ASSUME NEW a \in dis'.instructions, Taken(a)
               PROVE  <<a, img.ins[a].target>> \in dis'.codeRefs
  BY <1>0 DEF ResultEdges, Noted, Taken
<1> DEFINE edge == <<a, img.ins[a].target>>
<1>2. a \in dis.instructions => edge \in dis.codeRefs
  BY <1>1 DEF ResultEdges, Noted
<1>3. CASE dis' = dis
  BY <1>1, <1>2, <1>3
<1>4. ASSUME NEW fn, NEW withRefs, dis' = RevertStored(dis, fn, withRefs)
      PROVE  edge \in dis'.codeRefs
  <2>1. /\ dis'.instructions = dis.instructions \ StoredIns(dis, fn)
        /\ \/ dis'.codeRefs = dis.codeRefs \ {r \in dis.codeRefs : r[1] \in StoredIns(dis, fn)}
           \/ dis'.codeRefs = dis.codeRefs \ {}
    BY <1>4 DEF RevertStored, Reverted
  <2>2. edge \in dis.codeRefs /\ edge[1] = a /\ a \notin StoredIns(dis, fn)
    BY <1>1, <1>2, <2>1
  <2>3. QED
    BY <2>1, <2>2
<1>5. CASE KeepFunction /\ dis' # dis
  <2>1. dis' = Stored(dis, Top.st) /\ Running
    BY <1>5 DEF KeepFunction, At
  <2>2. /\ dis'.instructions = dis.instructions \cup Top.st.ins
        /\ dis'.codeRefs = dis.codeRefs \cup RefsAfterBlocks(Top.st, img.ins)
    BY <2>1 DEF Stored
  <2>3. CASE a \in dis.instructions
    BY <1>2, <2>2, <2>3
  <2>4. CASE a \in Top.st.ins
    <3>1. edge \in Top.st.refs
      BY <1>1, <2>1, <2>4, TopEdges DEF StateEdges, Noted
    <3>2. edge \in RefsAfterBlocks(Top.st, img.ins)
      <4>1. SUFFICES ASSUME edge \notin RefsAfterBlocks(Top.st, img.ins)
                     PROVE  FALSE
        OBVIOUS
      <4>2. PICK b : edge = <<b, b + img.ins[b].size>>
        BY <3>1, <4>1, DroppedAreFallThroughs
      <4>3. b = a /\ img.ins[a].target = b + img.ins[b].size
        BY <4>2
      <4>4. QED
        BY <1>1, <4>3 DEF Taken
    <3>3. QED
      BY <2>2, <3>2
  <2>5. QED
    BY <1>1, <2>2, <2>3, <2>4
<1>6. CASE AnalyzeCondJmpAbsorbing
  BY <1>4, <1>6 DEF AnalyzeCondJmpAbsorbing
<1>7. CASE BookOverGapFunction
  BY <1>4, <1>7 DEF BookOverGapFunction
<1>8. QED
  BY <1>3, <1>5, <1>6, <1>7, ResultChanges

(***************************************************************************)
(* No branch of the result is lost, and what falls through is not taken    *)
(* for a jump, whatever is absorbed, reverted, cut and decoded again.      *)
(***************************************************************************)
THEOREM EdgesKept ==
    ASSUME ~RESOLVE_TAILCALLS
    PROVE  Spec => []EdgesAreBranches
<1>1. Init => CallEdges /\ ResultEdges
  BY DEF Init, CallEdges, ResultEdges, EmptyResult
<1>2. IInv /\ Unsplit /\ CallEdges /\ ResultEdges /\ [Next]_vars => CallEdges' /\ ResultEdges'
  BY CallEdgesStep, ResultEdgesStep
<1>3. CallEdges /\ ResultEdges => EdgesAreBranches
  BY DEF CallEdges, ResultEdges, FrameEdges, StateEdges, Noted, Taken, EdgesAreBranches,
         BranchEdgesKept, JumpRefsAreBranches
<1>4. QED
  BY <1>1, <1>2, <1>3, Invariance, UnsplitAlways, PTL DEF Spec

-----------------------------------------------------------------------------
(* Who owns what.                                                          *)

(* The image is chosen once.                                                *)
LEMMA SameImage == [Next]_vars => img' = img
<1>1. Decode => img' = img
  BY DEF Decode, Enter, Refuse, ChooseBlock, TimeoutInFunction, NoBlockLeft, RunsOut,
         CutAtTable, AbortSuspicious, CutAtLandingPad, CutAtPadding
<1>2. Analyze => img' = img
  BY DEF Analyze, AnalyzePlain, AnalyzeCall, AnalyzeRegisterCall, AnalyzeLoop, AnalyzeReturn,
         AnalyzeJmp, AnalyzeCondJmp, AnalyzeCondJmpAbsorbing, AnalyzeTableJmp, DispatchCase,
         Dispatched
<1>3. Book => img' = img
  BY DEF Book, BookFree, BookAgain, BookOverGapFunction, BookCollision
<1>4. Conclude => img' = img
  BY DEF Conclude, DecodeAgain, KeepFunction, RejectFunction, RestoreGapFunction,
         RestoredGapFunction, GapFunctionsRestored, RestoreAbsorbed, ReturnFromFunction
<1>5. Discover => img' = img
  BY DEF Discover, TakeCandidate, TimeoutInDrain, Drained, OpenDeferred, OpenLate, OpenSource,
         NextFromSource, TimeoutInSource, SourceExhausted, NextGap, NoGapLeft, AnalyzeGap,
         TimeoutInGaps, JudgeGap
<1>6. Tailcalls => img' = img
  BY DEF Tailcalls, FindTailcalls, RepeatTailcall, SplitAtTailcall, AfterTailcallTarget,
         MarkTailcallFunction, TimeoutInTailcalls, TailcallsResolved
<1>7. Finish \/ Done \/ UNCHANGED vars => img' = img
  BY DEF Finish, Done, vars
<1>8. QED
  BY <1>1, <1>2, <1>3, <1>4, <1>5, <1>6, <1>7 DEF Next

(* No two instructions of the image overlap.                               *)
NoOverlap == \A a, b \in DOMAIN img.ins : a < b => a + img.ins[a].size <= b

(* The strengthening.  What is stored decodes; and the instructions of the  *)
(* call that books them are of no function, while the calls below it book   *)
(* no more.                                                                 *)
Booking == {"enter", "block", "decode", "dispatch", "book", "decoded"}

StoredDecodes == \A fn \in DOMAIN dis.functions : StoredIns(dis, fn) \subseteq DOMAIN img.ins

OwnInv == FunctionsOwnTheirCode /\ EntryIsABlock /\ StoredDecodes

Apart(ins) == \A fn \in DOMAIN dis.functions : StoredIns(dis, fn) \cap ins = {}

CallsApart ==
    \A i \in DOMAIN frames :
        frames[i].phase \in Booking => i = Len(frames) /\ Apart(frames[i].st.ins)

(* Functions were taken out of the result, or none was.                     *)
Fewer ==
    /\ DOMAIN dis'.functions \subseteq DOMAIN dis.functions
    /\ \A fn \in DOMAIN dis'.functions : dis'.functions[fn] = dis.functions[fn]

LEMMA FewerStored ==
    ASSUME Fewer, NEW fn \in DOMAIN dis'.functions
    PROVE  fn \in DOMAIN dis.functions /\ StoredIns(dis', fn) = StoredIns(dis, fn)
BY DEF Fewer, StoredIns

LEMMA FewerApart ==
    ASSUME Fewer, NEW ins, Apart(ins)
    PROVE  \A fn \in DOMAIN dis'.functions : StoredIns(dis', fn) \cap ins = {}
BY FewerStored DEF Apart

LEMMA SameResultFewer ==
    ASSUME dis' = dis
    PROVE  Fewer
BY DEF Fewer

LEMMA TopApart ==
    ASSUME IInv, CallsApart, Running, Top.phase \in Booking
    PROVE  Apart(Top.st.ins)
<1>1. Len(frames) \in DOMAIN frames
  BY DEF IInv, Running
<1>2. QED
  BY <1>1 DEF CallsApart, Top

(* The frame that runs is replaced.                                         *)
LEMMA ReplaceApart ==
    ASSUME IInv, CallsApart, Running, Fewer, NEW f, Replace(f),
           f.phase \in Booking => Apart(f.st.ins)
                                  \/ \A fn \in DOMAIN dis'.functions :
                                        StoredIns(dis', fn) \cap f.st.ins = {}
    PROVE  CallsApart'
<1>1. frames' = [frames EXCEPT ![Len(frames)] = f] /\ frames \in Seq(GoodFrames)
  BY DEF Replace, IInv
<1>2. DOMAIN frames' = DOMAIN frames /\ Len(frames') = Len(frames)
  BY <1>1
<1>3. ASSUME NEW i \in DOMAIN frames', frames'[i].phase \in Booking
      PROVE  /\ i = Len(frames')
             /\ \A fn \in DOMAIN dis'.functions : StoredIns(dis', fn) \cap frames'[i].st.ins = {}
  <2>1. CASE i # Len(frames)
    <3>1. frames'[i] = frames[i]
      BY <1>1, <1>2, <1>3, <2>1
    <3>2. QED
      BY <1>2, <1>3, <2>1, <3>1 DEF CallsApart
  <2>2. CASE i = Len(frames)
    <3>1. frames'[i] = f
      BY <1>1, <1>2, <1>3, <2>2
    <3>2. QED
      BY <1>2, <1>3, <2>2, <3>1, FewerApart
  <2>3. QED
    BY <2>1, <2>2
<1>4. QED
  BY <1>3 DEF CallsApart, Apart

(* The frame that runs goes on with the instructions it has.                *)
LEMMA KeptApart ==
    ASSUME IInv, CallsApart, Running, Fewer, NEW f, Replace(f),
           Top.phase \in Booking, f.st.ins = Top.st.ins
    PROVE  CallsApart'
BY TopApart, ReplaceApart

LEMMA CallApart ==
    ASSUME IInv, CallsApart, Running, dis' = dis, NEW f, NEW callee, Call(f, callee),
           f.phase \notin Booking, callee.st.ins = {}
    PROVE  CallsApart'
<1> DEFINE q == [frames EXCEPT ![Len(frames)] = f]
           S == GoodFrames \cup {f, callee}
<1>1. frames' = Append(q, callee) /\ frames \in Seq(GoodFrames) /\ Len(frames) \in Nat
  BY DEF Call, IInv
<1>2. Len(q) = Len(frames) /\ DOMAIN q = 1..Len(frames)
  BY <1>1
<1>3. q \in Seq(S) /\ callee \in S
  <2>1. frames \in Seq(S) /\ f \in S /\ callee \in S /\ frames # <<>>
    BY <1>1 DEF Running
  <2> HIDE DEF S
  <2>2. QED
    BY <2>1, ReplaceLast
<1>4. \A i \in 1..Len(frames) : q[i].phase \notin Booking
  <2>1. ASSUME NEW i \in 1..Len(frames), i # Len(frames)
        PROVE  q[i].phase \notin Booking
    BY <1>1, <2>1 DEF CallsApart
  <2>2. q[Len(frames)] = f \/ Len(frames) = 0
    BY <1>1
  <2>3. f.phase \notin Booking
    OBVIOUS
  <2> HIDE DEF q
  <2>4. QED
    BY <1>1, <2>1, <2>2, <2>3
<1> HIDE DEF q, S
<1>5. /\ Len(frames') = Len(frames) + 1
      /\ DOMAIN frames' = 1..(Len(frames) + 1)
      /\ frames'[Len(frames) + 1] = callee
      /\ \A i \in 1..Len(frames) : frames'[i] = q[i]
  BY <1>1, <1>2, <1>3, AppendProperties
<1>6. ASSUME NEW i \in DOMAIN frames', frames'[i].phase \in Booking
      PROVE  /\ i = Len(frames')
             /\ \A fn \in DOMAIN dis'.functions : StoredIns(dis', fn) \cap frames'[i].st.ins = {}
  <2>1. i = Len(frames) + 1
    BY <1>1, <1>4, <1>5, <1>6
  <2>2. QED
    BY <1>5, <2>1
<1>7. QED
  BY <1>6 DEF CallsApart, Apart

LEMMA ReturnApart ==
    ASSUME IInv, CallsApart, Running, Return
    PROVE  CallsApart'
<1>1. frames' = SubSeq(frames, 1, Len(frames) - 1) /\ frames \in Seq(GoodFrames)
  BY DEF Return, IInv
<1>2. Len(frames) \in Nat /\ Len(frames) >= 1
  BY <1>1 DEF Running
<1>3. ASSUME NEW i \in DOMAIN frames'
      PROVE  frames'[i].phase \notin Booking
  <2>1. i \in 1..(Len(frames) - 1) /\ frames'[i] = frames[i]
    BY <1>1, <1>2, <1>3
  <2>2. i \in DOMAIN frames /\ i # Len(frames)
    BY <1>1, <1>2, <2>1
  <2>3. QED
    BY <2>1, <2>2 DEF CallsApart
<1>4. QED
  BY <1>3 DEF CallsApart

LEMMA FreshIns ==
    ASSUME NEW a, NEW g, NEW k, NEW t
    PROVE  Frame(a, g, k, t).st.ins = {}
BY DEF Frame, AddTable, NewState

LEMMA StartApart ==
    ASSUME CallsApart, dis' = dis,
           frames' = frames \/ \E a \in Nat : \E g, k, t : frames' = <<Frame(a, g, k, t)>>
    PROVE  CallsApart'
<1>1. CASE frames' = frames
  BY <1>1 DEF CallsApart, Apart, StoredIns
<1>2. CASE \E a \in Nat : \E g, k, t : frames' = <<Frame(a, g, k, t)>>
  <2>1. PICK a, g, k, t : a \in Nat /\ frames' = <<Frame(a, g, k, t)>>
    BY <1>2
  <2> DEFINE f == Frame(a, g, k, t)
  <2>2. f.st.ins = {}
    BY FreshIns
  <2> HIDE DEF f
  <2>3. Len(frames') = 1 /\ \A i \in DOMAIN frames' : i = 1 /\ frames'[i] = f
    BY <2>1 DEF f
  <2>4. QED
    BY <2>2, <2>3 DEF CallsApart, Apart
<1>3. QED
  BY <1>1, <1>2

LEMMA TopHasIns ==
    ASSUME IInv, Running
    PROVE  HasIns(Top.st) /\ Top \in FrameType
<1>1. Top \in FrameType /\ Top.st \in FnState
  BY TopGood DEF FrameOk, FrameType
<1>2. QED
  BY <1>1 DEF HasIns, FnState

(* A frame of another phase or another state.                               *)
LEMMA MovedApart ==
    ASSUME IInv, CallsApart, Running, Fewer, Top.phase \in Booking, NEW s,
           KeepsIns(Top.st, s), NEW f, Replace(f), f.st = s
    PROVE  CallsApart'
BY TopHasIns, KeptApart DEF KeepsIns

LEMMA CountedKeepsIns == KeepsIns(Top.st, Counted)
BY DEF KeepsIns, HasIns, Counted

LEMMA DecodeApart ==
    ASSUME IInv, CallsApart, Decode
    PROVE  CallsApart'
<1>0. Running /\ Fewer
  <2>1. dis' = dis
    BY DEF Decode, Enter, Refuse, ChooseBlock, TimeoutInFunction, NoBlockLeft, RunsOut,
           CutAtTable, AbortSuspicious, CutAtLandingPad, CutAtPadding
  <2>2. QED
    BY <2>1, RunningSteps, SameResultFewer
<1>p. Top.phase \in Booking
  BY DEF Decode, Enter, Refuse, ChooseBlock, TimeoutInFunction, NoBlockLeft, RunsOut,
         CutAtTable, AbortSuspicious, CutAtLandingPad, CutAtPadding, Classifiable, At, Booking
<1>t. Top \in FrameType
  BY <1>0, TopHasIns
<1>e. ASSUME NEW u, KeepsIns(Top.st, u)
      PROVE  KeepsIns(Top.st, SetSanelyEnding(EndBlock(SetBlockEnding(u))))
  <2> DEFINE t1 == SetBlockEnding(u)
             t2 == EndBlock(t1)
  <2>1. KeepsIns(Top.st, t1)
    BY <1>e, AsideKeepsIns, KeptTwice
  <2> HIDE DEF t1
  <2>2. KeepsIns(Top.st, t2)
    BY <2>1, QueueKeepsIns, KeptTwice
  <2> HIDE DEF t2
  <2>3. KeepsIns(Top.st, SetSanelyEnding(t2))
    BY <2>2, AsideKeepsIns, KeptTwice
  <2>4. QED
    BY <2>3 DEF t1, t2
<1>f. ASSUME NEW p, NEW u, KeepsIns(Top.st, u),
             Replace([Top EXCEPT !.phase = p, !.st = u])
      PROVE  CallsApart'
  <2> DEFINE f == [Top EXCEPT !.phase = p, !.st = u]
  <2>1. f.st = u
    BY <1>t DEF FrameType
  <2> HIDE DEF f
  <2>2. QED
    BY <1>0, <1>p, <1>f, <2>1, MovedApart DEF f
<1>1. CASE Enter \/ NoBlockLeft \/ RunsOut \/ TimeoutInFunction
  <2>1. PICK f \in {[Top EXCEPT !.phase = "block"], [Top EXCEPT !.phase = "decoded"],
                    [Top EXCEPT !.phase = "decoded", !.blocks = Top.blocks + 1]} : Replace(f)
    BY <1>1 DEF Enter, NoBlockLeft, RunsOut, TimeoutInFunction
  <2>2. f.st = Top.st
    BY <1>t, <2>1 DEF FrameType
  <2>3. QED
    BY <1>0, <1>p, <2>1, <2>2, KeptApart
<1>2. CASE Refuse
  BY <1>0, <1>2, ReturnApart DEF Refuse
<1>3. CASE ChooseBlock
  <2> DEFINE u == ChooseNextBlock(Top.st)
             f == [Top EXCEPT !.phase = "decode", !.blocks = Top.blocks + 1, !.st = u,
                              !.pc = NextQueued(Top.st), !.prev = NoAddr]
  <2>1. Replace(f)
    BY <1>3 DEF ChooseBlock
  <2>2. KeepsIns(Top.st, u)
    BY QueueKeepsIns
  <2> HIDE DEF u
  <2>3. f.st = u
    BY <1>t DEF FrameType
  <2> HIDE DEF f
  <2>4. QED
    BY <1>0, <1>p, <2>1, <2>2, <2>3, MovedApart
<1>4. CASE CutAtTable
  <2> DEFINE u == IF Top.prev # NoAddr THEN RemoveCodeRef(Top.st, Top.prev, Top.pc) ELSE Top.st
  <2>1. KeepsIns(Top.st, u)
    BY RefsKeepIns DEF KeepsIns
  <2>2. Replace([Top EXCEPT !.phase = "block", !.st = SetSanelyEnding(EndBlock(SetBlockEnding(u)))])
    BY <1>4 DEF CutAtTable
  <2> HIDE DEF u
  <2>3. QED
    BY <1>e, <1>f, <2>1, <2>2
<1>5. CASE AbortSuspicious
  <2> DEFINE u == [Top.st EXCEPT !.suspicious = Top.st.suspicious + 1]
             f == Concluding([Top EXCEPT !.st = u])
  <2>1. Replace(f)
    <3>1. Replace(Concluding([Top EXCEPT !.st.suspicious = Top.st.suspicious + 1]))
      BY <1>5 DEF AbortSuspicious
    <3>2. [Top EXCEPT !.st.suspicious = Top.st.suspicious + 1] = [Top EXCEPT !.st = u]
      BY <1>t DEF FrameType
    <3>3. QED
      BY <3>1, <3>2
  <2>2. KeepsIns(Top.st, u)
    BY DEF KeepsIns, HasIns
  <2> HIDE DEF u
  <2>3. f.st = u
    BY <1>t DEF FrameType, Concluding
  <2> HIDE DEF f
  <2>4. QED
    BY <1>0, <1>p, <2>1, <2>2, <2>3, MovedApart
<1>6. CASE CutAtLandingPad
  BY <1>e, <1>f, <1>6, CountedKeepsIns DEF CutAtLandingPad
<1>7. CASE CutAtPadding
  <2> DEFINE u == RemoveCodeRef(Counted, Top.prev, Top.pc)
  <2>1. KeepsIns(Top.st, u)
    BY CountedKeepsIns, RefsKeepIns, KeptTwice
  <2>2. Replace([Top EXCEPT !.phase = "block", !.st = SetSanelyEnding(EndBlock(SetBlockEnding(u)))])
    BY <1>7 DEF CutAtPadding
  <2> HIDE DEF u
  <2>3. QED
    BY <1>e, <1>f, <2>1, <2>2
<1>8. QED
  BY <1>1, <1>2, <1>3, <1>4, <1>5, <1>6, <1>7 DEF Decode

LEMMA ClassifiedApart ==
    ASSUME IInv, CallsApart, Running, Fewer, Top.phase \in Booking, NEW s,
           KeepsIns(Top.st, s), Classified(s)
    PROVE  CallsApart'
<1> DEFINE f == [Top EXCEPT !.phase = "book", !.st = s]
<1>1. Replace(f)
  BY DEF Classified
<1>2. f.st = s
  BY TopHasIns DEF FrameType
<1> HIDE DEF f
<1>3. QED
  BY <1>1, <1>2, MovedApart

LEMMA BranchKeepsIns ==
    ASSUME NEW s, KeepsIns(Top.st, s)
    PROVE  /\ \A t : KeepsIns(Top.st, JumpTo(s, t))
           /\ \A b : KeepsIns(Top.st, AddBlockToQueue(s, b))
           /\ \A j : KeepsIns(Top.st, AddCodeRef(s, Top.pc, Here.target, j))
           /\ KeepsIns(Top.st, CondTaken(s))
           /\ KeepsIns(Top.st, SetSanelyEnding(s))
           /\ KeepsIns(Top.st, SetBlockEnding(s))
           /\ KeepsIns(Top.st, EndInstruction(s))
           /\ KeepsIns(Top.st, [s EXCEPT !.reachable = FALSE, !.ending = TRUE])
<1>1. \A b : KeepsIns(Top.st, AddBlockToQueue(s, b))
  BY QueueKeepsIns, KeptTwice
<1>2. \A t : KeepsIns(Top.st, JumpTo(s, t))
  <2>1. ASSUME NEW t
        PROVE  KeepsIns(Top.st, JumpTo(s, t))
    <3> DEFINE u == AddBlockToQueue(s, t)
    <3>1. KeepsIns(Top.st, u)
      BY <1>1
    <3>2. JumpTo(s, t) = AddCodeRef(u, Top.pc, t, TRUE) \/ JumpTo(s, t) = s
      BY DEF JumpTo
    <3> HIDE DEF u
    <3>3. KeepsIns(Top.st, AddCodeRef(u, Top.pc, t, TRUE))
      BY <3>1, RefsKeepIns, KeptTwice
    <3>4. QED
      BY <3>2, <3>3
  <2>2. QED
    BY <2>1
<1>3. \A j : KeepsIns(Top.st, AddCodeRef(s, Top.pc, Here.target, j))
  BY RefsKeepIns, KeptTwice
<1>4. KeepsIns(Top.st, CondTaken(s))
  <2> DEFINE u == AddCodeRef(s, Top.pc, Here.target, TRUE)
  <2>1. KeepsIns(Top.st, u)
    BY <1>3
  <2>2. CondTaken(s) = SetBlockEnding(u)
    BY DEF CondTaken
  <2> HIDE DEF u
  <2>3. QED
    BY <2>1, <2>2, AsideKeepsIns, KeptTwice
<1>5. /\ KeepsIns(Top.st, SetSanelyEnding(s))
      /\ KeepsIns(Top.st, SetBlockEnding(s))
      /\ KeepsIns(Top.st, EndInstruction(s))
  BY AsideKeepsIns, KeptTwice
<1>6. KeepsIns(Top.st, [s EXCEPT !.reachable = FALSE, !.ending = TRUE])
  BY DEF KeepsIns, HasIns
<1>7. QED
  BY <1>1, <1>2, <1>3, <1>4, <1>5, <1>6

LEMMA RevertedFewer ==
    ASSUME NEW fn, NEW w, dis' = RevertStored(dis, fn, w)
    PROVE  Fewer
BY RevertedFunctions DEF RevertStored, Fewer

LEMMA AnalyzeApart ==
    ASSUME IInv, CallsApart, Analyze
    PROVE  CallsApart'
<1>0. Running /\ Fewer
  <2>1. CASE AnalyzeCondJmpAbsorbing
    BY <2>1, RunningSteps, RevertedFewer DEF AnalyzeCondJmpAbsorbing
  <2>2. CASE ~AnalyzeCondJmpAbsorbing
    <3>1. dis' = dis
      BY <2>2 DEF Analyze, AnalyzePlain, AnalyzeCall, AnalyzeRegisterCall, AnalyzeLoop,
             AnalyzeReturn, AnalyzeJmp, AnalyzeCondJmp, AnalyzeTableJmp, DispatchCase, Dispatched
    <3>2. QED
      BY <3>1, RunningSteps, SameResultFewer
  <2>3. QED
    BY <2>1, <2>2
<1>p. Top.phase \in Booking
  BY DEF Analyze, AnalyzePlain, AnalyzeCall, AnalyzeRegisterCall, AnalyzeLoop, AnalyzeReturn,
         AnalyzeJmp, AnalyzeCondJmp, AnalyzeCondJmpAbsorbing, AnalyzeTableJmp, DispatchCase,
         Dispatched, Classifiable, At, Booking
<1>t. Top \in FrameType
  BY <1>0, TopHasIns
<1>s. KeepsIns(Top.st, Top.st)
  BY DEF KeepsIns
<1>1. CASE AnalyzePlain
  BY <1>0, <1>p, <1>1, CountedKeepsIns, ClassifiedApart DEF AnalyzePlain
<1>2. CASE AnalyzeCall
  <2> DEFINE t == IF Here.target \in img.extent
                  THEN AddCodeRef(Counted, Top.pc, Here.target, FALSE) ELSE Counted
  <2>1. KeepsIns(Top.st, t)
    BY CountedKeepsIns, BranchKeepsIns
  <2>2. Classified(t)
    BY <1>2 DEF AnalyzeCall
  <2> HIDE DEF t
  <2>3. QED
    BY <1>0, <1>p, <2>1, <2>2, ClassifiedApart
<1>3. CASE AnalyzeRegisterCall
  <2> DEFINE t == [Counted EXCEPT !.regCalls = Counted.regCalls \cup {Top.pc}]
  <2>1. KeepsIns(Counted, t)
    BY DEF KeepsIns, HasIns
  <2>2. Classified(t)
    BY <1>3 DEF AnalyzeRegisterCall
  <2> HIDE DEF t
  <2>3. QED
    BY <1>0, <1>p, <2>1, <2>2, CountedKeepsIns, KeptTwice, ClassifiedApart
<1>4. CASE AnalyzeLoop
  <2> DEFINE q == AddBlockToQueue(Counted, Here.target)
             r == AddCodeRef(q, Top.pc, Here.target, TRUE)
             n == AddBlockToQueue(r, NextPc)
             t == SetBlockEnding(n)
  <2>1. Classified(t)
    BY <1>4 DEF AnalyzeLoop
  <2>2. KeepsIns(Top.st, q)
    BY CountedKeepsIns, BranchKeepsIns
  <2> HIDE DEF q
  <2>3. KeepsIns(Top.st, r)
    BY <2>2, BranchKeepsIns
  <2> HIDE DEF r
  <2>4. KeepsIns(Top.st, n)
    BY <2>3, BranchKeepsIns
  <2> HIDE DEF n
  <2>5. KeepsIns(Top.st, t)
    BY <2>4, BranchKeepsIns
  <2> HIDE DEF t
  <2>6. QED
    BY <1>0, <1>p, <2>1, <2>5, ClassifiedApart
<1>5. CASE AnalyzeReturn
  <2> DEFINE e == EndInstruction(Counted)
             t == JumpTo(e, Here.target)
  <2>1. Classified(t)
    BY <1>5 DEF AnalyzeReturn
  <2>2. KeepsIns(Top.st, e)
    BY CountedKeepsIns, BranchKeepsIns
  <2> HIDE DEF e
  <2>3. KeepsIns(Top.st, t)
    BY <2>2, BranchKeepsIns
  <2> HIDE DEF t
  <2>4. QED
    BY <1>0, <1>p, <2>1, <2>3, ClassifiedApart
<1>6. CASE AnalyzeJmp
  <2> DEFINE known == CASE Here.target \in DOMAIN dis.functions -> SetSanelyEnding(Counted)
                        [] Here.target \notin DOMAIN dis.functions
                           /\ (Here.target \in fcm.offsets \/ Counted.ins = {}) -> Counted
                        [] OTHER -> AddBlockToQueue(Counted, Here.target)
             r == AddCodeRef(known, Top.pc, Here.target, TRUE)
             t == [r EXCEPT !.reachable = FALSE, !.ending = TRUE]
  <2>1. Classified(t)
    BY <1>6 DEF AnalyzeJmp
  <2>2. known \in {SetSanelyEnding(Counted), Counted, AddBlockToQueue(Counted, Here.target)}
    OBVIOUS
  <2>3. KeepsIns(Top.st, known)
    <3> HIDE DEF known
    <3>1. QED
      BY <2>2, CountedKeepsIns, BranchKeepsIns
  <2> HIDE DEF known
  <2>4. KeepsIns(Top.st, r)
    BY <2>3, BranchKeepsIns
  <2> HIDE DEF r
  <2>5. KeepsIns(Top.st, t)
    BY <2>4, BranchKeepsIns
  <2> HIDE DEF t
  <2>6. QED
    BY <1>0, <1>p, <2>1, <2>5, ClassifiedApart
<1>7. CASE AnalyzeCondJmp
  <2> DEFINE fall == AddBlockToQueue(Counted, NextPc)
             q == CASE Here.target \in DOMAIN dis.functions -> SetSanelyEnding(fall)
                    [] /\ Here.target \notin DOMAIN dis.functions
                       /\ Here.target \in fcm.offsets
                       /\ IsEvidencedEntry(Here.target) -> fall
                    [] OTHER -> AddBlockToQueue(fall, Here.target)
  <2>1. Classified(CondTaken(q))
    BY <1>7 DEF AnalyzeCondJmp
  <2>2. q \in {SetSanelyEnding(fall), fall, AddBlockToQueue(fall, Here.target)}
    OBVIOUS
  <2>3. KeepsIns(Top.st, fall)
    BY CountedKeepsIns, BranchKeepsIns
  <2> HIDE DEF fall, q
  <2>4. KeepsIns(Top.st, q)
    BY <2>2, <2>3, BranchKeepsIns
  <2>5. KeepsIns(Top.st, CondTaken(q))
    BY <2>4, BranchKeepsIns
  <2>6. QED
    BY <1>0, <1>p, <2>1, <2>5, ClassifiedApart
<1>8. CASE AnalyzeCondJmpAbsorbing
  <2> DEFINE fall == AddBlockToQueue(Counted, NextPc)
             undone == [fall EXCEPT !.absorbed = Append(fall.absorbed, Here.target)]
             q == AddBlockToQueue(undone, Here.target)
  <2>1. Classified(CondTaken(q))
    BY <1>8 DEF AnalyzeCondJmpAbsorbing
  <2>2. KeepsIns(Top.st, fall)
    BY CountedKeepsIns, BranchKeepsIns
  <2> HIDE DEF fall
  <2>3. KeepsIns(fall, undone)
    BY DEF KeepsIns, HasIns
  <2>4. KeepsIns(Top.st, undone)
    BY <2>2, <2>3, KeptTwice
  <2> HIDE DEF undone
  <2>5. KeepsIns(Top.st, q)
    BY <2>4, BranchKeepsIns
  <2> HIDE DEF q
  <2>6. KeepsIns(Top.st, CondTaken(q))
    BY <2>5, BranchKeepsIns
  <2>7. QED
    BY <1>0, <1>p, <2>1, <2>6, ClassifiedApart
<1>9. CASE AnalyzeTableJmp
  <2> DEFINE t == AddTable(Counted, Here.table)
             f == [Top EXCEPT !.phase = "dispatch", !.todo = Here.cases, !.st = t]
  <2>1. Replace(f)
    BY <1>9 DEF AnalyzeTableJmp
  <2>2. KeepsIns(Top.st, t)
    BY CountedKeepsIns, AsideKeepsIns, KeptTwice
  <2> HIDE DEF t
  <2>3. f.st = t
    BY <1>t DEF FrameType
  <2> HIDE DEF f
  <2>4. QED
    BY <1>0, <1>p, <2>1, <2>2, <2>3, MovedApart
<1>10. CASE DispatchCase
  <2> DEFINE t == JumpTo(Top.st, Head(Top.todo))
             f == [Top EXCEPT !.todo = Tail(Top.todo), !.st = t]
  <2>1. Replace(f)
    BY <1>10 DEF DispatchCase
  <2>2. KeepsIns(Top.st, t)
    BY <1>s, BranchKeepsIns
  <2> HIDE DEF t
  <2>3. f.st = t
    BY <1>t DEF FrameType
  <2> HIDE DEF f
  <2>4. QED
    BY <1>0, <1>p, <2>1, <2>2, <2>3, MovedApart
<1>11. CASE Dispatched
  <2> DEFINE t == [Top.st EXCEPT !.reachable = FALSE, !.ending = TRUE]
  <2>1. Classified(t)
    BY <1>11 DEF Dispatched
  <2>2. KeepsIns(Top.st, t)
    BY <1>s, BranchKeepsIns
  <2> HIDE DEF t
  <2>3. QED
    BY <1>0, <1>p, <2>1, <2>2, ClassifiedApart
<1>12. QED
  BY <1>1, <1>2, <1>3, <1>4, <1>5, <1>6, <1>7, <1>8, <1>9, <1>10, <1>11 DEF Analyze

LEMMA BookedIns ==
    ASSUME IInv, At("book"), NEW s, HasIns(s)
    PROVE  Booked(Top, s).st.ins = s.ins
<1>0. Top \in FrameType
  BY TopHasIns DEF At
<1>1. CASE s.ending
  <2> DEFINE e == EndBlock(s)
  <2>1. e.ins = s.ins
    BY QueueKeepsIns DEF KeepsIns
  <2>2. Booked(Top, s) = [Top EXCEPT !.phase = "block", !.st = e, !.prev = Top.pc]
    BY <1>1 DEF Booked
  <2> HIDE DEF e
  <2>3. QED
    BY <1>0, <2>1, <2>2 DEF FrameType
<1>2. CASE ~s.ending
  <2>1. Booked(Top, s) = [Top EXCEPT !.phase = "decode", !.st = s, !.prev = Top.pc, !.pc = NextPc]
    BY <1>2 DEF Booked
  <2>2. QED
    BY <1>0, <2>1 DEF FrameType
<1>3. QED
  BY <1>1, <1>2

(* The bytes of what a function is made of are its own.                     *)
LEMMA OwnsBytes ==
    ASSUME FunctionsOwnTheirCode, NEW fn \in DOMAIN dis.functions,
           NEW a \in StoredIns(dis, fn), NEW b \in Bytes(a, img.ins[a].size)
    PROVE  IsCode(b) /\ dis.ins2fn[b] = fn
BY DEF FunctionsOwnTheirCode, BytesOf

LEMMA OwnsStart ==
    ASSUME IInv, OwnInv, NEW fn \in DOMAIN dis.functions, NEW a \in StoredIns(dis, fn)
    PROVE  IsCode(a) /\ dis.ins2fn[a] = fn
<1>1. a \in DOMAIN img.ins
  BY DEF OwnInv, StoredDecodes
<1>2. a \in Bytes(a, img.ins[a].size)
  BY <1>1, ImageFacts DEF IInv, Bytes
<1>3. QED
  BY <1>2, OwnsBytes DEF OwnInv

(* An instruction is booked where no function owns its address, or where    *)
(* the one that did was undone.                                             *)
LEMMA AddedApart ==
    ASSUME IInv, CallsApart, OwnInv, Running, Top.phase \in Booking, Fewer,
           \A fn \in DOMAIN dis'.functions : Top.pc \notin StoredIns(dis, fn)
    PROVE  LET s == AddInstruction(Top.st, Top.pc, Here.size)
           IN  \A fn \in DOMAIN dis'.functions : StoredIns(dis', fn) \cap s.ins = {}
<1>1. AddInstruction(Top.st, Top.pc, Here.size).ins = Top.st.ins \cup {Top.pc}
  BY TopHasIns, InstructionAdded
<1>2. ASSUME NEW fn \in DOMAIN dis'.functions
      PROVE  StoredIns(dis', fn) \cap (Top.st.ins \cup {Top.pc}) = {}
  BY <1>2, TopApart, FewerStored DEF Apart
<1>3. QED
  BY <1>1, <1>2

LEMMA BookApart ==
    ASSUME IInv, CallsApart, OwnInv, Book
    PROVE  CallsApart'
<1>0. At("book") /\ Running /\ Top.phase \in Booking
  BY DEF Book, BookFree, BookAgain, BookOverGapFunction, BookCollision, At, Booking
<1>t. HasIns(Top.st) /\ Top \in FrameType
  BY <1>0, TopHasIns
<1> DEFINE added == AddInstruction(Top.st, Top.pc, Here.size)
<1>a. Good(added) /\ HasIns(added)
  <2>1. Good(added)
    BY <1>0, AddedGood
  <2> HIDE DEF added
  <2>2. QED
    BY <2>1 DEF Good, HasIns, FnState
<1>1. CASE BookFree
  <2>1. Replace(Booked(Top, added)) /\ dis' = dis /\ Fewer
    BY <1>1, SameResultFewer DEF BookFree
  <2>2. \A fn \in DOMAIN dis'.functions : Top.pc \notin StoredIns(dis, fn)
    BY <1>1, <2>1, OwnsStart DEF BookFree
  <2>3. \A fn \in DOMAIN dis'.functions : StoredIns(dis', fn) \cap added.ins = {}
    BY <1>0, <2>1, <2>2, AddedApart
  <2> HIDE DEF added
  <2>4. Booked(Top, added).st.ins = added.ins
    BY <1>0, <1>a, BookedIns
  <2>5. QED
    BY <1>0, <2>1, <2>3, <2>4, ReplaceApart
<1>2. CASE BookAgain
  <2> DEFINE s == SetBlockEnding(Top.st)
  <2>1. Replace(Booked(Top, s)) /\ Fewer
    BY <1>2, SameResultFewer DEF BookAgain
  <2>2. HasIns(s) /\ s.ins = Top.st.ins
    BY <1>t, AsideKeepsIns DEF KeepsIns
  <2> HIDE DEF s
  <2>3. QED
    BY <1>0, <2>1, <2>2, BookedIns, KeptApart
<1>3. CASE BookOverGapFunction
  <2> DEFINE owner == dis.ins2fn[Top.pc]
             b == Booked(Top, added)
             f == [b EXCEPT !.gapReverts = Append(Top.gapReverts, owner)]
  <2>1. Replace(f) /\ dis' = RevertStored(dis, owner, FALSE)
    BY <1>3 DEF BookOverGapFunction
  <2>2. Fewer /\ owner \notin DOMAIN dis'.functions
    <3>1. DOMAIN dis'.functions = DOMAIN dis.functions \ {owner}
      BY <2>1, RevertedFunctions DEF RevertStored
    <3> HIDE DEF owner
    <3>2. QED
      BY <2>1, <3>1, RevertedFewer
  <2>3. \A fn \in DOMAIN dis'.functions : Top.pc \notin StoredIns(dis, fn)
    BY <2>2, OwnsStart, FewerStored
  <2>4. \A fn \in DOMAIN dis'.functions : StoredIns(dis', fn) \cap added.ins = {}
    BY <1>0, <2>2, <2>3, AddedApart
  <2>5. b \in GoodFrames
    BY <1>0, AddedGood, BookedGood
  <2> HIDE DEF added
  <2>6. b.st.ins = added.ins
    BY <1>0, <1>a, BookedIns
  <2> HIDE DEF b
  <2>7. f.st = b.st
    BY <2>5 DEF GoodFrames, FrameType
  <2> HIDE DEF f
  <2>8. QED
    BY <1>0, <2>1, <2>2, <2>4, <2>6, <2>7, ReplaceApart
<1>4. CASE BookCollision
  <2> DEFINE e == SetBlockEnding(Top.st)
             s == AddCollision(e, Top.pc)
  <2>1. Replace(Booked(Top, s)) /\ Fewer
    BY <1>4, SameResultFewer DEF BookCollision
  <2>2. KeepsIns(Top.st, e)
    BY AsideKeepsIns
  <2> HIDE DEF e
  <2>3. KeepsIns(Top.st, s)
    BY <2>2, AsideKeepsIns, KeptTwice
  <2> HIDE DEF s
  <2>4. HasIns(s) /\ s.ins = Top.st.ins
    BY <1>t, <2>3 DEF KeepsIns
  <2>5. QED
    BY <1>0, <2>1, <2>4, BookedIns, KeptApart
<1>5. QED
  BY <1>1, <1>2, <1>3, <1>4 DEF Book

(* A concluding frame books no more, so what is stored may change.          *)
LEMMA ConcludedApart ==
    ASSUME IInv, CallsApart, Running, NEW f, Replace(f), f.phase \notin Booking
    PROVE  CallsApart'
<1>1. frames' = [frames EXCEPT ![Len(frames)] = f] /\ frames \in Seq(GoodFrames)
  BY DEF Replace, IInv
<1>2. ASSUME NEW i \in DOMAIN frames'
      PROVE  frames'[i].phase \notin Booking
  BY <1>1, <1>2 DEF CallsApart
<1>3. QED
  BY <1>2 DEF CallsApart

LEMMA ConcludeApart ==
    ASSUME IInv, CallsApart, Conclude
    PROVE  CallsApart'
<1>0. Running
  BY RunningSteps
<1>t. Top \in FrameType
  BY <1>0, TopHasIns
<1>1. CASE DecodeAgain
  <2> DEFINE f == [Top EXCEPT !.phase = "restoreGaps", !.todo = Top.gapReverts]
             g == Frame(Top.st.start, Top.asGap, TRUE, Top.st.table)
  <2>1. Call(f, g) /\ dis' = dis
    BY <1>1 DEF DecodeAgain
  <2>2. f.phase \notin Booking /\ g.st.ins = {}
    BY <1>t, FreshIns DEF FrameType, Booking
  <2> HIDE DEF f, g
  <2>3. QED
    BY <1>0, <2>1, <2>2, CallApart
<1>2. CASE KeepFunction \/ RejectFunction
  <2> DEFINE f == Concluding([Top EXCEPT !.completed = TRUE])
  <2>1. Replace(f)
    BY <1>2 DEF KeepFunction, RejectFunction
  <2>2. f.phase \notin Booking
    BY <1>t DEF FrameType, Concluding, Booking
  <2> HIDE DEF f
  <2>3. QED
    BY <1>0, <2>1, <2>2, ConcludedApart
<1>3. CASE RestoreGapFunction
  <2>1. CASE IsCode(Head(Top.todo))
    <3> DEFINE f == [Top EXCEPT !.todo = Tail(Top.todo)]
    <3>1. Replace(f) /\ Top.phase = "restoreGaps"
      BY <1>3, <2>1 DEF RestoreGapFunction, At
    <3>2. f.phase \notin Booking
      BY <1>t, <3>1 DEF FrameType, Booking
    <3> HIDE DEF f
    <3>3. QED
      BY <1>0, <3>1, <3>2, ConcludedApart
  <2>2. CASE ~IsCode(Head(Top.todo))
    <3> DEFINE f == [Top EXCEPT !.phase = "restoredGap"]
               g == Frame(Head(Top.todo), TRUE, FALSE, {})
    <3>1. Call(f, g) /\ dis' = dis
      BY <1>3, <2>2 DEF RestoreGapFunction
    <3>2. f.phase \notin Booking /\ g.st.ins = {}
      BY <1>t, FreshIns DEF FrameType, Booking
    <3> HIDE DEF f, g
    <3>3. QED
      BY <1>0, <3>1, <3>2, CallApart
  <2>3. QED
    BY <2>1, <2>2
<1>4. CASE RestoredGapFunction
  <2> DEFINE f == [Top EXCEPT !.phase = "restoreGaps", !.todo = Tail(Top.todo)]
  <2>1. Replace(f)
    BY <1>4 DEF RestoredGapFunction
  <2>2. f.phase \notin Booking
    BY <1>t DEF FrameType, Booking
  <2> HIDE DEF f
  <2>3. QED
    BY <1>0, <2>1, <2>2, ConcludedApart
<1>5. CASE GapFunctionsRestored
  <2>1. Replace(Concluding(Top))
    BY <1>5 DEF GapFunctionsRestored
  <2>2. Concluding(Top).phase \notin Booking
    BY <1>t DEF FrameType, Concluding, Booking
  <2>3. QED
    BY <1>0, <2>1, <2>2, ConcludedApart
<1>6. CASE RestoreAbsorbed
  <2> DEFINE f == [Top EXCEPT !.todo = Tail(Top.todo)]
             g == Frame(Head(Top.todo), FALSE, FALSE, {})
  <2>1. (Replace(f) \/ Call(f, g)) /\ dis' = dis /\ Top.phase = "restoreAbsorbed"
    BY <1>6 DEF RestoreAbsorbed, At
  <2>2. f.phase \notin Booking /\ g.st.ins = {}
    BY <1>t, <2>1, FreshIns DEF FrameType, Booking
  <2> HIDE DEF f, g
  <2>3. QED
    BY <1>0, <2>1, <2>2, CallApart, ConcludedApart
<1>7. CASE ReturnFromFunction
  BY <1>0, <1>7, ReturnApart DEF ReturnFromFunction
<1>8. QED
  BY <1>1, <1>2, <1>3, <1>4, <1>5, <1>6, <1>7 DEF Conclude

LEMMA RevertOwned ==
    ASSUME IInv, OwnInv, img' = img, NEW fn \in DOMAIN dis.functions, NEW w,
           dis' = RevertStored(dis, fn, w)
    PROVE  OwnInv'
<1>1. /\ DOMAIN dis'.functions = DOMAIN dis.functions \ {fn}
      /\ dis'.instructions = dis.instructions \ StoredIns(dis, fn)
      /\ dis'.ins2fn = Without(dis.ins2fn, BytesOf(StoredIns(dis, fn)))
  BY RevertedFunctions DEF RevertStored, Reverted
<1>2. Fewer
  BY RevertedFewer
<1>3. ASSUME NEW g \in DOMAIN dis'.functions
      PROVE  /\ StoredIns(dis', g) \subseteq dis'.instructions
             /\ \A b \in BytesOf(StoredIns(dis', g)) : b \in DOMAIN dis'.ins2fn /\ dis'.ins2fn[b] = g
             /\ g \in DOMAIN dis'.functions[g]
             /\ StoredIns(dis', g) \subseteq DOMAIN img.ins
  <2>1. g \in DOMAIN dis.functions /\ g # fn /\ StoredIns(dis', g) = StoredIns(dis, g)
        /\ dis'.functions[g] = dis.functions[g]
    BY <1>1, <1>2, <1>3, FewerStored DEF Fewer
  <2>2. StoredIns(dis', g) \subseteq dis'.instructions
    <3>1. StoredIns(dis, g) \subseteq dis.instructions
      BY <2>1 DEF OwnInv, FunctionsOwnTheirCode
    <3>2. StoredIns(dis, g) \cap StoredIns(dis, fn) = {}
      BY <2>1, OwnsStart
    <3>3. QED
      BY <1>1, <2>1, <3>1, <3>2
  <2>3. ASSUME NEW b \in BytesOf(StoredIns(dis', g))
        PROVE  b \in DOMAIN dis'.ins2fn /\ dis'.ins2fn[b] = g
    <3>1. b \in DOMAIN dis.ins2fn /\ dis.ins2fn[b] = g
      BY <2>1, <2>3 DEF OwnInv, FunctionsOwnTheirCode, IsCode
    <3>2. b \notin BytesOf(StoredIns(dis, fn))
      BY <2>1, <3>1 DEF OwnInv, FunctionsOwnTheirCode
    <3>3. QED
      BY <1>1, <3>1, <3>2 DEF Without
  <2>4. QED
    BY <2>1, <2>2, <2>3 DEF OwnInv, EntryIsABlock, StoredDecodes
<1>4. QED
  BY <1>3 DEF OwnInv, FunctionsOwnTheirCode, EntryIsABlock, StoredDecodes, IsCode, BytesOf

(* Without overlaps, instructions apart are bytes apart.                    *)
LEMMA BytesApart ==
    ASSUME NoOverlap, IInv, NEW A, NEW B, A \subseteq DOMAIN img.ins, B \subseteq DOMAIN img.ins,
           A \cap B = {}
    PROVE  BytesOf(A) \cap BytesOf(B) = {}
<1>1. ASSUME NEW a \in DOMAIN img.ins, NEW b \in DOMAIN img.ins, a < b
      PROVE  Bytes(a, img.ins[a].size) \cap Bytes(b, img.ins[b].size) = {}
  <2>1. a + img.ins[a].size <= b
    BY <1>1 DEF NoOverlap, IInv
  <2>2. a \in Nat /\ b \in Nat /\ img.ins[a].size \in Nat /\ img.ins[b].size \in Nat
    BY ImageFacts DEF IInv
  <2>3. QED
    BY <2>1, <2>2 DEF Bytes
<1>2. ASSUME NEW a \in A, NEW b \in B
      PROVE  Bytes(a, img.ins[a].size) \cap Bytes(b, img.ins[b].size) = {}
  <2>1. a \in Nat /\ b \in Nat /\ a # b
    BY ImageFacts DEF IInv
  <2>2. a < b \/ b < a
    BY <2>1
  <2>3. QED
    BY <1>1, <2>2
<1>3. QED
  BY <1>2 DEF BytesOf

LEMMA StoredOwned ==
    ASSUME NoOverlap, IInv, OwnInv, CallsApart, img' = img, KeepFunction, dis' # dis
    PROVE  OwnInv'
<1> DEFINE s == Top.st
           blocks == GetBlocks(s, img.ins)
<1>1. Running /\ Top.phase \in Booking
  BY DEF KeepFunction, At, Booking
<1>2. /\ dis'.functions = With(dis.functions, s.start, blocks)
      /\ dis'.ins2fn = Over(Constantly(BytesOf(s.ins), s.start), dis.ins2fn)
      /\ dis'.instructions = dis.instructions \cup s.ins
  BY DEF KeepFunction, Stored
<1>3. /\ DOMAIN dis'.functions = {s.start} \cup DOMAIN dis.functions
      /\ dis'.functions[s.start] = blocks
      /\ \A g \in DOMAIN dis.functions \ {s.start} : dis'.functions[g] = dis.functions[g]
  <2> HIDE DEF blocks, s
  <2>1. QED
    BY <1>2 DEF With, Over, Constantly
<1>4. /\ \A b \in BytesOf(s.ins) : b \in DOMAIN dis'.ins2fn /\ dis'.ins2fn[b] = s.start
      /\ \A b \in DOMAIN dis.ins2fn \ BytesOf(s.ins) :
            b \in DOMAIN dis'.ins2fn /\ dis'.ins2fn[b] = dis.ins2fn[b]
  BY <1>2 DEF Over, Constantly
<1>5. s.ins \subseteq DOMAIN img.ins /\ HasIns(s)
  BY <1>1, TopFacts, TopHasIns
<1>6. /\ \A b \in DOMAIN blocks : blocks[b] \subseteq s.ins
      /\ s.start \in DOMAIN blocks
  <2>1. s.start \in s.ins
    BY DEF KeepFunction, Accepts
  <2>2. QED
    BY <1>5, <2>1, BlocksAreInstructions
<1>7. StoredIns(dis', s.start) \subseteq s.ins
  <2> HIDE DEF blocks
  <2>1. QED
    BY <1>3, <1>6 DEF StoredIns
<1>8. ASSUME NEW g \in DOMAIN dis'.functions
      PROVE  /\ StoredIns(dis', g) \subseteq dis'.instructions
             /\ \A b \in BytesOf(StoredIns(dis', g)) : b \in DOMAIN dis'.ins2fn /\ dis'.ins2fn[b] = g
             /\ g \in DOMAIN dis'.functions[g]
             /\ StoredIns(dis', g) \subseteq DOMAIN img.ins
  <2>1. CASE g = s.start
    <3>1. BytesOf(StoredIns(dis', g)) \subseteq BytesOf(s.ins)
      BY <1>7, <2>1 DEF BytesOf
    <3>2. QED
      BY <1>2, <1>3, <1>4, <1>5, <1>6, <1>7, <2>1, <3>1
  <2>2. CASE g # s.start
    <3>1. g \in DOMAIN dis.functions /\ StoredIns(dis', g) = StoredIns(dis, g)
          /\ dis'.functions[g] = dis.functions[g]
      BY <1>3, <1>8, <2>2 DEF StoredIns
    <3>2. BytesOf(StoredIns(dis, g)) \cap BytesOf(s.ins) = {}
      <4>1. StoredIns(dis, g) \cap s.ins = {}
        BY <1>1, <3>1, TopApart DEF Apart
      <4>2. StoredIns(dis, g) \subseteq DOMAIN img.ins
        BY <3>1 DEF OwnInv, StoredDecodes
      <4>3. QED
        BY <1>5, <4>1, <4>2, BytesApart
    <3>3. ASSUME NEW b \in BytesOf(StoredIns(dis', g))
          PROVE  b \in DOMAIN dis'.ins2fn /\ dis'.ins2fn[b] = g
      <4>1. b \in DOMAIN dis.ins2fn /\ dis.ins2fn[b] = g
        BY <3>1, <3>3 DEF OwnInv, FunctionsOwnTheirCode, IsCode
      <4>2. QED
        BY <1>4, <3>1, <3>2, <3>3, <4>1
    <3>4. QED
      BY <1>2, <3>1, <3>3 DEF OwnInv, FunctionsOwnTheirCode, EntryIsABlock, StoredDecodes
  <2>3. QED
    BY <2>1, <2>2
<1>9. QED
  BY <1>8 DEF OwnInv, FunctionsOwnTheirCode, EntryIsABlock, StoredDecodes, IsCode, BytesOf

LEMMA OwnStep ==
    ASSUME NoOverlap, IInv, Unsplit, OwnInv, CallsApart, [Next]_vars
    PROVE  OwnInv'
<1>0. img' = img
  BY NextKeepsImage
<1>1. CASE dis' = dis
  BY <1>0, <1>1 DEF OwnInv, FunctionsOwnTheirCode, EntryIsABlock, StoredDecodes, IsCode,
     BytesOf, StoredIns
<1>2. CASE AnalyzeCondJmpAbsorbing
  <2>1. dis' = RevertStored(dis, Here.target, TRUE) /\ Here.target \in DOMAIN dis.functions
    BY <1>2 DEF AnalyzeCondJmpAbsorbing, Absorbs
  <2>2. QED
    BY <1>0, <2>1, RevertOwned
<1>3. CASE BookOverGapFunction
  <2> DEFINE owner == dis.ins2fn[Top.pc]
  <2>1. dis' = RevertStored(dis, owner, FALSE) /\ owner \in DOMAIN dis.functions
    BY <1>3 DEF BookOverGapFunction, RevertsGapFunction
  <2> HIDE DEF owner
  <2>2. QED
    BY <1>0, <2>1, RevertOwned
<1>4. CASE KeepFunction /\ dis' # dis
  BY <1>0, <1>4, StoredOwned
<1>5. QED
  BY <1>1, <1>2, <1>3, <1>4, ResultChanges

LEMMA ApartStep ==
    ASSUME IInv, Unsplit, OwnInv, CallsApart, [Next]_vars
    PROVE  CallsApart'
<1>1. CASE Discover \/ Finish
  <2>1. dis' = dis
    BY <1>1 DEF Discover, TakeCandidate, TimeoutInDrain, Drained, OpenDeferred, OpenLate,
       OpenSource, NextFromSource, TimeoutInSource, SourceExhausted, NextGap, NoGapLeft,
       AnalyzeGap, TimeoutInGaps, JudgeGap, Finish
  <2>2. frames' = frames \/ \E a \in Nat : \E g, k, t : frames' = <<Frame(a, g, k, t)>>
    BY <1>1, PassFrames
  <2>3. QED
    BY <2>1, <2>2, StartApart
<1>2. CASE Tailcalls
  BY <1>2 DEF Tailcalls, FindTailcalls, RepeatTailcall, SplitAtTailcall, AfterTailcallTarget,
     MarkTailcallFunction, TimeoutInTailcalls, TailcallsResolved, AtTailcall, Unsplit,
     TailcallPasses
<1>3. CASE Done \/ UNCHANGED vars
  BY <1>3 DEF Done, vars, CallsApart, Apart, StoredIns
<1>4. QED
  BY <1>1, <1>2, <1>3, DecodeApart, AnalyzeApart, BookApart, ConcludeApart DEF Next

(***************************************************************************)
(* Of an image whose instructions do not overlap, every function owns its  *)
(* code and begins at its entry, whatever was undone and decoded again.    *)
(***************************************************************************)
THEOREM CodeIsOwned ==
    ASSUME ~RESOLVE_TAILCALLS
    PROVE  Spec => [](NoOverlap => FunctionsAreOwned)
<1>1. Init => OwnInv /\ CallsApart
  <2>1. DOMAIN EmptyResult.functions = {}
    BY DEF EmptyResult
  <2>2. QED
    BY <2>1 DEF Init, OwnInv, FunctionsOwnTheirCode, EntryIsABlock, StoredDecodes, CallsApart
<1>2. NoOverlap /\ IInv /\ Unsplit /\ OwnInv /\ CallsApart /\ [Next]_vars => OwnInv' /\ CallsApart'
  BY OwnStep, ApartStep
<1>3. [Next]_vars => (NoOverlap' <=> NoOverlap)
  <2> SUFFICES ASSUME [Next]_vars PROVE NoOverlap' <=> NoOverlap
    OBVIOUS
  <2>1. img' = img
    BY SameImage
  <2>2. QED
    BY <2>1 DEF NoOverlap
<1>4. OwnInv => FunctionsAreOwned
  BY DEF OwnInv, FunctionsAreOwned
<1>5. QED
  BY <1>1, <1>2, <1>3, <1>4, Invariance, UnsplitAlways, PTL DEF Spec
=============================================================================
