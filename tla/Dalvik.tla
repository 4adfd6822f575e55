--------------------------------- MODULE Dalvik ---------------------------------
(***************************************************************************)
(* DalvikDisassembler: the methods of a DEX file are analysed one after    *)
(* the other from its method table, then code items the table does not     *)
(* name are looked for and analysed the same way.                          *)
(*                                                                         *)
(* A method's legal instruction starts are fixed before it is walked: a    *)
(* linear sweep, repeated while it finds payloads behind it, excludes the  *)
(* tables that switch and array instructions point at.  The walk follows   *)
(* branches, switch targets and exception handlers with that set as its    *)
(* guide, and the blocks are read off the references it leaves.            *)
(*                                                                         *)
(* Addresses are code units of the file (the code counts bytes, two to a   *)
(* unit).  An image says what decodes at which unit, where payloads and    *)
(* code item headers can be read, and what the method table holds; what    *)
(* reads as an instruction may lie inside another one or inside a payload. *)
(***************************************************************************)
EXTENDS Integers, FiniteSets, Sequences, SequencesExt

CONSTANTS
    Images,         \* the DEX files
    HeaderUnits,    \* the size of a code item header (16 bytes)
    AlignUnits,     \* what code items are aligned to (4 bytes)
    MaxPasses,      \* _MAX_PAYLOAD_DISCOVERY_PASSES
    MaxAttempts,    \* _MAX_ORPHAN_DECODE_ATTEMPTS
    MaxCandidates,  \* _MAX_ORPHAN_CANDIDATES
    SampleUnits     \* the bytes of a candidate that may not be code already

None == -1

(* What the walk tells instructions apart by; "end" is return and throw,   *)
(* "invoke" every call, "goto" the forms that may not branch to themselves. *)
Kinds == {"plain", "end", "goto", "goto32", "if", "switch", "fill", "invoke"}
Terminators == {"end", "goto", "goto32"}

(* What can be read of a file: nothing before its first unit, and whatever *)
(* is read as an instruction has a size; what it names can be any unit.    *)
WellFormed(image) ==
    /\ image.size \in Nat /\ image.region \in Nat \X Nat /\ image.methods \in Seq(Int)
    /\ \A a \in DOMAIN image.ins :
          /\ image.ins[a].size \in Nat \ {0} /\ image.ins[a].to \in Int
          /\ image.ins[a].kind \in Kinds
    /\ \A a \in DOMAIN image.payload :
          /\ image.payload[a].kind \in {"packed", "sparse", "array"} /\ image.payload[a].to \in Seq(Int)
          /\ image.payload[a].kind = "array" => image.payload[a].data \in Nat
    /\ \A h \in DOMAIN image.header :
          LET header == image.header[h]
          IN  /\ h \in Nat /\ header.insns \in Nat
              /\ header.tries \in Seq([start : Int, end : Int, list : Int])
              /\ \A l \in DOMAIN header.lists : header.lists[l] \in Seq(Int)

ASSUME DalvikAssumption ==
    /\ HeaderUnits \in Nat \ {0} /\ AlignUnits \in Nat \ {0}
    /\ MaxPasses \in Nat \ {0} /\ MaxAttempts \in Nat /\ MaxCandidates \in Nat
    /\ SampleUnits \in Nat
    /\ \A image \in Images : WellFormed(image)

VARIABLES
    img,
    phase,      \* "methods", "walk", "orphans" or "done"
    taken,      \* methods of the table taken so far
    known,      \* known_code_offsets
    orphans,    \* the code items discovered and not yet analysed
    orphan,     \* whether the method being analysed is one of them
    st,         \* DalvikFunctionAnalysisState, and what analyzeFunction keeps
    functions,  \* disassembly.functions: the blocks of each
    ins2fn,     \* and the function of every unit of code
    errors,     \* disassembly.errors, by address
    failed,     \* failed_analysis_addr
    timeout     \* disassembly.analysis_timeout

vars == <<img, phase, taken, known, orphans, orphan, st, functions, ins2fn, errors, failed, timeout>>

(* One round of a loop: its operator applied to the one state before. *)
Then(Step(_), before) == CHOOSE after \in {Step(s) : s \in {before}} : TRUE

Span(range) == range[1] .. range[2] - 1
InRanges(a, ranges) == \E range \in ranges : a \in Span(range)

-----------------------------------------------------------------------------
(* Decoding.  A code item is cut out of the file before it is decoded, so  *)
(* an instruction or a payload that runs past its end is truncated there.  *)

Decodes(image, a, end) == a \in DOMAIN image.ins /\ a + image.ins[a].size <= end

PayloadHead(p) == IF p.kind = "sparse" THEN 2 ELSE 4
PayloadUnits(p) ==
    CASE p.kind = "packed" -> 4 + 2 * Len(p.to)
      [] p.kind = "sparse" -> 2 + 4 * Len(p.to)
      [] p.kind = "array"  -> 4 + p.data

(* _getPayloadSize(): nothing where no payload can be read. *)
PayloadSize(image, a, start, end) ==
    IF a < start \/ a \notin DOMAIN image.payload THEN 0
    ELSE LET p == image.payload[a]
         IN  IF a + PayloadHead(p) > end THEN 0
             ELSE IF a + PayloadUnits(p) > end THEN end - a ELSE PayloadUnits(p)

(* _resolveSwitchTargets(): the targets the payload has room for, from the *)
(* switch that points at it.                                               *)
FirstTarget(p) == IF p.kind = "packed" THEN 4 ELSE 2 + 2 * Len(p.to)
SwitchTargets(image, i, a, end) ==
    LET p == image.payload[a]
        room == {k \in DOMAIN p.to : a + FirstTarget(p) + 2 * k <= end}
    IN  IF p.kind = "array" THEN <<>>
        ELSE [k \in 1 .. Cardinality(room) |-> i + p.to[k]]

(* The table a switch or array instruction points at. *)
TableAt(image, a, start, end) ==
    LET ins == image.ins[a]
        size == IF ins.kind \in {"switch", "fill"} THEN PayloadSize(image, ins.to, start, end) ELSE 0
    IN  IF size = 0 THEN {} ELSE {<<ins.to, ins.to + size>>}

\* fault: no pass ever has to be repeated
SweepStepForward(image, s, start, end) ==
    IF s.at >= end THEN s
    ELSE IF InRanges(s.at, s.ranges) \/ ~Decodes(image, s.at, end) THEN [s EXCEPT !.at = @ + 1]
    ELSE [ at |-> s.at + image.ins[s.at].size, valid |-> s.valid \cup {s.at}, back |-> FALSE,
           ranges |-> s.ranges \cup TableAt(image, s.at, start, end) ]

(* _sweepInstructionStarts(): one pass over the code item, the payloads    *)
(* known from earlier passes excluded.  Nothing but an unknown payload at  *)
(* or before the instruction that names it asks for another pass.          *)
SweepStep(image, s, start, end) ==
    IF s.at >= end THEN s
    ELSE IF InRanges(s.at, s.ranges) \/ ~Decodes(image, s.at, end) THEN [s EXCEPT !.at = @ + 1]
    ELSE LET table == TableAt(image, s.at, start, end)
         IN  [ at     |-> s.at + image.ins[s.at].size,
               valid  |-> s.valid \cup {s.at},
               ranges |-> s.ranges \cup table,
               back   |-> s.back \/ \E range \in table \ s.ranges : range[1] <= s.at ]

SweepStart(start, seeds) == [at |-> start, valid |-> {}, ranges |-> seeds, back |-> FALSE]
SweepSteps(image, start, end, seeds) ==
    LET after[n \in 0 .. end - start] ==
            IF n = 0 THEN SweepStart(start, seeds)
            ELSE Then(LAMBDA s : SweepStep(image, s, start, end), after[n - 1])
    IN  after
Sweep(image, start, end, seeds) == SweepSteps(image, start, end, seeds)[end - start]

(* _buildValidInstructionStarts(): until a pass finds nothing new, or      *)
(* after the first when it found everything ahead of itself.               *)
Swept(s, seeds, first) ==
    [ valid |-> s.valid, ranges |-> s.ranges,
      stop |-> s.ranges = seeds \/ (first /\ ~s.back) ]
NextPass(image, before, start, end) ==
    IF before.stop THEN before ELSE Swept(Sweep(image, start, end, before.ranges), before.ranges, FALSE)

Passes(image, start, end) ==
    LET after[n \in 1 .. MaxPasses] ==
            IF n = 1 THEN Swept(Sweep(image, start, end, {}), {}, TRUE)
            ELSE Then(LAMBDA before : NextPass(image, before, start, end), after[n - 1])
    IN  after
ValidStarts(image, start, end) == Passes(image, start, end)[MaxPasses]

(* Nothing of this depends on what was analysed before. *)
Legal ==
    [image \in Images |->
        [h \in DOMAIN image.header |->
            ValidStarts(image, h + HeaderUnits, h + HeaderUnits + image.header[h].insns)]]

-----------------------------------------------------------------------------
(* The analysis state of one method. *)

(* The elements of a sequence that are in a set. *)
OnlyIn(seq, set) == FlattenSeq([k \in DOMAIN seq |-> IF seq[k] \in set THEN <<seq[k]>> ELSE <<>>])

(* addBlockToQueue(): a block is queued once, at the end the next is taken *)
(* from; every block queued is a block start as well.                      *)
Enqueue(queue, processed, target) ==
    IF target \in processed \cup ToSet(queue) THEN queue ELSE Append(queue, target)
Queues(queue, processed, targets) ==
    LET after[n \in 0 .. Len(targets)] ==
            IF n = 0 THEN queue
            ELSE Then(LAMBDA before : Enqueue(before, processed, targets[n]), after[n - 1])
    IN  after
EnqueueAll(s, targets) ==
    [s EXCEPT !.starts = @ \cup ToSet(targets),
              !.queue = Queues(@, s.processed, targets)[Len(targets)]]

(* _parseTryBlocks(): a try item names its handler list by offset; where   *)
(* no list starts there it has no handlers.  _sanitizeTryBlocks(): a       *)
(* handler that is no legal start is dropped.                              *)
ParsedTries(header) ==
    [k \in DOMAIN header.tries |->
        LET try == header.tries[k]
        IN  [ start |-> try.start, end |-> try.end,
              handlers |-> IF try.list \in DOMAIN header.lists THEN header.lists[try.list] ELSE <<>> ]]

LegalTries(tries, valid) ==
    [k \in DOMAIN tries |-> [tries[k] EXCEPT !.handlers = OnlyIn(@, valid)]]

Handlers(tries) == FlattenSeq([k \in DOMAIN tries |-> tries[k].handlers])

NewState(start, header) ==
    LET end == start + header.insns
        legal == Legal[img][start - HeaderUnits]
        tries == LegalTries(ParsedTries(header), legal.valid)
    IN  EnqueueAll([ start |-> start, end |-> end, block |-> None, at |-> None,
                     queue |-> <<start>>, processed |-> {}, starts |-> {start},
                     refs |-> {}, jumps |-> {}, ins |-> {}, visited |-> {}, data |-> {},
                     valid |-> legal.valid, ranges |-> legal.ranges, tries |-> tries,
                     reported |-> {} ],
                   Handlers(tries))
NoState == [start |-> None]

(* _applyExceptionEdges(): from an instruction that can throw to the       *)
(* handlers of every try block around it.                                  *)
ExceptionTargets(s, a) ==
    IF img.ins[a].throws
    THEN FlattenSeq([k \in DOMAIN s.tries |->
            IF s.tries[k].start <= a /\ a < s.tries[k].end THEN s.tries[k].handlers ELSE <<>>])
    ELSE <<>>

(* _validateBranchTarget(): only goto/32 may branch to itself; every other *)
(* branch leads to a legal start, or to nothing.                           *)
BranchTargets(s, a) ==
    LET ins == img.ins[a]
    IN  IF ins.to = a THEN IF ins.kind = "goto32" THEN <<a>> ELSE <<>>
        ELSE IF ins.to \in s.valid THEN <<ins.to>> ELSE <<>>

(* The table a switch or array instruction points at: its units are data,  *)
(* and nothing falls into what is no legal start.                          *)
Table(s, a) == TableAt(img, a, s.start, s.end)

Behind(a) == a + img.ins[a].size

(* Whether the walk goes on behind the instruction. *)
FallsThrough(s, a) ==
    /\ img.ins[a].kind \notin Terminators
    /\ Table(s, a) # {} => Behind(a) \in s.valid

(* Where an instruction jumps to, and which of them starts a block behind  *)
(* itself: a switch, a condition, whatever a handler covers.               *)
JumpTargets(s, a) ==
    CASE img.ins[a].kind \in {"goto", "goto32", "if"} -> BranchTargets(s, a)
      [] Table(s, a) # {} /\ img.ins[a].kind = "switch" ->
            OnlyIn(SwitchTargets(img, a, img.ins[a].to, s.end), s.valid)
      [] OTHER -> <<>>

StartsBehind(s, a) ==
    \/ img.ins[a].kind = "if"
    \/ img.ins[a].kind = "switch" /\ Table(s, a) # {} /\ Behind(a) \in s.valid
Caught(s, a) == ExceptionTargets(s, a) # <<>> /\ FallsThrough(s, a) /\ Behind(a) \in s.valid

NewBlocks(s, a) ==
    JumpTargets(s, a) \o (IF StartsBehind(s, a) THEN <<Behind(a)>> ELSE <<>>)
        \o ExceptionTargets(s, a) \o (IF Caught(s, a) THEN <<Behind(a)>> ELSE <<>>)

Callees(a) == IF img.ins[a].kind = "invoke" THEN {img.ins[a].to} \ {None} ELSE {}
RefTargets(s, a) ==
    ToSet(JumpTargets(s, a)) \cup Callees(a) \cup ToSet(ExceptionTargets(s, a))
        \cup (IF FallsThrough(s, a) THEN {Behind(a)} ELSE {})

(* A refused branch is a structural violation of the method. *)
Refused(s, a) == img.ins[a].kind \in {"goto", "goto32", "if"} /\ BranchTargets(s, a) = <<>>

(* One instruction: addDataRef(), addCodeRef(), addBlockToQueue() for what *)
(* it leads to, addInstruction(), and on to the next.                      *)
Walked(s, a) ==
    [EnqueueAll(s, NewBlocks(s, a)) EXCEPT
        !.visited = @ \cup {a},
        !.ins = @ \cup {a},
        !.ranges = @ \cup Table(s, a),
        !.data = @ \cup UNION {Span(range) : range \in Table(s, a)},
        !.refs = @ \cup {<<a, t>> : t \in RefTargets(s, a)},
        !.jumps = @ \cup {<<a, t>> : t \in ToSet(JumpTargets(s, a))},
        !.reported = IF Refused(s, a) THEN @ \cup {a} ELSE @,
        !.at = IF FallsThrough(s, a) THEN Behind(a) ELSE None]

-----------------------------------------------------------------------------
(* getBlocks(): from each block start over the instructions in address     *)
(* order, up to one that ends the block.                                   *)

Following(s, a) ==
    LET later == {b \in s.ins : b > a} IN {b \in later : \A c \in later : b <= c}
RefsFrom(s, a) == {ref[2] : ref \in {r \in s.refs : r[1] = a}}
RefsTo(s, a) == {ref[1] : ref \in {r \in s.refs : r[2] = a}}
BlockStarts(s) == s.starts \cup {jump[2] : jump \in s.jumps}

EndsBlock(s, a) ==
    \/ img.ins[a].kind = "end"
    \/ \E b \in Following(s, a) :
          \/ /\ img.ins[a].kind # "invoke"
             /\ RefsFrom(s, a) # {} /\ RefsFrom(s, a) # {b}
          \/ /\ RefsTo(s, b) # {}
             /\ b \in BlockStarts(s) \/ Cardinality(RefsTo(s, b)) > 1

BlockFrom(s, start) ==
    {a \in s.ins : a >= start /\ \A b \in s.ins : start <= b /\ b < a => ~EndsBlock(s, b)}
GetBlocks(s) == {BlockFrom(s, start) : start \in BlockStarts(s) \cap s.ins}

-----------------------------------------------------------------------------
(* Orphans: code items that no method of the table names. *)

HeaderEnd(h) == h + HeaderUnits + img.header[h].insns
Claim(h) == <<h, HeaderEnd(h)>>

(* The ranges of the methods that are known and lie in the file; of one    *)
(* whose header cannot be read, the header and its first unit.             *)
KnownClaims ==
    {IF c - HeaderUnits \in DOMAIN img.header THEN Claim(c - HeaderUnits)
     ELSE <<c - HeaderUnits, c + 1>> : c \in {k \in known : HeaderUnits <= k /\ k <= img.size}}

Aligned(a) == a + ((AlignUnits - (a % AlignUnits)) % AlignUnits)
Overlaps(range, claims) == \E claim \in claims : range[1] < claim[2] /\ claim[1] < range[2]

(* The cheap filters before a header counts as an attempt. *)
Plausible(h) ==
    /\ h \in DOMAIN img.header
    /\ img.header[h].plausible /\ img.header[h].insns > 0 /\ img.header[h].tries = <<>>
    /\ HeaderEnd(h) <= img.size
    /\ h + HeaderUnits \in DOMAIN img.ins

(* _walksCleanlyToEnd(): one instruction behind the other, payloads        *)
(* stepped over, to exactly the end, with a terminator on the way.         *)
WalksCleanly(start, end, ranges) ==
    LET Inside(a) == {range \in ranges : a \in Span(range)}
        WalkStep(s) ==
            IF s.at >= end \/ ~s.clean THEN s
            ELSE IF Inside(s.at) # {} THEN [s EXCEPT !.at = (CHOOSE range \in Inside(s.at) : TRUE)[2]]
            ELSE IF ~Decodes(img, s.at, end) THEN [s EXCEPT !.clean = FALSE]
            ELSE [s EXCEPT !.at = @ + img.ins[s.at].size,
                           !.ended = @ \/ img.ins[s.at].kind \in Terminators]
        after[n \in 0 .. end - start] ==
            IF n = 0 THEN [at |-> start, clean |-> TRUE, ended |-> FALSE]
            ELSE Then(WalkStep, after[n - 1])
        last == after[end - start]
    IN  last.clean /\ last.ended /\ last.at = end

\* fault: a header inside a method that is known will do
AcceptableAnywhere(h, claims) ==
    LET start == h + HeaderUnits
        legal == Legal[img][h]
    IN  start \notin known /\ start \in legal.valid /\ WalksCleanly(start, HeaderEnd(h), legal.ranges)

(* _tryAcceptOrphanCodeItem() *)
Acceptable(h, claims) ==
    LET start == h + HeaderUnits
        legal == Legal[img][h]
    IN  /\ start \notin known
        /\ ~Overlaps(Claim(h), claims)
        /\ \A a \in start .. start + SampleUnits - 1 : a < HeaderEnd(h) => a \notin DOMAIN ins2fn
        /\ start \in legal.valid
        /\ WalksCleanly(start, HeaderEnd(h), legal.ranges)

(* _discoverOrphanCodeItems(): an ascending scan that steps over what is   *)
(* claimed, by earlier methods or by the candidates it accepted itself,    *)
(* one claim after the other.                                              *)
ScanStep(s) ==
    LET inside == {claim \in s.claims : s.at \in Span(claim)}
    IN  IF \/ s.at + HeaderUnits > img.region[2]
           \/ Len(s.found) >= MaxCandidates \/ s.attempts >= MaxAttempts
        THEN s
        ELSE IF inside # {} THEN [s EXCEPT !.at = Aligned((CHOOSE claim \in inside : TRUE)[2])]
        ELSE IF ~Plausible(s.at) THEN [s EXCEPT !.at = @ + AlignUnits]
        ELSE IF Acceptable(s.at, s.claims)
        THEN [ at |-> s.at + AlignUnits, attempts |-> s.attempts + 1,
               found |-> Append(s.found, s.at + HeaderUnits), claims |-> s.claims \cup {Claim(s.at)} ]
        ELSE [s EXCEPT !.at = @ + AlignUnits, !.attempts = @ + 1]

ScanStart == [at |-> Aligned(img.region[1]), attempts |-> 0, found |-> <<>>, claims |-> KnownClaims]
Scans ==
    LET after[n \in 0 .. img.size] ==
            IF n = 0 THEN ScanStart ELSE Then(ScanStep, after[n - 1])
    IN  after
DiscoverOrphans == Scans[img.size].found

-----------------------------------------------------------------------------
(* analyzeBuffer(), the methods of the table.  The header, its range in    *)
(* the file or its try items may be unreadable.                            *)

Method == img.methods[taken + 1]
Readable(c) ==
    /\ c - HeaderUnits \in DOMAIN img.header
    /\ HeaderEnd(c - HeaderUnits) <= img.size
    /\ img.header[c - HeaderUnits].whole

SkipMethod ==
    /\ phase = "methods" /\ taken < Len(img.methods)
    /\ Method = None
    /\ taken' = taken + 1
    /\ UNCHANGED <<img, phase, known, orphans, orphan, st, functions, ins2fn, errors, failed, timeout>>

RejectMethod ==
    /\ phase = "methods" /\ taken < Len(img.methods)
    /\ Method # None /\ ~Readable(Method)
    /\ taken' = taken + 1
    /\ known' = known \cup {Method}
    /\ failed' = Append(failed, Method)
    /\ errors' = errors \cup {Method}
    /\ UNCHANGED <<img, phase, orphans, orphan, st, functions, ins2fn, timeout>>

BeginMethod ==
    /\ phase = "methods" /\ taken < Len(img.methods)
    /\ Method # None /\ Readable(Method)
    /\ taken' = taken + 1
    /\ known' = known \cup {Method}
    /\ st' = NewState(Method, img.header[Method - HeaderUnits])
    /\ orphan' = FALSE
    /\ phase' = "walk"
    /\ UNCHANGED <<img, orphans, functions, ins2fn, errors, failed, timeout>>

(* The block queue is a stack; no block is walked twice. *)

\* fault: the block stays on the queue
ChooseNextBlockPeeking ==
    /\ phase = "walk" /\ st.at = None /\ st.queue # <<>>
    /\ st' = [st EXCEPT !.block = Last(st.queue), !.at = Last(st.queue)]
    /\ UNCHANGED <<img, phase, taken, known, orphans, orphan, functions, ins2fn, errors, failed,
                   timeout>>

ChooseNextBlock ==
    /\ phase = "walk" /\ st.at = None /\ st.queue # <<>>
    /\ LET b == Last(st.queue)
       IN  st' = [st EXCEPT !.queue = Front(@), !.processed = @ \cup {b}, !.block = b, !.at = b]
    /\ UNCHANGED <<img, phase, taken, known, orphans, orphan, functions, ins2fn, errors, failed,
                   timeout>>

(* The entry of a block is decoded whatever it is, so that what fails to   *)
(* decode is noticed; inside a block only legal starts are.                *)

Stops(a) ==
    \/ a \notin st.start .. st.end - 1
    \/ InRanges(a, st.ranges)
    \/ a \in st.visited
    \/ a # st.block /\ a \notin st.valid

EndBlock ==
    /\ phase = "walk" /\ st.at # None /\ Stops(st.at)
    /\ st' = [st EXCEPT !.at = None]
    /\ UNCHANGED <<img, phase, taken, known, orphans, orphan, functions, ins2fn, errors, failed,
                   timeout>>

DecodeError ==
    /\ phase = "walk" /\ st.at # None /\ ~Stops(st.at)
    /\ ~Decodes(img, st.at, st.end)
    /\ errors' = errors \cup {st.at}
    /\ st' = [st EXCEPT !.visited = @ \cup {st.at}, !.at = None]
    /\ UNCHANGED <<img, phase, taken, known, orphans, orphan, functions, ins2fn, failed, timeout>>

WalkInstruction ==
    /\ phase = "walk" /\ st.at # None /\ ~Stops(st.at)
    /\ Decodes(img, st.at, st.end)
    /\ st' = Walked(st, st.at)
    /\ UNCHANGED <<img, phase, taken, known, orphans, orphan, functions, ins2fn, errors, failed,
                   timeout>>

(* Resolving what an instruction refers to may raise whatever the parser   *)
(* of the file raises: the method is given up, what it wrote stays.        *)
FailMethod ==
    /\ phase = "walk" /\ st.at # None /\ ~Stops(st.at)
    /\ Decodes(img, st.at, st.end)
    /\ failed' = IF orphan THEN failed ELSE Append(failed, st.start)
    /\ errors' = IF orphan THEN errors ELSE errors \cup {st.start}
    /\ st' = NoState
    /\ phase' = IF orphan THEN "orphans" ELSE "methods"
    /\ UNCHANGED <<img, taken, known, orphans, orphan, functions, ins2fn, timeout>>

(* finalizeAnalysis(): a method without an instruction leaves no function. *)
UnitsOf(instructions) == UNION {a .. a + img.ins[a].size - 1 : a \in instructions}

FinalizeMethod ==
    /\ phase = "walk" /\ st.at = None /\ st.queue = <<>>
    /\ IF st.ins = {} THEN UNCHANGED <<functions, ins2fn>>
       ELSE /\ functions' = [c \in DOMAIN functions \cup {st.start} |->
                                IF c = st.start THEN GetBlocks(st) ELSE functions[c]]
            /\ ins2fn' = [a \in DOMAIN ins2fn \cup UnitsOf(st.ins) |->
                             IF a \in UnitsOf(st.ins) THEN st.start ELSE ins2fn[a]]
    /\ st' = NoState
    /\ phase' = IF orphan THEN "orphans" ELSE "methods"
    /\ UNCHANGED <<img, taken, known, orphans, orphan, errors, failed, timeout>>

-----------------------------------------------------------------------------
(* analyzeBuffer(), the orphans. *)

ScanForOrphans ==
    /\ phase = "methods" /\ taken = Len(img.methods)
    /\ orphans' = DiscoverOrphans
    /\ phase' = "orphans"
    /\ UNCHANGED <<img, taken, known, orphan, st, functions, ins2fn, errors, failed, timeout>>

(* One that became code or a function meanwhile would be passed over; none *)
(* does, as OrphansOwnTheirCode says.                                      *)
BeginOrphan ==
    /\ phase = "orphans" /\ orphans # <<>>
    /\ orphans' = Tail(orphans)
    /\ IF Head(orphans) \in DOMAIN functions \cup DOMAIN ins2fn
       THEN UNCHANGED <<st, orphan, phase>>
       ELSE /\ st' = NewState(Head(orphans), img.header[Head(orphans) - HeaderUnits])
            /\ orphan' = TRUE
            /\ phase' = "walk"
    /\ UNCHANGED <<img, taken, known, functions, ins2fn, errors, failed, timeout>>

Finish ==
    /\ phase = "orphans" /\ orphans = <<>>
    /\ phase' = "done"
    /\ UNCHANGED <<img, taken, known, orphans, orphan, st, functions, ins2fn, errors, failed, timeout>>

(* The budget is polled before every method, before the scan, before every *)
(* orphan and at the end; its verdict stays.                               *)

Expire ==
    /\ phase \in {"methods", "orphans"}
    /\ timeout' = TRUE
    /\ phase' = "done"
    /\ UNCHANGED <<img, taken, known, orphans, orphan, st, functions, ins2fn, errors, failed>>

-----------------------------------------------------------------------------
Init ==
    /\ img \in Images
    /\ phase = "methods" /\ taken = 0 /\ known = {}
    /\ orphans = <<>> /\ orphan = FALSE /\ st = NoState
    /\ functions = <<>> /\ ins2fn = <<>>
    /\ errors = {} /\ failed = <<>> /\ timeout = FALSE

Walk == ChooseNextBlock \/ EndBlock \/ DecodeError \/ WalkInstruction \/ FailMethod \/ FinalizeMethod

Work ==
    \/ SkipMethod \/ RejectMethod \/ BeginMethod
    \/ Walk
    \/ ScanForOrphans \/ BeginOrphan \/ Finish

Next == Work \/ Expire

Spec == Init /\ [][Next]_vars

(* One sequential loop; neither an exception nor the budget need ever come. *)
FairSpec == Spec /\ WF_vars(Work)

-----------------------------------------------------------------------------
(* The types of the state; what the walk keeps lies in its code item, and  *)
(* what it walked is what it visited.                                      *)
TypeOK ==
    /\ img \in Images
    /\ phase \in {"methods", "walk", "orphans", "done"}
    /\ taken \in 0 .. Len(img.methods)
    /\ orphan \in BOOLEAN /\ timeout \in BOOLEAN
    /\ phase = "walk" <=> st # NoState
    /\ phase = "walk" => /\ st.ins \subseteq st.visited
                         /\ st.visited \subseteq st.start .. st.end - 1
                         /\ st.valid \subseteq st.start .. st.end - 1
    /\ DOMAIN functions \subseteq known \cup {h + HeaderUnits : h \in DOMAIN img.header}

Settled == phase = "walk" /\ st.at = None /\ st.queue = <<>>

(* What analyzeFunction() validates holds in the end: once a method is     *)
(* walked, every target of a branch, of a switch and of an exception edge  *)
(* is an instruction of it, and none is read out of a payload.             *)
TargetsAreInstructions ==
    Settled => /\ \A jump \in st.jumps : jump[2] \in st.ins
               /\ \A a \in st.ins : ToSet(ExceptionTargets(st, a)) \subseteq st.ins

(* "never into a payload immediately after a 31t": no instruction starts   *)
(* in the table a walked switch or array instruction points at.            *)
PayloadsAreNotCode == phase = "walk" => st.ins \cap st.data = {}

(* getBlocks() loses nothing but what runs on from a call of the method     *)
(* into itself: such an instruction is in no block until one starts.        *)
InstructionsAreInBlocks ==
    Settled => \A a \in st.ins :
        \/ \E block \in GetBlocks(st) : a \in block
        \/ \E b \in st.ins :
              /\ img.ins[b].kind = "invoke" /\ img.ins[b].to \in st.ins
              /\ img.ins[b].to <= a
              /\ \A start \in BlockStarts(st) \cap st.ins : start < img.ins[b].to \/ a < start

(* A block holds what is executed one after the other.  Where it runs on   *)
(* without, the report tells why: the branch was refused, or nothing legal *)
(* is behind the instruction.                                              *)
BlocksFollowTheWalk ==
    Settled => \A block \in GetBlocks(st) : \A a, b \in block :
        b \in Following(st, a) => \/ b = Behind(a) /\ FallsThrough(st, a)
                                  \/ a \in st.reported
                                  \/ Behind(a) \notin st.valid

(* An orphan claims no code of a method that is known, nor of another      *)
(* orphan, whatever the headers of the file say.                           *)
OrphansOwnTheirCode ==
    /\ phase = "walk" /\ orphan => UnitsOf(st.ins) \cap DOMAIN ins2fn = {}
    /\ phase = "orphans" => ToSet(orphans) \cap (DOMAIN functions \cup DOMAIN ins2fn) = {}

(* A method of the table that was taken is a function or failed, unless it *)
(* has no bytes, starts in its own payload or left an error where it did   *)
(* not decode.                                                             *)
MethodsAreAccountedFor ==
    phase \in {"methods", "orphans", "done"} =>
        \A c \in known :
            \/ c \in DOMAIN functions \/ c \in ToSet(failed) \/ c \in errors
            \/ img.header[c - HeaderUnits].insns = 0
            \/ InRanges(c, Legal[img][c - HeaderUnits].ranges)

(* A run that did not look at every method says that its budget was spent. *)
ShortRunsAreTimeouts ==
    phase = "done" /\ (taken < Len(img.methods) \/ orphans # <<>>) => timeout

(* Whatever the code items hold, tables that point at each other included, *)
(* the analysis comes to its end.                                          *)
RunEnds == <>(phase = "done")

-----------------------------------------------------------------------------
(* What the runs check together.                                            *)

(* A method is its instructions: branches lead to instructions the sweep    *)
(* found, payloads are none of them, and what was walked is in blocks that  *)
(* begin and end where the paths do.                                        *)
MethodsAreWalkedWhole ==
    /\ TypeOK
    /\ TargetsAreInstructions
    /\ PayloadsAreNotCode
    /\ InstructionsAreInBlocks
    /\ BlocksFollowTheWalk

(* Nothing of the file is lost or taken twice: orphans own code no method   *)
(* has, every method is analysed or told as failed, and a run that left     *)
(* some out says that its time was over.                                    *)
MethodsAreSettled ==
    /\ OrphansOwnTheirCode
    /\ MethodsAreAccountedFor
    /\ ShortRunsAreTimeouts
=============================================================================
