-------------------------------- MODULE Declared --------------------------------
(***************************************************************************)
(* What an image declares about its own functions and how discovery uses   *)
(* it (smda/common/FunctionCandidateManager.py): the extents of unwind     *)
(* tables, what they say is no entry, and the starts that are looked at    *)
(* only after the first pass over the image.                               *)
(*                                                                         *)
(* An image is a record with, here: areas, where candidates are allowed,   *)
(* and exec, where code is, as ranges <<low, high>>; extents, fdes and     *)
(* plt; rules, what the configuration switched on; cap, how many           *)
(* candidates there may be; patience, how often the clock is asked before  *)
(* it says that time is up.  The manager is a record m of its sets.        *)
(***************************************************************************)
EXTENDS Integers, Sequences, SequencesExt, FiniteSets, FiniteSetsExt, Functions

CONSTANTS
    CandidateAlignment,   \* what starts of functions are multiples of
    PollInterval          \* _TIMEOUT_POLL_INTERVAL

InRanges(ranges, address) == \E r \in ranges : r[1] <= address /\ address < r[2]
PassesCodeFilter(image, address) == image.areas = {} \/ InRanges(image.areas, address)
Late(image, m) == m.polls > image.patience
Poll(image, m) == IF Late(image, m) THEN m ELSE [m EXCEPT !.polls = @ + 1]

EnsureCandidate(image, m, address) ==
    IF address \in m.candidates \/ Cardinality(m.candidates) >= image.cap THEN m
    ELSE [m EXCEPT !.candidates = @ \cup {address}]
Among(m, address) == m.candidates \cap {address}
Admit(image, m, address) == IF PassesCodeFilter(image, address) THEN EnsureCandidate(image, m, address) ELSE m

AddPrologueCandidate(image, m, address) == Admit(image, m, address)
SetInitialCandidate(m, address) == [m EXCEPT !.initial = @ \cup Among(m, address)]
AddReferenceCandidate(image, m, address, source) ==
    LET booked == Admit(image, m, address)
    IN  [booked EXCEPT !.refs = @ \cup {[from |-> source, to |-> a] : a \in Among(booked, address)}]
AddSymbolCandidate(image, m, address) ==
    LET booked == Admit(image, m, address)
    IN  SetInitialCandidate([booked EXCEPT !.symbols = @ \cup Among(booked, address)], address)
AddExceptionCandidate(image, m, address) ==
    LET booked == Admit(image, m, address)
    IN  SetInitialCandidate([booked EXCEPT !.exceptions = @ \cup Among(booked, address)], address)

\* Items are visited one by one, and the clock is asked before every so many.
UnlessLate(image, m, item, Visit(_, _)) == IF Late(image, m) THEN m ELSE Visit(m, item)
Scan(image, m, items, Visit(_, _)) ==
    FoldLeft(LAMBDA at, k : UnlessLate(image, IF (k - 1) % PollInterval = 0 THEN Poll(image, at) ELSE at, items[k], Visit),
             m, [k \in DOMAIN items |-> k])
ScanFromSecond(image, m, items, Visit(_, _)) ==   \* the clock is not asked before the first
    FoldLeft(LAMBDA at, k : UnlessLate(image, IF k > 1 /\ (k - 1) % PollInterval = 0 THEN Poll(image, at) ELSE at,
                                       items[k], Visit),
             m, [k \in DOMAIN items |-> k])

LocateSymbolCandidates(image, m) ==
    FoldLeft(LAMBDA at, a : AddSymbolCandidate(image, at, a), m, SetToSeq(image.symbols))
LocateLangSpecCandidates(image, m) ==
    FoldLeft(LAMBDA at, a : Admit(image, at, a), m, SetToSeq(image.language))

-----------------------------------------------------------------------------
(* Extents, sequences of [start, end, fragment].                            *)

Before(r, s) == r.start < s.start \/ (r.start = s.start /\ r.end < s.end)
InOrder(ranges) == SortSeq(ranges, Before)
AtOrBefore(sorted, address) == {k \in DOMAIN sorted : sorted[k].start <= address}
Reach(sorted, k) == Max({sorted[j].end : j \in 1..k})
Innermost(sorted, hits) == IF hits = {} THEN {} ELSE {sorted[Max(hits)]}

Covers(sorted, address) ==
    {k \in AtOrBefore(sorted, address) : address < sorted[k].end /\ (sorted[k].start < address \/ sorted[k].fragment)
                                        /\ \A j \in AtOrBefore(sorted, address) : j >= k => Reach(sorted, j) > address}
DeclaredExceptionRangeContaining(extents, address) ==
    LET sorted == InOrder(extents) IN Innermost(sorted, Covers(sorted, address))

\* The look back ends where an extent and the one in front of it are both over.
GivesUp(sorted, address, k) == sorted[k].end <= address /\ k > 1 /\ sorted[k - 1].end <= address
DeclaredFdeRangeContaining(fdes, address) ==
    LET sorted == InOrder(fdes)
        before == AtOrBefore(sorted, address)
    IN  Innermost(sorted, {k \in before : /\ sorted[k].start < address /\ address < sorted[k].end
                                          /\ \A j \in before : j > k => ~GivesUp(sorted, address, j)})

DeclaredLandingPadSkipTarget(image, address) == {r.end : r \in DeclaredFdeRangeContaining(image.fdes, address)}
IsInDeclaredPltSection(image, address) == InRanges(image.plt, address)

DeclaredInteriorOwner(image, borders, address) ==
    LET fde   == IF "fde" \in image.rules /\ ~IsInDeclaredPltSection(image, address)
                 THEN DeclaredFdeRangeContaining(image.fdes, address) ELSE {}
        pdata == IF "pdata" \in image.rules THEN DeclaredExceptionRangeContaining(image.extents, address) ELSE {}
    IN  {o \in {r.start : r \in (IF fde # {} THEN fde ELSE pdata)} \cap DOMAIN borders :
            borders[o][1] <= address /\ address < borders[o][2]}

-----------------------------------------------------------------------------
(* Starts that wait for the first pass.  claims[a] is what becomes code     *)
(* when a is analysed; offered lists what was handed out, with the starts   *)
(* that were known by then.                                                 *)

EhFrameFunctionStarts(image) == {r.start : r \in ToSet(image.fdes)} \cup image.searchTable
MachoFunctionStarts(image) == {image.textBase + offset : offset \in image.functionStarts}
Ascending(addresses) ==
    [k \in 1..Cardinality(addresses) |-> CHOOSE a \in addresses : Cardinality({b \in addresses : b < a}) = k - 1]

Plausible(image, m, start) ==
    /\ start % CandidateAlignment = 0
    /\ IF image.format = "macho" THEN InRanges({image.memory}, start) ELSE image.exec = {} \/ InRanges(image.exec, start)
    /\ PassesCodeFilter(image, start)
    /\ start \notin m.code
Accept(image, m, start) ==
    LET polled == Poll(image, m)
        booked == EnsureCandidate(image, polled, start)
    IN  IF Late(image, polled) \/ ~Plausible(image, m, start) THEN polled
        ELSE [booked EXCEPT !.accepted = @ \o SetToSeq(Among(booked, start)),
                            !.symbols = IF image.format = "macho" THEN @ \cup Among(booked, start) ELSE @]
Offer(image, m, start) ==
    LET polled == Poll(image, m)
    IN  IF Late(image, polled) \/ start \in m.code THEN polled
        ELSE [polled EXCEPT !.offered = Append(@, [at |-> start, known |-> m.starts, code |-> m.code]),
                            !.code = @ \cup image.claims[start]]
OfferAll(image, m) == FoldLeft(LAMBDA at, start : Offer(image, at, start), m, m.accepted)

\* fault: a start is made known only when its turn comes
LocateOneByOne(image, m) ==
    LET starts == IF image.format = "macho" THEN MachoFunctionStarts(image) ELSE EhFrameFunctionStarts(image)
    IN  OfferAll(image, FoldLeft(LAMBDA at, start : Accept(image, at, start), m, Ascending(starts)))
LocateDeferredCandidates(image, m) ==
    LET starts == IF image.format = "macho" THEN MachoFunctionStarts(image) ELSE EhFrameFunctionStarts(image)
        gone   == FoldLeft(LAMBDA at, start : Accept(image, at, start), m, Ascending(starts))
    IN  IF Late(image, gone) THEN gone
        ELSE OfferAll(image, [gone EXCEPT !.starts = @ \cup ToSet(gone.accepted)])
=============================================================================
