-------------------------------- MODULE GapScan --------------------------------
(***************************************************************************)
(* The gap scan: how FunctionCandidateManager, with the rules of its x86   *)
(* subclass, walks the bytes no function owns and offers addresses to      *)
(* analyzeBuffer(), which analyses each before it asks for the next.       *)
(*                                                                         *)
(* The gap list is a snapshot of the moment the scan starts, the code map  *)
(* changes under it with every function found, and the scan carries four   *)
(* notes from one call to the next: its pointer, the last address it       *)
(* offered, the pad it retained, and the end of what a failed candidate    *)
(* decoded.                                                                *)
(*                                                                         *)
(* An image says of every byte what the scan tells apart:                  *)
(*   "int3", "nop", "zero"  padding of one byte (the second decodes as a   *)
(*                          nop, the third does not)                       *)
(*   "wide"                 a nop instruction of two bytes                 *)
(*   "pad"                  two bytes that are filler or a function's      *)
(*                          first instruction                              *)
(*   "op"                   anything else                                  *)
(* and what it declares: code areas, exception extents, unwind ranges,     *)
(* landing pads and the linkage table.  A rule that is switched off is an  *)
(* image that declares nothing.                                            *)
(***************************************************************************)
EXTENDS Integers, Sequences, FiniteSetsExt

CONSTANTS
    Images,      \* the images the program may be given
    Alignment,   \* _ENTRY_ALIGNMENT and _CODE_ALIGNMENT
    Window,      \* _FAILED_GAP_RESUME_WINDOW
    MaxBody      \* the addresses one analysis may claim in this model

Bytes == {"int3", "nop", "zero", "wide", "pad", "op"}

(* Addresses are numbers, areas and what the image knows of code lie       *)
(* inside it, and no declared range ends before it starts.                 *)
ImageOk(image) ==
    LET inside == image.base .. image.base + image.size - 1
    IN  /\ image.base \in Nat /\ image.size \in Nat /\ image.mask \in Nat
        /\ image.byte \in [inside -> Bytes]
        /\ DOMAIN image.owner \subseteq inside
        /\ \A area \in image.areas : area[1] \in inside /\ area[2] \in Nat
        /\ \A r \in image.pdata \cup image.fdes : r.start \in Nat /\ r.end \in Nat

ASSUME GapScanAssumption ==
    /\ \A image \in Images : ImageOk(image)
    /\ Alignment \in Nat \ {0}
    /\ Window \in Nat /\ MaxBody \in Nat

NoAddr == -1

VARIABLES
    img,
    phase,      \* between the calls: "idle", "scan", "offered", "settled" or "done"
    pointer,    \* gap_pointer
    gaps,       \* where the entries of function_gaps start
    previous,   \* previously_analyzed_gap
    retained,   \* _retained_pad
    extentEnd,  \* failed_gap_extent_end
    owner,      \* code_map and ins2fn: the function of every code address
    found,      \* functions the scan found; a later one may undo them
    data,       \* data_map
    offers,     \* history: the addresses offered, in order
    visited,    \* history: the addresses the scan stood at or stepped over as filler or body
    refuted     \* history: retained pads that produced no function

disassembly == <<owner, found, data>>
vars == <<img, phase, pointer, gaps, previous, retained, extentEnd, owner, found, data,
          offers, visited, refuted>>

End == img.base + img.size
Addresses == img.base .. End - 1
Byte(a) == IF a \in Addresses THEN img.byte[a] ELSE "none"
Code == DOMAIN owner
CodeOf(f) == {a \in Code : owner[a] = f}
Functions == {owner[a] : a \in Code}

(* The smallest and the largest member, as the set of it; of nothing, none. *)
Least(S) == {x \in S : \A y \in S : x <= y}
Greatest(S) == {x \in S : \A y \in S : y <= x}

-----------------------------------------------------------------------------
(* updateFunctionGaps(): before the first code of an area, behind the last *)
(* code, and wherever code ends before the last.  Without areas the whole  *)
(* image is one; only then does the tail start behind the last address.    *)

Lowest == IF Code = {} THEN {img.mask} ELSE Least(Code)
Areas == IF img.areas = {} THEN {<<img.base, End>>} ELSE img.areas
Within(a, area) == area[1] < a /\ a < area[2]

Heads == {area[1] : area \in {x \in Areas : \E low \in Lowest : Within(low, x)}}
Tails == {IF img.areas = {} THEN top + 1 ELSE top :
             top \in {c \in Greatest(Code) : \E area \in Areas : Within(c, area)}}
Holes == {a + 1 : a \in {c \in Code \ {0} : c + 1 \notin Code /\ c \notin Greatest(Code)}}
FunctionGaps == Heads \cup Tails \cup Holes

(* getNextGap(): the next entry of the snapshot; behind the last one, the  *)
(* address mask where it lies inside the image, once; then the image end.  *)
Ahead == {g \in gaps : g > pointer}

\* fault: the entry the pointer stands at is next again
StartsHere ==
    LET ahead == {g \in gaps : g >= pointer}
    IN  IF ahead # {} THEN ahead ELSE {End}

\* fault: the address mask means that no gap is left
StartsMasked == IF Ahead # {} THEN Ahead ELSE {img.mask}

Starts ==
    IF Ahead # {} THEN Ahead
    ELSE IF img.base <= pointer /\ pointer < img.mask /\ img.mask < End THEN {img.mask} ELSE {End}

NextGap == Least(Starts)

(* _int3ResumeTarget(): behind the first run of int3 in the window, if     *)
(* that is aligned and the window shows where the run ends.                *)
InWindow == {a \in Addresses : pointer < a /\ a <= pointer + Window}
Int3ResumeTarget ==
    {b \in InWindow :
        /\ b - 1 \in InWindow /\ Byte(b - 1) = "int3" /\ Byte(b) # "int3"
        /\ \A a \in InWindow : a < b - 1 /\ Byte(a) = "int3" => Byte(a + 1) = "int3"
        /\ b % Alignment = 0}

(* _paddedExtentEnd(): the aligned address nothing but nops and int3 lead  *)
(* to from where the failed candidate's code ends.                         *)
NopLength(a) ==
    CASE Byte(a) \in {"int3", "nop"} -> 1
      [] Byte(a) = "wide" /\ a + 1 \in Addresses -> 2
      [] OTHER -> 0
PaddedTo(e, b) ==
    \E stops \in SUBSET (e .. b - 1) :
        /\ e \in stops
        /\ \A a \in stops : /\ NopLength(a) > 0
                            /\ a % Alignment # 0
                            /\ a + NopLength(a) \in stops \cup {b}
PaddedExtentEnd ==
    IF extentEnd = NoAddr \/ extentEnd <= pointer THEN {}
    ELSE {b \in extentEnd + 1 .. extentEnd + Alignment :
             b % Alignment = 0 /\ PaddedTo(extentEnd, b)}

FailedGapResumeTarget ==
    IF pointer + 1 < img.base THEN {} ELSE PaddedExtentEnd \cup Int3ResumeTarget

(* getNextGap(dont_skip=True): nearer than the next gap may be the end of  *)
(* the function at the pointer, or where a failed candidate resumes.       *)
Border(f) == {a + 1 : a \in Greatest(CodeOf(f))}
Nearer == IF pointer \in Code THEN Border(owner[pointer]) ELSE FailedGapResumeTarget

\* fault: the resume target wins over a nearer gap
NextGapOvershooting == IF Nearer # {} THEN Least(Nearer) ELSE NextGap
NextGapUnskipped == Least(Starts \cup Nearer)

(* Only a resume target consumes the extent.                               *)

ExtentLeft == IF pointer \in Code THEN extentEnd ELSE NoAddr

-----------------------------------------------------------------------------
(* nextGapCandidate(None): initGapSearch() takes the snapshot.             *)

InitGapSearch ==
    /\ phase = "idle"
    /\ gaps' = FunctionGaps
    /\ pointer' \in IF FunctionGaps = {} THEN {End} ELSE Least(FunctionGaps)
    /\ phase' = "scan"
    /\ UNCHANGED <<img, previous, retained, extentEnd, disassembly, offers, visited, refuted>>

-----------------------------------------------------------------------------
(* The loop of nextGapCandidate(), one action per way an iteration ends,   *)
(* in the order the loop tests for them.                                   *)

Standing == phase = "scan" /\ pointer < End

StepTo(a) ==
    /\ pointer' = a
    /\ visited' = visited \cup pointer .. a - 1
    /\ UNCHANGED <<img, phase, gaps, previous, retained, extentEnd, disassembly, offers, refuted>>

OneByteFill == {"int3", "nop", "zero"}

(* A run of one-byte padding, as far as it goes. *)
SkipPadding ==
    /\ Standing
    /\ \E n \in 1 .. End - pointer :
          /\ \A i \in 0 .. n - 1 : Byte(pointer + i) \in OneByteFill
          /\ Byte(pointer + n) \notin OneByteFill
          /\ StepTo(pointer + n)

IsPair(a, kinds) == Byte(a) \in kinds /\ a + 1 \in Addresses
IsFiller(a) == Byte(a) \in OneByteFill \/ IsPair(a, {"wide", "pad"})

(* isUnalignedEntryPad(): filler reaches the next boundary; a pad that     *)
(* does not, with no more filler behind it, opens a function.              *)
IsUnalignedEntryPad(a) ==
    IsPair(a, {"pad"}) /\ (a + 2) % Alignment # 0 /\ ~IsFiller(a + 2)

SkipNop ==
    /\ Standing
    /\ IsPair(pointer, {"wide", "pad"})
    /\ ~IsUnalignedEntryPad(pointer)
    /\ StepTo(pointer + 2)

BytesMayBeCode == Standing /\ (IsFiller(pointer) => IsUnalignedEntryPad(pointer))

SkipData ==
    /\ BytesMayBeCode
    /\ pointer \in data
    /\ StepTo(pointer + 1)

SkipCode ==
    /\ BytesMayBeCode
    /\ pointer \notin data /\ pointer \in Code
    /\ pointer' \in NextGap
    /\ visited' = visited \cup {pointer}
    /\ UNCHANGED <<img, phase, gaps, previous, retained, extentEnd, disassembly, offers, refuted>>

Unclaimed == BytesMayBeCode /\ pointer \notin data /\ pointer \notin Code

(* What the image declares of an address: an exception extent whose        *)
(* function is recovered, or that is part of another one; a landing pad;   *)
(* an unwind range whose function is recovered, outside linkage tables.    *)
ExceptionRange ==
    {r \in img.pdata : /\ pointer < r.end
                       /\ r.start < pointer \/ (r.start = pointer /\ r.fragment)
                       /\ r.fragment \/ r.start \in Functions}
FdeRange == {r \in img.fdes : r.start < pointer /\ pointer < r.end}
RecoveredFde == {r \in FdeRange : pointer \notin img.plt /\ r.start \in Functions}

SkipExceptionRange ==
    /\ Unclaimed
    /\ \E r \in ExceptionRange : StepTo(r.end)

SkipLandingPad ==
    /\ Unclaimed
    /\ ExceptionRange = {} /\ pointer \in img.landing
    /\ \/ \E r \in FdeRange : StepTo(r.end)
       \/ FdeRange = {} /\ StepTo(pointer + 1)

SkipFde ==
    /\ Unclaimed
    /\ ExceptionRange = {} /\ pointer \notin img.landing
    /\ \E r \in RecoveredFde : StepTo(r.end)

Undeclared ==
    /\ Unclaimed
    /\ ExceptionRange = {} /\ pointer \notin img.landing /\ RecoveredFde = {}

SkipAnalyzed ==
    /\ Undeclared
    /\ previous = pointer
    /\ pointer' \in NextGapUnskipped
    /\ extentEnd' = ExtentLeft
    /\ visited' = visited \cup {pointer}
    /\ UNCHANGED <<img, phase, gaps, previous, retained, disassembly, offers, refuted>>

Offer ==
    /\ Undeclared
    /\ previous # pointer
    /\ previous' = pointer
    /\ retained' = IF IsUnalignedEntryPad(pointer) THEN pointer ELSE retained
    /\ phase' = "offered"
    /\ offers' = Append(offers, pointer)
    /\ visited' = visited \cup {pointer}
    /\ UNCHANGED <<img, pointer, gaps, extentEnd, disassembly, refuted>>

(* Behind the image nothing is left; the budget may also stop the scan, or *)
(* the loop around it.                                                     *)
Finish ==
    /\ phase = "scan" /\ pointer >= End
    /\ phase' = "done"
    /\ UNCHANGED <<img, pointer, gaps, previous, retained, extentEnd, disassembly, offers,
                   visited, refuted>>

Timeout ==
    /\ phase \in {"scan", "offered"}
    /\ phase' = "done"
    /\ UNCHANGED <<img, pointer, gaps, previous, retained, extentEnd, disassembly, offers,
                   visited, refuted>>

-----------------------------------------------------------------------------
(* What analyzeFunction() makes of the candidate.  It may claim any        *)
(* address no function of the candidate order owns, undo functions of the  *)
(* scan that stand in its way, and recognise tables.                       *)

Bodies == UNION {kSubset(n, Addresses) : n \in 1 .. MaxBody}

Succeed ==
    /\ phase = "offered"
    /\ \E body \in Bodies :
          LET undone == {f \in found : body \cap CodeOf(f) # {}}
              kept   == {a \in Code : owner[a] \notin undone}
          IN  /\ pointer \in body
              /\ body \cap (kept \cup data) = {}
              /\ owner' = [a \in kept \cup body |-> IF a \in body THEN pointer ELSE owner[a]]
              /\ found' = (found \ undone) \cup {pointer}
              /\ \E table \in {{}, img.tables} : data' = data \cup (table \ (kept \cup body))
    /\ phase' = "settled"
    /\ UNCHANGED <<img, pointer, gaps, previous, retained, extentEnd, offers, visited, refuted>>

(* noteFailedGapCandidate(): where the instructions decoded in a row from  *)
(* the candidate end, if the last of them ends straight-line code.         *)
Fail ==
    /\ phase = "offered"
    /\ \E end \in {NoAddr} \cup pointer + 1 .. End : extentEnd' = end
    /\ refuted' = IF retained = pointer THEN refuted \cup {pointer} ELSE refuted
    /\ phase' = "settled"
    /\ UNCHANGED <<img, pointer, gaps, previous, retained, disassembly, offers, visited>>

(* getNextGap(dont_skip=True), and the entry of nextGapCandidate(): a pad  *)
(* retained in vain was filler after all, and the scan goes on behind it.  *)

\* fault: the rest of the gap is lost to the wrong guess
WrongGuess(target) == FALSE
RefutedPad(target) == retained # NoAddr /\ target > retained /\ retained \notin Code

Continue ==
    /\ phase = "settled"
    /\ \E target \in NextGapUnskipped :
          \/ RefutedPad(target) /\ pointer' = retained + 2 /\ visited' = visited \cup {retained + 1}
          \/ ~RefutedPad(target) /\ pointer' = target /\ UNCHANGED visited
    /\ extentEnd' = ExtentLeft
    /\ retained' = NoAddr
    /\ phase' = "scan"
    /\ UNCHANGED <<img, gaps, previous, disassembly, offers, refuted>>

-----------------------------------------------------------------------------
Init ==
    /\ img \in Images
    /\ phase = "idle" /\ pointer = NoAddr /\ gaps = {}
    /\ previous = 0
    /\ retained = NoAddr /\ extentEnd = NoAddr
    /\ owner = img.owner /\ found = {} /\ data = img.data
    /\ offers = <<>> /\ visited = {} /\ refuted = {}

Scan ==
    \/ SkipPadding \/ SkipNop \/ SkipData \/ SkipCode
    \/ SkipExceptionRange \/ SkipLandingPad \/ SkipFde
    \/ SkipAnalyzed \/ Offer \/ Finish

Work == InitGapSearch \/ Scan \/ Succeed \/ Fail \/ Continue

Next == Work \/ Timeout

Spec == Init /\ [][Next]_vars

(* The scan is one sequential loop, and every analysis it asks for ends    *)
(* (Terminates of Engine).  No budget need ever run out.                   *)
FairSpec == Spec /\ WF_vars(Work)

-----------------------------------------------------------------------------
(* The scan's state has the types the code gives it; once the snapshot is  *)
(* taken the pointer is an address, gaps or not.                           *)
TypeOK ==
    /\ img \in Images
    /\ phase \in {"idle", "scan", "offered", "settled", "done"}
    /\ pointer \in IF phase = "idle" THEN {NoAddr} ELSE Nat
    /\ gaps \subseteq Nat /\ previous \in Nat
    /\ retained \in Nat \cup {NoAddr}
    /\ extentEnd \in Nat \cup {NoAddr}
    /\ Code \subseteq Addresses
    /\ offers \in Seq(Nat) /\ visited \subseteq Nat /\ refuted \subseteq Nat

(* What Engine takes for granted of the scan: it offers addresses in       *)
(* ascending order, none twice, whatever becomes of them, so every failed  *)
(* candidate is behind it.                                                 *)
OffersAscend == \A i, j \in DOMAIN offers : i < j => offers[i] < offers[j]

(* The pointer never jumps over the start of a gap: neither the end of a   *)
(* found function, nor a resume target, nor the address mask, nor a pad    *)
(* resumed past hides a gap of the snapshot.                               *)
GapsAreOpened == phase # "idle" => \A g \in gaps : g < pointer => g \in visited

(* nextGapCandidate(): "resuming past it keeps getNextGap() from           *)
(* abandoning the rest of this gap over the wrong guess".                  *)
RefutedPadsKeepTheGap == \A a \in refuted : a + 2 < pointer => a + 2 \in visited

(* failed_gap_extent_end speaks of the candidate just failed and "never    *)
(* carries over to a later candidate".                                     *)
ExtentNeverCarriesOver == phase # "settled" => extentEnd = NoAddr

(* The scan reaches its end: on an image anywhere in the address space, no *)
(* sequence of found and failed candidates sends it round for ever.        *)
ScanEnds == <>(phase = "done")

-----------------------------------------------------------------------------
(* What the runs check together.                                            *)

(* The scan moves forward: its variables have their types, and no address   *)
(* is offered twice or behind one offered earlier.                          *)
ScanIsOrderly ==
    /\ TypeOK
    /\ OffersAscend

(* What the scan remembers of a candidate is used for the next step and no  *)
(* later: a refuted pad does not hide the gap behind it, and the extent of  *)
(* a failed candidate is not skipped for another one.                       *)
NotesAreConsumed ==
    /\ RefutedPadsKeepTheGap
    /\ ExtentNeverCarriesOver
=============================================================================
