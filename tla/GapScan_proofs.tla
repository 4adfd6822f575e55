----------------------------- MODULE GapScan_proofs -----------------------------
(***************************************************************************)
(* For every image, alignment and window: the scan offers addresses in     *)
(* ascending order, opens every gap it passes, and keeps a gap whose pad   *)
(* it guessed wrong.                                                       *)
(***************************************************************************)
EXTENDS GapScan, TLAPS

(* What was offered is behind the pointer, or at it while it is judged.    *)
OffersAreBehind ==
    \A i \in DOMAIN offers : IF phase = "scan" THEN offers[i] < pointer ELSE offers[i] <= pointer

(* A candidate being judged is an address of the image the scan stood at.  *)
Judging ==
    phase \in {"offered", "settled"} => pointer < End /\ pointer \in visited

(* It is not code before it succeeds. *)
CandidateIsFree == phase = "offered" => pointer \notin Code

(* Only the address just offered is retained. *)
RetainedIsOffered == retained # NoAddr => phase \notin {"idle", "scan"} /\ retained = pointer

(* Where the scan goes on after a pad that was none. *)
PadsResumed ==
    \A a \in refuted :
        \/ a + 2 \in visited
        \/ phase \in {"scan", "done"} /\ pointer = a + 2
        \/ phase = "settled" /\ pointer = a /\ retained = a /\ a \notin Code

(* An extent is noted for a candidate that is no code. *)
ExtentIsOfFailed == phase = "settled" /\ pointer \in Code => extentEnd = NoAddr

BeforeTheScan == phase = "idle" => offers = <<>> /\ refuted = {} /\ gaps = {}

GInv ==
    /\ TypeOK
    /\ OffersAscend /\ OffersAreBehind
    /\ GapsAreOpened
    /\ Judging /\ CandidateIsFree /\ RetainedIsOffered
    /\ PadsResumed
    /\ ExtentNeverCarriesOver /\ ExtentIsOfFailed
    /\ BeforeTheScan

-----------------------------------------------------------------------------
(* The image and the code in it. *)

LEMMA ImageFacts ==
    ASSUME img \in Images
    PROVE  /\ img.base \in Nat /\ End \in Nat /\ img.mask \in Nat
           /\ Addresses \subseteq Nat
           /\ \A a \in Addresses : a < End
           /\ DOMAIN img.owner \subseteq Addresses
           /\ \A area \in img.areas : area[1] \in Nat
           /\ \A r \in img.pdata \cup img.fdes : r.end \in Nat
BY GapScanAssumption DEF ImageOk, End, Addresses

LEMMA GapsAreNumbers ==
    ASSUME img \in Images, Code \subseteq Addresses
    PROVE  FunctionGaps \subseteq Nat
<1>1. Heads \subseteq Nat
  BY ImageFacts DEF Heads, Areas
<1>2. Tails \subseteq Nat
  BY ImageFacts DEF Tails, Greatest
<1>3. Holes \subseteq Nat
  BY ImageFacts DEF Holes
<1>4. QED
  BY <1>1, <1>2, <1>3 DEF FunctionGaps

(* Every way on leads ahead, and over no gap. *)
LEMMA StartsAhead ==
    ASSUME TypeOK, pointer \in Nat, pointer < End
    PROVE  /\ \A b \in Starts : b \in Nat /\ pointer < b
           /\ \A g \in gaps : pointer < g => g \in Starts
BY ImageFacts DEF Starts, Ahead, TypeOK

LEMMA BorderAhead ==
    ASSUME TypeOK, pointer \in Code, NEW b \in Border(owner[pointer])
    PROVE  b \in Nat /\ pointer < b
<1>1. pointer \in CodeOf(owner[pointer])
  BY DEF CodeOf
<1>2. PICK top \in Greatest(CodeOf(owner[pointer])) : b = top + 1
  BY DEF Border
<1>3. top \in Code /\ pointer <= top
  BY <1>1, <1>2 DEF Greatest, CodeOf
<1>4. top \in Nat /\ pointer \in Nat
  BY <1>3, ImageFacts DEF TypeOK
<1>5. QED
  BY <1>2, <1>3, <1>4

LEMMA ResumeAhead ==
    ASSUME TypeOK, pointer \in Nat, NEW b \in FailedGapResumeTarget
    PROVE  b \in Nat /\ pointer < b
<1>1. CASE b \in Int3ResumeTarget
  BY <1>1, ImageFacts DEF Int3ResumeTarget, InWindow, TypeOK
<1>2. CASE b \in PaddedExtentEnd
  <2>1. extentEnd \in Nat /\ pointer < extentEnd
    BY <1>2 DEF PaddedExtentEnd, TypeOK, NoAddr
  <2>2. b \in extentEnd + 1 .. extentEnd + Alignment
    BY <1>2 DEF PaddedExtentEnd
  <2>3. QED
    BY <2>1, <2>2, GapScanAssumption
<1>3. QED
  BY <1>1, <1>2 DEF FailedGapResumeTarget

(* The least of the starts and of whatever is nearer. *)
LEMMA LeastAhead ==
    ASSUME TypeOK, pointer \in Nat, pointer < End,
           NEW near, \A b \in near : b \in Nat /\ pointer < b,
           NEW next \in Least(Starts \cup near)
    PROVE  /\ next \in Nat /\ pointer < next
           /\ \A g \in gaps : ~(pointer < g /\ g < next)
<1>1. next \in Starts \cup near /\ \A b \in Starts \cup near : next <= b
  BY DEF Least
<1>2. next \in Nat /\ pointer < next
  BY <1>1, StartsAhead
<1>3. \A g \in gaps : pointer < g => next <= g
  BY <1>1, StartsAhead
<1>4. gaps \subseteq Nat
  BY DEF TypeOK
<1>5. QED
  BY <1>2, <1>3, <1>4

LEMMA NextGapAhead ==
    ASSUME TypeOK, pointer \in Nat, pointer < End, NEW next \in NextGap
    PROVE  /\ next \in Nat /\ pointer < next
           /\ \A g \in gaps : ~(pointer < g /\ g < next)
<1>1. next \in Least(Starts \cup {})
  BY DEF NextGap
<1>2. QED
  BY <1>1, LeastAhead

LEMMA NextGapUnskippedAhead ==
    ASSUME TypeOK, pointer \in Nat, pointer < End, NEW next \in NextGapUnskipped
    PROVE  /\ next \in Nat /\ pointer < next
           /\ \A g \in gaps : ~(pointer < g /\ g < next)
<1>1. \A b \in Nearer : b \in Nat /\ pointer < b
  BY BorderAhead, ResumeAhead DEF Nearer
<1>2. QED
  BY <1>1, LeastAhead DEF NextGapUnskipped

-----------------------------------------------------------------------------
(* The steps. *)

LEMMA GInvInit == Init => GInv
<1> SUFFICES ASSUME Init
             PROVE  GInv
  OBVIOUS
<1>1. TypeOK
  BY ImageFacts DEF Init, TypeOK, Code, NoAddr
<1>2. QED
  BY <1>1 DEF Init, GInv, OffersAscend, OffersAreBehind, GapsAreOpened, Judging,
              CandidateIsFree, RetainedIsOffered, PadsResumed, ExtentNeverCarriesOver,
              ExtentIsOfFailed, BeforeTheScan

LEMMA InitStep ==
    ASSUME GInv, InitGapSearch
    PROVE  GInv'
<1> USE DEF GInv, InitGapSearch, disassembly, Code
<1>1. FunctionGaps \subseteq Nat /\ End \in Nat
  BY GapsAreNumbers, ImageFacts DEF TypeOK
<1>2. pointer' \in Nat /\ \A g \in gaps' : ~(g < pointer')
  BY <1>1 DEF Least
<1>3. TypeOK'
  BY <1>1, <1>2 DEF TypeOK, Addresses, End
<1>4. QED
  BY <1>2, <1>3 DEF OffersAscend, OffersAreBehind, GapsAreOpened, Judging,
              CandidateIsFree, RetainedIsOffered, PadsResumed, ExtentNeverCarriesOver,
              ExtentIsOfFailed, BeforeTheScan

(* Any move ahead that passes no gap unseen. *)
LEMMA AdvanceStep ==
    ASSUME GInv, phase = "scan", pointer < End,
           pointer' \in Nat, pointer < pointer',
           visited' \subseteq Nat, visited \cup {pointer} \subseteq visited',
           \A g \in gaps : pointer < g /\ g < pointer' => g \in visited',
           extentEnd' = NoAddr,
           UNCHANGED <<img, phase, gaps, previous, retained, disassembly, offers, refuted>>
    PROVE  GInv'
<1> USE DEF GInv, disassembly, Code
<1>1. pointer \in Nat /\ gaps \subseteq Nat /\ refuted \subseteq Nat /\ offers \in Seq(Nat)
  BY DEF TypeOK
<1>2. TypeOK'
  BY DEF TypeOK, Addresses, End, NoAddr
<1>3. GapsAreOpened'
  <2> SUFFICES ASSUME NEW g \in gaps, g < pointer'
               PROVE  g \in visited'
    BY DEF GapsAreOpened
  <2>1. g < pointer \/ g = pointer \/ pointer < g
    BY <1>1
  <2>2. QED
    BY <2>1 DEF GapsAreOpened
<1>4. OffersAreBehind' /\ OffersAscend'
  <2>1. \A k \in DOMAIN offers : offers[k] \in Nat
    BY <1>1
  <2>2. QED
    BY <1>1, <2>1 DEF OffersAreBehind, OffersAscend
<1>5. PadsResumed'
  BY DEF PadsResumed
<1>6. QED
  BY <1>2, <1>3, <1>4, <1>5 DEF Judging, CandidateIsFree, RetainedIsOffered,
              ExtentNeverCarriesOver, ExtentIsOfFailed, BeforeTheScan

(* A step over filler or a declared body sees everything it passes. *)
LEMMA StepToStep ==
    ASSUME GInv, phase = "scan", pointer < End,
           NEW a \in Nat, pointer < a, StepTo(a)
    PROVE  GInv'
<1>1. pointer \in Nat /\ visited \subseteq Nat /\ gaps \subseteq Nat
  BY DEF GInv, TypeOK
<1>2. pointer .. a - 1 \subseteq Nat /\ pointer \in pointer .. a - 1
  BY <1>1
<1>3. \A g \in gaps : pointer < g /\ g < a => g \in pointer .. a - 1
  BY <1>1
<1>4. extentEnd = NoAddr
  BY DEF GInv, ExtentNeverCarriesOver
<1>5. QED
  BY <1>1, <1>2, <1>3, <1>4, AdvanceStep DEF StepTo

(* A jump passes no gap at all. *)
LEMMA JumpStep ==
    ASSUME GInv, phase = "scan", pointer < End,
           NEW next, next \in NextGap \/ next \in NextGapUnskipped,
           pointer' = next, visited' = visited \cup {pointer},
           extentEnd' = NoAddr,
           UNCHANGED <<img, phase, gaps, previous, retained, disassembly, offers, refuted>>
    PROVE  GInv'
<1>1. TypeOK /\ pointer \in Nat /\ visited \subseteq Nat
  BY DEF GInv, TypeOK
<1>2. next \in Nat /\ pointer < next /\ \A g \in gaps : ~(pointer < g /\ g < next)
  BY <1>1, NextGapAhead, NextGapUnskippedAhead
<1>3. QED
  BY <1>1, <1>2, AdvanceStep
(* One iteration of the loop that goes on. *)
LEMMA SkipStep ==
    ASSUME GInv,
           \/ SkipPadding \/ SkipNop \/ SkipData \/ SkipCode
           \/ SkipExceptionRange \/ SkipLandingPad \/ SkipFde \/ SkipAnalyzed
    PROVE  GInv'
<1>1. phase = "scan" /\ pointer < End
  BY DEF SkipPadding, SkipNop, SkipData, SkipCode, SkipExceptionRange, SkipLandingPad, SkipFde,
         SkipAnalyzed, Undeclared, Unclaimed, BytesMayBeCode, Standing
<1>2. pointer \in Nat /\ TypeOK /\ extentEnd = NoAddr
  BY <1>1 DEF GInv, TypeOK, ExtentNeverCarriesOver
<1>3. CASE SkipPadding
  <2>1. PICK n \in 1 .. End - pointer : StepTo(pointer + n)
    BY <1>3 DEF SkipPadding
  <2>2. n \in Nat /\ n > 0
    BY <1>2, ImageFacts DEF TypeOK
  <2>3. pointer + n \in Nat /\ pointer < pointer + n
    BY <1>2, <2>2
  <2>4. QED
    BY <1>1, <2>1, <2>3, StepToStep
<1>4. CASE SkipNop
  <2>1. pointer + 2 \in Nat /\ pointer < pointer + 2
    BY <1>2
  <2>2. QED
    BY <1>1, <1>4, <2>1, StepToStep DEF SkipNop
<1>5. CASE SkipData
  <2>1. pointer + 1 \in Nat /\ pointer < pointer + 1
    BY <1>2
  <2>2. QED
    BY <1>1, <1>5, <2>1, StepToStep DEF SkipData
<1>6. CASE SkipExceptionRange
  <2>1. PICK r \in ExceptionRange : StepTo(r.end)
    BY <1>6 DEF SkipExceptionRange
  <2>2. r.end \in Nat /\ pointer < r.end
    BY <1>2, <2>1, ImageFacts DEF ExceptionRange, TypeOK
  <2>3. QED
    BY <1>1, <2>1, <2>2, StepToStep
<1>7. \A r \in FdeRange : r.end \in Nat /\ pointer < r.end
  BY <1>2, ImageFacts DEF FdeRange, TypeOK
<1>8. CASE SkipLandingPad
  <2>1. pointer + 1 \in Nat /\ pointer < pointer + 1
    BY <1>2
  <2>2. CASE StepTo(pointer + 1)
    BY <1>1, <2>1, <2>2, StepToStep
  <2>3. CASE \E r \in FdeRange : StepTo(r.end)
    BY <1>1, <1>7, <2>3, StepToStep
  <2>4. QED
    BY <1>8, <2>2, <2>3 DEF SkipLandingPad
<1>9. CASE SkipFde
  BY <1>1, <1>7, <1>9, StepToStep DEF SkipFde, RecoveredFde
<1>10. CASE SkipCode
  BY <1>1, <1>2, <1>10, JumpStep DEF SkipCode
<1>11. CASE SkipAnalyzed
  <2>1. extentEnd' = NoAddr
    BY <1>2, <1>11 DEF SkipAnalyzed, ExtentLeft
  <2>2. QED
    BY <1>1, <1>11, <2>1, JumpStep DEF SkipAnalyzed
<1>12. QED
  BY <1>3, <1>4, <1>5, <1>6, <1>8, <1>9, <1>10, <1>11

LEMMA OfferStep ==
    ASSUME GInv, Offer
    PROVE  GInv'
<1> USE DEF GInv, Offer, disassembly, Code
<1>1. phase = "scan" /\ pointer < End /\ pointer \notin Code
  BY DEF Undeclared, Unclaimed, BytesMayBeCode, Standing
<1>2. pointer \in Nat /\ offers \in Seq(Nat) /\ retained = NoAddr /\ extentEnd = NoAddr
  BY <1>1 DEF TypeOK, RetainedIsOffered, ExtentNeverCarriesOver
<1>3. TypeOK'
  BY <1>1, <1>2 DEF TypeOK, Addresses, End
<1>4. /\ DOMAIN offers' = 1 .. Len(offers) + 1
      /\ \A k \in DOMAIN offers : offers'[k] = offers[k] /\ offers[k] \in Nat
      /\ offers'[Len(offers) + 1] = pointer
      /\ DOMAIN offers = 1 .. Len(offers) /\ Len(offers) \in Nat
  BY <1>2
<1>5. \A k \in DOMAIN offers : offers[k] < pointer
  BY <1>1 DEF OffersAreBehind
<1>6. OffersAscend'
  <2> SUFFICES ASSUME NEW j \in 1 .. Len(offers) + 1, NEW k \in 1 .. Len(offers) + 1, j < k
               PROVE  offers'[j] < offers'[k]
    BY <1>4 DEF OffersAscend
  <2>1. j \in DOMAIN offers
    BY <1>4
  <2>2. CASE k \in DOMAIN offers
    BY <1>4, <2>1, <2>2 DEF OffersAscend
  <2>3. CASE k = Len(offers) + 1
    BY <1>4, <1>5, <2>1, <2>3
  <2>4. QED
    BY <1>4, <2>2, <2>3
<1>7. OffersAreBehind'
  <2> SUFFICES ASSUME NEW k \in 1 .. Len(offers) + 1
               PROVE  offers'[k] <= pointer
    BY <1>4 DEF OffersAreBehind
  <2>1. CASE k \in DOMAIN offers
    BY <1>2, <1>4, <1>5, <2>1
  <2>2. CASE k = Len(offers) + 1
    BY <1>2, <1>4, <2>2
  <2>3. QED
    BY <1>4, <2>1, <2>2
<1>8. PadsResumed'
  BY <1>1 DEF PadsResumed
<1>9. QED
  BY <1>1, <1>2, <1>3, <1>6, <1>7, <1>8 DEF GapsAreOpened, Judging, CandidateIsFree,
     RetainedIsOffered, ExtentNeverCarriesOver, ExtentIsOfFailed, BeforeTheScan, End

LEMMA StopStep ==
    ASSUME GInv, Finish \/ Timeout
    PROVE  GInv'
<1> USE DEF GInv, Finish, Timeout, disassembly, Code
<1>1. phase' = "done" /\ phase \in {"scan", "offered"} /\ pointer \in Nat /\ offers \in Seq(Nat)
  BY DEF TypeOK
<1>2. TypeOK'
  BY <1>1 DEF TypeOK, Addresses, End
<1>3. OffersAreBehind'
  <2>1. \A k \in DOMAIN offers : offers[k] \in Nat
    BY <1>1
  <2>2. QED
    BY <1>1, <2>1 DEF OffersAreBehind
<1>4. PadsResumed'
  BY <1>1 DEF PadsResumed
<1>5. QED
  BY <1>1, <1>2, <1>3, <1>4 DEF OffersAscend, GapsAreOpened, Judging, CandidateIsFree,
     RetainedIsOffered, ExtentNeverCarriesOver, ExtentIsOfFailed, BeforeTheScan

LEMMA SucceedStep ==
    ASSUME GInv, Succeed
    PROVE  GInv'
<1> USE DEF GInv, Succeed
<1>1. phase = "offered" /\ phase' = "settled" /\ pointer \in Nat /\ extentEnd = NoAddr
  BY DEF TypeOK, ExtentNeverCarriesOver
<1>2. PICK body \in Bodies, kept \in SUBSET Code :
         owner' = [a \in kept \cup body |-> IF a \in body THEN pointer ELSE owner[a]]
  OBVIOUS
<1>3. body \subseteq Addresses
  BY DEF Bodies, kSubset
<1>4. Code' \subseteq Addresses'
  BY <1>2, <1>3 DEF TypeOK, Code, Addresses, End
<1>5. TypeOK'
  BY <1>1, <1>4 DEF TypeOK
<1>6. PadsResumed'
  BY <1>1 DEF PadsResumed
<1>7. QED
  BY <1>1, <1>5, <1>6 DEF OffersAscend, OffersAreBehind, GapsAreOpened, Judging,
     CandidateIsFree, RetainedIsOffered, ExtentNeverCarriesOver, ExtentIsOfFailed, BeforeTheScan,
     End

LEMMA FailStep ==
    ASSUME GInv, Fail
    PROVE  GInv'
<1> USE DEF GInv, Fail, disassembly, Code
<1>1. phase = "offered" /\ phase' = "settled" /\ pointer \in Nat /\ pointer \notin Code
  BY DEF TypeOK, CandidateIsFree
<1>2. extentEnd' \in Nat \cup {NoAddr}
  BY <1>1, ImageFacts DEF TypeOK
<1>3. TypeOK'
  BY <1>1, <1>2 DEF TypeOK, Addresses, End
<1>4. PadsResumed'
  BY <1>1 DEF PadsResumed
<1>5. QED
  BY <1>1, <1>3, <1>4 DEF OffersAscend, OffersAreBehind, GapsAreOpened, Judging,
     CandidateIsFree, RetainedIsOffered, ExtentNeverCarriesOver, ExtentIsOfFailed, BeforeTheScan,
     End

LEMMA ContinueStep ==
    ASSUME GInv, Continue
    PROVE  GInv'
<1> USE DEF GInv, Continue, disassembly, Code
<1>1. /\ phase = "settled" /\ phase' = "scan" /\ retained' = NoAddr
      /\ pointer \in Nat /\ pointer < End /\ pointer \in visited /\ offers \in Seq(Nat)
      /\ gaps \subseteq Nat /\ visited \subseteq Nat /\ refuted \subseteq Nat
  BY DEF TypeOK, Judging
<1>2. retained # NoAddr => retained = pointer
  BY <1>1 DEF RetainedIsOffered
<1>3. PICK target \in NextGapUnskipped :
         \/ RefutedPad(target) /\ pointer' = retained + 2 /\ visited' = visited \cup {retained + 1}
         \/ ~RefutedPad(target) /\ pointer' = target /\ visited' = visited
  OBVIOUS
<1>4. target \in Nat /\ pointer < target /\ \A g \in gaps : ~(pointer < g /\ g < target)
  BY <1>1, NextGapUnskippedAhead
<1>5. RefutedPad(target) <=> retained # NoAddr /\ pointer \notin Code
  BY <1>2, <1>4 DEF RefutedPad
<1>6. /\ pointer' \in Nat /\ pointer < pointer'
      /\ visited' \subseteq Nat /\ visited \subseteq visited'
      /\ \A g \in gaps : pointer < g /\ g < pointer' => g \in visited'
  <2>1. CASE RefutedPad(target)
    <3>1. retained = pointer
      BY <1>2, <1>5, <2>1
    <3>2. pointer' = pointer + 2 /\ visited' = visited \cup {pointer + 1}
      BY <1>3, <2>1, <3>1
    <3>3. \A g \in gaps : pointer < g /\ g < pointer + 2 => g = pointer + 1
      BY <1>1
    <3>4. QED
      BY <1>1, <3>2, <3>3
  <2>2. CASE ~RefutedPad(target)
    BY <1>1, <1>3, <1>4, <2>2
  <2>3. QED
    BY <2>1, <2>2
<1>7. extentEnd' = NoAddr
  BY <1>1 DEF ExtentLeft, ExtentIsOfFailed
<1>8. TypeOK'
  BY <1>1, <1>6, <1>7 DEF TypeOK, Addresses, End, NoAddr
<1>9. OffersAreBehind'
  <2>1. \A k \in DOMAIN offers : offers[k] \in Nat /\ offers[k] <= pointer
    BY <1>1 DEF OffersAreBehind
  <2>2. QED
    BY <1>1, <1>6, <2>1 DEF OffersAreBehind
<1>10. GapsAreOpened'
  <2> SUFFICES ASSUME NEW g \in gaps, g < pointer'
               PROVE  g \in visited'
    BY DEF GapsAreOpened
  <2>1. g < pointer \/ g = pointer \/ pointer < g
    BY <1>1
  <2>2. QED
    BY <1>1, <1>6, <2>1 DEF GapsAreOpened
<1>11. PadsResumed'
  <2> SUFFICES ASSUME NEW a \in refuted
               PROVE  a + 2 \in visited' \/ pointer' = a + 2
    BY <1>1 DEF PadsResumed
  <2>1. CASE a + 2 \in visited
    BY <1>6, <2>1
  <2>2. CASE pointer = a /\ retained = a /\ a \notin Code
    <3>1. RefutedPad(target)
      BY <1>1, <1>5, <2>2 DEF NoAddr
    <3>2. QED
      BY <1>3, <2>2, <3>1
  <2>3. QED
    BY <1>1, <2>1, <2>2 DEF PadsResumed
<1>12. QED
  BY <1>1, <1>7, <1>8, <1>9, <1>10, <1>11 DEF OffersAscend, Judging, CandidateIsFree,
     RetainedIsOffered, ExtentNeverCarriesOver, ExtentIsOfFailed, BeforeTheScan

LEMMA StutterStep ==
    ASSUME GInv, UNCHANGED vars
    PROVE  GInv'
BY DEF GInv, vars, TypeOK, Addresses, End, Code, OffersAscend, OffersAreBehind, GapsAreOpened,
       Judging, CandidateIsFree, RetainedIsOffered, PadsResumed, ExtentNeverCarriesOver,
       ExtentIsOfFailed, BeforeTheScan

-----------------------------------------------------------------------------

(* The invariant the theorems below follow from: offers lie behind the     *)
(* pointer, what is judged was free, what is retained was just offered.    *)
THEOREM GapScanInvariant == Spec => []GInv
<1>1. GInv /\ [Next]_vars => GInv'
  BY InitStep, SkipStep, OfferStep, StopStep, SucceedStep, FailStep, ContinueStep, StutterStep
     DEF Next, Work, Scan
<1>2. QED
  BY <1>1, GInvInit, PTL DEF Spec

(* The scan offers no address twice and never goes back, on every image,   *)
(* for every alignment and window, whatever becomes of the candidates.     *)
THEOREM ScanAscends == Spec => []OffersAscend
<1>1. GInv => OffersAscend
  BY DEF GInv
<1>2. QED
  BY <1>1, GapScanInvariant, PTL

(* No jump of the pointer hides a gap of the snapshot. *)
THEOREM ScanOpensGaps == Spec => []GapsAreOpened
<1>1. GInv => GapsAreOpened
  BY DEF GInv
<1>2. QED
  BY <1>1, GapScanInvariant, PTL

(* A pad retained in vain costs the scan two bytes, not the gap. *)
THEOREM ScanKeepsRefutedPads == Spec => []RefutedPadsKeepTheGap
<1>1. GInv => RefutedPadsKeepTheGap
  <2> SUFFICES ASSUME GInv, NEW a \in refuted, a + 2 < pointer
               PROVE  a + 2 \in visited
    BY DEF RefutedPadsKeepTheGap
  <2>1. a \in Nat /\ pointer \in Nat
    BY DEF GInv, TypeOK, BeforeTheScan
  <2>2. QED
    BY <2>1 DEF GInv, PadsResumed
<1>2. QED
  BY <1>1, GapScanInvariant, PTL

(* No candidate resumes at the extent of an earlier one. *)
THEOREM ScanDropsExtents == Spec => []ExtentNeverCarriesOver
<1>1. GInv => ExtentNeverCarriesOver
  BY DEF GInv
<1>2. QED
  BY <1>1, GapScanInvariant, PTL

(* Every variable of the scan keeps its type, the pointer included. *)
THEOREM ScanTypeCorrect == Spec => []TypeOK
<1>1. GInv => TypeOK
  BY DEF GInv
<1>2. QED
  BY <1>1, GapScanInvariant, PTL

(* The scan moves forward through addresses, on every image.               *)
THEOREM ScanStaysOrderly == Spec => []ScanIsOrderly
<1>1. TypeOK /\ OffersAscend => ScanIsOrderly
  BY DEF ScanIsOrderly
<1>2. QED
  BY <1>1, ScanTypeCorrect, ScanAscends, PTL

(* What nextGapCandidate() remembers of one candidate serves the next step *)
(* and no later one, whatever an analysis claims in between.               *)
THEOREM ScanConsumesItsNotes == Spec => []NotesAreConsumed
<1>1. RefutedPadsKeepTheGap /\ ExtentNeverCarriesOver => NotesAreConsumed
  BY DEF NotesAreConsumed
<1>2. QED
  BY <1>1, ScanKeepsRefutedPads, ScanDropsExtents, PTL
=============================================================================
