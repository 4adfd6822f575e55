------------------------------- MODULE GapScan64 -------------------------------
(***************************************************************************)
(* The AArch64 scan of what is left between functions (nextGapCandidate    *)
(* and its helpers in smda/aarch64/FunctionCandidateManager.py): one call, *)
(* from a pointer to the next address worth an analysis.                   *)
(*                                                                         *)
(* What is known then is [code, data, functions, starts, gaps, borders]:   *)
(* the bytes of code and of data, the functions found, the starts known    *)
(* before the analysis, and where gaps begin.                              *)
(***************************************************************************)
EXTENDS Discovery64

CONSTANTS GapRunLimit   \* _GAP_RUN_LIMIT

EndOf(image) == image.base + Size(image)
Aligned(address) == UpTo(address, InstructionSize)

\* The words of the run from an address, as far as either walk reads it.
RunFrom(image, start) ==
    {a \in start..Min({start + GapRunLimit - 1, EndOf(image) - InstructionSize}) : (a - start) % InstructionSize = 0}
First(image, run, ops) ==
    LET ends == {a \in run : WordAt(image, a).op \in ops} IN IF ends = {} THEN {} ELSE {Min(ends)}

RunFlowsIntoInterior(image, known, start) ==
    \E a \in First(image, RunFrom(image, start), {"b", "ret", "br"}) :
        LET word == WordAt(image, a)
        IN  /\ word.op = "b" /\ word.to \notin known.functions
            /\ word.to \in known.code /\ word.to \notin known.starts

EndOfRefusedRun(image, start) ==
    LET behind == RunFrom(image, start) \ {start}
        last   == First(image, behind, {"ret", "br", "b"} \cup Traps)
    IN  IF last = {} THEN start + InstructionSize ELSE Max(last) + InstructionSize

NextGap(image, known, pointer) == Min({g \in known.gaps : g > pointer} \cup {EndOf(image)})
NextExec(image, pointer) == Min({r[1] : r \in {e \in image.exec : e[1] > pointer}} \cup {EndOf(image)})

RecoveredExtent(image, known, pointer) ==
    IF "pdata" \notin image.rules THEN {}
    ELSE {r \in DeclaredExceptionRangeContaining(image.extents, pointer) : r.fragment \/ r.start \in known.functions}
RecoveredFde(image, known, pointer) ==
    IF "fde" \notin image.rules \/ IsInDeclaredPltSection(image, pointer) THEN {}
    ELSE {r \in DeclaredFdeRangeContaining(image.fdes, pointer) : r.start \in known.functions}
IsDeclaredPad(image, pointer) == "pads" \in image.rules /\ pointer \in image.pads

(* Where the scan goes from a pointer: where the first rule that applies    *)
(* sends it, or nowhere.                                                    *)
When(condition, target) == IF condition THEN {target} ELSE {}
Ends(ranges) == {r.end : r \in ranges}
Onward(image, known, previous, pointer) ==
    LET op    == WordAt(image, pointer).op
        next  == pointer + InstructionSize
        skip  == DeclaredLandingPadSkipTarget(image, pointer)
        rules == <<When(pointer \in known.code, NextGap(image, known, pointer)),
                   When(pointer \in known.data, next),
                   When(image.exec # {} /\ ~InRanges(image.exec, pointer), NextExec(image, pointer)),
                   When(op \in Padding, next),
                   Ends(RecoveredExtent(image, known, pointer)),
                   IF ~IsDeclaredPad(image, pointer) THEN {} ELSE IF skip # {} THEN skip ELSE {next},
                   Ends(RecoveredFde(image, known, pointer)),
                   When(op \in LandingPads
                          /\ IsLikelyInteriorBti(image, known.code, known.starts \cup known.functions, pointer),
                        EndOfRefusedRun(image, pointer)),
                   When(op \in Traps, next),
                   When(pointer = previous, NextGap(image, known, pointer)),
                   When(~PassesCodeFilter(image, pointer) \/ RunFlowsIntoInterior(image, known, pointer), next)>>
        FirstRule(targets) == IF targets = <<>> THEN pointer ELSE Max(Head(targets))
    IN  FirstRule(SelectSeq(rules, LAMBDA target : target # {}))

(* The result is [pointer, offer]: where the scan stands, and the address   *)
(* it offers, if there is any.                                              *)
MoveTo(scan, pointer, onward) ==
    IF onward = pointer THEN [pointer |-> pointer, offer |-> {pointer}, over |-> TRUE]
    ELSE [scan EXCEPT !.pointer = onward]
GapStep(image, known, previous, scan) ==
    LET pointer == Aligned(scan.pointer)
    IN  IF scan.over THEN scan
        ELSE IF pointer < image.base \/ pointer + InstructionSize > EndOf(image)
             THEN [scan EXCEPT !.pointer = pointer, !.over = TRUE]
        ELSE MoveTo(scan, pointer, Onward(image, known, previous, pointer))
NextGapCandidate(image, known, previous, pointer) ==
    FoldLeft(LAMBDA scan, k : GapStep(image, known, previous, scan),
             [pointer |-> pointer, offer |-> {}, over |-> FALSE], [k \in 1..(Len(image.words) + 1) |-> k])
=============================================================================
