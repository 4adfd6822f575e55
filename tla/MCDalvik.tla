-------------------------------- MODULE MCDalvik --------------------------------
(* DEX files of a few dozen code units for Dalvik: headers of two units.    *)
EXTENDS Dalvik, TLC

Ins(kind, size, to) == [kind |-> kind, size |-> size, to |-> to, throws |-> FALSE]
Throwing(kind, size, to) == [kind |-> kind, size |-> size, to |-> to, throws |-> TRUE]
Nop == Ins("plain", 1, None)
Wide == Ins("plain", 2, None)
Return == Ins("end", 1, None)
Call(to) == Throwing("invoke", 1, to)

Packed(to) == [kind |-> "packed", to |-> to]
Sparse(to) == [kind |-> "sparse", to |-> to]
Array(data) == [kind |-> "array", to |-> <<>>, data |-> data]

Header(insns) == [insns |-> insns, tries |-> <<>>, lists |-> <<>>, plausible |-> TRUE, whole |-> TRUE]
Guarded(header, start, end, list, handlers) ==
    [header EXCEPT !.tries = <<[start |-> start, end |-> end, list |-> list]>>, !.lists = 1 :> handlers]

File(ins, payload, header, methods) ==
    [ size |-> 26, region |-> <<0, 26>>, ins |-> ins, payload |-> payload, header |-> header,
      methods |-> methods ]

(* A switch over a table behind the code, a condition, a goto and a        *)
(* handler: whatever the targets are, units inside instructions and inside *)
(* the table among them.  A second instruction stream is offset by one.    *)
Switching ==
    {File( 2 :> Throwing("switch", 3, 11) @@ 5 :> Ins("if", 2, branch) @@ 7 :> Throwing("plain", 1, None) @@ 8 :> Call(None)
             @@ 9 :> Ins("goto", 1, jump) @@ 10 :> last @@ 6 :> Nop @@ 12 :> Wide @@ 14 :> Return,
           11 :> p,
           0 :> Guarded(Header(15), try[1], 9, try[2], <<handler>>),
           <<2>>) :
        branch \in {2, 6, 12}, try \in {<<2, 1>>, <<2, 2>>, <<9, 1>>}, jump \in {5, 10, 14}, handler \in {3, 7, 10},
        last \in {Return, Ins("if", 1, 7)},
        p \in {Packed(<<5>>), Sparse(<<8>>), Sparse(<<1, 5>>), Array(2)}}

(* A table before the instruction that names it, which reads as code: as a *)
(* switch over one more table, as plain code, as nothing.                  *)
Backward ==
    {File( 2 :> Ins("goto", 1, entry) @@ 3 :> Nop @@ 4 :> decoy @@ 5 :> Nop @@ 6 :> Wide
             @@ 8 :> Ins("fill", 3, 3) @@ 11 :> Ins("if", 1, target) @@ 12 :> Call(callee)
             @@ 13 :> Nop @@ 14 :> Return @@ 20 :> Nop @@ 21 :> Return,
           3 :> Array(1) @@ 13 :> Packed(<<>>),
           0 :> Header(13) @@ 18 :> Header(length),
           <<None, 2>>) :
        entry \in {3, 8, 11}, decoy \in {Nop, Ins("switch", 3, 13)}, target \in {4, 6, 8, 13, 14},
        callee \in {None, 2, 13}, length \in {1, 2}}

(* Tables that are truncated, that lie in the instruction that names them, *)
(* and goto/32 to itself.                                                  *)
Edges ==
    {File( 2 :> Ins("fill", 3, table) @@ 5 :> Ins("goto32", 3, loop) @@ 8 :> Call(None) @@ 3 :> Nop @@ 4 :> Nop,
           table :> Array(data), 0 :> Header(insns), <<2>>) :
        table \in {2, 3, 4, 5, 8}, data \in {0, 4}, loop \in {5, 8, 9}, insns \in {0, 3, 6, 8}}

(* The method table: methods that share a code item, overlap, cannot be    *)
(* read or have no code, and code items nobody names, inside and outside.  *)
Tables ==
    {File( [a \in (2 .. 25) \ {hole} |-> IF a \in {7, 13, 23} THEN Return ELSE IF a = 5 THEN Call(10) ELSE Nop],
           [a \in {} |-> 0],
           0 :> Header(6) @@ 4 :> Header(2) @@ 8 :> Header(length) @@ 12 :> Header(2)
             @@ 16 :> [Header(6) EXCEPT !.whole = whole, !.plausible = whole]
             @@ 20 :> Header(2) @@ 24 :> Header(9),
           methods) :
        length \in {2, 4}, hole \in {10, 19}, whole \in BOOLEAN,
        methods \in {<<2>>, <<2, 10>>, <<2, 2, None>>, <<10, 6>>, <<18, 2>>, <<9, 26>>, <<>>}}

(* Calls into the method itself, with and without a block start behind.    *)
Inward ==
    {File( 2 :> Call(callee) @@ 3 :> Nop @@ 4 :> Ins("if", 1, target) @@ 5 :> Nop @@ 6 :> Nop @@ 7 :> Nop
             @@ 8 :> Return,
           [a \in {} |-> 0], 0 :> Header(7), <<2>>) :
        callee \in 3 .. 8, target \in {2, 3, 7}}

DexFiles == Switching \cup Backward \cup Edges \cup Tables \cup Inward

(* No method of these files is left with a pass undone.                    *)
ASSUME PassesSuffice == \A image \in Images : \A h \in DOMAIN image.header : Legal[image][h].stop
=============================================================================
