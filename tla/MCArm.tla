--------------------------------- MODULE MCArm ---------------------------------
(***************************************************************************)
(* Images for Arm and ArmHistory.                                          *)
(***************************************************************************)
EXTENDS ArmHistory

I(size, kind, target) == [size |-> size, kind |-> kind, target |-> target]
T(kind) == I(2, kind, NoAddr)
A(kind) == I(4, kind, NoAddr)
TTo(kind, target) == I(IF kind \in {"call", "callx"} THEN 4 ELSE 2, kind, target)
ATo(kind, target) == I(4, kind, target)

None == <<>>
Blank ==
    [size |-> 0, exec |-> {}, ins |-> (TRUE :> None) @@ (FALSE :> None), words |-> None,
     relocated |-> {}, mapping |-> None, dataInCode |-> {}, thumbRegion |-> {}, stubs |-> {},
     container |-> {}, needsDeclaration |-> FALSE, symbols |-> None, entry |-> None, exidx |-> None]

Code2(thumb, arm) == (TRUE :> thumb) @@ (FALSE :> arm)

(* Evidence: a caller at 0, a function at 12 that decodes either way and    *)
(* may call back, a pool at 24 and a function nothing else names at 28.    *)
CallerThumb(kind) ==
    (0 :> T("push")) @@ (2 :> TTo("lit", 24)) @@ (4 :> TTo(kind, 12)) @@ (8 :> T("ret"))
CallerArm(kind) == (0 :> A("push")) @@ (4 :> ATo(kind, 12)) @@ (8 :> A("ret"))
CalleeThumb(back) ==
    (12 :> T("push")) @@ (14 :> TTo("lit", 24)) @@ (16 :> TTo(back, 0)) @@ (20 :> T("ret"))
CalleeArm(back) == (12 :> ATo("lit", 24)) @@ (16 :> ATo(back, 0)) @@ (20 :> A("ret"))
TailThumb == (28 :> T("op")) @@ (30 :> T("ret"))
TailArm == 28 :> A("ret")
Mapped == (0 :> "t") @@ (12 :> "a") @@ (24 :> "d") @@ (28 :> "t")

Modes ==
    {[Blank EXCEPT
        !.size = 36, !.exec = 0..31,
        !.ins = Code2(CallerThumb(kind) @@ CalleeThumb(back) @@ TailThumb,
                      CallerArm(kind) @@ CalleeArm(back) @@ TailArm),
        !.words = (24 :> word) @@ (32 :> pointer),
        !.thumbRegion = {a \in 0..36 : IF a < 12 THEN caller ELSE callee},
        !.mapping = mapping, !.exidx = exidx, !.symbols = stated[1], !.entry = stated[2]] :
        kind \in {"call", "callx"}, back \in {"call", "callx"}, word \in {0, 13, 29},
        pointer \in {0, 12}, caller \in BOOLEAN, callee \in BOOLEAN, mapping \in {None, Mapped},
        exidx \in {None, <<[value |-> 12, opens |-> {FALSE}]>>, <<[value |-> 12, opens |-> {}]>>},
        stated \in {<<None, None>>, <<<<1>>, None>>, <<None, <<12>>>>}}

(* Flow: Thumb code; what the paths of the function at 0 run and branch    *)
(* into, where the image may state an entry at 8 or at 12.                 *)
ThumbImage(size, ins, symbols) ==
    [Blank EXCEPT !.size = size, !.ins = Code2(ins, None), !.mapping = 0 :> "t",
                  !.thumbRegion = 0..size, !.symbols = symbols]

Flow ==
    {ThumbImage(24, (0 :> T(first)) @@ (2 :> second) @@ (4 :> T("unlink")) @@ (6 :> third)
                    @@ (8 :> T(fourth)) @@ (10 :> T(fifth)) @@ (12 :> T("push"))
                    @@ (14 :> sixth) @@ (16 :> T("ret")), symbols) :
        first \in {"op", "push"},
        second \in {TTo("cond", 8), TTo("cond", 12), TTo("call", 12), T("op"), TTo("cond", 100)},
        third \in {TTo("jmp", 12), TTo("cond", 10), T("op"), TTo("jmp", 100)},
        fourth \in {"ret", "op", "zero"}, fifth \in {"nop", "zero", "op", "trap"},
        sixth \in {T("op"), TTo("jmp", 8)},
        symbols \in {<<1>>, <<1, 13>>, <<1, 9>>}}

(* Pools: two paths of a function, one through the word the other loads,   *)
(* and a second function beside it.                                        *)
Pools ==
    {[ThumbImage(28, (0 :> T("push")) @@ (2 :> TTo("cond", 8)) @@ (4 :> TTo("lit", pool))
                     @@ (6 :> T("ret")) @@ (8 :> T(path)) @@ (10 :> T("op")) @@ (12 :> T("op"))
                     @@ (14 :> T("ret")) @@ (16 :> T("op")) @@ (18 :> other) @@ (20 :> T("ret"))
                     @@ (22 :> T(end)), symbols)
        EXCEPT !.words = pool :> value] :
        pool \in {10, 12, 14, 16, 20}, path \in {"op", "push", "zero"},
        other \in {TTo("lit", 12), TTo("jmp", 8), TTo("jmp", 10), T("op")}, end \in {"ret", "op"},
        value \in {0, 17}, symbols \in {<<1>>, <<1, 17>>}}

(* Restored: a function behind bytes that are marked as data, reached by a *)
(* branch the gap scan finds; one of its paths runs through its pool.      *)
Restored ==
    {[ThumbImage(20, (0 :> TTo("cond", path)) @@ (2 :> TTo("lit", 8)) @@ (4 :> T("ret"))
                     @@ (6 :> T("op")) @@ (8 :> T("op")) @@ (10 :> T(last)) @@ (12 :> T("op"))
                     @@ (14 :> T(end)) @@ (16 :> TTo("jmp", 0)) @@ (18 :> T("ret")), <<19>>)
        EXCEPT !.mapping = (0 :> "d") @@ (12 :> "t"), !.words = 8 :> 0] :
        path \in {6, 10, 12}, last \in {"op", "ret", "zero"}, end \in {"ret", "op"}}

(* Taught: a function that calls itself in the other instruction set, and   *)
(* may run into the word it loads, before one that calls it as well.        *)
Taught ==
    {[Blank EXCEPT
        !.size = 28, !.exec = 0..27, !.thumbRegion = 0..27,
        !.ins = Code2((0 :> first) @@ (2 :> TTo(self, 0)) @@ (6 :> T(then)) @@ (8 :> T("op"))
                      @@ (10 :> TTo("lit", 12)) @@ (12 :> T("op")) @@ (14 :> T("ret"))
                      @@ (16 :> T("push")) @@ (18 :> TTo(call, 0)) @@ (22 :> T("ret")),
                      (0 :> A("op")) @@ (4 :> other) @@ (8 :> A("ret"))),
        !.words = 12 :> 0, !.symbols = symbols] :
        first \in {T("push"), TTo("cond", 12), TTo("cond", 8)},
        self \in {"call", "callx"}, then \in {"ret", "op"},
        other \in {A("op"), ATo("lit", 12), ATo("callx", 0), A("ret")},
        call \in {"call", "callx"}, symbols \in {None, <<17>>, <<1>>}}

(* Unaligned: A32 code at an unaligned symbol branches to a Thumb prologue. *)
Unaligned ==
    {[Blank EXCEPT
        !.size = 24, !.exec = 0..23, !.thumbRegion = 0..23, !.symbols = symbols,
        !.ins = Code2((0 :> T("push")) @@ (10 :> T("push")) @@ (12 :> T("ret"))
                      @@ (14 :> T("push")) @@ (16 :> TTo(call, 10)) @@ (20 :> T("ret")),
                      (2 :> A("op")) @@ (6 :> ATo(kind, 10)) @@ (10 :> A(last)) @@ (14 :> A("ret")))] :
        kind \in {"jmp", "cond", "call"}, last \in {"op", "ret"}, call \in {"call", "callx"},
        symbols \in {<<2>>, <<2, 15>>, <<15, 2>>}}

(* Late: the first pass decodes 14 to 21 on its way through the word at 12; *)
(* the second stops before it, and gets to what a branch to 16 makes of it. *)
Late ==
    {ThumbImage(32, (0 :> TTo("cond", 8)) @@ (2 :> TTo("lit", 12)) @@ (4 :> TTo("jmp", 16))
                    @@ (6 :> T("ret")) @@ (8 :> T("op")) @@ (10 :> T("op")) @@ (12 :> T(in))
                    @@ (14 :> long) @@ (16 :> A("op")) @@ (18 :> long) @@ (20 :> TTo("lit", pool))
                    @@ (22 :> T("ret")) @@ (24 :> other) @@ (26 :> T("ret")), symbols) :
        in \in {"op", "ret"}, long \in {A("op"), T("op")}, pool \in {4, 8, 12, 28},
        other \in {TTo("lit", 8), TTo("lit", 12), T("op")}, symbols \in {<<1>>, <<1, 25>>}}

(* Left: a branch out of bytes that are marked as data, which the gap scan  *)
(* finds last, into a gap function that reads the word at 24.               *)
Left ==
    {[ThumbImage(32, (0 :> TTo("cond", into)) @@ (2 :> first) @@ (4 :> T(then)) @@ (6 :> T("ret"))
                     @@ (8 :> second) @@ (10 :> third) @@ (12 :> T("op")) @@ (14 :> T("ret"))
                     @@ (16 :> TTo("jmp", 0)) @@ (28 :> T("ret")), <<29>>)
        EXCEPT !.mapping = (0 :> "d") @@ (8 :> "t") @@ (20 :> "d") @@ (28 :> "t"),
               !.words = (20 :> 0) @@ (24 :> 0)] :
        into \in {8, 10, 12}, first \in {TTo("lit", 24), TTo("lit", 4), T("op")}, then \in {"op", "ret"},
        second \in {TTo("lit", 24), T("op")}, third \in {TTo("lit", 20), TTo("lit", 24), T("op")}}

ArmImages == Modes \cup Flow \cup Pools \cup Restored \cup Taught \cup Unaligned \cup Late \cup Left
===============================================================================
