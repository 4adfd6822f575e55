------------------------------- MODULE MCEngine -------------------------------
(***************************************************************************)
(* Images for Engine.  Each family holds every program a palette of        *)
(* instructions makes on a few consecutive addresses.                      *)
(***************************************************************************)
EXTENDS Engine

(* An address belongs to one function at a time, which gives it up when it *)
(* is undone, except for code behind a call into the function's own middle *)
(* (LeftBehind).                                                           *)
Addresses == 1..6
Ownership == INSTANCE CodeMap WITH Addr <- Addresses, owner <- dis.ins2fn, stuck <- LeftBehind
OwnershipSpec == Ownership!Spec

I(size, kind, target) ==
    [size |-> size, kind |-> kind, target |-> target, cases |-> <<>>, table |-> {}]
Op(kind) == I(1, kind, NoAddr)
To(kind, target) == I(1, kind, target)
Dispatch(cases, table) ==
    [size |-> 1, kind |-> "jtab", target |-> NoAddr, cases |-> cases, table |-> table]

Image0(ins, extent, candidates) ==
    [ins |-> ins, extent |-> extent, candidates |-> candidates, callRefs |-> {},
     score |-> [a \in extent |-> 1], evidence |-> {}, padded |-> {}, pads |-> {},
     deferred |-> <<>>, late |-> <<>>]

Ranked(image, first) == [image EXCEPT !.score[first] = 2]

Programs(cells, palette, candidates, first) ==
    {Ranked(Image0(p, cells, candidates), first) : p \in [cells -> palette]}

-----------------------------------------------------------------------------
(* Families. *)

(* Branches between two candidates, the inner one decoded first. *)
BranchImages ==
    {b \in Programs(1..4, {Op("seq"), Op("ret"), To("call", 3), To("jmp", 3), To("cjmp", 3),
                           To("cjmp", 4), To("loop", 2)}, {1, 3}, 3) :
        b.ins[4].kind \in {"seq", "ret", "jmp", "loop"}}

(* Dispatches through tables that lie between the code. *)
TableImages ==
    {t \in Programs(1..5, {Op("seq"), Op("ret"), To("cjmp", 5),
                           Dispatch(<<2, 5>>, {3}), Dispatch(<<4, 1>>, {5})}, {1, 4, 5}, 4) :
        t.ins[3].kind # "cjmp" /\ t.ins[5].kind \in {"seq", "ret"}}

(* Padding, alignment runs and landing pads. *)
PaddingImages ==
    {[Ranked(Image0(p @@ (5 :> last), 1..5, {3}), 3) EXCEPT
          !.padded = {3, 5},
          !.pads = {a \in 1..5 : (p @@ (5 :> last))[a].kind = "endbr"},
          !.late = <<1>>] :
        p \in [1..4 -> {Op("ret"), Op("nop"), Op("endbr"), To("pad", 5), To("call", 3)}],
        last \in {Op("ret"), Op("endbr")}}

(* Functions only deferred and late sources name, register calls, zeros. *)
SourceImages ==
    {[p EXCEPT !.deferred = <<2, 3>>, !.late = <<4, 1>>,
               !.score = [a \in 1..5 |-> IF a \in {1, 5} THEN 1 ELSE 0]] :
        p \in {q \in Programs(1..5, {Op("zero"), Op("ret"), To("rcall", 4), To("jmp", 4)},
                              {1, 5}, 1) : q.ins[5].kind \in {"zero", "ret"}}}

(* A late function that decodes through a table into what the gap scan     *)
(* took before.                                                            *)
GapImages ==
    {[Image0(<<a, b, c, d, e>>, 1..5, {1}) EXCEPT !.late = <<1>>,
                                                  !.score = [x \in 1..5 |-> 0]] :
        a \in {To("cjmp", 3), Op("seq")},
        b \in {Dispatch(<<>>, {4}), Dispatch(<<5>>, {4}), Op("zero")},
        c \in {Op("seq"), Op("ret"), Op("zero")},
        d \in {Op("seq"), Op("zero"), To("jmp", 5)},
        e \in {Op("ret"), To("jmp", 3)}}

(* Bodies behind a return, taken over by functions that turn out to be none. *)
AbsorbImages ==
    {a \in Programs(1..5, {Op("seq"), Op("zero"), Op("ret"), To("cjmp", 4)}, {1, 4}, 4) :
        a.ins[5].kind \in {"ret", "cjmp"}}

(* Instructions of two bytes, where nothing leads into the second one.     *)
WideImages ==
    {Ranked(Image0(p @@ [a \in {2, 4, 6} |-> Op("zero")], 1..6, {1, 3}), 3) :
        p \in [{1, 3, 5} -> {I(2, "seq", NoAddr), I(2, "ret", NoAddr), I(2, "call", 3),
                            I(2, "jmp", 3), I(2, "cjmp", 5), I(2, "loop", 1)}]}

(* Functions that call into their own middle, absorbed by the one in front *)
(* of them or, where only a late source names that one, undone for it.     *)
InnerCallImages ==
    {a \in Programs(1..6, {Op("seq"), Op("ret"), To("cjmp", 3), To("call", 5)}, {1, 3}, 3) :
        a.ins[1].kind \in {"cjmp", "seq"} /\ a.ins[6].kind = "ret"}
    \cup
    {[Image0(<<To("cjmp", 3), a, b, c, d>>, 1..5, {1}) EXCEPT !.late = <<1>>,
                                                            !.score = [x \in 1..5 |-> 0]] :
        a \in {Dispatch(<<>>, {4}), Dispatch(<<5>>, {4}), Op("ret"), Op("zero")},
        b \in {Op("seq"), To("call", 4), To("call", 5)},
        c \in {Op("seq"), To("call", 5), To("jmp", 5)},
        d \in {Op("ret"), To("jmp", 3)}}

AnalysisImages == InnerCallImages \cup BranchImages \cup TableImages \cup AbsorbImages \cup WideImages
                  \cup PaddingImages \cup SourceImages \cup GapImages

(* Jumps into functions, and into bodies behind a return that were undone; *)
(* the last address always ends the code.                                  *)
TailcallImages ==
    {Ranked(Image0(p @@ (5 :> Op("ret")), 1..5, {1, 3}), 3) :
        p \in [1..4 -> {Op("seq"), Op("ret"), To("jmp", 2), To("jmp", 3), To("cjmp", 3),
                        To("call", 1)}]}
    \cup
    {Ranked(Image0(p @@ (5 :> Op("ret")), 1..5, {1, 4}), 4) :
        p \in [1..4 -> {Op("seq"), Op("ret"), To("cjmp", 4), To("cjmp", 5)}]}
    \cup {w \in WideImages : w.ins[5].kind = "ret"}

(* Little code, every source in use. *)
BudgetImages ==
    {[Image0(p @@ (4 :> Op("ret")), 1..4, {1, 3}) EXCEPT !.deferred = <<2>>, !.late = <<4>>] :
        p \in [1..3 -> {Op("seq"), Op("ret"), To("jmp", 4), To("cjmp", 3), To("rcall", 2)}]}
=============================================================================
