-------------------------------- MODULE MCSplits --------------------------------
(***************************************************************************)
(* Images for SplitHistory.                                                *)
(***************************************************************************)
EXTENDS MCEngine, SplitHistory

(* Jumps into a function at code that, taken for itself, is none: it runs   *)
(* into zeros that are known for a table only where the dispatch is.        *)
RefusedImages ==
    {[Image0(<<a, b, c, d, e>>, 1..5, {1, 5}) EXCEPT
          !.score = [x \in 1..5 |-> IF x \in {1, 5} THEN 1 ELSE 0]] :
        a \in {Dispatch(<<2>>, {3, 4}), Op("seq"), To("cjmp", 3)},
        b \in {Op("seq"), Op("zero"), Op("ret")},
        c \in {Op("zero"), Op("seq"), To("jmp", 2)},
        d \in {Op("zero"), Op("ret")},
        e \in {To("jmp", 2), To("jmp", 3), Op("ret")}}

(* Gap functions a late function takes over, before others jump into them.  *)
RetakenImages ==
    {[Image0(<<a, b, c, d, e>>, 1..5, {5}) EXCEPT
          !.late = <<1>>, !.score = [x \in 1..5 |-> IF x = 5 THEN 1 ELSE 0]] :
        a \in {To("cjmp", 3), To("jmp", 4), Op("seq")},
        b \in {Op("seq"), Op("ret")},
        c \in {Op("seq"), Op("ret"), To("cjmp", 2)},
        d \in {Op("seq"), Op("ret"), To("jmp", 2)},
        e \in {Op("ret"), To("jmp", 3)}}

SplitImages == TailcallImages \cup RefusedImages \cup RetakenImages
=============================================================================
