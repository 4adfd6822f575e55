------------------------------- MODULE MCGapScan -------------------------------
(* Families of images for GapScan: eight bytes, four to a boundary. *)
EXTENDS GapScan

Size == 8
Span(base) == base .. base + Size - 1

Int3 == "int3"
Nop == "nop"
Zero == "zero"
Wide == "wide"
Pad == "pad"
Op == "op"

Plain == <<Op, Op, Op, Op, Op, Op, Op, Op>>
Padded == <<Op, Int3, Int3, Int3, Op, Op, Wide, Op>>
Mixed == <<Pad, Op, Op, Nop, Zero, Op, Pad, Op>>
Filled == <<Op, Nop, Wide, Op, Op, Zero, Int3, Int3>>
Pads == <<Op, Pad, Op, Op, Wide, Op, Pad, Op>>

(* Code is given as a function from offsets to the offset of its function. *)
Nowhere == [c \in {} |-> 0]
Middle == [c \in {4} |-> 4]
Two == [c \in {1, 5} |-> c]
Last == [c \in {2, 7} |-> 2]

Bare(base, mask, bytes, code) ==
    [ base |-> base, size |-> Size, mask |-> mask, areas |-> {},
      byte |-> [a \in Span(base) |-> bytes[a - base + 1]],
      owner |-> [a \in {base + c : c \in DOMAIN code} |-> base + code[a - base]],
      data |-> {}, tables |-> {}, pdata |-> {}, fdes |-> {}, landing |-> {}, plt |-> {} ]

(* The address mask below the image, inside it, at its last byte and above. *)
Masks == {2, 7, 11, 100}

Anywhere ==
    {Bare(4, mask, bytes, code) :
        mask \in Masks, bytes \in {Padded, Mixed, Filled, Pads}, code \in {Middle, Two, Last, Nowhere}}

(* What an image may declare, and code areas that split it. *)
Declaring ==
    LET bare == Bare(4, 100, Padded, Middle)
        open == Bare(4, 100, Pads, Two)
        plain == Bare(4, 100, Plain, Middle)
        exceptions == {[start |-> 8, end |-> 10, fragment |-> FALSE],
                       [start |-> 4, end |-> 6, fragment |-> TRUE]}
        unwind == {[start |-> 8, end |-> 11], [start |-> 4, end |-> 7]}
    IN  { [bare EXCEPT !.pdata = exceptions],
          [bare EXCEPT !.fdes = unwind, !.landing = {9}],
          [plain EXCEPT !.fdes = unwind, !.plt = {9}],
          [bare EXCEPT !.landing = {5, 9}],
          [bare EXCEPT !.areas = {<<4, 8>>, <<8, 12>>}],
          [bare EXCEPT !.data = {9}, !.tables = {10, 11}],
          [open EXCEPT !.tables = {6, 7, 8}],
          [open EXCEPT !.areas = {<<4, 7>>, <<7, 12>>}] }

(* An image at address zero, as a memory dump or shellcode has it. *)
AtZero == {Bare(0, 100, bytes, Middle) : bytes \in {Plain, Padded}}

GapImages == Anywhere \cup Declaring \cup AtZero \cup {Bare(4, 100, Plain, Two)}
=============================================================================
