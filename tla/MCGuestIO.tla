------------------------------ MODULE MCGuestIO ------------------------------
(***************************************************************************)
(* A small layout: two input words, eight bytes of output, a heap of 16     *)
(* bytes at the end of the lower half of 128 addresses.                    *)
(***************************************************************************)
EXTENDS GuestIO

InputsDef == {<<>>, <<5>>, <<5, 6, 7, 8, 9>>, [i \in 1 .. 9 |-> i]}

PayloadsDef == {<<>>, <<1>>, <<2, 3, 4>>, [i \in 1 .. 6 |-> i], [i \in 1 .. 10 |-> i]}

\* All of each input, read_input_u32, a byte past an input's end, parts of two words, and
\* reads at and past the region's end.
RequestsDef == {<<0, 0>>, <<0, 4>>, <<0, 5>>, <<3, 3>>, <<4, 9>>, <<8, 1>>}

\* Around the capacity, beyond it, wrapping past the last address and the largest.
LengthsDef == {0, 5, 9, 94, 127}

\* Sizes and alignments up to the heap's, and the largest size a layout may have.
LayoutsDef == {[size |-> 3, align |-> 1], [size |-> 0, align |-> 8], [size |-> 4, align |-> 4],
               [size |-> 12, align |-> 16], [size |-> 63, align |-> 1]}
=============================================================================
