------------------------------ MODULE MCRunner ------------------------------
(***************************************************************************)
(* Small instances of Runner with an input word, the output length and the *)
(* halt flag.  In one the program is the word at pc 0, and the input word  *)
(* at 4 may be executed; in the other, of three pcs, the program is at 0   *)
(* as well, and 4 is loaded, but outside the program range.                *)
(***************************************************************************)
EXTENDS Runner, TLC

Input == <<"in0">>

NoSeq == <<>>

InputCode == 0 :> "t0" @@ 4 :> "in0"
LoadedCode == 0 :> "t0" @@ 4 :> "t4" @@ 8 :> "len"

\* What the values decode to.
Stores == 0 :> "none" @@ 1 :> "store" @@ 2 :> "jalr" @@ 3 :> "none"
Registers ==
  0 :> "none" @@ 1 :> "load" @@ 2 :> "branch" @@ 3 :> "jal" @@ 4 :> "r" @@ 5 :> "sentinel"
=============================================================================
