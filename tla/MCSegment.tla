----------------------------- MODULE MCSegment -----------------------------
(***************************************************************************)
(* Small instances of Segment.  Registers and words are named by strings.  *)
(***************************************************************************)
EXTENDS Segment

Input == <<"in0">>

Output == <<"dat">>

NoSeq == <<>>
=============================================================================
