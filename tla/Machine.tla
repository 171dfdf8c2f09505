------------------------------- MODULE Machine -------------------------------
(***************************************************************************)
(* What running a guest promises (crates/runner/src/lib.rs, run): the      *)
(* guest's program counter, registers and memory, one instruction at a     *)
(* time, until it halts, spins, hits something that does not decode, or    *)
(* exceeds its cycle limit.  No tracer, no segments, no decode cache.      *)
(*                                                                         *)
(* A word of code, wherever it lies, may be fetched with any content it    *)
(* has had, as on a RISC-V hart that executes no FENCE.I.                  *)
(***************************************************************************)
EXTENDS Guest

CONSTANTS
  Halt,       \* halt_flag_addr
  MaxCycles   \* max_cycles

VARIABLES
  pc,
  cont,       \* registers and memory
  text,       \* the contents the word at each pc has had
  cycles,
  status

vars == <<pc, cont, text, cycles, status>>

Status == {"running", "halted", "too_large", "invalid", "max", "commit"}

TypeOK ==
  /\ pc \in PC
  /\ cont \in Contents
  /\ text \in [PC -> SUBSET Val]
  /\ cycles \in Nat
  /\ status \in Status

Init ==
  /\ pc \in PC
  /\ cont \in Contents
  /\ cont[X0] = 0
  /\ text = [p \in PC |-> {Fetched(p, cont)}]
  /\ cycles = 0
  /\ status \in {"running", "too_large"}

\* What a fetch may decode to.
Decoded == {Kind[v] : v \in text[pc]}

\* Whether something in the program range does not decode.
Undecodable == \E p \in Text : Kind[Fetched(p, cont)] = "none" /\ Fetched(p, cont) # 0

\* A run that comes to its end still has to commit to its program.
Ends == status' = IF Undecodable' THEN "commit" ELSE "halted"

Running == status = "running" /\ cont[Halt] = 0

HaltFlag ==
  /\ status = "running"
  /\ cont[Halt] # 0
  /\ Ends
  /\ UNCHANGED <<pc, cont, text, cycles>>

Sentinel ==
  /\ Running
  /\ Decoded \cap {"sentinel", "jalr"} # {}
  /\ Ends
  /\ UNCHANGED <<pc, cont, text, cycles>>

Invalid ==
  /\ Running
  /\ "none" \in Decoded
  /\ status' = "invalid"
  /\ UNCHANGED <<pc, cont, text, cycles>>

\* A run may be given up at any time while its program does not decode.
Uncommittable ==
  /\ Running
  /\ Undecodable
  /\ status' = "commit"
  /\ UNCHANGED <<pc, cont, text, cycles>>

\* An instruction of kind k: it changes location l only, a register or, if it is a
\* store, a word, and never x0; only branches and jumps choose the next pc.  A pc that
\* stays where it is ends the run before the limit is looked at.
Step(k, l, v) ==
  /\ k \notin {"sentinel", "none"}
  /\ \/ k = "store" /\ l \in Word
     \/ k \in Kinds \ {"store", "branch"} /\ l \in Reg /\ (l = X0 => v = 0)
     \/ k = "branch" /\ v = cont[l]
  /\ cont' = [cont EXCEPT ![l] = v]
  /\ pc' \in IF k \in {"branch", "jal", "jalr"} THEN PC ELSE {Advance(pc)}
  /\ text' = [p \in PC |-> text[p] \cup {Fetched(p, cont')}]
  /\ cycles' = cycles + 1
  /\ IF pc' = pc THEN Ends
     ELSE status' = IF cycles' > MaxCycles THEN "max" ELSE "running"

Next ==
  \/ HaltFlag
  \/ Sentinel
  \/ Invalid
  \/ Uncommittable
  \/ Running /\ \E k \in Decoded : \E l \in Loc, v \in Val : Step(k, l, v)

Spec == Init /\ [][Next]_vars
=============================================================================
