----------------------------- MODULE MCOpcodes -----------------------------
(***************************************************************************)
(* Opcodes on words of four 4-bit limbs: the boundaries of every limb,     *)
(* sign, immediate and address check, and words between them.              *)
(***************************************************************************)
EXTENDS Opcodes

AllOpcodes ==
  UNION {BaseAlu, BaseAluImm, Shifts, ShiftsImm, Lt, LtImm, BranchEq, BranchLt, Loads, Stores,
         MulHigh, Div, {"lui", "auipc", "jal", "jalr", "mul"}}

\* In hexadecimal: 0 1 2 7 8 F 10 FF 100 FFE FFF 1000 1234 4000 7F0F 7FFE 7FFF 8000 8001
\* 8765 C000 FFF0 FFFE FFFF.
MCWords == {0, 1, 2, 7, 8, 15, 16, 255, 256, 4094, 4095, 4096, 4660, 16384, 32527, 32766, 32767,
            32768, 32769, 34661, 49152, 65520, 65534, 65535}
MCMemWords == {0, 255, 4744, 32640, 32769, 65535}
MCImms == {-128, -127, -17, -16, -8, -4, -1, 0, 1, 2, 4, 7, 8, 15, 16, 100, 126, 127}
MCOffsets == {-256, -8, 0, 8, 254}
MCUpperImms == {64 * i : i \in {-512, -1, 0, 1, 64, 361, 511}}
MCPcs == {0, 4, 64, 4092}
=============================================================================
