---------------------------- MODULE RunnerProofs ------------------------------
(***************************************************************************)
(* Theorems about Runner: they hold for every program, input, layout,      *)
(* length of segments and cycle limit.                                     *)
(***************************************************************************)
EXTENDS Runner, TracerProofs, FiniteSetTheorems

-----------------------------------------------------------------------------
(* Guest: what each instruction leaves of the guest and of its tracer, for   *)
(* every program and every set of registers, words, values and pcs.          *)

\* What the accesses of an instruction keep and leave alone.
Accesses(c, d, start) ==
  /\ Sound(d, start)
  /\ d.pc = c.pc
  /\ d.tracer.clock = c.tracer.clock
  /\ d.tracer.rows = c.tracer.rows /\ d.tracer.reads = c.tracer.reads
  /\ Touched(c.tracer) \subseteq Touched(d.tracer)

LEMMA CoreFields ==
  ASSUME NEW c \in Core
  PROVE  /\ c.pc \in PC /\ c.cont \in Contents /\ c.keys \subseteq Word
         /\ c.tracer \in TracerType
         /\ c = [pc |-> c.pc, cont |-> c.cont, keys |-> c.keys, tracer |-> c.tracer]
  BY DEF Core

\* Any traced access of location l that leaves v there.
LEMMA AccessCore ==
  ASSUME NEW start \in Contents, NEW c, Sound(c, start), c.tracer.clock > 0,
         NEW l \in Loc, NEW v \in Val, l = X0 => v = 0,
         NEW K \in SUBSET Word, c.keys \subseteq K,
         l \in Word \ K => v = c.cont[l],
         NEW d,
         d = [pc |-> c.pc, cont |-> Put(c.cont, l, v), keys |-> K,
              tracer |-> TraceAccess(c.tracer, l, c.cont[l], v)]
  PROVE  Accesses(c, d, start)
<1>1. /\ c \in Core /\ c.pc \in PC /\ c.cont \in Contents /\ c.tracer \in TracerType
      /\ Traced(c.tracer, start, c.cont) /\ c.cont[X0] = 0
      /\ \A w \in Word \ c.keys : c.cont[w] = 0
  BY CoreFields DEF Sound
<1>2. PICK u : u = TraceAccess(c.tracer, l, c.cont[l], v)
  OBVIOUS
<1>3. /\ u \in TracerType
      /\ u.clock = c.tracer.clock
      /\ \A k \in Loc : u.last[k] = IF k = l THEN c.tracer.clock ELSE c.tracer.last[k]
      /\ u.rows = c.tracer.rows /\ u.reads = c.tracer.reads
      /\ Traced(u, start, Put(c.cont, l, v))
  BY <1>1, <1>2, AccessTraced
<1>4. PICK m : m = Put(c.cont, l, v)
  OBVIOUS
<1>5. m \in Contents /\ \A k \in Loc : m[k] = IF k = l THEN v ELSE c.cont[k]
  BY <1>1, <1>4, PutContents
<1>6. d = [pc |-> c.pc, cont |-> m, keys |-> K, tracer |-> u]
  BY <1>2, <1>4
<1>7. d.pc = c.pc /\ d.cont = m /\ d.keys = K /\ d.tracer = u
  BY <1>6
<1>8. d \in Core
  BY <1>1, <1>3, <1>5, <1>6 DEF Core
<1>9. m[X0] = 0 /\ \A w \in Word \ K : m[w] = 0
  BY <1>1, <1>5, GuestAssumption DEF Loc
<1>10. Touched(c.tracer) \subseteq Touched(u)
  BY <1>3 DEF Touched, Loc
<1>11. Sound(d, start)
  BY <1>3, <1>4, <1>7, <1>8, <1>9 DEF Sound
<1>12. QED
  BY <1>3, <1>7, <1>10, <1>11 DEF Accesses

LEMMA Composed ==
  ASSUME NEW start, NEW c, NEW d, NEW e,
         Accesses(c, d, start), Accesses(d, e, start)
  PROVE  Accesses(c, e, start)
  BY DEF Accesses

\* Cpu::read_reg and Memory::read_*_traced change no contents.
LEMMA ReadCore ==
  ASSUME NEW start \in Contents, NEW c, Sound(c, start), c.tracer.clock > 0,
         NEW l \in Loc, NEW d,
         d = [c EXCEPT !.tracer = TraceAccess(c.tracer, l, c.cont[l], c.cont[l])]
  PROVE  Accesses(c, d, start) /\ d.cont = c.cont
<1>1. /\ c \in Core /\ c.cont \in Contents /\ c.keys \subseteq Word /\ c.cont[X0] = 0
      /\ c = [pc |-> c.pc, cont |-> c.cont, keys |-> c.keys, tracer |-> c.tracer]
  BY CoreFields DEF Sound
<1>2. PICK u : u = TraceAccess(c.tracer, l, c.cont[l], c.cont[l])
  OBVIOUS
<1>3. d = [pc |-> c.pc, cont |-> c.cont, keys |-> c.keys, tracer |-> u]
  BY <1>1, <1>2
<1>4. c.cont[l] \in Val /\ Put(c.cont, l, c.cont[l]) = c.cont
  BY <1>1, PutContents DEF Contents
<1>5. Accesses(c, d, start)
  BY <1>1, <1>2, <1>3, <1>4, AccessCore
<1>6. QED
  BY <1>3, <1>5

LEMMA ReadRegCore ==
  ASSUME NEW start \in Contents, NEW c, Sound(c, start), c.tracer.clock > 0,
         NEW r \in Reg, NEW d, d = ReadReg(c, r)
  PROVE  Accesses(c, d, start) /\ d.cont = c.cont
<1>1. r \in Loc /\ d = [c EXCEPT !.tracer = TraceAccess(c.tracer, r, c.cont[r], c.cont[r])]
  BY DEF ReadReg, Loc
<1>2. QED
  BY <1>1, ReadCore

LEMMA ReadWordCore ==
  ASSUME NEW start \in Contents, NEW c, Sound(c, start), c.tracer.clock > 0,
         NEW w \in Word, NEW d, d = ReadWord(c, w)
  PROVE  Accesses(c, d, start) /\ d.cont = c.cont
<1>1. w \in Loc /\ d = [c EXCEPT !.tracer = TraceAccess(c.tracer, w, c.cont[w], c.cont[w])]
  BY DEF ReadWord, Loc
<1>2. QED
  BY <1>1, ReadCore

\* Cpu::write_reg: whatever is written to x0, it keeps 0.
LEMMA WriteRegCore ==
  ASSUME NEW start \in Contents, NEW c, Sound(c, start), c.tracer.clock > 0,
         NEW r \in Reg, NEW v \in Val, NEW d, d = WriteReg(c, r, v)
  PROVE  /\ Accesses(c, d, start)
         /\ \E x \in Val : d.cont = Put(c.cont, r, x) /\ (r = X0 => x = 0)
<1>1. PICK next : next = IF r = X0 THEN 0 ELSE v
  OBVIOUS
<1>2. r \in Loc /\ r \notin Word /\ next \in Val /\ (r = X0 => next = 0)
  BY <1>1, TracerAssumption DEF Loc
<1>3. /\ c \in Core /\ c.keys \subseteq Word
      /\ c = [pc |-> c.pc, cont |-> c.cont, keys |-> c.keys, tracer |-> c.tracer]
  BY CoreFields DEF Sound
<1>4. PICK m : m = Put(c.cont, r, next)
  OBVIOUS
<1>5. PICK u : u = TraceAccess(c.tracer, r, c.cont[r], next)
  OBVIOUS
<1>6. d = [c EXCEPT !.cont = m, !.tracer = u]
  BY <1>1, <1>3, <1>4, <1>5 DEF WriteReg, Put, Core
<1>7. d = [pc |-> c.pc, cont |-> m, keys |-> c.keys, tracer |-> u]
  BY <1>3, <1>6
<1>8. Accesses(c, d, start)
  BY <1>2, <1>3, <1>4, <1>5, <1>7, AccessCore
<1>9. QED
  BY <1>2, <1>4, <1>7, <1>8

\* Memory::write_*_traced: the word has bytes afterwards.
LEMMA WriteWordCore ==
  ASSUME NEW start \in Contents, NEW c, Sound(c, start), c.tracer.clock > 0,
         NEW w \in Word, NEW v \in Val, NEW d, d = WriteWord(c, w, v)
  PROVE  Accesses(c, d, start) /\ d.cont = Put(c.cont, w, v)
<1>1. w \in Loc /\ w # X0
  BY TracerAssumption, GuestAssumption DEF Loc
<1>2. /\ c \in Core /\ c.keys \subseteq Word
      /\ c = [pc |-> c.pc, cont |-> c.cont, keys |-> c.keys, tracer |-> c.tracer]
  BY CoreFields DEF Sound
<1>3. PICK m : m = Put(c.cont, w, v)
  OBVIOUS
<1>4. PICK u : u = TraceAccess(c.tracer, w, c.cont[w], v)
  OBVIOUS
<1>5. PICK K : K = c.keys \cup {w}
  OBVIOUS
<1>6. d = [c EXCEPT !.cont = m, !.keys = K, !.tracer = u]
  BY <1>2, <1>3, <1>4, <1>5 DEF WriteWord, Put, Core
<1>7. d = [pc |-> c.pc, cont |-> m, keys |-> K, tracer |-> u]
  BY <1>2, <1>6
<1>8. K \in SUBSET Word /\ c.keys \subseteq K /\ w \in K
  BY <1>2, <1>5
<1>9. Accesses(c, d, start)
  BY <1>1, <1>3, <1>4, <1>7, <1>8, AccessCore
<1>10. QED
  BY <1>3, <1>7, <1>9

-----------------------------------------------------------------------------
\* A whole instruction: its accesses and its row.
Ran(c, d, start) ==
  /\ Sound(d, start)
  /\ d.tracer.clock = c.tracer.clock
  /\ d.tracer.reads = c.tracer.reads
  /\ d.tracer.rows = [c.tracer.rows EXCEPT ![c.pc] = c.tracer.rows[c.pc] + 1]
  /\ Touched(c.tracer) \subseteq Touched(d.tracer)

\* What an instruction of kind k changes: a store one word, a branch nothing, any other
\* one register, and none of them x0.
Changes(k, c, d) ==
  \/ k = "store" /\ \E w \in Word, v \in Val : d.cont = Put(c.cont, w, v)
  \/ k = "branch" /\ d.cont = c.cont
  \/ /\ k \notin {"store", "branch"}
     /\ \E r \in Reg, v \in Val : d.cont = Put(c.cont, r, v) /\ (r = X0 => v = 0)

LEMMA RetireCore ==
  ASSUME NEW start, NEW c, Sound(c, start), c.tracer.clock > 0, NEW e,
         Accesses(c, e, start), NEW next \in PC, NEW d, d = Retire(e, next)
  PROVE  Ran(c, d, start) /\ d.cont = e.cont /\ d.pc = next
<1>1. /\ e \in Core /\ e.pc \in PC /\ e.cont \in Contents /\ e.tracer \in TracerType
      /\ e = [pc |-> e.pc, cont |-> e.cont, keys |-> e.keys, tracer |-> e.tracer]
      /\ Traced(e.tracer, start, e.cont)
      /\ e.keys \subseteq Word
  BY CoreFields DEF Accesses, Sound
<1>2. PICK u : u = PushRow(e.tracer, e.pc, next)
  OBVIOUS
<1>3. /\ u \in TracerType
      /\ u.clock = e.tracer.clock /\ u.last = e.tracer.last
      /\ u.initial = e.tracer.initial /\ u.spans = e.tracer.spans
      /\ u.ledger = e.tracer.ledger /\ u.gaps = e.tracer.gaps
      /\ u.reads = e.tracer.reads
      /\ u.rows = [e.tracer.rows EXCEPT ![e.pc] = e.tracer.rows[e.pc] + 1]
  BY <1>1, <1>2, RowFields
<1>4. u.clock >= e.tracer.clock
  BY <1>1, <1>3, TracerAssumption DEF TracerType, Clk
<1>5. Traced(u, start, e.cont)
  BY <1>1, <1>3, <1>4, UntouchedTraced
<1>6. d = [pc |-> next, cont |-> e.cont, keys |-> e.keys, tracer |-> u]
  <2>1. d = [e EXCEPT !.tracer = u, !.pc = next]
    BY <1>1, <1>2 DEF Retire, Core
  <2>2. QED
    BY <1>1, <2>1
<1>7. d \in Core
  BY <1>1, <1>3, <1>6 DEF Core
<1>8. Sound(d, start)
  BY <1>5, <1>6, <1>7 DEF Accesses, Sound
<1>9. Touched(u) = Touched(e.tracer)
  BY <1>3 DEF Touched
<1>10. /\ d.tracer.clock = c.tracer.clock
       /\ d.tracer.reads = c.tracer.reads
       /\ d.tracer.rows = [c.tracer.rows EXCEPT ![c.pc] = c.tracer.rows[c.pc] + 1]
       /\ Touched(c.tracer) \subseteq Touched(d.tracer)
       /\ d.cont = e.cont /\ d.pc = next
  <2>1. d.tracer = u /\ d.cont = e.cont /\ d.pc = next
    BY <1>6
  <2>2. /\ e.tracer.clock = c.tracer.clock /\ e.tracer.rows = c.tracer.rows
        /\ e.tracer.reads = c.tracer.reads
        /\ e.pc = c.pc /\ Touched(c.tracer) \subseteq Touched(e.tracer)
    BY DEF Accesses
  <2>3. QED
    BY <1>3, <1>9, <2>1, <2>2
<1>11. QED
  BY <1>8, <1>10 DEF Ran

LEMMA AdvancePC == ASSUME NEW p \in PC PROVE Advance(p) \in PC
  BY GuestAssumption DEF Advance

\* The register that an instruction's last access writes.
LEMMA WroteReg ==
  ASSUME NEW start \in Contents, NEW c, Sound(c, start), c.tracer.clock > 0, NEW e,
         Accesses(c, e, start), e.cont = c.cont,
         NEW r \in Reg, NEW v \in Val, NEW next \in PC,
         NEW d, d = Retire(WriteReg(e, r, v), next)
  PROVE  /\ Ran(c, d, start) /\ d.pc = next
         /\ \A k : k \notin {"store", "branch"} => Changes(k, c, d)
<1>1. PICK f : f = WriteReg(e, r, v)
  OBVIOUS
<1>2. Sound(e, start) /\ e.tracer.clock > 0
  BY DEF Accesses
<1>3. /\ Accesses(e, f, start)
      /\ \E x \in Val : f.cont = Put(c.cont, r, x) /\ (r = X0 => x = 0)
  BY <1>1, <1>2, WriteRegCore
<1>4. Accesses(c, f, start)
  BY <1>3, Composed
<1>5. d = Retire(f, next)
  BY <1>1
<1>6. Ran(c, d, start) /\ d.cont = f.cont /\ d.pc = next
  BY <1>4, <1>5, RetireCore
<1>7. QED
  BY <1>3, <1>6 DEF Changes

\* ... after the read of one register, or of two.
LEMMA ReadOne ==
  ASSUME NEW start \in Contents, NEW c, Sound(c, start), c.tracer.clock > 0,
         NEW r \in Reg, NEW d, d = ReadReg(c, r)
  PROVE  /\ Accesses(c, d, start) /\ d.cont = c.cont
         /\ Sound(d, start) /\ d.tracer.clock > 0 /\ d.pc = c.pc
  BY ReadRegCore DEF Accesses

LEMMA ReadTwo ==
  ASSUME NEW start \in Contents, NEW c, Sound(c, start), c.tracer.clock > 0,
         NEW r \in Reg, NEW q \in Reg, NEW d, d = ReadReg(ReadReg(c, r), q)
  PROVE  /\ Accesses(c, d, start) /\ d.cont = c.cont
         /\ Sound(d, start) /\ d.tracer.clock > 0 /\ d.pc = c.pc
<1>1. PICK e : e = ReadReg(c, r)
  OBVIOUS
<1>2. /\ Accesses(c, e, start) /\ e.cont = c.cont
      /\ Sound(e, start) /\ e.tracer.clock > 0 /\ e.pc = c.pc
  BY <1>1, ReadOne
<1>3. d = ReadReg(e, q)
  BY <1>1
<1>4. /\ Accesses(e, d, start) /\ d.cont = e.cont
      /\ Sound(d, start) /\ d.tracer.clock > 0 /\ d.pc = e.pc
  BY <1>2, <1>3, ReadOne
<1>5. QED
  BY <1>2, <1>4, Composed

LEMMA NoneRead ==
  ASSUME NEW start, NEW c, Sound(c, start)
  PROVE  Accesses(c, c, start)
  BY DEF Accesses

\* Every instruction of every kind keeps the tracer true to the guest, changes what its
\* kind may change, and goes on at the next pc unless it is a branch or a jump.
LEMMA ExecuteCore ==
  ASSUME NEW start \in Contents, NEW c, Sound(c, start), c.tracer.clock > 0,
         NEW k \in Kinds \ {"none", "sentinel"}, NEW d \in Execute(k, c)
  PROVE  /\ Ran(c, d, start)
         /\ Changes(k, c, d)
         /\ d.pc \in PC
         /\ k \notin {"branch", "jal", "jalr"} => d.pc = Advance(c.pc)
<1>0. c.pc \in PC /\ Advance(c.pc) \in PC
  BY CoreFields, AdvancePC DEF Sound
<1>1. CASE k = "r"
  <2>1. PICK rs1 \in Reg, rs2 \in Reg, rd \in Reg, v \in Val :
          d = Retire(WriteReg(ReadReg(ReadReg(c, rs1), rs2), rd, v), Advance(c.pc))
    BY <1>1 DEF Execute, RType
  <2>2. PICK e : e = ReadReg(ReadReg(c, rs1), rs2)
    OBVIOUS
  <2>3. Accesses(c, e, start) /\ e.cont = c.cont
    BY <2>2, ReadTwo
  <2>4. d = Retire(WriteReg(e, rd, v), Advance(c.pc))
    BY <2>1, <2>2
  <2>5. /\ Ran(c, d, start) /\ d.pc = Advance(c.pc)
        /\ \A j : j \notin {"store", "branch"} => Changes(j, c, d)
    BY <1>0, <2>3, <2>4, WroteReg
  <2>6. QED
    BY <1>0, <1>1, <2>5
<1>2. CASE k = "i"
  <2>1. PICK rs1 \in Reg, rd \in Reg, v \in Val :
          d = Retire(WriteReg(ReadReg(c, rs1), rd, v), Advance(c.pc))
    BY <1>2 DEF Execute, IType
  <2>2. PICK e : e = ReadReg(c, rs1)
    OBVIOUS
  <2>3. Accesses(c, e, start) /\ e.cont = c.cont
    BY <2>2, ReadOne
  <2>4. d = Retire(WriteReg(e, rd, v), Advance(c.pc))
    BY <2>1, <2>2
  <2>5. /\ Ran(c, d, start) /\ d.pc = Advance(c.pc)
        /\ \A j : j \notin {"store", "branch"} => Changes(j, c, d)
    BY <1>0, <2>3, <2>4, WroteReg
  <2>6. QED
    BY <1>0, <1>2, <2>5
<1>3. CASE k = "u"
  <2>1. PICK rd \in Reg, v \in Val : d = Retire(WriteReg(c, rd, v), Advance(c.pc))
    BY <1>3 DEF Execute, UType
  <2>2. /\ Ran(c, d, start) /\ d.pc = Advance(c.pc)
        /\ \A j : j \notin {"store", "branch"} => Changes(j, c, d)
    BY <1>0, <2>1, NoneRead, WroteReg
  <2>3. QED
    BY <1>0, <1>3, <2>2
<1>4. CASE k = "load"
  <2>1. PICK rs1 \in Reg, w \in Word, rd \in Reg, v \in Val :
          d = Retire(WriteReg(ReadWord(ReadReg(c, rs1), w), rd, v), Advance(c.pc))
    BY <1>4 DEF Execute, Load
  <2>2. PICK e : e = ReadReg(c, rs1)
    OBVIOUS
  <2>3. PICK f : f = ReadWord(e, w)
    OBVIOUS
  <2>4. /\ Accesses(c, e, start) /\ e.cont = c.cont
        /\ Sound(e, start) /\ e.tracer.clock > 0
    BY <2>2, ReadOne
  <2>5. Accesses(e, f, start) /\ f.cont = e.cont
    BY <2>3, <2>4, ReadWordCore
  <2>6. Accesses(c, f, start) /\ f.cont = c.cont
    BY <2>4, <2>5, Composed
  <2>7. d = Retire(WriteReg(f, rd, v), Advance(c.pc))
    BY <2>1, <2>2, <2>3
  <2>8. /\ Ran(c, d, start) /\ d.pc = Advance(c.pc)
        /\ \A j : j \notin {"store", "branch"} => Changes(j, c, d)
    BY <1>0, <2>6, <2>7, WroteReg
  <2>9. QED
    BY <1>0, <1>4, <2>8
<1>5. CASE k = "store"
  <2>1. PICK rs1 \in Reg, rs2 \in Reg, w \in Word, v \in Val :
          d = Retire(WriteWord(ReadReg(ReadReg(c, rs1), rs2), w, v), Advance(c.pc))
    BY <1>5 DEF Execute, Store
  <2>2. PICK e : e = ReadReg(ReadReg(c, rs1), rs2)
    OBVIOUS
  <2>3. PICK f : f = WriteWord(e, w, v)
    OBVIOUS
  <2>4. /\ Accesses(c, e, start) /\ e.cont = c.cont
        /\ Sound(e, start) /\ e.tracer.clock > 0
    BY <2>2, ReadTwo
  <2>5. Accesses(e, f, start) /\ f.cont = Put(e.cont, w, v)
    BY <2>3, <2>4, WriteWordCore
  <2>6. Accesses(c, f, start)
    BY <2>4, <2>5, Composed
  <2>7. d = Retire(f, Advance(c.pc))
    BY <2>1, <2>2, <2>3
  <2>8. Ran(c, d, start) /\ d.cont = f.cont /\ d.pc = Advance(c.pc)
    BY <1>0, <2>6, <2>7, RetireCore
  <2>9. Changes(k, c, d)
    BY <1>5, <2>4, <2>5, <2>8 DEF Changes
  <2>10. QED
    BY <1>0, <2>8, <2>9
<1>6. CASE k = "branch"
  <2>1. PICK rs1 \in Reg, rs2 \in Reg, next \in PC :
          d = Retire(ReadReg(ReadReg(c, rs1), rs2), next)
    BY <1>6 DEF Execute, Branch
  <2>2. PICK e : e = ReadReg(ReadReg(c, rs1), rs2)
    OBVIOUS
  <2>3. Accesses(c, e, start) /\ e.cont = c.cont
    BY <2>2, ReadTwo
  <2>4. d = Retire(e, next)
    BY <2>1, <2>2
  <2>5. Ran(c, d, start) /\ d.cont = c.cont /\ d.pc = next
    BY <2>3, <2>4, RetireCore
  <2>6. QED
    BY <1>6, <2>5 DEF Changes
<1>7. CASE k = "jal"
  <2>1. PICK rd \in Reg, v \in Val, next \in PC : d = Retire(WriteReg(c, rd, v), next)
    BY <1>7 DEF Execute, Jal
  <2>2. /\ Ran(c, d, start) /\ d.pc = next
        /\ \A j : j \notin {"store", "branch"} => Changes(j, c, d)
    BY <2>1, NoneRead, WroteReg
  <2>3. QED
    BY <1>0, <1>7, <2>2
<1>8. CASE k = "jalr"
  <2>1. PICK rs1 \in Reg, rd \in Reg, v \in Val, next \in PC :
          d = Retire(WriteReg(ReadReg(c, rs1), rd, v), next)
    BY <1>8 DEF Execute, Jalr
  <2>2. PICK e : e = ReadReg(c, rs1)
    OBVIOUS
  <2>3. Accesses(c, e, start) /\ e.cont = c.cont
    BY <2>2, ReadOne
  <2>4. d = Retire(WriteReg(e, rd, v), next)
    BY <2>1, <2>2
  <2>5. /\ Ran(c, d, start) /\ d.pc = next
        /\ \A j : j \notin {"store", "branch"} => Changes(j, c, d)
    BY <2>3, <2>4, WroteReg
  <2>6. QED
    BY <1>0, <1>8, <2>5
<1>9. QED
  BY <1>1, <1>2, <1>3, <1>4, <1>5, <1>6, <1>7, <1>8 DEF Kinds

\* A fetch and a tick of the clock leave the tracer true to the guest.
LEMMA FetchTraced ==
  ASSUME NEW t \in TracerType, NEW start, NEW cont, Traced(t, start, cont),
         NEW p \in PC, NEW u, u = TraceInstr(t, p)
  PROVE  /\ u \in TracerType /\ Traced(u, start, cont)
         /\ u.clock = t.clock /\ u.rows = t.rows /\ Touched(u) = Touched(t)
         /\ u.reads = [t.reads EXCEPT ![p] = t.reads[p] + 1]
<1>1. /\ u \in TracerType
      /\ u.clock = t.clock /\ u.last = t.last /\ u.initial = t.initial
      /\ u.spans = t.spans /\ u.ledger = t.ledger /\ u.gaps = t.gaps
      /\ u.rows = t.rows
      /\ u.reads = [t.reads EXCEPT ![p] = t.reads[p] + 1]
  BY InstrFields
<1>2. u.clock >= t.clock
  BY <1>1, TracerAssumption DEF TracerType, Clk
<1>3. QED
  BY <1>1, <1>2, UntouchedTraced DEF Touched

LEMMA TickTraced ==
  ASSUME NEW t \in TracerType, NEW start, NEW cont, Traced(t, start, cont),
         t.clock < MaxClock, NEW u, u = TickClock(t)
  PROVE  /\ u \in TracerType /\ Traced(u, start, cont)
         /\ u.clock = t.clock + 1 /\ u.rows = t.rows /\ Touched(u) = Touched(t)
         /\ u.reads = t.reads
<1>1. /\ u \in TracerType
      /\ u.clock = t.clock + 1 /\ u.last = t.last /\ u.initial = t.initial
      /\ u.spans = t.spans /\ u.ledger = t.ledger /\ u.gaps = t.gaps
      /\ u.rows = t.rows /\ u.reads = t.reads
  BY TickFields
<1>2. u.clock >= t.clock
  BY <1>1, TracerAssumption DEF TracerType, Clk
<1>3. QED
  BY <1>1, <1>2, UntouchedTraced DEF Touched

LEMMA NewTracerCore ==
  ASSUME NEW c \in Core, NEW start, Traced(c.tracer, start, c.cont), NEW u \in TracerType,
         Traced(u, start, c.cont), c.cont[X0] = 0,
         \A w \in Word \ c.keys : c.cont[w] = 0,
         NEW d, d = [pc |-> c.pc, cont |-> c.cont, keys |-> c.keys, tracer |-> u]
  PROVE  Sound(d, start)
  BY CoreFields DEF Sound, Core

\* A sentinel is fetched and no more; an instruction is fetched and ticks the clock.
WithFetch(c) == [c EXCEPT !.tracer = TraceInstr(c.tracer, c.pc)]
WithTick(c) == [c EXCEPT !.tracer = TickClock(TraceInstr(c.tracer, c.pc))]

LEMMA FetchCore ==
  ASSUME NEW start \in Contents, NEW c, Sound(c, start), NEW d, d = WithFetch(c)
  PROVE  /\ Sound(d, start)
         /\ d.pc = c.pc /\ d.cont = c.cont
         /\ d.tracer.clock = c.tracer.clock
         /\ d.tracer.rows = c.tracer.rows
         /\ \A p \in PC \ {c.pc} : d.tracer.reads[p] = c.tracer.reads[p]
         /\ Touched(d.tracer) = Touched(c.tracer)
<1>1. /\ c \in Core /\ c.pc \in PC /\ c.cont \in Contents /\ c.tracer \in TracerType
      /\ c = [pc |-> c.pc, cont |-> c.cont, keys |-> c.keys, tracer |-> c.tracer]
      /\ Traced(c.tracer, start, c.cont) /\ c.cont[X0] = 0
      /\ \A w \in Word \ c.keys : c.cont[w] = 0
  BY CoreFields DEF Sound
<1>2. PICK u : u = TraceInstr(c.tracer, c.pc)
  OBVIOUS
<1>3. /\ u \in TracerType /\ Traced(u, start, c.cont)
      /\ u.clock = c.tracer.clock /\ u.rows = c.tracer.rows
      /\ u.reads = [c.tracer.reads EXCEPT ![c.pc] = c.tracer.reads[c.pc] + 1]
      /\ Touched(u) = Touched(c.tracer)
  BY <1>1, <1>2, FetchTraced
<1>4. d = [pc |-> c.pc, cont |-> c.cont, keys |-> c.keys, tracer |-> u]
  BY <1>1, <1>2 DEF WithFetch
<1>5. Sound(d, start)
  BY <1>1, <1>3, <1>4, NewTracerCore
<1>6. d.pc = c.pc /\ d.cont = c.cont /\ d.tracer = u
  BY <1>4
<1>7. \A p \in PC \ {c.pc} : u.reads[p] = c.tracer.reads[p]
  BY <1>1, <1>3 DEF TracerType
<1>8. QED
  BY <1>3, <1>5, <1>6, <1>7

LEMMA TickCore ==
  ASSUME NEW start \in Contents, NEW c, Sound(c, start), c.tracer.clock < MaxClock,
         NEW d, d = WithTick(c)
  PROVE  /\ Sound(d, start)
         /\ d.pc = c.pc /\ d.cont = c.cont
         /\ d.tracer.clock = c.tracer.clock + 1
         /\ d.tracer.rows = c.tracer.rows
         /\ d.tracer.reads = [c.tracer.reads EXCEPT ![c.pc] = c.tracer.reads[c.pc] + 1]
         /\ Touched(d.tracer) = Touched(c.tracer)
<1>1. /\ c \in Core /\ c.pc \in PC /\ c.cont \in Contents /\ c.tracer \in TracerType
      /\ c = [pc |-> c.pc, cont |-> c.cont, keys |-> c.keys, tracer |-> c.tracer]
      /\ Traced(c.tracer, start, c.cont) /\ c.cont[X0] = 0
      /\ \A w \in Word \ c.keys : c.cont[w] = 0
  BY CoreFields DEF Sound
<1>2. PICK t : t = TraceInstr(c.tracer, c.pc)
  OBVIOUS
<1>3. /\ t \in TracerType /\ Traced(t, start, c.cont)
      /\ t.clock = c.tracer.clock /\ t.rows = c.tracer.rows
      /\ t.reads = [c.tracer.reads EXCEPT ![c.pc] = c.tracer.reads[c.pc] + 1]
      /\ Touched(t) = Touched(c.tracer)
  BY <1>1, <1>2, FetchTraced
<1>4. PICK u : u = TickClock(t)
  OBVIOUS
<1>5. /\ u \in TracerType /\ Traced(u, start, c.cont)
      /\ u.clock = t.clock + 1 /\ u.rows = t.rows /\ Touched(u) = Touched(t)
      /\ u.reads = t.reads
  BY <1>3, <1>4, TickTraced
<1>6. d = [pc |-> c.pc, cont |-> c.cont, keys |-> c.keys, tracer |-> u]
  BY <1>1, <1>2, <1>4 DEF WithTick
<1>7. Sound(d, start)
  BY <1>1, <1>5, <1>6, NewTracerCore
<1>8. d.pc = c.pc /\ d.cont = c.cont /\ d.tracer = u
  BY <1>6
<1>9. QED
  BY <1>3, <1>5, <1>7, <1>8

-----------------------------------------------------------------------------
(* The loop: its invariant and what follows from it.                         *)

\* A pc's word is a word of memory.
LEMMA FetchedVal ==
  ASSUME NEW cont \in Contents, NEW p \in PC
  PROVE  Fetched(p, cont) \in Val
  BY GuestAssumption DEF Fetched, Contents, Loc

\* A run starts with an empty tracer, an empty cache and no results.
LEMMA InitIInv == Init => IInv
<1> SUFFICES ASSUME Init PROVE IInv
  OBVIOUS
<1>1. PICK n \in 0 .. Len(InputSeq) + 1 :
        /\ given = IF n > Len(InputSeq) THEN {} ELSE {InputSeq[i] : i \in 1 .. n}
        /\ status = IF n > Len(InputSeq) THEN "too_large" ELSE "running"
  BY DEF Init
<1>2. InputWord \subseteq RwWord /\ RwWord \subseteq Word
  BY LayoutAssumption DEF InputWord
<1>3. given \subseteq InputWord
  BY <1>1, LayoutAssumption DEF InputWord
<1>4. /\ core.pc = Entry /\ core.cont \in LoadedContents(given)
      /\ core.keys = Loaded \cup given /\ core.tracer = NewTracer
      /\ core = [pc |-> core.pc, cont |-> core.cont, keys |-> core.keys,
                 tracer |-> core.tracer]
  BY DEF Init
<1>5. /\ core.cont \in Contents /\ core.cont[X0] = 0
      /\ \A w \in Word \ core.keys : core.cont[w] = 0
  BY <1>4 DEF LoadedContents
<1>6. core \in Core
  BY <1>2, <1>3, <1>4, <1>5, NewTracerType, RunnerAssumption DEF Core
<1>7. /\ cache = [p \in PC |-> NoVal] /\ segs = <<>> /\ completed = 0
      /\ seg = [pc |-> Entry, cont |-> core.cont]
      /\ seen = [p \in PC |-> {Fetched(p, core.cont)}]
  BY DEF Init
<1>8. \A p \in PC : Fetched(p, core.cont) \in Val
  BY <1>5, FetchedVal
<1>9. seen \in [PC -> SUBSET Val] /\ seg \in [pc : PC, cont : Contents]
  BY <1>5, <1>7, <1>8, RunnerAssumption DEF Contents, Loc
<1>10. TypeOK
  BY <1>1, <1>3, <1>6, <1>7, <1>9, RunnerAssumption DEF TypeOK, Status
<1>11. Sound(core, seg.cont)
  <2>1. Traced(core.tracer, core.cont, core.cont)
    BY <1>4, <1>5, NewTraced
  <2>2. seg.cont = core.cont
    BY <1>7
  <2>3. QED
    BY <1>5, <1>6, <2>1, <2>2 DEF Sound
<1>12. DOMAIN segs = {} /\ Len(segs) = 0
  BY <1>7
<1>13. core.tracer.clock = 0 /\ status \in {"running", "too_large"}
  BY <1>1, <1>4, NewTracerType
<1>14. Roles /\ Counts /\ CycleLimit /\ Links
  BY <1>7, <1>12, <1>13, RunnerAssumption DEF Roles, Counts, CycleLimit, Links, Executed
<1>15. ChainsOnCpu /\ ChainsOnRoot
  BY <1>7, <1>12, <1>13 DEF ChainsOnCpu, ChainsOnRoot, Interior
<1>16. Cached /\ Paired /\ Committed /\ FlagRead /\ HaltClosesOnce
  <2>1. core.tracer.rows = [p \in PC |-> 0] /\ core.tracer.reads = [p \in PC |-> 0]
    BY <1>4 DEF NewTracer
  <2>2. QED
    BY <1>7, <1>12, <1>13, <2>1, GuestAssumption
       DEF Cached, Paired, Committed, FlagRead, HaltClosesOnce
<1>17. QED
  BY <1>10, <1>11, <1>12, <1>14, <1>15, <1>16 DEF IInv

-----------------------------------------------------------------------------
(***************************************************************************)
(* What a result says of the segment it closes.                            *)
(***************************************************************************)
\* mem_initial and the memory together are the memory the segment began with.
LEMMA InitialWords ==
  ASSUME NEW start \in Contents, NEW c, Sound(c, start), NEW w \in Word
  PROVE  InitialWord(w, c.tracer, c.cont) = start[w]
<1>1. /\ c.tracer \in TracerType /\ FirstValues(c.tracer, start, c.cont)
      /\ w \in Loc /\ start[w] # NoVal
  BY CoreFields, TracerAssumption DEF Sound, Traced, Contents, Loc
<1>2. c.tracer.last[w] \in Nat
  BY <1>1 DEF TracerType, Clk
<1>3. QED
  BY <1>1, <1>2 DEF FirstValues, InitialWord

\* A first word of the initial root is what the word held when the segment began.
LEMMA InitialRootIs ==
  ASSUME NEW start \in Contents, NEW c, Sound(c, start), NEW role \in Role,
         NEW r, r = InitialRoot(c.tracer, c.cont, c.keys, role)
  PROVE  /\ r \in [RwWord -> Val] \cup {NoRoot}
         /\ ~role.is_first /\ r # NoRoot => \A w \in RwWord : r[w] = start[w]
<1>1. RwWord \subseteq Word /\ RwWord \subseteq Loc /\ 0 \in Val
  BY LayoutAssumption, TracerAssumption DEF Loc
<1> DEFINE E == {w \in Entries(c.tracer, c.keys) : IncludeInitial(w, role)}
           value == [w \in RwWord |-> InitialWord(w, c.tracer, c.cont)]
<1>2. \A w \in RwWord : value[w] = start[w] /\ start[w] \in Val
  BY <1>1, InitialWords DEF Contents
<1>3. r = IF E = {} THEN NoRoot ELSE [w \in RwWord |-> IF w \in E THEN value[w] ELSE 0]
  BY DEF InitialRoot, Root
<1>4. ASSUME ~role.is_first, NEW w \in RwWord, w \notin E
      PROVE  start[w] = 0
  <2>1. w \notin c.keys /\ ~(c.tracer.last[w] > 0)
    BY <1>4 DEF Entries, IncludeInitial, IsInput
  <2>2. c.tracer.last[w] = 0
    BY <1>1, <2>1, CoreFields DEF Sound, TracerType, Clk
  <2>3. c.cont[w] = 0 /\ c.cont[w] = start[w]
    BY <1>1, <2>1, <2>2 DEF Sound, Traced, FirstValues
  <2>4. QED
    BY <2>3
<1> HIDE DEF E, value
<1>5. QED
  BY <1>1, <1>2, <1>3, <1>4

\* The final root of a segment that is not the last binds what the memory holds, save
\* the input words that its first segment did not access.
LEMMA FinalRootIs ==
  ASSUME NEW start \in Contents, NEW c, Sound(c, start), NEW role \in Role,
         NEW r, r = FinalRoot(c.tracer, c.cont, c.keys, role)
  PROVE  /\ r \in [RwWord -> Val] \cup {NoRoot}
         /\ ~role.is_last /\ r # NoRoot =>
              \A w \in RwWord :
                r[w] = IF role.is_first /\ w \in InputWord /\ w \notin Touched(c.tracer)
                       THEN 0 ELSE c.cont[w]
<1>1. RwWord \subseteq Word /\ RwWord \subseteq Loc /\ 0 \in Val
  BY LayoutAssumption, TracerAssumption DEF Loc
<1> DEFINE E == {w \in Entries(c.tracer, c.keys) : IncludeFinal(w, c.tracer, c.cont, role)}
<1>2. \A w \in RwWord : c.cont[w] \in Val
  BY <1>1, CoreFields DEF Sound, Contents
<1>3. r = IF E = {} THEN NoRoot ELSE [w \in RwWord |-> IF w \in E THEN c.cont[w] ELSE 0]
  BY DEF FinalRoot, Root
<1>4. ASSUME ~role.is_last, NEW w \in RwWord
      PROVE  (IF w \in E THEN c.cont[w] ELSE 0)
               = IF role.is_first /\ w \in InputWord /\ w \notin Touched(c.tracer)
                 THEN 0 ELSE c.cont[w]
  <2>1. w \in Word /\ (w \in Touched(c.tracer) <=> c.tracer.last[w] > 0)
    BY <1>1 DEF Touched
  <2>2. w \in E <=> /\ w \in c.keys \/ c.tracer.last[w] > 0
                    /\ role.is_first /\ w \in InputWord => c.tracer.last[w] > 0
    BY <1>4 DEF Entries, IncludeFinal, IsInput, IsPublicOutput
  <2>3. w \notin c.keys => c.cont[w] = 0
    BY <2>1 DEF Sound
  <2> HIDE DEF E
  <2>4. QED
    BY <2>1, <2>2, <2>3
<1> HIDE DEF E
<1>5. QED
  BY <1>1, <1>2, <1>3, <1>4

LEMMA ResultFields ==
  ASSUME NEW c, NEW decoded, NEW role, NEW r, r = Result(c, decoded, role)
  PROVE  /\ r.role = role
         /\ r.cycles = c.tracer.clock
         /\ r.initial_pc = seg.pc /\ r.final_pc = c.pc
         /\ r.initial_regs = Regs(seg.cont) /\ r.final_regs = Regs(c.cont)
         /\ r.program_root = ProgramRoot(c.cont)
         /\ r.initial_rw_root = InitialRoot(c.tracer, c.cont, c.keys, role)
         /\ r.final_rw_root = FinalRoot(c.tracer, c.cont, c.keys, role)
         /\ r.panics = Panics(c.tracer, c.cont, role)
         /\ r.gaps = c.tracer.gaps
         /\ r.accessed = Touched(c.tracer)
         /\ r.executed = {p \in PC : c.tracer.rows[p] > 0}
         /\ r.unmatched = Unmatched(c.tracer, c.cont, decoded)
         /\ r.balanced = Balanced(c, role)
  BY DEF Result

LEMMA ResultType ==
  ASSUME seg \in [pc : PC, cont : Contents], NEW c, Sound(c, seg.cont),
         NEW decoded, NEW role \in Role, NEW r, r = Result(c, decoded, role)
  PROVE  r \in SegmentResult
<1>1. /\ c.pc \in PC /\ c.cont \in Contents /\ c.tracer \in TracerType
      /\ seg.pc \in PC /\ seg.cont \in Contents
  BY CoreFields DEF Sound
<1>2. PICK i : i = InitialRoot(c.tracer, c.cont, c.keys, role)
  OBVIOUS
<1>3. PICK f : f = FinalRoot(c.tracer, c.cont, c.keys, role)
  OBVIOUS
<1>4. i \in [RwWord -> Val] \cup {NoRoot} /\ f \in [RwWord -> Val] \cup {NoRoot}
  BY <1>1, <1>2, <1>3, InitialRootIs, FinalRootIs
<1>5. Regs(seg.cont) \in [Reg -> Val] /\ Regs(c.cont) \in [Reg -> Val]
  BY <1>1 DEF Regs, Contents, Loc
<1>6. ProgramRoot(c.cont) \in [Text -> Val]
  BY <1>1, FetchedVal, GuestAssumption DEF ProgramRoot
<1>7. c.tracer.clock \in Nat /\ c.tracer.gaps \in Nat
  BY <1>1 DEF TracerType, Clk
<1>8. Panics(c.tracer, c.cont, role) \in BOOLEAN /\ Balanced(c, role) \in BOOLEAN
  BY DEF Panics, Balanced
<1>9. /\ Touched(c.tracer) \in SUBSET Word
      /\ {p \in PC : c.tracer.rows[p] > 0} \in SUBSET PC
      /\ Unmatched(c.tracer, c.cont, decoded) \in SUBSET PC
  BY DEF Touched, Unmatched
<1>10. QED
  BY <1>1, <1>2, <1>3, <1>4, <1>5, <1>6, <1>7, <1>8, <1>9 DEF Result, SegmentResult

\* Within a segment, the rows of the tables, the commitment and the public data cancel
\* exactly when the guest kept to what can be anchored.
LEMMA ResultBalance ==
  ASSUME given \subseteq InputWord, seg \in [pc : PC, cont : Contents],
         NEW c, Sound(c, seg.cont), NEW role,
         ~Panics(c.tracer, c.cont, role)
  PROVE  Balanced(c, role) <=> Anchorable(Touched(c.tracer), given, role)
<1>1. /\ c.cont \in Contents /\ c.tracer \in TracerType /\ seg.cont \in Contents
      /\ Traced(c.tracer, seg.cont, c.cont)
  BY CoreFields DEF Sound
<1>2. PICK t, start, mem : t = c.tracer /\ start = seg.cont /\ mem = c.cont
  OBVIOUS
<1>3. Published(t, start, mem, given, role)
  BY <1>1, <1>2 DEF Published
<1>4. (\A x \in Tuple : MemorySum(x, t, start, mem, c.keys, given, role) = 0)
        <=> Anchorable(Touched(t), given, role)
  BY <1>3, BalanceExact
<1>5. QED
  BY <1>2, <1>4 DEF Balanced

\* A program word that no access touched is what it was.
LEMMA Untouched ==
  ASSUME NEW start \in Contents, NEW c, Sound(c, start), Touched(c.tracer) \subseteq RwWord,
         NEW p \in Text
  PROVE  Fetched(p, c.cont) = Fetched(p, start)
<1>1. PICK w : w = CodeWord[p]
  OBVIOUS
<1>2. w \in Word \ RwWord /\ w \in Loc
  BY <1>1, GuestAssumption DEF Loc
<1>3. c.tracer \in TracerType /\ FirstValues(c.tracer, start, c.cont)
  BY CoreFields DEF Sound, Traced
<1>4. c.tracer.last[w] \in Nat /\ ~(c.tracer.last[w] > 0)
  BY <1>2, <1>3 DEF TracerType, Clk, Touched
<1>5. QED
  BY <1>1, <1>2, <1>3, <1>4 DEF FirstValues, Fetched

-----------------------------------------------------------------------------
(***************************************************************************)
(* A segment is closed.                                                    *)
(***************************************************************************)
LEMMA RunningRoles ==
  ASSUME IInv, status = "running"
  PROVE  /\ Len(segs) \in Nat /\ DOMAIN segs = 1 .. Len(segs)
         /\ \A i \in DOMAIN segs : segs[i] \in SegmentResult /\ ~segs[i].role.is_last
         /\ completed = SegmentCycles * Len(segs)
         /\ completed \in Nat /\ core.tracer.clock \in Nat
         /\ core.tracer.clock <= SegmentCycles /\ SegmentCycles \in Nat \ {0}
<1>1. /\ segs \in Seq(SegmentResult)
      /\ core.tracer.clock \in Nat /\ SegmentCycles \in Nat \ {0} /\ completed \in Nat
  BY RunnerAssumption, CoreFields DEF IInv, TypeOK, TracerType, Clk
<1>2. Len(segs) \in Nat /\ DOMAIN segs = 1 .. Len(segs)
  BY <1>1
<1>3. \A i \in DOMAIN segs : segs[i] \in SegmentResult
  BY <1>1
<1>4. ASSUME NEW i \in DOMAIN segs
      PROVE  ~segs[i].role.is_last
  <2>1. segs[i].role = [is_first |-> i = 1, is_last |-> FALSE]
    BY DEF IInv, Roles
  <2>2. QED
    BY <2>1
<1>5. completed = SegmentCycles * Len(segs) /\ core.tracer.clock <= SegmentCycles
  BY DEF IInv, Counts
<1>6. QED
  BY <1>1, <1>2, <1>3, <1>4, <1>5

\* The result of the running segment, and how it follows the last one closed.
LEMMA NewResult ==
  ASSUME IInv, status = "running", NEW c, Sound(c, seg.cont),
         c.tracer.clock <= SegmentCycles,
         NEW last \in BOOLEAN, ~last => c.tracer.clock = SegmentCycles,
         NEW decoded, NEW r, r = Result(c, decoded, RoleNow(last))
  PROVE  /\ r \in SegmentResult /\ WellMade(r)
         /\ r.role = RoleNow(last) /\ r.initial_pc = seg.pc
         /\ segs # <<>> => /\ CpuChains(segs[Len(segs)], r)
                           /\ RootChains(segs[Len(segs)], r)
         /\ ~last => Leaves(r, c.cont)
<1> DEFINE role == RoleNow(last)
           s == segs[Len(segs)]
<1>0. /\ seg \in [pc : PC, cont : Contents] /\ seg.cont \in Contents
      /\ given \subseteq InputWord
  BY DEF IInv, TypeOK
<1>1. /\ role \in Role
      /\ role.is_first = (segs = <<>>) /\ role.is_last = last
  BY DEF RoleNow, Role
<1> HIDE DEF role
<1>2. /\ r.role = role
      /\ r.cycles = c.tracer.clock
      /\ r.initial_pc = seg.pc
      /\ r.initial_regs = Regs(seg.cont)
      /\ r.program_root = ProgramRoot(c.cont)
      /\ r.initial_rw_root = InitialRoot(c.tracer, c.cont, c.keys, role)
      /\ r.final_rw_root = FinalRoot(c.tracer, c.cont, c.keys, role)
      /\ r.panics = Panics(c.tracer, c.cont, role)
      /\ r.gaps = c.tracer.gaps
      /\ r.accessed = Touched(c.tracer)
      /\ r.balanced = Balanced(c, role)
  BY ResultFields DEF role
<1>3. r \in SegmentResult
  BY <1>0, <1>1, ResultType DEF role
<1>4. WellMade(r)
  <2>1. ~Panics(c.tracer, c.cont, role) =>
          (Balanced(c, role) <=> Anchorable(Touched(c.tracer), given, role))
    BY <1>0, ResultBalance
  <2>2. SegmentCycles <= MaxDiff => c.tracer.gaps = 0
    <3>1. /\ c.tracer.clock \in Int /\ SegmentCycles \in Int /\ MaxDiff \in Int
          /\ c.tracer.clock <= MaxDiff => c.tracer.gaps = 0
      BY CoreFields, TracerAssumption, RunnerAssumption
         DEF Sound, Traced, TracerType, Clk
    <3>2. QED
      BY <3>1
  <2>3. QED
    BY <1>1, <1>2, <2>1, <2>2 DEF WellMade, Kept
<1>5. ASSUME segs # <<>>
      PROVE  s \in SegmentResult /\ Resumes(s)
  <2>1. Len(segs) \in DOMAIN segs
    BY <1>5, RunningRoles DEF IInv, TypeOK
  <2>2. QED
    BY <1>5, <2>1, RunningRoles DEF IInv, Links
<1>6. ASSUME segs # <<>>
      PROVE  CpuChains(s, r)
  <2>1. s.final_pc = r.initial_pc /\ s.final_regs = r.initial_regs
    BY <1>2, <1>5, <1>6 DEF Resumes
  <2>2. ASSUME Kept(r)
        PROVE  s.program_root = r.program_root
    <3>1. Touched(c.tracer) \subseteq RwWord
      BY <1>2, <2>2 DEF Kept, Anchorable
    <3>2. \A p \in Text : Fetched(p, c.cont) = Fetched(p, seg.cont)
      BY <1>0, <3>1, Untouched
    <3>3. ProgramRoot(c.cont) = ProgramRoot(seg.cont)
      BY <3>2 DEF ProgramRoot
    <3>4. QED
      BY <1>2, <1>5, <1>6, <3>3 DEF Resumes
  <2>3. QED
    BY <2>1, <2>2 DEF CpuChains
<1>7. ASSUME segs # <<>>
      PROVE  RootChains(s, r)
  <2> DEFINE F == s.final_rw_root
             I == r.initial_rw_root
             U == Unanchored(s)
  <2>1. U \subseteq RwWord
    BY LayoutAssumption DEF Unanchored, InputWord
  <2>2. /\ F \in [RwWord -> Val] \cup {NoRoot}
        /\ F # NoRoot => \A w \in RwWord : F[w] = IF w \in U THEN 0 ELSE seg.cont[w]
    BY <1>5, <1>7 DEF SegmentResult, Resumes, Leaves
  <2>3. /\ I \in [RwWord -> Val] \cup {NoRoot}
        /\ I # NoRoot => \A w \in RwWord : I[w] = seg.cont[w]
    <3>1. ~role.is_first /\ role \in Role
      BY <1>1, <1>7
    <3>2. I = InitialRoot(c.tracer, c.cont, c.keys, role)
      BY <1>2
    <3> HIDE DEF I
    <3>3. QED
      BY <1>0, <3>1, <3>2, InitialRootIs
  <2>4. NoRoot \notin [RwWord -> Val]
    BY LayoutAssumption
  <2> HIDE DEF F, I, U
  <2>5. CASE F = NoRoot \/ I = NoRoot
    BY <2>5 DEF RootChains, F, I, U
  <2>6. CASE F # NoRoot /\ I # NoRoot
    <3>1. F = I <=> \A w \in RwWord : F[w] = I[w]
      BY <2>2, <2>3, <2>6
    <3>2. (\A w \in RwWord : F[w] = I[w]) <=> \A w \in U : I[w] = 0
      BY <2>1, <2>2, <2>3, <2>6
    <3>3. QED
      BY <2>6, <3>1, <3>2 DEF RootChains, F, I, U
  <2>7. QED
    BY <2>5, <2>6
<1>8. ASSUME ~last
      PROVE  Leaves(r, c.cont)
  <2>1. ~role.is_last
    BY <1>1, <1>8
  <2>2. r.final_rw_root # NoRoot =>
          \A w \in RwWord : r.final_rw_root[w] =
            IF role.is_first /\ w \in InputWord /\ w \notin Touched(c.tracer)
            THEN 0 ELSE c.cont[w]
    BY <1>0, <1>1, <1>2, <2>1, FinalRootIs
  <2>3. \A w : w \in Unanchored(r) <=>
                 role.is_first /\ w \in InputWord /\ w \notin Touched(c.tracer)
    BY <1>2 DEF Unanchored
  <2>4. QED
    BY <2>2, <2>3 DEF Leaves
<1>9. QED
  BY <1>2, <1>3, <1>4, <1>6, <1>7, <1>8 DEF role

LEMMA LastOrBefore ==
  ASSUME NEW n \in Nat, NEW i \in 1 .. n
  PROVE  i < n \/ i = n
  OBVIOUS

LEMMA Appended ==
  ASSUME NEW S, NEW s \in Seq(S), NEW r \in S, NEW t, t = Append(s, r)
  PROVE  /\ t \in Seq(S) /\ Len(t) = Len(s) + 1
         /\ DOMAIN t = 1 .. Len(s) + 1
         /\ \A i \in 1 .. Len(s) : t[i] = s[i]
         /\ t[Len(s) + 1] = r
         /\ t # <<>>
  OBVIOUS

\* The chains of the results, once another one is appended.
LEMMA AppendStep ==
  ASSUME IInv, status = "running", given' = given, NEW last \in BOOLEAN,
         NEW r \in SegmentResult, WellMade(r),
         r.role = RoleNow(last), r.initial_pc = seg.pc,
         segs # <<>> => /\ CpuChains(segs[Len(segs)], r)
                        /\ RootChains(segs[Len(segs)], r),
         segs' = Append(segs, r),
         status' = "halted" <=> last
  PROVE  /\ segs' \in Seq(SegmentResult) /\ Len(segs') = Len(segs) + 1 /\ segs' # <<>>
         /\ \A i \in 1 .. Len(segs) : segs'[i] = segs[i]
         /\ segs'[Len(segs')] = r
         /\ DOMAIN segs' = 1 .. Len(segs) + 1
         /\ (\A i \in DOMAIN segs : WellMade(segs[i]))'
         /\ Roles'
         /\ segs'[1].initial_pc = Entry
         /\ (\A i \in Interior : CpuChains(segs[i], segs[i + 1]))'
         /\ ChainsOnRoot'
<1>1. /\ segs \in Seq(SegmentResult) /\ Len(segs) \in Nat /\ DOMAIN segs = 1 .. Len(segs)
      /\ (segs = <<>>) <=> (Len(segs) = 0)
  BY RunningRoles DEF IInv, TypeOK
<1>2. /\ segs' \in Seq(SegmentResult) /\ Len(segs') = Len(segs) + 1 /\ segs' # <<>>
      /\ \A i \in 1 .. Len(segs) : segs'[i] = segs[i]
      /\ segs'[Len(segs) + 1] = r
      /\ DOMAIN segs' = 1 .. Len(segs) + 1
  BY <1>1, Appended
<1>3. (\A i \in DOMAIN segs : WellMade(segs[i]))'
  <2> SUFFICES ASSUME NEW i \in 1 .. Len(segs) + 1
               PROVE  WellMade(segs'[i])
    BY <1>2 DEF WellMade, Kept
  <2>1. CASE i \in 1 .. Len(segs)
    BY <1>1, <1>2, <2>1 DEF IInv
  <2>2. CASE i = Len(segs) + 1
    BY <1>2, <2>2
  <2>3. QED
    BY <1>1, <2>1, <2>2
<1>4. Roles'
  <2> SUFFICES ASSUME NEW i \in 1 .. Len(segs) + 1
               PROVE  segs'[i].role = [is_first |-> i = 1,
                                       is_last |-> status' = "halted" /\ i = Len(segs')]
    BY <1>2 DEF Roles
  <2>1. CASE i \in 1 .. Len(segs)
    <3>1. segs[i].role = [is_first |-> i = 1, is_last |-> FALSE]
      BY <1>1, <2>1 DEF IInv, Roles
    <3>2. i # Len(segs')
      BY <1>1, <1>2, <2>1
    <3>3. QED
      BY <1>2, <2>1, <3>1, <3>2
  <2>2. CASE i = Len(segs) + 1
    <3>1. (segs = <<>>) <=> (i = 1)
      BY <1>1, <2>2
    <3>2. QED
      BY <1>2, <2>2, <3>1 DEF RoleNow
  <2>3. QED
    BY <1>1, <2>1, <2>2
<1>5. segs'[1].initial_pc = Entry
  <2>1. CASE segs = <<>>
    BY <1>1, <1>2, <2>1 DEF IInv, Links
  <2>2. CASE segs # <<>>
    BY <1>1, <1>2, <2>2 DEF IInv, ChainsOnCpu
  <2>3. QED
    BY <2>1, <2>2
<1>6. ASSUME NEW i \in 1 .. Len(segs)
      PROVE  /\ segs'[i] = segs[i]
             /\ i < Len(segs) => i \in Interior /\ segs'[i + 1] = segs[i + 1]
             /\ i = Len(segs) => segs'[i + 1] = r /\ segs # <<>>
  <2>1. segs'[i] = segs[i]
    BY <1>2
  <2>2. CASE i < Len(segs)
    <3>1. i + 1 \in 1 .. Len(segs) /\ i \in 1 .. Len(segs) - 1
      BY <1>1, <2>2
    <3>2. QED
      BY <1>2, <2>1, <2>2, <3>1 DEF Interior
  <2>3. CASE i = Len(segs)
    BY <1>1, <1>2, <2>1, <2>3
  <2>4. i < Len(segs) \/ i = Len(segs)
    BY <1>1, LastOrBefore
  <2>5. QED
    BY <2>2, <2>3, <2>4
<1>7. Interior' = 1 .. Len(segs)
  BY <1>1, <1>2 DEF Interior
<1>8. (\A i \in Interior : CpuChains(segs[i], segs[i + 1]))'
  <2> SUFFICES ASSUME NEW i \in 1 .. Len(segs)
               PROVE  CpuChains(segs'[i], segs'[i + 1])
    BY <1>7 DEF CpuChains, Kept
  <2>1. CASE i < Len(segs)
    BY <1>6, <2>1 DEF IInv, ChainsOnCpu
  <2>2. CASE i = Len(segs)
    BY <1>6, <2>2
  <2>3. i < Len(segs) \/ i = Len(segs)
    BY <1>1, LastOrBefore
  <2>4. QED
    BY <2>1, <2>2, <2>3
<1>9. ChainsOnRoot'
  <2> SUFFICES ASSUME NEW i \in 1 .. Len(segs)
               PROVE  RootChains(segs'[i], segs'[i + 1])
    BY <1>7 DEF ChainsOnRoot
  <2>1. CASE i < Len(segs)
    BY <1>6, <2>1 DEF IInv, ChainsOnRoot
  <2>2. CASE i = Len(segs)
    BY <1>6, <2>2
  <2>3. i < Len(segs) \/ i = Len(segs)
    BY <1>1, LastOrBefore
  <2>4. QED
    BY <2>1, <2>2, <2>3
<1>10. QED
  BY <1>2, <1>3, <1>4, <1>5, <1>8, <1>9

-----------------------------------------------------------------------------
(***************************************************************************)
(* The steps of the loop.                                                  *)
(***************************************************************************)
\* What every step but the boundary leaves of the guest, its tracer and its cache,
\* whether or not it ends the run.
Stepped ==
  /\ status = "running"
  /\ UNCHANGED <<given, completed, seg>>
  /\ Sound(core', seg.cont)
  /\ core'.tracer.clock \in {core.tracer.clock, core.tracer.clock + 1}
  /\ core'.tracer.clock <= SegmentCycles
  /\ cache' \in [PC -> Val \cup {NoVal}] /\ seen' \in [PC -> SUBSET Val]
  /\ \A p \in PC : /\ cache'[p] \in seen'[p] \cup {NoVal}
                   /\ Fetched(p, core'.cont) \in seen'[p]
                   /\ cache'[p] # NoVal => Kind[cache'[p]] # "none"
                   /\ core'.tracer.rows[p] > 0 => cache'[p] # NoVal
                   /\ \/ core'.tracer.reads[p] = core'.tracer.rows[p]
                      \/ p = core'.pc /\ Kind[cache'[p]] \in {"sentinel", "jalr"}
  /\ Clean /\ Touched(core'.tracer) \subseteq RwWord =>
       \A p \in Text : cache'[p] \in {NoVal, Fetched(p, seg.cont)}
  /\ core'.cont[Halt] # 0 /\ segs # <<>> => core'.tracer.clock > 0

LEMMA SteppedTypes ==
  ASSUME IInv, Stepped
  PROVE  /\ core' \in Core /\ cache' \in [PC -> Val \cup {NoVal}]
         /\ given' \subseteq InputWord /\ completed' \in Nat
         /\ seg' \in [pc : PC, cont : Contents] /\ seen' \in [PC -> SUBSET Val]
  BY DEF IInv, TypeOK, Stepped, Sound

\* The run goes on, or stops with an error: no result is added.
LEMMA GoOnStep ==
  ASSUME IInv, Stepped, UNCHANGED segs,
         status' \in {"running", "invalid", "max", "commit"}, CycleLimit',
         status' = "running" => core'.tracer.reads = core'.tracer.rows
  PROVE  IInv'
<1>1. /\ status = "running" /\ given' = given /\ completed' = completed /\ seg' = seg
      /\ segs' = segs /\ status' # "halted"
  BY DEF Stepped
<1>2. TypeOK'
  BY <1>1, SteppedTypes DEF IInv, TypeOK, Status
<1>3. Sound(core, seg.cont)'
  BY <1>1 DEF Stepped
<1>4. (\A i \in DOMAIN segs : WellMade(segs[i]))'
  BY <1>1 DEF IInv, WellMade, Kept
<1>5. Roles'
  <2> SUFFICES ASSUME NEW i \in DOMAIN segs
               PROVE  segs[i].role = [is_first |-> i = 1,
                                      is_last |-> status' = "halted" /\ i = Len(segs)]
    BY <1>1 DEF Roles
  <2>1. segs[i].role = [is_first |-> i = 1, is_last |-> FALSE]
    BY <1>1 DEF IInv, Roles
  <2>2. QED
    BY <1>1, <2>1
<1>6. Counts'
  BY <1>1 DEF IInv, Counts, Stepped
<1>7. Links'
  BY <1>1 DEF IInv, Links, Resumes
<1>8. ChainsOnCpu' /\ ChainsOnRoot'
  BY <1>1 DEF IInv, ChainsOnCpu, ChainsOnRoot, Interior, CpuChains, Kept
<1>9. Cached'
  <2>1. Clean' <=> Clean
    BY <1>1 DEF Clean
  <2>2. QED
    BY <1>1, <2>1 DEF Cached, Stepped
<1>10. Committed'
  <2> SUFFICES ASSUME Clean', NEW i \in DOMAIN segs
               PROVE  ProgramBalances(segs[i])'
    BY <1>1 DEF Committed
  <2>1. ProgramBalances(segs[i])
    BY <1>1 DEF IInv, Committed, Clean
  <2>2. ~segs[i].role.is_last
    BY <1>1, RunningRoles
  <2>3. QED
    BY <1>1, <2>1, <2>2 DEF ProgramBalances, Spins
<1>11. Paired' /\ FlagRead' /\ HaltClosesOnce'
  BY <1>1 DEF Paired, FlagRead, HaltClosesOnce, Stepped
<1>12. QED
  BY <1>2, <1>3, <1>4, <1>5, <1>6, <1>7, <1>8, <1>9, <1>10, <1>11 DEF IInv

\* program_access at a segment's close: a row finds no partner where its pc is outside the
\* program range, and a fetch none where it has no row.
LEMMA ProgramSums ==
  ASSUME NEW t \in TracerType, NEW mem \in Contents,
         NEW decoded \in [PC -> Val \cup {NoVal}],
         \A p \in PC : t.rows[p] > 0 => decoded[p] # NoVal,
         \A p \in PC : decoded[p] # NoVal => Kind[decoded[p]] # "none",
         \A p \in Text : decoded[p] \in {NoVal, Fetched(p, mem)},
         NEW p \in PC
  PROVE  /\ p \notin Text => (p \in Unmatched(t, mem, decoded) <=> t.rows[p] > 0)
         /\ p \in Text /\ t.reads[p] = t.rows[p] => p \notin Unmatched(t, mem, decoded)
<1>1. /\ t.rows[p] \in Nat /\ t.reads[p] \in Nat
      /\ NoVal \notin Val /\ Fetched(p, mem) \in Val
      /\ decoded[p] \in Val \cup {NoVal}
  BY TracerAssumption, FetchedVal DEF TracerType
<1>2. p \in Unmatched(t, mem, decoded) <=> \E v \in Val : ProgramSum(p, v, t, mem, decoded) # 0
  BY DEF Unmatched
<1>3. CASE p \notin Text
  <2>1. \A v : ProgramSum(p, v, t, mem, decoded)
                = 0 - (IF v = decoded[p] THEN t.rows[p] ELSE 0)
    BY <1>3 DEF ProgramSum
  <2>2. ASSUME t.rows[p] > 0
        PROVE  decoded[p] \in Val /\ ProgramSum(p, decoded[p], t, mem, decoded) # 0
    BY <1>1, <2>1, <2>2
  <2>3. ASSUME ~(t.rows[p] > 0), NEW v \in Val
        PROVE  ProgramSum(p, v, t, mem, decoded) = 0
    BY <1>1, <2>1, <2>3
  <2>4. QED
    BY <1>2, <1>3, <2>2, <2>3
<1>4. CASE p \in Text
  <2> SUFFICES ASSUME t.reads[p] = t.rows[p], NEW v \in Val
               PROVE  ProgramSum(p, v, t, mem, decoded) = 0
    BY <1>2, <1>4
  <2>1. CASE decoded[p] = NoVal
    <3>1. t.rows[p] = 0 /\ t.reads[p] = 0
      BY <1>1, <2>1
    <3>2. QED
      BY <3>1 DEF ProgramSum
  <2>2. CASE decoded[p] # NoVal
    <3>1. decoded[p] = Fetched(p, mem) /\ decoded[p] # 0
      BY <1>4, <2>2, GuestAssumption
    <3>2. CASE v = decoded[p]
      BY <1>1, <1>4, <3>1, <3>2 DEF ProgramSum
    <3>3. CASE v # decoded[p]
      BY <3>1, <3>3 DEF ProgramSum
    <3>4. QED
      BY <3>2, <3>3
  <2>3. QED
    BY <2>1, <2>2
<1>5. QED
  BY <1>3, <1>4

\* The run is over: the last segment is closed, or its program cannot be committed to.
LEMMA FinishStep ==
  ASSUME IInv, Stepped, Finish(core')
  PROVE  IInv'
<1>1. /\ status = "running" /\ given' = given /\ completed' = completed /\ seg' = seg
  BY DEF Stepped
<1>2. CASE ~Committable(core'.cont)
  <2>1. segs' = segs /\ status' = "commit"
    BY <1>2 DEF Finish
  <2>2. QED
    BY <2>1, GoOnStep DEF CycleLimit
<1>3. CASE Committable(core'.cont)
  <2>1. PICK c : c = core'
    OBVIOUS
  <2>2. PICK r : r = Result(c, cache', RoleNow(TRUE))
    OBVIOUS
  <2>3. segs' = Append(segs, r) /\ status' = "halted"
    BY <1>3, <2>1, <2>2 DEF Finish
  <2>4. Sound(c, seg.cont) /\ c.tracer.clock <= SegmentCycles
    BY <2>1 DEF Stepped
  <2>5. /\ r \in SegmentResult /\ WellMade(r)
        /\ r.role = RoleNow(TRUE) /\ r.initial_pc = seg.pc
        /\ segs # <<>> => /\ CpuChains(segs[Len(segs)], r)
                          /\ RootChains(segs[Len(segs)], r)
    BY <1>1, <2>2, <2>4, NewResult
  <2>6. /\ segs' \in Seq(SegmentResult) /\ Len(segs') = Len(segs) + 1 /\ segs' # <<>>
        /\ \A i \in 1 .. Len(segs) : segs'[i] = segs[i]
        /\ segs'[Len(segs')] = r
        /\ DOMAIN segs' = 1 .. Len(segs) + 1
        /\ (\A i \in DOMAIN segs : WellMade(segs[i]))'
        /\ Roles'
        /\ segs'[1].initial_pc = Entry
        /\ (\A i \in Interior : CpuChains(segs[i], segs[i + 1]))'
        /\ ChainsOnRoot'
    BY <1>1, <2>3, <2>5, AppendStep
  <2>7. /\ Len(segs) \in Nat /\ DOMAIN segs = 1 .. Len(segs)
        /\ completed = SegmentCycles * Len(segs)
        /\ core.tracer.clock \in Nat /\ completed \in Nat
    BY <1>1, RunningRoles
  <2>8. /\ r.final_pc = c.pc /\ r.final_regs = Regs(c.cont)
        /\ r.program_root = ProgramRoot(c.cont)
        /\ r.accessed = Touched(c.tracer)
        /\ r.executed = {p \in PC : c.tracer.rows[p] > 0}
        /\ r.unmatched = Unmatched(c.tracer, c.cont, cache')
        /\ r.cycles = c.tracer.clock
    BY <2>2 DEF Result
  <2>9. TypeOK'
    <3>1. Len(segs') <= MaxSegments
      BY <1>1, <2>6, <2>7, RunnerAssumption DEF IInv, Counts
    <3>2. QED
      BY <2>3, <2>6, <3>1, SteppedTypes DEF TypeOK, Status
  <2>10. Sound(core, seg.cont)'
    BY <1>1 DEF Stepped
  <2>11. Counts'
    <3>1. Len(segs') - 1 = Len(segs)
      BY <2>6, <2>7
    <3>2. QED
      BY <1>1, <2>3, <2>7, <3>1 DEF Counts, Stepped
  <2>12. CycleLimit'
    <3>1. completed + core.tracer.clock <= MaxCycles
      BY <1>1 DEF IInv, CycleLimit, Executed
    <3>2. completed' + core'.tracer.clock <= MaxCycles + 1
      BY <1>1, <2>7, <3>1, RunnerAssumption DEF Stepped
    <3>3. QED
      BY <2>3, <3>2 DEF CycleLimit, Executed
  <2>13. Links'
    BY <2>3, <2>6 DEF Links
  <2>14. ChainsOnCpu'
    BY <2>1, <2>6, <2>8 DEF ChainsOnCpu
  <2>15. Clean' => Clean /\ Touched(c.tracer) \subseteq RwWord
    <3> SUFFICES ASSUME Clean'
                 PROVE  Clean /\ Touched(c.tracer) \subseteq RwWord
      OBVIOUS
    <3>1. \A i \in 1 .. Len(segs) + 1 : segs'[i].accessed \subseteq RwWord
      BY <2>6 DEF Clean
    <3>2. Len(segs) + 1 \in 1 .. Len(segs) + 1
      BY <2>7
    <3>3. Touched(c.tracer) \subseteq RwWord
      BY <2>6, <2>8, <3>1, <3>2
    <3>4. \A i \in 1 .. Len(segs) : segs[i].accessed \subseteq RwWord
      BY <2>6, <2>7, <3>1
    <3>5. QED
      BY <2>7, <3>3, <3>4 DEF Clean
  <2>16. Cached'
    BY <1>1, <2>1, <2>15 DEF Cached, Stepped
  <2>17. Committed'
    <3> SUFFICES ASSUME Clean', NEW i \in 1 .. Len(segs) + 1
                 PROVE  ProgramBalances(segs[i])'
      BY <2>6 DEF Committed
    <3>1. CASE i \in 1 .. Len(segs)
      <4>1. segs'[i] = segs[i] /\ ~segs[i].role.is_last
        BY <1>1, <2>6, <2>7, <3>1, RunningRoles
      <4>2. ProgramBalances(segs[i])
        BY <2>7, <2>15, <3>1 DEF IInv, Committed
      <4>3. QED
        BY <4>1, <4>2 DEF ProgramBalances, Spins
    <3>2. CASE i = Len(segs) + 1
      <4>1. segs'[i] = r /\ r.role.is_last
        BY <2>5, <2>6, <3>2 DEF RoleNow
      <4>2. /\ c.tracer \in TracerType /\ c.cont \in Contents /\ seg.cont \in Contents
            /\ cache' \in [PC -> Val \cup {NoVal}]
        BY <2>4, CoreFields DEF Sound, Stepped, IInv, TypeOK
      <4>3. \A p \in PC : /\ c.tracer.rows[p] > 0 => cache'[p] # NoVal
                          /\ cache'[p] # NoVal => Kind[cache'[p]] # "none"
                          /\ \/ c.tracer.reads[p] = c.tracer.rows[p]
                             \/ p = c.pc /\ Kind[cache'[p]] \in {"sentinel", "jalr"}
        BY <2>1 DEF Stepped
      <4>4. \A p \in Text : cache'[p] \in {NoVal, Fetched(p, c.cont)}
        BY <2>1, <2>4, <2>15, <4>2, Untouched DEF Stepped
      <4>5. \A p \in PC :
              /\ p \notin Text => (p \in r.unmatched <=> c.tracer.rows[p] > 0)
              /\ p \in Text /\ c.tracer.reads[p] = c.tracer.rows[p] => p \notin r.unmatched
        BY <2>8, <4>2, <4>3, <4>4, ProgramSums
      <4>6. r.unmatched \subseteq PC
        BY <2>8 DEF Unmatched
      <4>7. r.executed \ Text \subseteq r.unmatched
        BY <2>8, <4>5
      <4>8. \A p \in r.unmatched :
              \/ p \in r.executed \ Text
              \/ p \in Text /\ p = r.final_pc /\ Kind[cache'[p]] \in {"sentinel", "jalr"}
        BY <2>8, <4>3, <4>5, <4>6
      <4>9. QED
        BY <4>1, <4>7, <4>8 DEF ProgramBalances, Spins
    <3>3. QED
      BY <2>7, <3>1, <3>2
  <2>18. Paired' /\ FlagRead'
    BY <2>3 DEF Paired, FlagRead
  <2>19. HaltClosesOnce'
    <3> SUFFICES ASSUME core'.cont[Halt] # 0, Len(segs') > 1
                 PROVE  segs'[Len(segs')].cycles > 0
      BY DEF HaltClosesOnce
    <3>1. segs # <<>>
      BY <2>6, <2>7
    <3>2. QED
      BY <2>1, <2>6, <2>8, <3>1 DEF Stepped
  <2>20. QED
    BY <2>6, <2>9, <2>10, <2>11, <2>12, <2>13, <2>14, <2>16, <2>17, <2>18, <2>19 DEF IInv
<1>4. QED
  BY <1>2, <1>3

\* A boundary: the next segment starts where this one stopped, with a new tracer.
LEMMA CloseStep == IInv /\ CloseSegment => IInv'
<1> SUFFICES ASSUME IInv, CloseSegment PROVE IInv'
  OBVIOUS
<1> DEFINE c == core
<1>1. /\ status = "running" /\ given' = given /\ cache' = cache /\ seen' = seen
      /\ status' = status /\ core.tracer.clock >= SegmentCycles
      /\ Len(segs) < MaxSegments - 1 /\ core.cont[Halt] = 0
      /\ completed' = completed + core.tracer.clock
      /\ segs' = Append(segs, Result(core, cache, RoleNow(FALSE)))
      /\ seg' = [pc |-> core.pc, cont |-> core.cont]
      /\ core' = [core EXCEPT !.tracer = NewTracer]
  BY DEF CloseSegment, Boundary, Running, Full, TakeTracer, StartHere
<1>2. /\ Len(segs) \in Nat /\ DOMAIN segs = 1 .. Len(segs)
      /\ completed = SegmentCycles * Len(segs)
      /\ core.tracer.clock \in Nat /\ completed \in Nat
      /\ core.tracer.clock = SegmentCycles /\ SegmentCycles \in Nat \ {0}
  BY <1>1, RunningRoles
<1>3. PICK r : r = Result(core, cache, RoleNow(FALSE))
  OBVIOUS
<1>4. /\ Sound(core, seg.cont) /\ core.tracer.clock <= SegmentCycles
      /\ seg.cont \in Contents
  BY <1>2 DEF IInv, TypeOK
<1>5. /\ r \in SegmentResult /\ WellMade(r)
      /\ r.role = RoleNow(FALSE) /\ r.initial_pc = seg.pc
      /\ segs # <<>> => /\ CpuChains(segs[Len(segs)], r)
                        /\ RootChains(segs[Len(segs)], r)
      /\ Leaves(r, core.cont)
  BY <1>1, <1>2, <1>3, <1>4, NewResult
<1>6. segs' = Append(segs, r) /\ status' # "halted"
  BY <1>1, <1>3
<1>7. /\ segs' \in Seq(SegmentResult) /\ Len(segs') = Len(segs) + 1 /\ segs' # <<>>
      /\ \A i \in 1 .. Len(segs) : segs'[i] = segs[i]
      /\ segs'[Len(segs')] = r
      /\ DOMAIN segs' = 1 .. Len(segs) + 1
      /\ (\A i \in DOMAIN segs : WellMade(segs[i]))'
      /\ Roles'
      /\ segs'[1].initial_pc = Entry
      /\ (\A i \in Interior : CpuChains(segs[i], segs[i + 1]))'
      /\ ChainsOnRoot'
  BY <1>1, <1>5, <1>6, AppendStep
<1>8. /\ r.final_pc = core.pc /\ r.final_regs = Regs(core.cont)
      /\ r.program_root = ProgramRoot(core.cont)
      /\ r.accessed = Touched(core.tracer)
      /\ r.executed = {p \in PC : core.tracer.rows[p] > 0}
      /\ r.unmatched = Unmatched(core.tracer, core.cont, cache)
  BY <1>3 DEF Result
<1>9. /\ core \in Core /\ core.pc \in PC /\ core.cont \in Contents
      /\ core = [pc |-> core.pc, cont |-> core.cont, keys |-> core.keys,
                 tracer |-> core.tracer]
  BY CoreFields DEF IInv, TypeOK
<1>10. core' = [pc |-> core.pc, cont |-> core.cont, keys |-> core.keys,
                tracer |-> NewTracer]
  BY <1>1, <1>9
<1>11. /\ core'.pc = core.pc /\ core'.cont = core.cont /\ core'.keys = core.keys
       /\ core'.tracer = NewTracer /\ seg'.pc = core.pc /\ seg'.cont = core.cont
  BY <1>1, <1>10
<1>12. Sound(core', seg'.cont)
  <2>1. PICK d : d = core'
    OBVIOUS
  <2>2. d \in Core
    BY <1>9, <1>10, <2>1, NewTracerType DEF Core
  <2>3. Traced(NewTracer, core.cont, core.cont)
    BY <1>9, NewTraced
  <2>4. QED
    BY <1>4, <1>11, <2>1, <2>2, <2>3 DEF Sound
<1>13. TypeOK'
  <2>1. core' \in Core
    BY <1>12 DEF Sound
  <2>2. completed' \in Nat /\ Len(segs') <= MaxSegments
    BY <1>1, <1>2, <1>7, RunnerAssumption
  <2>3. seg' \in [pc : PC, cont : Contents]
    BY <1>1, <1>9
  <2>4. QED
    BY <1>1, <1>7, <2>1, <2>2, <2>3 DEF IInv, TypeOK
<1>14. Counts'
  <2>1. NewTracer.clock = 0
    BY NewTracerType
  <2>2. completed' = SegmentCycles * Len(segs')
    BY <1>1, <1>2, <1>7
  <2>3. Len(segs') < MaxSegments
    BY <1>1, <1>2, <1>7, RunnerAssumption
  <2>4. QED
    BY <1>1, <1>2, <1>11, <2>1, <2>2, <2>3 DEF Counts
<1>15. CycleLimit'
  <2>1. completed' + core'.tracer.clock = completed + core.tracer.clock
    BY <1>1, <1>2, <1>11, NewTracerType
  <2>2. QED
    BY <1>1, <2>1 DEF IInv, CycleLimit, Executed
<1>16. Links'
  <2>1. Resumes(r)'
    BY <1>5, <1>8, <1>11 DEF Resumes
  <2>2. QED
    BY <1>7, <2>1 DEF Links, Resumes
<1>17. ChainsOnCpu'
  BY <1>6, <1>7 DEF ChainsOnCpu
<1>18. Clean' => Clean /\ Touched(core.tracer) \subseteq RwWord
  <2> SUFFICES ASSUME Clean'
               PROVE  Clean /\ Touched(core.tracer) \subseteq RwWord
    OBVIOUS
  <2>1. \A i \in 1 .. Len(segs) + 1 : segs'[i].accessed \subseteq RwWord
    BY <1>7 DEF Clean
  <2>2. Len(segs) + 1 \in 1 .. Len(segs) + 1
    BY <1>2
  <2>3. Touched(core.tracer) \subseteq RwWord
    BY <1>7, <1>8, <2>1, <2>2
  <2>4. \A i \in 1 .. Len(segs) : segs[i].accessed \subseteq RwWord
    BY <1>7, <1>2, <2>1
  <2>5. QED
    BY <1>2, <2>3, <2>4 DEF Clean
<1>19. ASSUME Clean'
       PROVE  \A p \in Text : cache[p] \in {NoVal, Fetched(p, core.cont)}
  BY <1>4, <1>18, <1>19, Untouched DEF IInv, Cached
<1>20. Cached'
  <2>1. \A p \in PC : ~(NewTracer.rows[p] > 0)
    BY NewTracerType
  <2>2. \A p \in PC : /\ cache[p] \in seen[p] \cup {NoVal}
                      /\ Fetched(p, core.cont) \in seen[p]
                      /\ cache[p] # NoVal => Kind[cache[p]] # "none"
    BY DEF IInv, Cached
  <2>3. QED
    BY <1>1, <1>11, <1>19, <2>1, <2>2 DEF Cached
<1>21. Committed'
  <2> SUFFICES ASSUME Clean', NEW i \in 1 .. Len(segs) + 1
               PROVE  ProgramBalances(segs[i])'
    BY <1>7 DEF Committed
  <2>1. CASE i \in 1 .. Len(segs)
    <3>1. segs'[i] = segs[i]
      BY <1>7, <2>1
    <3>2. ProgramBalances(segs[i])
      BY <1>2, <1>18, <2>1 DEF IInv, Committed
    <3>3. QED
      BY <1>1, <3>1, <3>2 DEF ProgramBalances, Spins
  <2>2. CASE i = Len(segs) + 1
    <3>1. segs'[i] = r
      BY <1>7, <2>2
    <3>2. /\ core.tracer \in TracerType /\ core.cont \in Contents
          /\ cache \in [PC -> Val \cup {NoVal}]
      BY CoreFields DEF IInv, TypeOK
    <3>3. \A p \in PC : /\ core.tracer.rows[p] > 0 => cache[p] # NoVal
                        /\ cache[p] # NoVal => Kind[cache[p]] # "none"
                        /\ core.tracer.reads[p] = core.tracer.rows[p]
      BY <1>1 DEF IInv, Cached, Paired
    <3>4. \A p \in PC : p \in r.unmatched <=> p \notin Text /\ core.tracer.rows[p] > 0
      BY <1>8, <1>19, <3>2, <3>3, ProgramSums
    <3>5. r.unmatched = r.executed \ Text
      BY <1>8, <3>4 DEF Unmatched
    <3>6. QED
      BY <3>1, <3>5 DEF ProgramBalances, Spins
  <2>3. QED
    BY <1>2, <2>1, <2>2
<1>22. Paired' /\ FlagRead' /\ HaltClosesOnce'
  <2>1. NewTracer.reads = NewTracer.rows
    BY DEF NewTracer
  <2>2. core'.cont[Halt] = 0 /\ core'.tracer.reads = core'.tracer.rows
    BY <1>1, <1>11, <2>1
  <2>3. QED
    BY <1>6, <2>2 DEF Paired, FlagRead, HaltClosesOnce
<1>23. QED
  BY <1>7, <1>11, <1>12, <1>13, <1>14, <1>15, <1>16, <1>17, <1>20, <1>21, <1>22 DEF IInv

\* A step that leaves the guest, its tracer and its cache alone.
LEMMA IdleStepped ==
  ASSUME IInv, status = "running", UNCHANGED <<given, core, cache, completed, seg, seen>>
  PROVE  Stepped
<1>1. cache \in [PC -> Val \cup {NoVal}] /\ seen \in [PC -> SUBSET Val]
  BY DEF IInv, TypeOK
<1>2. QED
  BY <1>1 DEF IInv, Cached, Counts, Paired, FlagRead, Stepped

\* What get_or_decode finds at a pc, and what the cache holds then.
LEMMA DecodedFacts ==
  ASSUME IInv, Kind[Decoded(core.pc)] # "none"
  PROVE  /\ core.pc \in PC
         /\ Decoded(core.pc) \in Val /\ Decoded(core.pc) \in seen[core.pc]
         /\ cache[core.pc] # NoVal => Decoded(core.pc) = cache[core.pc]
         /\ Clean /\ Touched(core.tracer) \subseteq RwWord /\ core.pc \in Text =>
              Decoded(core.pc) = Fetched(core.pc, seg.cont)
<1>1. /\ core.pc \in PC /\ core.cont \in Contents /\ seg.cont \in Contents
      /\ cache \in [PC -> Val \cup {NoVal}]
      /\ seen \in [PC -> SUBSET Val]
  BY CoreFields DEF IInv, TypeOK
<1>2. Decoded(core.pc) \in seen[core.pc]
  BY <1>1 DEF IInv, Cached, Decoded
<1>3. Decoded(core.pc) \in Val
  BY <1>1, <1>2
<1>4. ASSUME Clean, Touched(core.tracer) \subseteq RwWord, core.pc \in Text
      PROVE  Decoded(core.pc) = Fetched(core.pc, seg.cont)
  <2>1. Fetched(core.pc, core.cont) = Fetched(core.pc, seg.cont)
    BY <1>1, <1>4, Untouched DEF IInv
  <2>2. cache[core.pc] \in {NoVal, Fetched(core.pc, seg.cont)}
    BY <1>4 DEF IInv, Cached
  <2>3. QED
    BY <2>1, <2>2 DEF Decoded
<1>5. QED
  BY <1>1, <1>2, <1>3, <1>4 DEF Decoded

\* The cache entry made at a pc keeps what the cache is good for, whatever the
\* instruction then does.
LEMMA CacheStepped ==
  ASSUME IInv, status = "running", Kind[Decoded(core.pc)] # "none",
         cache' = [cache EXCEPT ![core.pc] = Decoded(core.pc)],
         UNCHANGED <<given, completed, seg>>,
         Sound(core', seg.cont),
         core'.tracer.clock \in {core.tracer.clock, core.tracer.clock + 1},
         core'.tracer.clock <= SegmentCycles,
         Touched(core.tracer) \subseteq Touched(core'.tracer),
         \A p \in PC : core'.tracer.rows[p] > 0 => p = core.pc \/ core.tracer.rows[p] > 0,
         \A p \in PC : \/ core'.tracer.reads[p] = core'.tracer.rows[p]
                       \/ /\ p = core.pc /\ p = core'.pc
                          /\ Kind[Decoded(core.pc)] \in {"sentinel", "jalr"},
         core'.cont[Halt] # 0 => core'.tracer.clock > 0,
         seen' \in [PC -> SUBSET Val],
         \A p \in PC : seen[p] \subseteq seen'[p] /\ Fetched(p, core'.cont) \in seen'[p]
  PROVE  Stepped
<1>1. /\ core.pc \in PC /\ cache \in [PC -> Val \cup {NoVal}] /\ NoVal \notin Val
      /\ Text \subseteq PC
  BY CoreFields, TracerAssumption, GuestAssumption DEF IInv, TypeOK
<1>2. PICK v : v = Decoded(core.pc)
  OBVIOUS
<1>3. /\ v \in Val /\ v \in seen[core.pc] /\ Kind[v] # "none"
      /\ cache[core.pc] # NoVal => v = cache[core.pc]
      /\ Clean /\ Touched(core.tracer) \subseteq RwWord /\ core.pc \in Text =>
           v = Fetched(core.pc, seg.cont)
  BY <1>2, DecodedFacts
<1>4. /\ cache' \in [PC -> Val \cup {NoVal}]
      /\ \A p \in PC : cache'[p] = IF p = core.pc THEN v ELSE cache[p]
  BY <1>1, <1>2, <1>3
<1>5. \A p \in PC : /\ cache'[p] \in seen'[p] \cup {NoVal}
                    /\ cache'[p] # NoVal => Kind[cache'[p]] # "none"
  BY <1>1, <1>3, <1>4 DEF IInv, Cached
<1>6. \A p \in PC : core'.tracer.rows[p] > 0 => cache'[p] # NoVal
  BY <1>1, <1>3, <1>4 DEF IInv, Cached
<1>7. \A p \in PC : \/ core'.tracer.reads[p] = core'.tracer.rows[p]
                    \/ p = core'.pc /\ Kind[cache'[p]] \in {"sentinel", "jalr"}
  BY <1>2, <1>4
<1>8. Clean /\ Touched(core'.tracer) \subseteq RwWord =>
        \A p \in Text : cache'[p] \in {NoVal, Fetched(p, seg.cont)}
  BY <1>1, <1>3, <1>4 DEF IInv, Cached
<1>9. QED
  BY <1>4, <1>5, <1>6, <1>7, <1>8 DEF Stepped

LEMMA HaltFlagStep == IInv /\ HaltFlag => IInv'
<1> SUFFICES ASSUME IInv, HaltFlag PROVE IInv'
  OBVIOUS
<1>1. /\ status = "running" /\ UNCHANGED <<given, core, cache, completed, seg, seen>>
      /\ Finish(core)
  BY DEF HaltFlag
<1>2. Finish(core')
  BY <1>1
<1>3. QED
  BY <1>1, <1>2, IdleStepped, FinishStep

\* The errors that leave everything as it is.
LEMMA ErrorStep ==
  ASSUME IInv, status = "running", status' \in {"invalid", "commit"},
         UNCHANGED <<given, core, cache, segs, completed, seg, seen>>
  PROVE  IInv'
<1>1. CycleLimit' /\ status' # "running"
  BY DEF CycleLimit
<1>2. QED
  BY <1>1, IdleStepped, GoOnStep

LEMMA SentinelStep == IInv /\ Sentinel => IInv'
<1> SUFFICES ASSUME IInv, Sentinel PROVE IInv'
  OBVIOUS
<1>1. /\ status = "running" /\ core.cont[Halt] = 0
      /\ Kind[Decoded(core.pc)] \in {"sentinel", "jalr"}
      /\ Kind[Decoded(core.pc)] # "none"
      /\ cache' = [cache EXCEPT ![core.pc] = Decoded(core.pc)]
      /\ Finish(core') /\ UNCHANGED <<given, completed, seg, seen>>
  BY DEF Sentinel, Running
<1>2. core' = WithFetch(core)
  BY DEF Sentinel, WithFetch
<1>3. seg.cont \in Contents /\ Sound(core, seg.cont)
  BY DEF IInv, TypeOK
<1>4. PICK d : d = core'
  OBVIOUS
<1>5. /\ Sound(d, seg.cont)
      /\ d.pc = core.pc /\ d.cont = core.cont
      /\ d.tracer.clock = core.tracer.clock
      /\ d.tracer.rows = core.tracer.rows
      /\ \A p \in PC \ {core.pc} : d.tracer.reads[p] = core.tracer.reads[p]
      /\ Touched(d.tracer) = Touched(core.tracer)
  BY <1>2, <1>3, <1>4, FetchCore
<1>6. core.tracer.clock <= SegmentCycles
  BY DEF IInv, Counts
<1>7. /\ seen' \in [PC -> SUBSET Val]
      /\ \A p \in PC : seen[p] \subseteq seen'[p] /\ Fetched(p, d.cont) \in seen'[p]
  BY <1>1, <1>5 DEF IInv, TypeOK, Cached
<1>8. /\ core.tracer.reads = core.tracer.rows /\ core.tracer.reads \in [PC -> Nat]
  BY <1>1, CoreFields DEF IInv, TypeOK, Paired, TracerType
<1>9. \A p \in PC : d.tracer.reads[p] = d.tracer.rows[p] \/ p = core.pc
  BY <1>5, <1>8
<1>10. Stepped
  BY <1>1, <1>4, <1>5, <1>6, <1>7, <1>9, CacheStepped
<1>11. QED
  BY <1>1, <1>10, FinishStep

\* What an instruction leaves of the guest, for the invariant and for the refinement.
LEMMA ExecutedCore ==
  ASSUME IInv, ExecuteStep, NEW d, d = core'
  PROVE  /\ Sound(d, seg.cont)
         /\ d.tracer.clock = core.tracer.clock + 1
         /\ Touched(core.tracer) \subseteq Touched(d.tracer)
         /\ \A p \in PC : d.tracer.rows[p] > 0 => p = core.pc \/ core.tracer.rows[p] > 0
         /\ d.tracer.reads = d.tracer.rows
         /\ d.pc \in PC
         /\ Kind[Decoded(core.pc)] \in Kinds \ {"none", "sentinel"}
         /\ Changes(Kind[Decoded(core.pc)], core, d)
         /\ Kind[Decoded(core.pc)] \notin {"branch", "jal", "jalr"} =>
              d.pc = Advance(core.pc)
<1>1. PICK k : k = Kind[Decoded(core.pc)]
  OBVIOUS
<1>2. PICK e : e = WithTick(core)
  OBVIOUS
<1>3. /\ status = "running" /\ k \in Kinds \ {"none", "sentinel"} /\ d \in Execute(k, e)
  BY <1>1, <1>2 DEF ExecuteStep, Running, Executable, WithTick
<1>4. /\ seg.cont \in Contents /\ Sound(core, seg.cont)
      /\ core.tracer.clock \in Nat /\ completed \in Nat
  BY <1>3, RunningRoles DEF IInv, TypeOK
<1>5. core.tracer.clock < MaxClock
  BY <1>3, <1>4, RunnerAssumption, TracerAssumption DEF IInv, CycleLimit, Executed
<1>6. /\ Sound(e, seg.cont)
      /\ e.pc = core.pc /\ e.cont = core.cont
      /\ e.tracer.clock = core.tracer.clock + 1
      /\ e.tracer.rows = core.tracer.rows
      /\ e.tracer.reads = [core.tracer.reads EXCEPT ![core.pc] = core.tracer.reads[core.pc] + 1]
      /\ Touched(e.tracer) = Touched(core.tracer)
  BY <1>2, <1>4, <1>5, TickCore
<1>7. e.tracer.clock > 0
  BY <1>4, <1>6
<1>8. /\ Ran(e, d, seg.cont)
      /\ Changes(k, e, d)
      /\ d.pc \in PC
      /\ k \notin {"branch", "jal", "jalr"} => d.pc = Advance(e.pc)
  BY <1>3, <1>4, <1>6, <1>7, ExecuteCore
<1>9. Changes(k, core, d)
  BY <1>6, <1>8 DEF Changes
<1>10. /\ core.tracer.reads = core.tracer.rows /\ core.tracer.rows \in [PC -> Nat]
       /\ core.pc \in PC
  BY <1>3, CoreFields DEF IInv, TypeOK, Paired, TracerType
<1>11. /\ d.tracer.reads = e.tracer.reads
       /\ d.tracer.rows = [core.tracer.rows EXCEPT ![core.pc] = core.tracer.rows[core.pc] + 1]
  BY <1>6, <1>8 DEF Ran
<1>12. /\ d.tracer.reads = d.tracer.rows
       /\ \A p \in PC : d.tracer.rows[p] > 0 => p = core.pc \/ core.tracer.rows[p] > 0
  BY <1>6, <1>10, <1>11
<1>13. QED
  BY <1>1, <1>3, <1>6, <1>8, <1>9, <1>12 DEF Ran

LEMMA ExecuteStepped == IInv /\ ExecuteStep => Stepped
<1> SUFFICES ASSUME IInv, ExecuteStep PROVE Stepped
  OBVIOUS
<1>1. PICK d : d = core'
  OBVIOUS
<1>2. /\ Sound(d, seg.cont)
      /\ d.tracer.clock = core.tracer.clock + 1
      /\ Touched(core.tracer) \subseteq Touched(d.tracer)
      /\ \A p \in PC : d.tracer.rows[p] > 0 => p = core.pc \/ core.tracer.rows[p] > 0
      /\ d.tracer.reads = d.tracer.rows
      /\ Kind[Decoded(core.pc)] \in Kinds \ {"none", "sentinel"}
  BY <1>1, ExecutedCore
<1>3. /\ status = "running" /\ Kind[Decoded(core.pc)] # "none"
      /\ cache' = [cache EXCEPT ![core.pc] = Decoded(core.pc)]
      /\ UNCHANGED <<given, completed, seg>>
      /\ ~(core.tracer.clock >= SegmentCycles)
      /\ seen' = [p \in PC |-> seen[p] \cup {Fetched(p, d.cont)}]
  BY <1>1, <1>2 DEF ExecuteStep, Running, Full
<1>4. d.tracer.clock <= SegmentCycles /\ d.tracer.clock > 0
  BY <1>2, <1>3, RunningRoles
<1>5. d.cont \in Contents /\ seen \in [PC -> SUBSET Val]
  BY <1>2, CoreFields DEF Sound, IInv, TypeOK
<1>6. /\ seen' \in [PC -> SUBSET Val]
      /\ \A p \in PC : seen[p] \subseteq seen'[p] /\ Fetched(p, d.cont) \in seen'[p]
  BY <1>3, <1>5, FetchedVal
<1>7. QED
  BY <1>1, <1>2, <1>3, <1>4, <1>6, CacheStepped

LEMMA ExecuteStepIInv == IInv /\ ExecuteStep => IInv'
<1> SUFFICES ASSUME IInv, ExecuteStep PROVE IInv'
  OBVIOUS
<1>1. Stepped
  BY ExecuteStepped
<1>2. CASE core'.pc = core.pc
  BY <1>1, <1>2, FinishStep DEF ExecuteStep
<1>3. CASE core'.pc # core.pc
  <2>1. /\ status' = IF Cycles(core') > MaxCycles THEN "max" ELSE "running"
        /\ UNCHANGED segs /\ status = "running" /\ completed' = completed
    BY <1>3 DEF ExecuteStep, Running
  <2>2. core'.tracer.clock = core.tracer.clock + 1 /\ core'.tracer.reads = core'.tracer.rows
    BY ExecutedCore
  <2>3. /\ core.tracer.clock \in Nat /\ completed \in Nat
        /\ completed + core.tracer.clock <= MaxCycles
    BY <2>1, RunningRoles DEF IInv, CycleLimit, Executed
  <2>4. CycleLimit'
    BY <2>1, <2>2, <2>3, RunnerAssumption DEF CycleLimit, Executed, Cycles
  <2>5. QED
    BY <1>1, <2>1, <2>2, <2>4, GoOnStep
<1>4. QED
  BY <1>2, <1>3

LEMMA NextIInv == IInv /\ [Next]_vars => IInv'
<1> SUFFICES ASSUME IInv, [Next]_vars PROVE IInv'
  OBVIOUS
<1>1. CASE CommitFails
  BY <1>1, ErrorStep DEF CommitFails, Boundary, Running
<1>2. CASE InvalidInstruction
  BY <1>2, ErrorStep DEF InvalidInstruction, Running
<1>3. CASE UNCHANGED vars
  BY <1>3 DEF vars, IInv, TypeOK, Roles, Counts, CycleLimit, Executed, Links, Resumes,
       ChainsOnCpu, ChainsOnRoot, Interior, CpuChains, Kept, WellMade, Cached, Clean,
       Committed, ProgramBalances, Spins, Paired, FlagRead, HaltClosesOnce
<1>4. QED
  BY <1>1, <1>2, <1>3, HaltFlagStep, CloseStep, SentinelStep, ExecuteStepIInv DEF Next

LEMMA Invariance == Spec => []IInv
  BY InitIInv, NextIInv, PTL DEF Spec

-----------------------------------------------------------------------------
(***************************************************************************)
(* Theorems.                                                               *)
(***************************************************************************)
\* Every variable keeps its type, and the loop never returns more than MaxSegments
\* results.
THEOREM TypeCorrect == Spec => []TypeOK
<1>1. IInv => TypeOK
  BY DEF IInv
<1>2. QED
  BY <1>1, Invariance, PTL

\* Consecutive results of a run chain on pc, registers and program root, whatever the
\* guest does and wherever it is cut, unless the guest stored into its program.
THEOREM ChainsOnCpuAlways == Spec => []ChainsOnCpu
<1>1. IInv => ChainsOnCpu
  BY DEF IInv
<1>2. QED
  BY <1>1, Invariance, PTL

\* Consecutive results chain on the read-write root exactly when both segments or neither
\* have a committed word and the first segment left no nonzero input word unread.
THEOREM ChainsOnRootAlways == Spec => []ChainsOnRoot
<1>1. IInv => ChainsOnRoot
  BY DEF IInv
<1>2. QED
  BY <1>1, Invariance, PTL

\* The cycle limit cuts every run at the same cycle, however it is segmented.
THEOREM CycleLimitAlways == Spec => []CycleLimit
<1>1. IInv => CycleLimit
  BY DEF IInv
<1>2. QED
  BY <1>1, Invariance, PTL

\* Each segment of a run balances exactly when its own guest steps can be anchored.
THEOREM SegmentsBalanceAlways == Spec => []SegmentsBalance
<1>1. IInv => SegmentsBalance
  BY DEF IInv, SegmentsBalance, WellMade
<1>2. QED
  BY <1>1, Invariance, PTL

\* program_access cancels at every pc of every segment but where the guest executed code
\* outside the program range, and where it does not cancel there is such code or the
\* fetch of a final self-loop, whatever the decode cache has returned.
THEOREM CommittedIsExecutedAlways == Spec => []CommittedIsExecuted
<1>1. IInv => CommittedIsExecuted
  <2> SUFFICES ASSUME IInv, \A i \in DOMAIN segs : Kept(segs[i]), NEW i \in DOMAIN segs
               PROVE  ProgramBalances(segs[i])
    BY DEF CommittedIsExecuted
  <2>1. Clean
    BY DEF Clean, Kept, Anchorable
  <2>2. QED
    BY <2>1 DEF IInv, Committed
<1>2. QED
  BY <1>1, Invariance, PTL

\* The boundary falls every SegmentCycles cycles, no cycle is lost or counted twice and a
\* halt flag closes no empty segment after another one, for any segment length and any
\* number of segments.
THEOREM SegmentLengthsAlways == Spec => []SegmentLengths
<1>1. IInv => SegmentLengths
  <2> SUFFICES ASSUME IInv PROVE SegmentLengths
    OBVIOUS
  <2>1. /\ Len(segs) \in Nat /\ DOMAIN segs = 1 .. Len(segs)
        /\ \A i \in DOMAIN segs : segs[i] \in SegmentResult
    BY DEF IInv, TypeOK
  <2>2. \A i \in DOMAIN segs :
          segs[i].role = [is_first |-> i = 1, is_last |-> status = "halted" /\ i = Len(segs)]
    BY DEF IInv, Roles
  <2> DEFINE n == IF status = "halted" THEN Len(segs) - 1 ELSE Len(segs)
  <2>3. \A i \in DOMAIN segs : ~segs[i].role.is_last <=> i \in 1 .. n
    <3>1. CASE status = "halted"
      <4> SUFFICES ASSUME NEW i \in DOMAIN segs
                   PROVE  ~segs[i].role.is_last <=> i < Len(segs)
        BY <2>1, <3>1
      <4>1. CASE i = Len(segs)
        <5>1. segs[i].role = [is_first |-> i = 1, is_last |-> TRUE]
          BY <2>2, <3>1, <4>1
        <5>2. QED
          BY <2>1, <4>1, <5>1
      <4>2. CASE i # Len(segs)
        <5>1. segs[i].role = [is_first |-> i = 1, is_last |-> FALSE]
          BY <2>2, <3>1, <4>2
        <5>2. QED
          BY <2>1, <4>2, <5>1
      <4>3. QED
        BY <4>1, <4>2
    <3>2. CASE status # "halted"
      <4> SUFFICES ASSUME NEW i \in DOMAIN segs
                   PROVE  ~segs[i].role.is_last
        BY <2>1, <3>2
      <4>1. segs[i].role = [is_first |-> i = 1, is_last |-> FALSE]
        BY <2>2, <3>2
      <4>2. QED
        BY <4>1
    <3>3. QED
      BY <3>1, <3>2
  <2>4. n \in Nat /\ n <= Len(segs)
    <3>1. status = "halted" => Len(segs) # 0
      BY <2>1 DEF IInv, TypeOK, Roles
    <3>2. QED
      BY <2>1, <3>1
  <2>5. \A i \in DOMAIN segs : i < Len(segs) => i \in 1 .. n
    BY <2>1
  <2> HIDE DEF n
  <2>6. \A i \in DOMAIN segs :
          /\ segs[i].cycles <= SegmentCycles
          /\ i < Len(segs) \/ ~segs[i].role.is_last => segs[i].cycles = SegmentCycles
          /\ SegmentCycles <= MaxDiff => segs[i].gaps = 0
    BY <2>3, <2>5 DEF IInv, WellMade
  <2>7. {i \in DOMAIN segs : ~segs[i].role.is_last} = 1 .. n
    BY <2>1, <2>3, <2>4
  <2>8. Cardinality(1 .. n) = n
    BY <2>4, FS_Interval
  <2>9. completed = SegmentCycles * n
    BY DEF IInv, Counts, n
  <2>10. QED
    BY <2>6, <2>7, <2>8, <2>9 DEF SegmentLengths, IInv
<1>2. QED
  BY <1>1, Invariance, PTL

-----------------------------------------------------------------------------
(***************************************************************************)
(* Refinement of Machine.                                                  *)
(***************************************************************************)
LEMMA InitRefines == Init => Unsegmented!Init
<1> SUFFICES ASSUME Init PROVE Unsegmented!Init
  OBVIOUS
<1>1. IInv
  BY InitIInv
<1>2. /\ core.pc \in PC /\ core.cont \in Contents /\ core.cont[X0] = 0
      /\ core.tracer.clock = 0 /\ completed = 0
  <2>1. core.tracer = NewTracer
    BY DEF Init
  <2>2. core \in Core /\ core.cont[X0] = 0
    BY <1>1 DEF IInv, TypeOK, Sound
  <2>3. QED
    BY <2>1, <2>2, CoreFields, NewTracerType DEF Init
<1>3. seen = [p \in PC |-> {Unsegmented!Fetched(p, core.cont)}] /\ status \in {"running", "too_large"}
  BY DEF Init, Fetched, Unsegmented!Fetched
<1>4. Executed = 0
  BY <1>2 DEF Executed
<1>5. QED
  BY <1>2, <1>3, <1>4 DEF Unsegmented!Init, Unsegmented!Contents, Unsegmented!Loc, Contents, Loc

\* A run that ends commits to its program, or fails to, on both levels.
LEMMA EndRefines ==
  ASSUME Finish(core')
  PROVE  Unsegmented!Ends
  BY DEF Finish, Committable, Fetched,
     Unsegmented!Ends, Unsegmented!Undecodable, Unsegmented!Fetched

LEMMA DecodedRefines ==
  ASSUME IInv, Kind[Decoded(core.pc)] # "none"
  PROVE  Kind[Decoded(core.pc)] \in Unsegmented!Decoded
  BY DecodedFacts DEF Unsegmented!Decoded

LEMMA ExecuteRefines ==
  ASSUME IInv, ExecuteStep
  PROVE  Unsegmented!Next
<1>1. PICK k : k = Kind[Decoded(core.pc)]
  OBVIOUS
<1>2. PICK d : d = core'
  OBVIOUS
<1>3. /\ d.tracer.clock = core.tracer.clock + 1
      /\ d.pc \in PC
      /\ k \in Kinds \ {"none", "sentinel"}
      /\ Changes(k, core, d)
      /\ k \notin {"branch", "jal", "jalr"} => d.pc = Advance(core.pc)
  BY <1>1, <1>2, ExecutedCore
<1>4. k \in Unsegmented!Decoded
  BY <1>1, <1>3, DecodedRefines
<1>5. core.cont \in Contents /\ core.cont[X0] = 0
  BY CoreFields DEF IInv, TypeOK, Sound
<1>6. PICK l \in Loc, v \in Val :
        /\ d.cont = Put(core.cont, l, v)
        /\ \/ k = "store" /\ l \in Word
           \/ k \notin {"store", "branch"} /\ l \in Reg /\ (l = X0 => v = 0)
           \/ k = "branch" /\ v = core.cont[l]
  <2>1. CASE k = "store"
    BY <1>3, <2>1 DEF Changes, Loc
  <2>2. CASE k = "branch"
    <3>1. X0 \in Loc /\ 0 \in Val
      BY GuestAssumption, TracerAssumption DEF Loc
    <3>2. Put(core.cont, X0, core.cont[X0]) = core.cont
      BY <1>5, <3>1, PutContents
    <3>3. d.cont = Put(core.cont, X0, 0)
      BY <1>3, <1>5, <2>2, <3>2 DEF Changes
    <3>4. QED
      BY <1>5, <2>2, <3>1, <3>3
  <2>3. CASE k \notin {"store", "branch"}
    BY <1>3, <2>3 DEF Changes, Loc
  <2>4. QED
    BY <2>1, <2>2, <2>3
<1>7. /\ status = "running" /\ core.cont[Halt] = 0 /\ completed' = completed
      /\ seen' = [p \in PC |-> seen[p] \cup {Unsegmented!Fetched(p, core'.cont)}]
      /\ IF core'.pc = core.pc
           THEN Finish(core')
           ELSE status' = IF Cycles(core') > MaxCycles THEN "max" ELSE "running"
  BY DEF ExecuteStep, Running, Fetched, Unsegmented!Fetched
<1>8. Executed' = Executed + 1
  <2>1. core.tracer.clock \in Nat /\ completed \in Nat
    BY <1>7, RunningRoles
  <2>2. QED
    BY <1>2, <1>3, <1>7, <2>1 DEF Executed
<1>9. core'.cont = [core.cont EXCEPT ![l] = v]
  BY <1>2, <1>6 DEF Put
<1>10. core'.pc \in IF k \in {"branch", "jal", "jalr"} THEN PC
                    ELSE {Unsegmented!Advance(core.pc)}
  BY <1>2, <1>3 DEF Advance, Unsegmented!Advance
<1>11. IF core'.pc = core.pc THEN Unsegmented!Ends
       ELSE status' = IF Executed' > MaxCycles THEN "max" ELSE "running"
  BY <1>7, EndRefines DEF Cycles, Executed
<1>12. Unsegmented!Step(k, l, v)
  BY <1>3, <1>6, <1>7, <1>8, <1>9, <1>10, <1>11
     DEF Unsegmented!Step, Unsegmented!Kinds, Kinds
<1>13. l \in Unsegmented!Loc
  BY DEF Unsegmented!Loc, Loc
<1>14. QED
  BY <1>4, <1>7, <1>12, <1>13 DEF Unsegmented!Next, Unsegmented!Running

LEMMA NextRefines == IInv /\ [Next]_vars => [Unsegmented!Next]_(Unsegmented!vars)
<1> SUFFICES ASSUME IInv, [Next]_vars PROVE [Unsegmented!Next]_(Unsegmented!vars)
  OBVIOUS
<1>1. CASE HaltFlag
  <2>1. /\ status = "running" /\ core.cont[Halt] # 0 /\ Finish(core')
        /\ UNCHANGED <<core, completed, seen>>
    BY <1>1 DEF HaltFlag
  <2>2. Unsegmented!HaltFlag
    BY <2>1, EndRefines DEF Unsegmented!HaltFlag, Executed
  <2>3. QED
    BY <2>2 DEF Unsegmented!Next
<1>2. CASE CloseSegment
  <2>1. /\ status = "running" /\ status' = status /\ seen' = seen
        /\ completed' = completed + core.tracer.clock
        /\ core' = [core EXCEPT !.tracer = NewTracer]
    BY <1>2 DEF CloseSegment, Boundary, Running, TakeTracer
  <2>2. core.tracer.clock \in Nat /\ completed \in Nat
    BY <2>1, RunningRoles
  <2>3. core'.pc = core.pc /\ core'.cont = core.cont /\ core'.tracer = NewTracer
    BY <2>1, CoreFields DEF IInv, TypeOK, Core
  <2>4. Executed' = Executed
    BY <2>1, <2>2, <2>3, NewTracerType DEF Executed
  <2>5. QED
    BY <2>1, <2>3, <2>4 DEF Unsegmented!vars
<1>3. CASE CommitFails
  <2>1. /\ status = "running" /\ core.cont[Halt] = 0 /\ ~Committable(core.cont)
        /\ status' = "commit" /\ UNCHANGED <<core, completed, seen>>
    BY <1>3 DEF CommitFails, Boundary, Running
  <2>2. Unsegmented!Uncommittable
    BY <2>1 DEF Committable, Fetched, Unsegmented!Uncommittable,
         Unsegmented!Undecodable, Unsegmented!Fetched, Unsegmented!Running, Executed
  <2>3. QED
    BY <2>2 DEF Unsegmented!Next
<1>4. CASE InvalidInstruction
  <2>1. /\ status = "running" /\ core.cont[Halt] = 0
        /\ Kind[Decoded(core.pc)] = "none"
        /\ status' = "invalid" /\ UNCHANGED <<core, completed, seen>>
    BY <1>4 DEF InvalidInstruction, Running
  <2>2. "none" \in Unsegmented!Decoded
    <3>1. core.pc \in PC
      BY CoreFields DEF IInv, TypeOK
    <3>2. Decoded(core.pc) \in seen[core.pc]
      BY <3>1 DEF IInv, Cached, Decoded
    <3>3. QED
      BY <2>1, <3>2 DEF Unsegmented!Decoded
  <2>3. Unsegmented!Invalid
    BY <2>1, <2>2 DEF Unsegmented!Invalid, Unsegmented!Running, Executed
  <2>4. QED
    BY <2>3 DEF Unsegmented!Next
<1>5. CASE Sentinel
  <2>1. /\ status = "running" /\ core.cont[Halt] = 0
        /\ Kind[Decoded(core.pc)] \in {"sentinel", "jalr"}
        /\ Finish(core') /\ completed' = completed /\ seen' = seen
        /\ core' = WithFetch(core)
    BY <1>5 DEF Sentinel, Running, WithFetch
  <2>2. Sound(core, seg.cont) /\ seg.cont \in Contents
    BY DEF IInv, TypeOK
  <2>3. PICK d : d = core'
    OBVIOUS
  <2>4. d.pc = core.pc /\ d.cont = core.cont /\ d.tracer.clock = core.tracer.clock
    BY <2>1, <2>2, <2>3, FetchCore
  <2>5. Kind[Decoded(core.pc)] \in Unsegmented!Decoded
    BY <2>1, DecodedRefines
  <2>6. Unsegmented!Sentinel
    BY <2>1, <2>3, <2>4, <2>5, EndRefines
       DEF Unsegmented!Sentinel, Unsegmented!Running, Executed
  <2>7. QED
    BY <2>6 DEF Unsegmented!Next
<1>6. CASE ExecuteStep
  BY <1>6, ExecuteRefines
<1>7. CASE UNCHANGED vars
  BY <1>7 DEF vars, Unsegmented!vars, Executed
<1>8. QED
  BY <1>1, <1>2, <1>3, <1>4, <1>5, <1>6, <1>7 DEF Next

\* The runner's loop, with its tracer, segments and decode cache, runs the guest as the
\* machine of the ISA does: for every program and input, every segment length and limit.
THEOREM Refinement == Spec => RefinesMachine
<1>1. Spec => Unsegmented!Init /\ [][Unsegmented!Next]_(Unsegmented!vars)
  BY InitRefines, Invariance, NextRefines, PTL DEF Spec
<1>2. QED
  BY <1>1 DEF RefinesMachine, Unsegmented!Spec

=============================================================================
