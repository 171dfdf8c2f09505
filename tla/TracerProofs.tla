---------------------------- MODULE TracerProofs ----------------------------
(***************************************************************************)
(* Lemmas about the operators of Tracer and Commitment, for every MaxDiff, *)
(* every clock, every layout and every role.                               *)
(***************************************************************************)
EXTENDS Commitment, TLAPS

\* Euclidean division.
LEMMA DivBounds ==
  ASSUME NEW a \in Nat, NEW m \in Nat \ {0}
  PROVE  /\ a \div m \in Nat
         /\ (a \div m) * m <= a
         /\ a < (a \div m) * m + m
  BY Z3

\* The closed form of fill_gap's loop: it ends at most MaxDiff before the access and
\* never passes it.
LEMMA CaughtUpBounds ==
  ASSUME NEW from \in Nat, NEW to \in Nat, from <= to
  PROVE  /\ GapCount(from, to) \in Nat
         /\ CaughtUp(from, to) \in from .. to
         /\ to - CaughtUp(from, to) <= MaxDiff
<1> USE TracerAssumption
<1> DEFINE m == MaxDiff
           n == GapCount(from, to)
<1>1. CASE to - from <= m
  <2>1. n = 0
    BY <1>1 DEF GapCount
  <2>2. CaughtUp(from, to) = from
    BY <2>1 DEF CaughtUp
  <2>3. QED
    BY <1>1, <2>1, <2>2
<1>2. CASE to - from > m
  <2> DEFINE a == to - from - 1
  <2>1. a \in Nat /\ n = a \div m
    BY <1>2 DEF GapCount
  <2>2. n \in Nat /\ n * m <= a /\ a < n * m + m
    BY <2>1, DivBounds
  <2>3. CaughtUp(from, to) = from + n * m /\ n * m \in Nat
    BY <2>2 DEF CaughtUp
  <2>4. QED
    BY <2>1, <2>2, <2>3
<1>3. QED
  BY <1>1, <1>2

\* The rows of a gap form a chain: shifting the consumed clocks by MaxDiff gives the
\* emitted ones, so all cancel but the first consumption and the last emission.
LEMMA GapChain ==
  ASSUME NEW from \in Nat, NEW to \in Nat, from <= to, NEW c \in Int
  PROVE    Bit(c - MaxDiff \in GapClocks(from, to)) + Bit(c = from)
         = Bit(c \in GapClocks(from, to)) + Bit(c = CaughtUp(from, to))
<1> USE TracerAssumption
<1> DEFINE m == MaxDiff
           n == GapCount(from, to)
           G == GapClocks(from, to)
<1>n. n \in Nat
  BY CaughtUpBounds
<1> HIDE DEF n
<1>g. G = {from + k * m : k \in 0 .. n - 1}
  BY DEF GapClocks, n
<1>u. CaughtUp(from, to) = from + n * m
  BY DEF CaughtUp, n
<1> HIDE DEF G
<1>1. (c - m \in G \/ c = from) <=> \E k \in 0 .. n : c = from + k * m
  <2>1. ASSUME c - m \in G
        PROVE  \E k \in 0 .. n : c = from + k * m
    <3>1. PICK k \in 0 .. n - 1 : c - m = from + k * m
      BY <2>1, <1>g
    <3>2. k + 1 \in 0 .. n /\ c = from + (k + 1) * m
      BY <3>1, <1>n
    <3>3. QED
      BY <3>2
  <2>2. ASSUME c = from
        PROVE  \E k \in 0 .. n : c = from + k * m
    BY <2>2, <1>n, 0 \in 0 .. n, c = from + 0 * m
  <2>3. ASSUME NEW k \in 0 .. n, c = from + k * m
        PROVE  c - m \in G \/ c = from
    <3>1. CASE k = 0
      BY <3>1, <2>3
    <3>2. CASE k # 0
      <4>1. k - 1 \in 0 .. n - 1 /\ c - m = from + (k - 1) * m
        BY <3>2, <2>3, <1>n
      <4>2. QED
        BY <4>1, <1>g
    <3>3. QED
      BY <3>1, <3>2
  <2>4. QED
    BY <2>1, <2>2, <2>3
<1>2. (c \in G \/ c = CaughtUp(from, to)) <=> \E k \in 0 .. n : c = from + k * m
  <2>1. 0 .. n = (0 .. n - 1) \cup {n}
    BY <1>n
  <2>2. QED
    BY <2>1, <1>g, <1>u
<1>3. ~(c - m \in G /\ c = from)
  <2> SUFFICES ASSUME c = from, NEW k \in 0 .. n - 1, c - m = from + k * m
               PROVE  FALSE
    BY <1>g
  <2>1. k * m >= 0
    BY <1>n
  <2>2. QED
    BY <2>1
<1>4. ~(c \in G /\ c = CaughtUp(from, to))
  <2> SUFFICES ASSUME NEW k \in 0 .. n - 1, from + n * m = from + k * m
               PROVE  FALSE
    BY <1>g, <1>u
  <2>1. n - k >= 1 /\ n - k \in Nat
    BY <1>n
  <2>2. (n - k) * m >= 1
    BY <2>1
  <2>3. n * m = k * m + (n - k) * m
    BY <1>n
  <2>4. n * m \in Int /\ k * m \in Int /\ (n - k) * m \in Int
    BY <1>n
  <2>5. QED
    BY <2>2, <2>3, <2>4
<1>5. QED
  BY <1>1, <1>2, <1>3, <1>4 DEF Bit, G

\* Whatever gap was filled, an access moves one unit of the ledger from the tuple the
\* location was last seen at to the one it has now.
LEMMA AccessMoves ==
  ASSUME NEW x \in Tuple, NEW l \in Loc, NEW from \in Nat, NEW clock \in Nat,
         from <= clock, NEW prev, NEW next
  PROVE  AccessDelta(x, l, from, clock, prev, next)
           =   Bit(x[1] = l /\ x[3] = next /\ x[2] = clock)
             - Bit(x[1] = l /\ x[3] = prev /\ x[2] = from)
<1>1. x[2] \in Int
  BY TracerAssumption DEF Tuple, Clk
<1>2.   Bit(x[2] - MaxDiff \in GapClocks(from, clock)) + Bit(x[2] = from)
      = Bit(x[2] \in GapClocks(from, clock)) + Bit(x[2] = CaughtUp(from, clock))
  BY <1>1, GapChain
<1>3. CASE x[1] = l /\ x[3] = prev
  BY <1>2, <1>3 DEF AccessDelta, Bit
<1>4. CASE ~(x[1] = l /\ x[3] = prev)
  BY <1>4 DEF AccessDelta, Bit
<1>5. QED
  BY <1>3, <1>4

\* The fields of a tracer after an access.
LEMMA AccessFields ==
  ASSUME NEW t \in TracerType, NEW l \in Loc, t.last[l] <= t.clock,
         NEW prev \in Val, NEW next \in Val,
         NEW u, u = TraceAccess(t, l, prev, next)
  PROVE  /\ u \in TracerType
         /\ u.clock = t.clock
         /\ \A k \in Loc : u.last[k] = IF k = l THEN t.clock ELSE t.last[k]
         /\ \A w \in Word : u.initial[w] = IF w = l /\ t.initial[w] = NoVal
                                             THEN prev ELSE t.initial[w]
         /\ u.spans = t.spans \cup {t.clock - CaughtUp(t.last[l], t.clock)}
         /\ u.gaps = t.gaps + GapCount(t.last[l], t.clock)
         /\ u.reads = t.reads /\ u.rows = t.rows /\ u.states = t.states
         /\ \A x \in Tuple :
              u.ledger[x] = t.ledger[x]
                              + Bit(x[1] = l /\ x[3] = next /\ x[2] = t.clock)
                              - Bit(x[1] = l /\ x[3] = prev /\ x[2] = t.last[l])
<1> DEFINE from == t.last[l]
<1>1. from \in Nat /\ t.clock \in Nat /\ from <= t.clock /\ t.clock \in Clk
  BY TracerAssumption DEF TracerType, Clk
<1>2. GapCount(from, t.clock) \in Nat /\ CaughtUp(from, t.clock) \in Int
  BY <1>1, CaughtUpBounds
<1>3. \A x \in Tuple : AccessDelta(x, l, from, t.clock, prev, next)
                         = Bit(x[1] = l /\ x[3] = next /\ x[2] = t.clock)
                             - Bit(x[1] = l /\ x[3] = prev /\ x[2] = from)
  BY <1>1, AccessMoves
<1>4. u.ledger = [x \in Tuple |->
                    t.ledger[x] + AccessDelta(x, l, from, t.clock, prev, next)]
  BY DEF TraceAccess, TracerType
<1>5. u.ledger \in [Tuple -> Int]
  BY <1>3, <1>4 DEF Bit, TracerType
<1>6. /\ u.clock = t.clock
      /\ u.last = [t.last EXCEPT ![l] = t.clock]
      /\ u.initial = FirstValue(t, l, prev)
      /\ u.reads = t.reads /\ u.rows = t.rows /\ u.states = t.states
      /\ u.gaps = t.gaps + GapCount(from, t.clock)
      /\ u.spans = t.spans \cup {t.clock - CaughtUp(from, t.clock)}
  BY DEF TraceAccess, TracerType
<1>7. /\ u.last \in [Loc -> Clk]
      /\ u.initial \in [Word -> Val \cup {NoVal}]
      /\ u.gaps \in Nat
      /\ u.spans \in SUBSET Int
  BY <1>1, <1>2, <1>6 DEF TracerType, Loc, FirstValue
<1>8. u = [clock |-> u.clock, last |-> u.last, initial |-> u.initial,
           reads |-> u.reads, gaps |-> u.gaps, spans |-> u.spans,
           ledger |-> u.ledger, states |-> u.states, rows |-> u.rows]
  BY DEF TraceAccess, TracerType
<1>9. u \in TracerType
  <2>1. /\ u.clock \in Clk /\ u.reads \in [PC -> Nat]
        /\ u.states \in [State -> Int] /\ u.rows \in [PC -> Nat]
    BY <1>1, <1>6 DEF TracerType
  <2>2. QED
    BY <1>5, <1>7, <1>8, <2>1 DEF TracerType
<1>10. \A w \in Word : u.initial[w] = IF w = l /\ t.initial[w] = NoVal
                                        THEN prev ELSE t.initial[w]
  BY <1>6 DEF TracerType, FirstValue
<1>11. \A k \in Loc : u.last[k] = IF k = l THEN t.clock ELSE t.last[k]
  BY <1>6 DEF TracerType
<1>12. QED
  <2>1. \A x \in Tuple : u.ledger[x] = t.ledger[x]
          + Bit(x[1] = l /\ x[3] = next /\ x[2] = t.clock)
          - Bit(x[1] = l /\ x[3] = prev /\ x[2] = from)
    BY <1>3, <1>4 DEF Bit, TracerType
  <2>2. QED
    BY <1>6, <1>9, <1>10, <1>11, <2>1

\* The fields of a tracer after a fetch, with and without the clock's tick.
LEMMA InstrFields ==
  ASSUME NEW t \in TracerType, NEW p \in PC,
         NEW u, u = TraceInstr(t, p)
  PROVE  /\ u \in TracerType
         /\ u.clock = t.clock /\ u.last = t.last /\ u.initial = t.initial
         /\ u.spans = t.spans /\ u.ledger = t.ledger /\ u.states = t.states
         /\ u.rows = t.rows /\ u.gaps = t.gaps
         /\ u.reads = [t.reads EXCEPT ![p] = t.reads[p] + 1]
<1> DEFINE r == [t.reads EXCEPT ![p] = t.reads[p] + 1]
<1>1. r \in [PC -> Nat]
  BY DEF TracerType
<1>2. u = [t EXCEPT !.reads = r]
  BY DEF TraceInstr, TracerType
<1> HIDE DEF r
<1>3. u \in TracerType
  BY <1>1, <1>2 DEF TracerType
<1>4. /\ u.clock = t.clock /\ u.last = t.last /\ u.initial = t.initial
      /\ u.spans = t.spans /\ u.ledger = t.ledger /\ u.states = t.states
      /\ u.rows = t.rows /\ u.gaps = t.gaps /\ u.reads = r
  BY <1>2 DEF TracerType
<1>5. QED
  BY <1>3, <1>4 DEF r

LEMMA TickFields ==
  ASSUME NEW t \in TracerType, t.clock < MaxClock, NEW u, u = TickClock(t)
  PROVE  /\ u \in TracerType
         /\ u.clock = t.clock + 1 /\ u.last = t.last /\ u.initial = t.initial
         /\ u.spans = t.spans /\ u.ledger = t.ledger /\ u.states = t.states
         /\ u.rows = t.rows /\ u.reads = t.reads /\ u.gaps = t.gaps
<1>1. t.clock + 1 \in Clk
  BY TracerAssumption DEF TracerType, Clk
<1>2. QED
  BY <1>1 DEF TickClock, TracerType

\* The fields of a tracer after an opcode row.
LEMMA RowFields ==
  ASSUME NEW t \in TracerType, NEW p \in PC, NEW q \in PC,
         NEW u, u = PushRow(t, p, q)
  PROVE  /\ u \in TracerType
         /\ u.clock = t.clock /\ u.last = t.last /\ u.initial = t.initial
         /\ u.spans = t.spans /\ u.ledger = t.ledger /\ u.reads = t.reads /\ u.gaps = t.gaps
         /\ u.rows = [t.rows EXCEPT ![p] = t.rows[p] + 1]
         /\ \A s \in State : u.states[s] = t.states[s] - Bit(s = <<p, t.clock>>)
                                             + Bit(s = <<q, t.clock + 1>>)
<1> DEFINE after == [s \in State |-> t.states[s] - Bit(s = <<p, t.clock>>)
                                                  + Bit(s = <<q, t.clock + 1>>)]
<1>1. after \in [State -> Int]
  BY DEF TracerType, Bit
<1>2. [t.rows EXCEPT ![p] = t.rows[p] + 1] \in [PC -> Nat]
  BY DEF TracerType
<1> DEFINE rows == [t.rows EXCEPT ![p] = t.rows[p] + 1]
<1>3. u = [t EXCEPT !.rows = rows, !.states = after]
  BY DEF PushRow, TracerType
<1>4. \A s \in State : after[s] = t.states[s] - Bit(s = <<p, t.clock>>)
                                   + Bit(s = <<q, t.clock + 1>>)
  OBVIOUS
<1> HIDE DEF after, rows
<1>5. u \in TracerType
  BY <1>1, <1>2, <1>3 DEF TracerType, rows
<1>6. /\ u.clock = t.clock /\ u.last = t.last /\ u.initial = t.initial
      /\ u.spans = t.spans /\ u.ledger = t.ledger /\ u.reads = t.reads /\ u.gaps = t.gaps
      /\ u.rows = rows /\ u.states = after
  BY <1>3 DEF TracerType
<1>7. QED
  BY <1>4, <1>5, <1>6 DEF rows

LEMMA NewTracerType ==
  /\ NewTracer \in TracerType
  /\ NewTracer.clock = 0
  /\ NewTracer.last = [l \in Loc |-> 0]
  /\ NewTracer.initial = [w \in Word |-> NoVal]
  /\ NewTracer.reads = [p \in PC |-> 0] /\ NewTracer.rows = [p \in PC |-> 0]
  /\ NewTracer.spans = {} /\ NewTracer.gaps = 0
  /\ NewTracer.ledger = [x \in Tuple |-> 0]
  /\ NewTracer.states = [s \in State |-> 0]
<1>1. 0 \in Clk
  BY TracerAssumption DEF Clk
<1>2. QED
  BY <1>1 DEF NewTracer, TracerType

-----------------------------------------------------------------------------
(***************************************************************************)
(* What a tracer says of the execution.                                    *)
(***************************************************************************)

\* A tracer that has seen nothing says that nothing changed.
LEMMA NewTraced ==
  ASSUME NEW start \in Contents
  PROVE  Traced(NewTracer, start, start)
<1> USE TracerAssumption, NewTracerType
<1>1. \A l \in Loc : NewTracer.last[l] = 0
  OBVIOUS
<1>2. FirstValues(NewTracer, start, start)
  BY <1>1 DEF FirstValues, Loc
<1>3. Telescopes(NewTracer, start, start)
  <2> SUFFICES ASSUME NEW x \in Tuple
               PROVE  NewTracer.ledger[x] = Bit(Frontier(x, NewTracer, start))
                                              - Bit(Origin(x, start))
    BY DEF Telescopes
  <2>1. x[1] \in Loc
    BY DEF Tuple
  <2>2. NewTracer.ledger[x] = 0 /\ NewTracer.last[x[1]] = 0
    BY <2>1
  <2>3. Frontier(x, NewTracer, start) <=> Origin(x, start)
    BY <2>2 DEF Frontier, Origin
  <2>4. QED
    BY <2>2, <2>3 DEF Bit
<1>4. QED
  BY <1>1, <1>2, <1>3 DEF Traced

\* Location l is left with v.
Put(cont, l, v) == [cont EXCEPT ![l] = v]

LEMMA PutContents ==
  ASSUME NEW cont \in Contents, NEW l \in Loc, NEW v \in Val
  PROVE  /\ Put(cont, l, v) \in Contents
         /\ \A k \in Loc : Put(cont, l, v)[k] = IF k = l THEN v ELSE cont[k]
         /\ Put(cont, l, cont[l]) = cont
  BY DEF Put, Contents

\* A traced access of location l that leaves v there; reads leave the value they found.
LEMMA AccessTraced ==
  ASSUME NEW t \in TracerType, NEW start \in Contents, NEW cont \in Contents,
         Traced(t, start, cont), t.clock > 0,
         NEW l \in Loc, NEW v \in Val,
         NEW u, u = TraceAccess(t, l, cont[l], v)
  PROVE  /\ u \in TracerType
         /\ u.clock = t.clock
         /\ \A k \in Loc : u.last[k] = IF k = l THEN t.clock ELSE t.last[k]
         /\ u.reads = t.reads /\ u.rows = t.rows /\ u.states = t.states
         /\ Traced(u, start, Put(cont, l, v))
<1> DEFINE after == Put(cont, l, v)
<1>0. \A k \in Loc : after[k] = IF k = l THEN v ELSE cont[k]
  BY PutContents
<1> HIDE DEF after
<1>1. t.last[l] <= t.clock /\ t.last[l] \in Nat /\ t.clock \in Nat /\ cont[l] \in Val
  BY TracerAssumption DEF Traced, TracerType, Clk, Contents
<1> DEFINE prev == cont[l]
<1>a. prev \in Val /\ u = TraceAccess(t, l, prev, v)
  BY <1>1
<1> HIDE DEF prev
<1>2. /\ u \in TracerType
      /\ u.clock = t.clock
      /\ \A k \in Loc : u.last[k] = IF k = l THEN t.clock ELSE t.last[k]
      /\ \A w \in Word : u.initial[w] = IF w = l /\ t.initial[w] = NoVal
                                          THEN prev ELSE t.initial[w]
      /\ u.spans = t.spans \cup {t.clock - CaughtUp(t.last[l], t.clock)}
      /\ u.gaps = t.gaps + GapCount(t.last[l], t.clock)
      /\ u.reads = t.reads /\ u.rows = t.rows /\ u.states = t.states
      /\ \A x \in Tuple :
           u.ledger[x] = t.ledger[x]
             + Bit(x[1] = l /\ x[3] = v /\ x[2] = t.clock)
             - Bit(x[1] = l /\ x[3] = prev /\ x[2] = t.last[l])
  BY <1>1, <1>a, AccessFields
<1> USE DEF prev
<1>3. \A k \in Loc : u.last[k] <= u.clock
  BY <1>1, <1>2 DEF Traced
<1>4. Telescopes(u, start, after)
  <2> SUFFICES ASSUME NEW x \in Tuple
               PROVE  u.ledger[x] = Bit(Frontier(x, u, after)) - Bit(Origin(x, start))
    BY DEF Telescopes
  <2>1. x[1] \in Loc /\ x[2] \in Int
    BY DEF Tuple, Clk
  <2>2. t.ledger[x] = Bit(Frontier(x, t, cont)) - Bit(Origin(x, start))
    BY DEF Traced, Telescopes
  <2>3. CASE x[1] = l
    <3>1. Frontier(x, t, cont) <=> x[3] = cont[l] /\ x[2] = t.last[l]
      BY <2>3 DEF Frontier
    <3>2. Frontier(x, u, after) <=> x[3] = v /\ x[2] = t.clock
      BY <1>0, <1>2, <2>3 DEF Frontier
    <3>3. QED
      BY <1>2, <2>2, <2>3, <3>1, <3>2 DEF Bit
  <2>4. CASE x[1] # l
    <3>1. Frontier(x, u, after) <=> Frontier(x, t, cont)
      BY <1>0, <1>2, <2>1, <2>4 DEF Frontier
    <3>2. QED
      BY <1>2, <2>2, <2>4, <3>1 DEF Bit
  <2>5. QED
    BY <2>3, <2>4
<1>5. FirstValues(u, start, after)
  <2>1. \A k \in Loc : u.last[k] > 0 <=> k = l \/ t.last[k] > 0
    BY <1>1, <1>2
  <2>2. \A k \in Loc : t.last[k] \in Nat /\ u.last[k] \in Nat
    BY <1>2 DEF TracerType, Clk
  <2>3. \A k \in Loc : t.last[k] = 0 => cont[k] = start[k]
    BY DEF Traced, FirstValues
  <2>4. \A w \in Word : t.initial[w] = IF t.last[w] > 0 THEN start[w] ELSE NoVal
    BY DEF Traced, FirstValues
  <2>5. \A k \in Loc : u.last[k] = 0 => after[k] = start[k]
    BY <1>0, <2>1, <2>2, <2>3
  <2>6. ASSUME NEW w \in Word
        PROVE  u.initial[w] = IF u.last[w] > 0 THEN start[w] ELSE NoVal
    <3>1. w \in Loc /\ start[w] # NoVal
      BY TracerAssumption DEF Loc, Contents
    <3>2. CASE w = l
      <4>1. u.last[w] > 0
        BY <2>1, <3>1, <3>2
      <4>2. CASE t.last[w] > 0
        BY <1>2, <2>4, <3>1, <3>2, <4>1, <4>2
      <4>3. CASE t.last[w] = 0
        BY <1>2, <2>3, <2>4, <3>1, <3>2, <4>1, <4>3
      <4>4. QED
        BY <2>2, <3>1, <4>2, <4>3
    <3>3. CASE w # l
      BY <1>2, <2>1, <2>4, <3>1, <3>3
    <3>4. QED
      BY <3>2, <3>3
  <2>7. QED
    BY <2>5, <2>6 DEF FirstValues
<1>6. u.spans \subseteq 0 .. MaxDiff
  <2> DEFINE up == CaughtUp(t.last[l], t.clock)
  <2>1. up \in t.last[l] .. t.clock /\ t.clock - up <= MaxDiff
    BY <1>1, CaughtUpBounds
  <2> HIDE DEF up
  <2>2. t.clock - up \in 0 .. MaxDiff
    BY <1>1, <2>1, TracerAssumption
  <2>3. QED
    BY <1>2, <2>2 DEF Traced, up
<1>7. u.clock <= MaxDiff => u.gaps = 0
  <2> SUFFICES ASSUME t.clock <= MaxDiff
               PROVE  t.gaps + GapCount(t.last[l], t.clock) = 0
    BY <1>2
  <2>1. t.gaps = 0 /\ t.clock - t.last[l] <= MaxDiff
    BY <1>1, TracerAssumption DEF Traced
  <2>2. QED
    BY <2>1 DEF GapCount
<1>8. Traced(u, start, after)
  BY <1>3, <1>4, <1>5, <1>6, <1>7 DEF Traced
<1>9. QED
  BY <1>2, <1>8 DEF after

\* What only counts a fetch or a row, or moves the clock on, says the same.
LEMMA UntouchedTraced ==
  ASSUME NEW t \in TracerType, NEW u \in TracerType, NEW start, NEW cont,
         Traced(t, start, cont),
         u.last = t.last, u.initial = t.initial, u.spans = t.spans,
         u.ledger = t.ledger, u.gaps = t.gaps, u.clock >= t.clock
  PROVE  Traced(u, start, cont)
<1>1. /\ t.clock \in Int /\ u.clock \in Int /\ MaxDiff \in Int
      /\ \A l \in Loc : t.last[l] \in Int
  BY TracerAssumption DEF TracerType, Clk
<1>2. Telescopes(u, start, cont) /\ FirstValues(u, start, cont)
  BY DEF Traced, Telescopes, FirstValues, Frontier
<1>3. \A l \in Loc : u.last[l] <= u.clock
  BY <1>1 DEF Traced
<1>4. u.clock <= MaxDiff => u.gaps = 0
  BY <1>1 DEF Traced
<1>5. QED
  BY <1>2, <1>3, <1>4 DEF Traced

-----------------------------------------------------------------------------
(***************************************************************************)
(* The memory balance of a segment whose output words all have a clock.    *)
(***************************************************************************)
\* What the lemmas below are about: a segment that took registers and memory from start
\* to mem, and its public data.
Published(t, start, mem, given, role) ==
  /\ t \in TracerType
  /\ start \in Contents /\ mem \in Contents
  /\ given \subseteq InputWord
  /\ Traced(t, start, mem)
  /\ ~Panics(t, mem, role)

\* What a word's rows carry is its content at the start and at the end, and an output word
\* has been accessed.
LEMMA WordFacts ==
  ASSUME NEW t, NEW start, NEW mem, NEW given, NEW role,
         Published(t, start, mem, given, role), NEW w \in Word
  PROVE  /\ InitialWord(w, t, mem) = start[w]
         /\ t.last[w] > 0 \/ (t.last[w] = 0 /\ mem[w] = start[w])
         /\ w \in PublicOutput(mem, role) => t.last[w] > 0
         /\ w \notin Reg
<1>1. t.last[w] \in Nat /\ start[w] \in Val /\ w \in Loc /\ w \notin Reg
  BY TracerAssumption DEF Published, TracerType, Clk, Loc, Contents
<1>2. /\ t.last[w] = 0 => mem[w] = start[w]
      /\ t.initial[w] = IF t.last[w] > 0 THEN start[w] ELSE NoVal
  BY <1>1 DEF Published, Traced, FirstValues
<1>3. InitialWord(w, t, mem) = start[w]
  BY <1>1, <1>2, TracerAssumption DEF InitialWord
<1>4. t.last[w] > 0 \/ (t.last[w] = 0 /\ mem[w] = start[w])
  BY <1>1, <1>2
<1>5. w \in PublicOutput(mem, role) => t.last[w] > 0
  BY <1>1 DEF Published, Panics
<1>6. QED
  BY <1>1, <1>3, <1>4, <1>5

\* The count of a tuple of word w, in terms of whether w's initial and latest state
\* each have a Merkle row or a public anchor.
LEMMA WordSum ==
  ASSUME NEW t, NEW start, NEW mem, NEW keys, NEW given, NEW role,
         Published(t, start, mem, given, role), NEW x \in Tuple, x[1] \in Word
  PROVE  MemorySum(x, t, start, mem, keys, given, role)
           =   Bit(Frontier(x, t, mem))
             - Bit(Origin(x, start))
             + Bit(x[1] \in Entries(t, keys) /\ IncludeInitial(x[1], role) /\ Origin(x, start))
             - Bit(x[1] \in Entries(t, keys) /\ IncludeFinal(x[1], t, mem, role)
                     /\ Frontier(x, t, mem))
             + Bit(x[1] \in PublicInput(given, role) /\ Origin(x, start))
             - Bit(x[1] \in PublicOutput(mem, role) /\ Frontier(x, t, mem))
<1>1. InitialWord(x[1], t, mem) = start[x[1]] /\ x[1] \notin Reg
  BY WordFacts
<1>2. t.ledger[x] = Bit(Frontier(x, t, mem)) - Bit(Origin(x, start))
  BY DEF Published, Traced, Telescopes
<1>3. MemoryRow(x, t, mem, keys, role)
        =   Bit(x[1] \in Entries(t, keys) /\ IncludeInitial(x[1], role) /\ Origin(x, start))
          - Bit(x[1] \in Entries(t, keys) /\ IncludeFinal(x[1], t, mem, role)
                  /\ Frontier(x, t, mem))
  BY <1>1 DEF MemoryRow, Origin, Frontier
<1>4. MemoryAnchor(x, t, start, mem, mem, given, start, role)
        =   Bit(x[1] \in PublicInput(given, role) /\ Origin(x, start))
          - Bit(x[1] \in PublicOutput(mem, role) /\ Frontier(x, t, mem))
  BY <1>1 DEF MemoryAnchor, Origin, Frontier, Bit
<1>5. QED
  BY <1>2, <1>3, <1>4 DEF MemorySum, Bit

\* The words of both public regions are memory words, and no word is in both.
LEMMA Regions ==
  ASSUME NEW t, NEW start, NEW mem, NEW given, NEW role,
         Published(t, start, mem, given, role)
  PROVE  /\ PublicInput(given, role) \subseteq InputWord \cap RwWord
         /\ PublicOutput(mem, role) \subseteq Word
         /\ PublicOutput(mem, role) \cap InputWord = {}
         /\ \A w : w \in PublicOutput(mem, role) <=> IsPublicOutput(w, mem, role)
         /\ \A w : w \in PublicInput(given, role) <=> role.is_first /\ w \in given
         /\ InputWord \subseteq Word
<1> USE LayoutAssumption, RegionAssumption, TracerAssumption
<1>1. InputWord \subseteq RwWord
  BY DEF InputWord
<1>2. mem[OutputLen] \in Val
  BY DEF Published, Loc, Contents
<1>3. OutputWords(mem[OutputLen]) \subseteq Word
  BY DEF OutputWords
<1>4. given \subseteq InputWord
  BY DEF Published
<1>5. QED
  BY <1>1, <1>2, <1>3, <1>4 DEF PublicInput, PublicOutput, IsPublicOutput

\* A register's contribution always cancels: its anchors are its initial and final
\* values, and it has no Merkle row.
LEMMA RegSum ==
  ASSUME NEW t, NEW start, NEW mem, NEW keys, NEW given, NEW role,
         Published(t, start, mem, given, role), NEW x \in Tuple, x[1] \in Reg
  PROVE  MemorySum(x, t, start, mem, keys, given, role) = 0
<1>1. x[1] \notin Word
  BY TracerAssumption
<1>2. x[1] \notin Entries(t, keys)
  BY <1>1, LayoutAssumption DEF Entries
<1>3. x[1] \notin PublicInput(given, role) /\ x[1] \notin PublicOutput(mem, role)
  BY <1>1, Regions, LayoutAssumption
<1>4. t.ledger[x] = Bit(Frontier(x, t, mem)) - Bit(Origin(x, start))
  BY DEF Published, Traced, Telescopes
<1>5. MemoryRow(x, t, mem, keys, role) = 0
  BY <1>2 DEF MemoryRow, Bit
<1>6. MemoryAnchor(x, t, start, mem, mem, given, start, role)
        = Bit(Origin(x, start)) - Bit(Frontier(x, t, mem))
  BY <1>3 DEF MemoryAnchor, Origin, Frontier, Bit
<1>7. QED
  BY <1>4, <1>5, <1>6 DEF MemorySum, Bit

\* The words of a segment that can be anchored cancel.
LEMMA WordBalanced ==
  ASSUME NEW t, NEW start, NEW mem, NEW keys, NEW given, NEW role,
         Published(t, start, mem, given, role), Anchorable(Touched(t), given, role),
         NEW x \in Tuple, x[1] \in Word
  PROVE  MemorySum(x, t, start, mem, keys, given, role) = 0
<1> DEFINE w == x[1]
           acc == t.last[w] > 0
           fr == Frontier(x, t, mem)
           og == Origin(x, start)
           E == w \in Entries(t, keys)
           Ini == IncludeInitial(w, role)
           Fin == IncludeFinal(w, t, mem, role)
           PI == w \in PublicInput(given, role)
           PO == w \in PublicOutput(mem, role)
<1>1. MemorySum(x, t, start, mem, keys, given, role)
        = Bit(fr) - Bit(og) + Bit(E /\ Ini /\ og) - Bit(E /\ Fin /\ fr)
          + Bit(PI /\ og) - Bit(PO /\ fr)
  BY WordSum
<1>2. w \in RwWord \/ ~acc
  BY DEF Anchorable, Touched
<1>3. acc \/ (t.last[w] = 0 /\ mem[w] = start[w])
  BY WordFacts
<1>4. /\ acc => E
      /\ acc \/ (fr <=> og)
      /\ PO => acc
  BY <1>2, <1>3, WordFacts DEF Entries, Frontier, Origin
<1>5. IsInput(w, role) => (acc <=> PI)
  BY Regions DEF IsInput, Anchorable, Touched
<1>6. /\ Ini <=> ~IsInput(w, role)
      /\ Fin <=> IF IsInput(w, role) THEN acc ELSE ~PO
      /\ PI => IsInput(w, role)
      /\ PO => ~IsInput(w, role)
  BY Regions DEF IncludeInitial, IncludeFinal, IsInput
<1> HIDE DEF w, acc, fr, og, E, Ini, Fin, PI, PO
<1>7. CASE IsInput(w, role) /\ acc
  BY <1>1, <1>4, <1>5, <1>6, <1>7 DEF Bit
<1>8. CASE IsInput(w, role) /\ ~acc
  BY <1>1, <1>4, <1>5, <1>6, <1>8 DEF Bit
<1>9. CASE ~IsInput(w, role) /\ acc
  BY <1>1, <1>4, <1>6, <1>9 DEF Bit
<1>10. CASE ~IsInput(w, role) /\ ~acc
  BY <1>1, <1>4, <1>6, <1>10 DEF Bit
<1>11. QED
  BY <1>7, <1>8, <1>9, <1>10

\* A word that cannot be anchored leaves the tuple it started from unbalanced.
LEMMA WordUnbalanced ==
  ASSUME NEW t, NEW start, NEW mem, NEW keys, NEW given, NEW role,
         Published(t, start, mem, given, role), NEW w \in Word,
         \/ t.last[w] > 0 /\ w \notin RwWord
         \/ role.is_first /\ w \in InputWord /\ ~(t.last[w] > 0 <=> w \in given)
  PROVE  \E x \in Tuple : MemorySum(x, t, start, mem, keys, given, role) # 0
<1> DEFINE x == <<w, 0, start[w]>>
           acc == t.last[w] > 0
           fr == Frontier(x, t, mem)
           og == Origin(x, start)
           E == w \in Entries(t, keys)
           Ini == IncludeInitial(w, role)
           Fin == IncludeFinal(w, t, mem, role)
           PI == w \in PublicInput(given, role)
           PO == w \in PublicOutput(mem, role)
<1>1. x \in Tuple /\ x[1] = w
  BY TracerAssumption DEF Tuple, Loc, Clk, Published, Contents
<1>2. acc \/ (t.last[w] = 0 /\ mem[w] = start[w])
  BY WordFacts
<1>3. og /\ (fr <=> ~acc)
  BY <1>2 DEF Origin, Frontier
<1>4. MemorySum(x, t, start, mem, keys, given, role)
        = Bit(fr) - Bit(og) + Bit(E /\ Ini /\ og) - Bit(E /\ Fin /\ fr)
          + Bit(PI /\ og) - Bit(PO /\ fr)
  BY <1>1, WordSum
<1>5. /\ Ini <=> ~IsInput(w, role)
      /\ Fin <=> IF IsInput(w, role) THEN acc ELSE ~PO
      /\ PI <=> role.is_first /\ w \in given
      /\ PI => IsInput(w, role) /\ w \in RwWord
      /\ PO => ~IsInput(w, role)
      /\ PO => acc
      /\ E => w \in RwWord
  BY Regions, WordFacts DEF IncludeInitial, IncludeFinal, IsInput, Entries
<1> HIDE DEF x, acc, fr, og, E, Ini, Fin, PI, PO
<1>6. CASE acc /\ w \notin RwWord
  BY <1>1, <1>3, <1>4, <1>5, <1>6 DEF Bit
<1>7. CASE role.is_first /\ w \in InputWord /\ acc /\ w \notin given
  BY <1>1, <1>3, <1>4, <1>5, <1>7 DEF Bit, IsInput
<1>8. CASE role.is_first /\ w \in InputWord /\ ~acc /\ w \in given
  BY <1>1, <1>3, <1>4, <1>5, <1>8 DEF Bit, IsInput
<1>9. QED
  BY <1>6, <1>7, <1>8 DEF acc

\* The rows and the public data of a segment cancel exactly when its guest touched what
\* can be anchored, in every role, whatever words the memory has bytes for.
LEMMA BalanceExact ==
  ASSUME NEW t, NEW start, NEW mem, NEW keys, NEW given, NEW role,
         Published(t, start, mem, given, role)
  PROVE  (\A x \in Tuple : MemorySum(x, t, start, mem, keys, given, role) = 0)
           <=> Anchorable(Touched(t), given, role)
<1>1. ASSUME Anchorable(Touched(t), given, role), NEW x \in Tuple
      PROVE  MemorySum(x, t, start, mem, keys, given, role) = 0
  <2>1. x[1] \in Reg \/ x[1] \in Word
    BY DEF Tuple, Loc
  <2>2. QED
    BY <1>1, <2>1, RegSum, WordBalanced
<1>2. ASSUME ~Anchorable(Touched(t), given, role)
      PROVE  \E x \in Tuple : MemorySum(x, t, start, mem, keys, given, role) # 0
  <2>1. given \subseteq InputWord /\ InputWord \subseteq Word
    BY Regions DEF Published
  <2>2. PICK w \in Word :
          \/ t.last[w] > 0 /\ w \notin RwWord
          \/ role.is_first /\ w \in InputWord /\ ~(t.last[w] > 0 <=> w \in given)
    BY <1>2, <2>1 DEF Anchorable, Touched
  <2>3. QED
    BY <2>2, WordUnbalanced
<1>3. QED
  BY <1>1, <1>2
=============================================================================
