---------------------------- MODULE BindingProofs ----------------------------
(***************************************************************************)
(* Proofs that the draws of Transcript bind the pieces mixed before them.  *)
(* A digest is its place in the table of hashed pairs, and a pair is only  *)
(* hashed once its digest is there: going back from a digest there is one  *)
(* way to where the reader started, so that two proofs that lead to it     *)
(* were mixed by the same calls.                                           *)
(***************************************************************************)
EXTENDS TranscriptProofs

-----------------------------------------------------------------------------
(* Tables in which every pair continues an earlier digest.                   *)

Grounded(t) == IsTable(t) /\ \A k \in 1 .. Len(t) : t[k][1] \in 0 .. k - 1

LEMMA GroundedEmpty == Grounded(<<>>)
<1>1. <<>> \in Seq({})
  OBVIOUS
<1> QED BY <1>1 DEF Grounded, IsTable

\* A known pair is deeper in the table than its digest.
LEMMA Deeper ==
  ASSUME NEW t, Grounded(t), NEW d, NEW words, Known(t, <<d, words>>)
  PROVE  LET e == IdOf(t, <<d, words>>)
         IN  e \in 1 .. Len(t) /\ t[e] = <<d, words>> /\ d \in 0 .. e - 1
<1>1. Len(t) \in Nat
  BY TableLength DEF Grounded
<1> DEFINE e == IdOf(t, <<d, words>>)
<1>2. e \in 1 .. Len(t) /\ t[e] = <<d, words>>
  BY <1>1, PlaceOf
<1> HIDE DEF e
<1>3. t[e][1] \in 0 .. e - 1
  BY <1>2 DEF Grounded
<1> QED BY <1>2, <1>3 DEF e

\* Adding a pair whose digest is there.
LEMMA GroundedAppend ==
  ASSUME NEW t, Grounded(t), NEW d \in 0 .. Len(t), NEW words
  PROVE  Grounded(Append(t, <<d, words>>)) /\ Len(Append(t, <<d, words>>)) = Len(t) + 1
<1> DEFINE pair == <<d, words>>
<1>1. PICK S : t \in Seq(S)
  BY DEF Grounded, IsTable
<1>2. /\ Append(t, pair) \in Seq(S \cup {pair})
      /\ Len(Append(t, pair)) = Len(t) + 1
      /\ \A i \in 1 .. Len(t) : Append(t, pair)[i] = t[i]
      /\ Append(t, pair)[Len(t) + 1] = pair
  BY <1>1, Appended
<1>3. pair[1] = d /\ Len(t) \in Nat
  BY <1>1
<1> HIDE DEF pair
<1>4. ASSUME NEW k \in 1 .. Len(t) + 1 PROVE Append(t, pair)[k][1] \in 0 .. k - 1
  <2>1. CASE k = Len(t) + 1
    <3>1. Append(t, pair)[k] = pair
      BY <1>2, <2>1
    <3> QED BY <1>3, <2>1, <3>1
  <2>2. CASE k # Len(t) + 1
    <3>1. k \in 1 .. Len(t)
      BY <1>3, <2>2
    <3>2. Append(t, pair)[k] = t[k]
      BY <1>2, <3>1
    <3> QED BY <3>1, <3>2 DEF Grounded
  <2> QED BY <2>1, <2>2
<1>5. IsTable(Append(t, pair))
  BY <1>2 DEF IsTable
<1> QED BY <1>2, <1>4, <1>5 DEF Grounded, pair

\* mix_words, once, on a grounded table: a pair nobody hashed ends up at the end.
LEMMA HashedGrounded ==
  ASSUME NEW s, Grounded(s.table), s.digest \in 0 .. Len(s.table), NEW words
  PROVE  LET h == Hashed(s, words)
         IN  /\ Grounded(h.table) /\ h.digest \in 1 .. Len(h.table)
             /\ s.digest = Len(s.table) => h.digest = Len(h.table)
<1> DEFINE pair == <<s.digest, words>>
<1> DEFINE h == Hashed(s, words)
<1>0. IsTable(s.table)
  BY DEF Grounded
<1>1. IsTable(h.table) /\ Known(h.table, pair) /\ h.digest = IdOf(h.table, pair)
  BY <1>0, HashedLeads
<1>2. Len(s.table) \in Nat
  BY <1>0, TableLength
<1>3. CASE Known(s.table, pair)
  <2>1. h.table = s.table
    BY <1>3 DEF Hashed
  <2>2. h.digest \in 1 .. Len(s.table) /\ s.digest \in 0 .. h.digest - 1
    BY <1>3, <1>1, <2>1, Deeper
  <2> QED BY <1>2, <2>1, <2>2
<1>4. CASE ~ Known(s.table, pair)
  <2>1. h.table = Append(s.table, pair)
    BY <1>4 DEF Hashed
  <2>2. Grounded(h.table) /\ Len(h.table) = Len(s.table) + 1
    BY <2>1, GroundedAppend
  <2>3. h.digest \in 1 .. Len(h.table) /\ h.table[h.digest] = pair
    BY <1>1, <2>2, Deeper
  <2>4. h.digest \notin 1 .. Len(s.table)
    <3>1. \A i \in 1 .. Len(s.table) : h.table[i] = s.table[i]
      BY <1>0, <2>1, Grown DEF Extends
    <3> HIDE DEF h, pair
    <3> QED BY <1>4, <2>3, <3>1 DEF Known
  <2> HIDE DEF h
  <2>5. h.digest = Len(h.table)
    BY <1>2, <2>2, <2>3, <2>4
  <2> QED BY <2>2, <2>3, <2>5 DEF h
<1> QED BY <1>3, <1>4

\* The calls of a piece, on a grounded table.
LEMMA MixAllGrounded ==
  ASSUME NEW s, Grounded(s.table), s.digest \in 0 .. Len(s.table), NEW calls, Len(calls) \in Nat
  PROVE  LET r == MixAll(s, calls)
         IN  /\ Grounded(r.table) /\ r.digest \in 0 .. Len(r.table)
             /\ s.digest = Len(s.table) => r.digest = Len(r.table)
<1> DEFINE h == MixedAfter(s, calls)
<1> DEFINE Good(x) == /\ Grounded(x.table) /\ x.digest \in 0 .. Len(x.table)
                      /\ s.digest = Len(s.table) => x.digest = Len(x.table)
<1> DEFINE S == {i \in 0 .. Len(calls) : Good(h[i])}
<1>1. h[0] = s /\ \A i \in 1 .. Len(calls) : h[i] = Hashed(h[i - 1], calls[i])
  BY MixedLoop
<1> HIDE DEF h
<1>2. 0 \in S
  BY <1>1
<1>3. \A i \in 0 .. Len(calls) - 1 : i \in S => i + 1 \in S
  <2> TAKE i \in 0 .. Len(calls) - 1
  <2> HAVE i \in S
  <2>1. i + 1 \in 1 .. Len(calls) /\ (i + 1) - 1 = i /\ i + 1 \in 0 .. Len(calls)
    OBVIOUS
  <2>2. h[i + 1] = Hashed(h[i], calls[i + 1])
    BY <1>1, <2>1
  <2>3. Good(h[i])
    OBVIOUS
  <2>4. /\ Grounded(h[i + 1].table) /\ h[i + 1].digest \in 1 .. Len(h[i + 1].table)
        /\ h[i].digest = Len(h[i].table) => h[i + 1].digest = Len(h[i + 1].table)
    BY <2>2, <2>3, HashedGrounded
  <2>5. Good(h[i + 1])
    BY <2>3, <2>4
  <2> QED BY <2>1, <2>5
<1>4. 0 .. Len(calls) \subseteq S
  <2> HIDE DEF S
  <2> QED BY <1>2, <1>3, InductionTo
<1>5. Good(h[Len(calls)])
  BY <1>4
<1>6. MixAll(s, calls) = h[Len(calls)]
  BY DEF MixAll, h
<1> QED BY <1>5, <1>6

-----------------------------------------------------------------------------
(* Going back from a digest.                                                 *)

\* Every call leads deeper into the table.
Climbs(t, calls, w) ==
  \A j \in 1 .. Len(calls) :
    w[j] \in 1 .. Len(t) /\ t[w[j]] = <<w[j - 1], calls[j]>> /\ w[j - 1] \in 0 .. w[j] - 1

LEMMA WalkUp ==
  ASSUME NEW t, Grounded(t), NEW d, NEW calls, Len(calls) \in Nat, NEW e, NEW w, Walk(t, d, calls, e, w)
  PROVE  Climbs(t, calls, w)
<1> SUFFICES ASSUME NEW j \in 1 .. Len(calls)
             PROVE  w[j] \in 1 .. Len(t) /\ t[w[j]] = <<w[j - 1], calls[j]>> /\ w[j - 1] \in 0 .. w[j] - 1
  BY DEF Climbs
<1>1. Known(t, <<w[j - 1], calls[j]>>) /\ w[j] = IdOf(t, <<w[j - 1], calls[j]>>)
  BY DEF Walk
<1> QED BY <1>1, Deeper

LEMMA WalkBeyond ==
  ASSUME NEW t, Grounded(t), NEW d \in Nat, NEW calls, Len(calls) \in Nat, NEW e, NEW w, Walk(t, d, calls, e, w)
  PROVE  \A j \in 1 .. Len(calls) : w[j] \in Nat /\ w[j] > d
<1> DEFINE S == {i \in 0 .. Len(calls) : w[i] \in Nat /\ (i > 0 => w[i] > d) /\ (i = 0 => w[i] = d)}
<1>1. 0 \in S
  BY DEF Walk
<1>2. \A i \in 0 .. Len(calls) - 1 : i \in S => i + 1 \in S
  <2> TAKE i \in 0 .. Len(calls) - 1
  <2> HAVE i \in S
  <2>1. i + 1 \in 1 .. Len(calls) /\ (i + 1) - 1 = i /\ i + 1 \in 0 .. Len(calls)
    OBVIOUS
  <2>2. Len(t) \in Nat
    BY TableLength DEF Grounded
  <2>3. w[i + 1] \in 1 .. Len(t) /\ w[i] \in 0 .. w[i + 1] - 1
    BY <2>1, WalkUp DEF Climbs
  <2> QED BY <2>1, <2>2, <2>3
<1>3. 0 .. Len(calls) \subseteq S
  <2> HIDE DEF S
  <2> QED BY <1>1, <1>2, InductionTo
<1> QED BY <1>3

\* The last n of two lists of calls, and the digests around them, are the same.
Meet(w, v, c, b, n) ==
  /\ \A i \in 0 .. n : w[Len(c) - i] = v[Len(b) - i]
  /\ \A i \in 0 .. n - 1 : c[Len(c) - i] = b[Len(b) - i]

\* Two lists of calls that end at one digest agree from their ends backwards.
LEMMA WalksMeet ==
  ASSUME NEW t, Grounded(t), NEW c, Len(c) \in Nat, NEW b, Len(b) \in Nat, NEW d, NEW f, NEW e, NEW w, NEW v,
         Walk(t, d, c, e, w), Walk(t, f, b, e, v), NEW n \in Nat, n <= Len(c), n <= Len(b)
  PROVE  Meet(w, v, c, b, n)
<1>0. Climbs(t, c, w) /\ Climbs(t, b, v)
  BY WalkUp
<1> DEFINE Same(i) == /\ w[Len(c) - i] = v[Len(b) - i]
                      /\ \A h \in 0 .. i - 1 : c[Len(c) - h] = b[Len(b) - h]
<1> DEFINE S == {i \in 0 .. n : Same(i)}
<1>1. 0 \in S
  <2>1. Len(c) - 0 = Len(c) /\ Len(b) - 0 = Len(b)
    OBVIOUS
  <2> QED BY <2>1 DEF Walk
<1>2. ASSUME NEW i \in 0 .. n - 1, Same(i) PROVE Same(i + 1)
  <2>1. PICK j : j = Len(c) - i
    OBVIOUS
  <2>2. PICK k : k = Len(b) - i
    OBVIOUS
  <2>3. /\ j \in 1 .. Len(c) /\ k \in 1 .. Len(b)
        /\ Len(c) - (i + 1) = j - 1 /\ Len(b) - (i + 1) = k - 1
    BY <2>1, <2>2
  <2>4. w[j] = v[k]
    BY <1>2, <2>1, <2>2
  <2>5. t[w[j]] = <<w[j - 1], c[j]>>
    BY <2>3, <1>0 DEF Climbs
  <2>6. t[v[k]] = <<v[k - 1], b[k]>>
    BY <2>3, <1>0 DEF Climbs
  <2>7. w[j - 1] = v[k - 1] /\ c[j] = b[k]
    BY <2>4, <2>5, <2>6
  <2>8. \A h \in 0 .. (i + 1) - 1 : c[Len(c) - h] = b[Len(b) - h]
    <3> TAKE h \in 0 .. (i + 1) - 1
    <3>1. CASE h = i
      BY <3>1, <2>1, <2>2, <2>7
    <3>2. CASE h # i
      <4>1. h \in 0 .. i - 1
        BY <3>2
      <4> QED BY <4>1, <1>2
    <3> QED BY <3>1, <3>2
  <2> QED BY <2>3, <2>7, <2>8
<1>3. \A i \in 0 .. n - 1 : i \in S => i + 1 \in S
  <2> HIDE DEF Same
  <2> QED BY <1>2
<1>4. 0 .. n \subseteq S
  <2> HIDE DEF S
  <2> QED BY <1>1, <1>3, InductionTo
<1>5. Same(n) /\ \A i \in 0 .. n : Same(i)
  <2> HIDE DEF Same
  <2> QED BY <1>4
<1> QED BY <1>5 DEF Meet

\* Equally many calls to one digest: they are the same calls, from the same digest.
LEMMA LeadsBack ==
  ASSUME NEW t, Grounded(t), NEW c, Len(c) \in Nat, NEW b, Len(b) = Len(c), NEW d, NEW f, NEW e,
         Leads(t, d, c, e), Leads(t, f, b, e)
  PROVE  d = f /\ \A j \in 1 .. Len(c) : c[j] = b[j]
<1>1. PICK w : Walk(t, d, c, e, w)
  BY DEF Leads
<1>2. PICK v : Walk(t, f, b, e, v)
  BY DEF Leads
<1>3. /\ \A i \in 0 .. Len(c) : w[Len(c) - i] = v[Len(c) - i]
      /\ \A i \in 0 .. Len(c) - 1 : c[Len(c) - i] = b[Len(c) - i]
  <2> DEFINE n == Len(c)
  <2>1. n \in Nat /\ n <= Len(c) /\ n <= Len(b) /\ Len(b) \in Nat
    OBVIOUS
  <2> HIDE DEF n
  <2>2. Meet(w, v, c, b, n)
    BY <1>1, <1>2, <2>1, WalksMeet
  <2> QED BY <2>2 DEF n, Meet
<1>4. d = f
  <2>1. Len(c) \in 0 .. Len(c) /\ Len(c) - Len(c) = 0
    OBVIOUS
  <2>2. w[0] = v[0]
    BY <1>3, <2>1
  <2> QED BY <1>1, <1>2, <2>2 DEF Walk
<1>5. ASSUME NEW j \in 1 .. Len(c) PROVE c[j] = b[j]
  <2>1. Len(c) - j \in 0 .. Len(c) - 1 /\ Len(c) - (Len(c) - j) = j
    OBVIOUS
  <2> QED BY <1>3, <2>1
<1> QED BY <1>4, <1>5

\* Calls from one digest to one digest: there is one list of them.
LEMMA LeadsOneWay ==
  ASSUME NEW t, Grounded(t), NEW c, Len(c) \in Nat, NEW b, Len(b) \in Nat, NEW d \in Nat, NEW e,
         Leads(t, d, c, e), Leads(t, d, b, e), Len(c) <= Len(b)
  PROVE  Len(c) = Len(b) /\ \A j \in 1 .. Len(c) : c[j] = b[j]
<1>1. PICK w : Walk(t, d, c, e, w)
  BY DEF Leads
<1>2. PICK v : Walk(t, d, b, e, v)
  BY DEF Leads
<1>3. w[Len(c) - Len(c)] = v[Len(b) - Len(c)]
  <2>1. Meet(w, v, c, b, Len(c))
    BY <1>1, <1>2, WalksMeet
  <2> QED BY <2>1 DEF Meet
<1>4. v[Len(b) - Len(c)] = d
  BY <1>1, <1>3 DEF Walk
<1>5. Len(b) = Len(c)
  <2> SUFFICES ASSUME Len(b) # Len(c) PROVE FALSE
    OBVIOUS
  <2>1. Len(b) - Len(c) \in 1 .. Len(b)
    OBVIOUS
  <2>2. v[Len(b) - Len(c)] > d
    BY <1>2, <2>1, WalkBeyond
  <2> QED BY <1>4, <2>2
<1> QED BY <1>5, LeadsBack

LEMMA LeadsSame ==
  ASSUME NEW t, Grounded(t), NEW c, Len(c) \in Nat, NEW b, Len(b) \in Nat, NEW d \in Nat, NEW e,
         Leads(t, d, c, e), Leads(t, d, b, e)
  PROVE  Len(c) = Len(b) /\ \A j \in 1 .. Len(c) : c[j] = b[j]
<1>1. CASE Len(c) <= Len(b)
  BY <1>1, LeadsOneWay
<1>2. CASE Len(b) <= Len(c)
  <2>1. Len(b) = Len(c) /\ \A j \in 1 .. Len(b) : b[j] = c[j]
    BY <1>2, LeadsOneWay
  <2> QED BY <2>1
<1> QED BY <1>1, <1>2

\* The last of the calls is what the table holds at their digest.
LEMMA LeadsLast ==
  ASSUME NEW t, Grounded(t), NEW c, Len(c) \in Nat \ {0}, NEW d, NEW e, Leads(t, d, c, e)
  PROVE  e \in 1 .. Len(t) /\ t[e][2] = c[Len(c)]
<1>1. PICK w : Walk(t, d, c, e, w)
  BY DEF Leads
<1>2. Len(c) \in 1 .. Len(c)
  OBVIOUS
<1>3. Climbs(t, c, w)
  <2>1. Len(c) \in Nat
    OBVIOUS
  <2> QED BY <1>1, <2>1, WalkUp
<1>4. w[Len(c)] = e
  BY <1>1 DEF Walk
<1> QED BY <1>2, <1>3, <1>4 DEF Climbs

\* Where a list of calls ends is in the table, or where it started.
LEMMA LeadsIn ==
  ASSUME NEW t, Grounded(t), NEW c, Len(c) \in Nat, NEW d \in 0 .. Len(t), NEW e, Leads(t, d, c, e)
  PROVE  e \in 0 .. Len(t)
<1>1. CASE Len(c) = 0
  BY <1>1 DEF Leads, Walk
<1>2. CASE Len(c) # 0
  <2>1. e \in 1 .. Len(t)
    BY <1>2, LeadsLast
  <2> QED BY <2>1
<1> QED BY <1>1, <1>2

-----------------------------------------------------------------------------
(* Lists laid end to end: where each of them is, and that they can be told.  *)

\* Where the parts of a list start.
Offsets(ss, off) ==
  off[0] = 0 /\ \A i \in 1 .. Len(ss) : off[i - 1] \in Nat /\ off[i] = off[i - 1] + Len(ss[i])
Laid(u, ss, off) ==
  /\ IsTable(u) /\ Len(u) = off[Len(ss)]
  /\ \A i \in 1 .. Len(ss) : \A j \in 1 .. Len(ss[i]) : u[off[i - 1] + j] = ss[i][j]

LEMMA FlatParts ==
  ASSUME NEW ss, Len(ss) \in Nat, IsTable(ss), \A i \in 1 .. Len(ss) : IsTable(ss[i])
  PROVE  \E off : Offsets(ss, off) /\ Laid(FlattenSeq(ss), ss, off)
<1>1. CASE Len(ss) = 0
  <2> DEFINE off == [i \in {0} |-> 0]
  <2>1. FlattenSeq(ss) = ss
    BY <1>1 DEF FlattenSeq
  <2>2. Offsets(ss, off) /\ Laid(ss, ss, off)
    BY <1>1 DEF Offsets, Laid
  <2> HIDE DEF off
  <2> QED BY <2>1, <2>2
<1>2. CASE Len(ss) # 0
  <2>1. PICK f : /\ FlattenSeq(ss) = f[Len(ss)]
                 /\ \A i \in 1 .. Len(ss) : f[i] = IF i = 1 THEN ss[i] ELSE Join(f[i - 1], ss[i])
    BY <1>2, FlatLoop
  <2> DEFINE off == [i \in 0 .. Len(ss) |-> IF i = 0 THEN 0 ELSE Len(f[i])]
  <2>2. off[0] = 0 /\ \A i \in 1 .. Len(ss) : off[i] = Len(f[i])
    OBVIOUS
  <2> HIDE DEF off
  <2> DEFINE Good(n) == /\ off[n] \in Nat
                        /\ n > 0 => IsTable(f[n]) /\ off[n] = off[n - 1] + Len(ss[n])
                        /\ \A i \in 1 .. n : off[i - 1] \in Nat /\ off[i - 1] + Len(ss[i]) <= off[n]
                        /\ \A i \in 1 .. n : \A j \in 1 .. Len(ss[i]) : f[n][off[i - 1] + j] = ss[i][j]
  <2> DEFINE T == {n \in 0 .. Len(ss) : Good(n)}
  <2>3. \A i \in 1 .. Len(ss) : Len(ss[i]) \in Nat
    BY TableLength
  <2>4. 0 \in T
    BY <2>2
  <2>5. ASSUME NEW n \in 0 .. Len(ss) - 1, Good(n) PROVE Good(n + 1)
    <3> DEFINE m == n + 1
    <3>1. m \in 1 .. Len(ss) /\ m - 1 = n
      OBVIOUS
    <3> HIDE DEF m
    <3>2. IsTable(ss[m]) /\ Len(ss[m]) \in Nat /\ off[m] = Len(f[m])
      BY <3>1, <2>2, <2>3
    <3>3. CASE n = 0
      <4>1. f[m] = ss[m] /\ m = 1
        BY <3>1, <3>3, <2>1
      <4>2. off[m] = off[n] + Len(ss[m]) /\ off[n] = 0
        BY <4>1, <3>2, <3>3, <2>2
      <4>3. \A j \in 1 .. Len(ss[1]) : f[m][off[0] + j] = ss[1][j]
        BY <4>1, <2>2, <3>2
      <4>4. Good(m)
        BY <3>1, <3>2, <3>3, <4>1, <4>2, <4>3
      <4> QED BY <4>4 DEF m
    <3>4. CASE n # 0
      <4>1. f[m] = Join(f[n], ss[m]) /\ IsTable(f[n]) /\ n \in 1 .. Len(ss)
        BY <3>1, <3>4, <2>1, <2>5
      <4>2. off[n] = Len(f[n])
        BY <4>1, <2>2
      <4>3. /\ IsTable(f[m]) /\ Len(f[m]) = off[n] + Len(ss[m])
            /\ \A j \in 1 .. off[n] + Len(ss[m]) : f[m][j] = IF j <= off[n] THEN f[n][j] ELSE ss[m][j - off[n]]
        <5>1. IsTable(f[n]) /\ IsTable(ss[m])
          BY <4>1, <3>2
        <5>2. /\ IsTable(Join(f[n], ss[m])) /\ Len(Join(f[n], ss[m])) = Len(f[n]) + Len(ss[m])
              /\ \A j \in 1 .. Len(f[n]) + Len(ss[m]) :
                   Join(f[n], ss[m])[j] = IF j <= Len(f[n]) THEN f[n][j] ELSE ss[m][j - Len(f[n])]
          BY <5>1, Joined
        <5> QED BY <5>2, <4>1, <4>2
      <4>4. off[n] \in Nat
        BY <2>5
      <4>5. ASSUME NEW i \in 1 .. m PROVE off[i - 1] \in Nat /\ off[i - 1] + Len(ss[i]) <= off[m]
        <5>1. CASE i = m
          BY <5>1, <3>1, <3>2, <4>3, <4>4
        <5>2. CASE i # m
          <6>1. i \in 1 .. n /\ i \in 1 .. Len(ss)
            BY <5>2, <3>1
          <6>2. off[i - 1] \in Nat /\ off[i - 1] + Len(ss[i]) <= off[n] /\ Len(ss[i]) \in Nat
            BY <6>1, <2>5, <2>3
          <6> QED BY <6>2, <3>2, <4>3, <4>4
        <5> QED BY <5>1, <5>2
      <4>6. ASSUME NEW i \in 1 .. m, NEW j \in 1 .. Len(ss[i]) PROVE f[m][off[i - 1] + j] = ss[i][j]
        <5>1. CASE i = m
          <6>1. off[n] + j \in 1 .. off[n] + Len(ss[m]) /\ ~ (off[n] + j <= off[n]) /\ (off[n] + j) - off[n] = j
            BY <5>1, <3>2, <4>4
          <6>2. f[m][off[n] + j] = ss[m][j]
            BY <6>1, <4>3
          <6> QED BY <6>2, <5>1, <3>1
        <5>2. CASE i # m
          <6>1. i \in 1 .. n /\ i \in 1 .. Len(ss)
            BY <5>2, <3>1
          <6>2. off[i - 1] \in Nat /\ off[i - 1] + Len(ss[i]) <= off[n] /\ Len(ss[i]) \in Nat
            BY <6>1, <2>5, <2>3
          <6>3. off[i - 1] + j \in 1 .. off[n] + Len(ss[m]) /\ off[i - 1] + j <= off[n]
            <7>1. j \in Nat /\ 1 <= j /\ j <= Len(ss[i])
              BY <6>2
            <7>2. off[i - 1] + j \in Nat /\ 1 <= off[i - 1] + j /\ off[i - 1] + j <= off[n]
              BY <7>1, <6>2, <4>4
            <7> QED BY <7>2, <3>2, <4>4
          <6>4. f[m][off[i - 1] + j] = f[n][off[i - 1] + j]
            BY <6>3, <4>3
          <6>5. f[n][off[i - 1] + j] = ss[i][j]
            BY <6>1, <2>5
          <6> QED BY <6>4, <6>5
        <5> QED BY <5>1, <5>2
      <4>7. off[m] \in Nat /\ off[m] = off[m - 1] + Len(ss[m])
        BY <3>1, <3>2, <4>3, <4>4
      <4>8. Good(m)
        BY <3>1, <4>3, <4>5, <4>6, <4>7
      <4> QED BY <4>8 DEF m
    <3> QED BY <3>3, <3>4
  <2>6. \A n \in 0 .. Len(ss) - 1 : n \in T => n + 1 \in T
    <3> HIDE DEF Good
    <3> QED BY <2>5
  <2>7. 0 .. Len(ss) \subseteq T
    <3> HIDE DEF T
    <3> QED BY <2>4, <2>6, InductionTo
  <2>8. \A n \in 0 .. Len(ss) : Good(n)
    <3> HIDE DEF Good
    <3> QED BY <2>7
  <2>9. Offsets(ss, off)
    <3>1. ASSUME NEW i \in 1 .. Len(ss) PROVE off[i - 1] \in Nat /\ off[i] = off[i - 1] + Len(ss[i])
      <4>1. Good(i) /\ i \in 1 .. i /\ i > 0
        BY <2>8
      <4> QED BY <4>1
    <3> QED BY <3>1, <2>2 DEF Offsets
  <2>10. Laid(FlattenSeq(ss), ss, off)
    <3>1. Good(Len(ss)) /\ Len(ss) > 0 /\ Len(ss) \in 1 .. Len(ss)
      BY <2>8, <1>2
    <3> QED BY <3>1, <2>1, <2>2 DEF Laid
  <2> QED BY <2>9, <2>10
<1> QED BY <1>1, <1>2

\* If the first entry of a part tells its length, the parts can be told from the whole.
LEMMA FlatTold ==
  ASSUME NEW ss, IsTable(ss), NEW tt, IsTable(tt), Len(ss) = Len(tt), Len(ss) \in Nat,
         \A i \in 1 .. Len(ss) : IsTable(ss[i]) /\ Len(ss[i]) # 0 /\ IsTable(tt[i]) /\ Len(tt[i]) # 0,
         \A i \in 1 .. Len(ss) : ss[i][1] = tt[i][1] => Len(ss[i]) = Len(tt[i]),
         FlattenSeq(ss) = FlattenSeq(tt)
  PROVE  \A i \in 1 .. Len(ss) : ss[i] = tt[i]
<1> DEFINE u == FlattenSeq(ss)
<1>1. PICK a : Offsets(ss, a) /\ Laid(u, ss, a)
  BY FlatParts
<1>2. PICK b : Offsets(tt, b) /\ Laid(u, tt, b)
  BY FlatParts
<1> HIDE DEF u
<1>3. \A i \in 1 .. Len(ss) : Len(ss[i]) \in Nat \ {0} /\ Len(tt[i]) \in Nat \ {0}
  BY TableLength
<1>4. ASSUME NEW i \in 1 .. Len(ss), a[i - 1] = b[i - 1] PROVE Len(ss[i]) = Len(tt[i]) /\ a[i] = b[i]
  <2>1. 1 \in 1 .. Len(ss[i]) /\ 1 \in 1 .. Len(tt[i])
    BY <1>3
  <2>2. u[a[i - 1] + 1] = ss[i][1] /\ u[b[i - 1] + 1] = tt[i][1]
    BY <2>1, <1>1, <1>2 DEF Laid
  <2>3. Len(ss[i]) = Len(tt[i])
    BY <2>2, <1>4
  <2> QED BY <2>3, <1>1, <1>2, <1>4 DEF Offsets
<1> DEFINE T == {i \in 0 .. Len(ss) : a[i] = b[i]}
<1>5. 0 \in T
  BY <1>1, <1>2 DEF Offsets
<1>6. \A i \in 0 .. Len(ss) - 1 : i \in T => i + 1 \in T
  <2> TAKE i \in 0 .. Len(ss) - 1
  <2> HAVE i \in T
  <2>1. i + 1 \in 1 .. Len(ss) /\ (i + 1) - 1 = i /\ i + 1 \in 0 .. Len(ss)
    OBVIOUS
  <2>2. a[i + 1] = b[i + 1]
    BY <2>1, <1>4
  <2> QED BY <2>1, <2>2
<1>7. 0 .. Len(ss) \subseteq T
  <2> HIDE DEF T
  <2> QED BY <1>5, <1>6, InductionTo
<1>8. ASSUME NEW i \in 1 .. Len(ss) PROVE ss[i] = tt[i]
  <2>1. i - 1 \in 0 .. Len(ss) /\ a[i - 1] = b[i - 1]
    BY <1>7
  <2>2. Len(ss[i]) = Len(tt[i])
    BY <2>1, <1>4
  <2>3. \A j \in 1 .. Len(ss[i]) : ss[i][j] = tt[i][j]
    BY <2>1, <2>2, <1>1, <1>2 DEF Laid
  <2> QED BY <2>2, <2>3, TableSame
<1> QED BY <1>8

\* Parts of one length.
Even(u, ss, n) ==
  /\ IsTable(u) /\ Len(u) = n * Len(ss)
  /\ \A i \in 1 .. Len(ss) : \A j \in 1 .. n : u[n * (i - 1) + j] = ss[i][j]

LEMMA FlatEven ==
  ASSUME NEW ss, IsTable(ss), Len(ss) \in Nat, NEW n \in Nat,
         \A i \in 1 .. Len(ss) : IsTable(ss[i]) /\ Len(ss[i]) = n
  PROVE  Even(FlattenSeq(ss), ss, n)
<1> DEFINE u == FlattenSeq(ss)
<1>1. PICK a : Offsets(ss, a) /\ Laid(u, ss, a)
  BY FlatParts
<1> HIDE DEF u
<1> DEFINE T == {i \in 0 .. Len(ss) : a[i] = n * i}
<1>2. 0 \in T
  BY <1>1 DEF Offsets
<1>3. \A i \in 0 .. Len(ss) - 1 : i \in T => i + 1 \in T
  <2> TAKE i \in 0 .. Len(ss) - 1
  <2> HAVE i \in T
  <2>1. i + 1 \in 1 .. Len(ss) /\ (i + 1) - 1 = i /\ i + 1 \in 0 .. Len(ss) /\ n * (i + 1) = n * i + n
    OBVIOUS
  <2>2. a[i + 1] = a[i] + n
    BY <2>1, <1>1 DEF Offsets
  <2> QED BY <2>1, <2>2
<1>4. 0 .. Len(ss) \subseteq T
  <2> HIDE DEF T
  <2> QED BY <1>2, <1>3, InductionTo
<1>5. ASSUME NEW i \in 1 .. Len(ss), NEW j \in 1 .. n PROVE u[n * (i - 1) + j] = ss[i][j]
  <2>1. i - 1 \in 0 .. Len(ss)
    OBVIOUS
  <2>2. a[i - 1] = n * (i - 1)
    BY <2>1, <1>4
  <2> QED BY <2>2, <1>1 DEF Laid
<1>6. Len(u) = n * Len(ss) /\ IsTable(u)
  <2>1. Len(ss) \in T
    BY <1>4
  <2> QED BY <2>1, <1>1 DEF Laid
<1> QED BY <1>5, <1>6 DEF u, Even

\* What is put in front stays in front.
Headed(u, s, t) ==
  /\ IsTable(u) /\ Len(u) = Len(s) + Len(t) /\ Len(s) \in Nat /\ Len(t) \in Nat
  /\ \A j \in 1 .. Len(s) : u[j] = s[j]

LEMMA HeadStays ==
  ASSUME NEW s, IsTable(s), NEW t, IsTable(t)
  PROVE  Headed(Join(s, t), s, t)
<1>1. /\ IsTable(Join(s, t)) /\ Len(Join(s, t)) = Len(s) + Len(t) /\ Len(s) \in Nat /\ Len(t) \in Nat
      /\ \A j \in 1 .. Len(s) + Len(t) : Join(s, t)[j] = IF j <= Len(s) THEN s[j] ELSE t[j - Len(s)]
  BY Joined
<1>2. ASSUME NEW j \in 1 .. Len(s) PROVE Join(s, t)[j] = s[j]
  <2>1. j \in 1 .. Len(s) + Len(t) /\ j <= Len(s)
    BY <1>1
  <2> QED BY <1>1, <2>1
<1> QED BY <1>1, <1>2 DEF Headed

\* Two lists after heads of one length.
LEMMA JoinTold ==
  ASSUME NEW a, IsTable(a), NEW b, IsTable(b), NEW s, IsTable(s), NEW t, IsTable(t),
         Len(a) = Len(b), Join(a, s) = Join(b, t)
  PROVE  a = b /\ s = t
<1> DEFINE u == Join(a, s)
<1>1. /\ Len(u) = Len(a) + Len(s) /\ Len(a) \in Nat /\ Len(s) \in Nat
      /\ \A j \in 1 .. Len(a) + Len(s) : u[j] = IF j <= Len(a) THEN a[j] ELSE s[j - Len(a)]
  BY Joined
<1>2. /\ Len(u) = Len(b) + Len(t) /\ Len(t) \in Nat
      /\ \A j \in 1 .. Len(b) + Len(t) : u[j] = IF j <= Len(b) THEN b[j] ELSE t[j - Len(b)]
  <2>1. /\ Len(Join(b, t)) = Len(b) + Len(t) /\ Len(t) \in Nat
        /\ \A j \in 1 .. Len(b) + Len(t) : Join(b, t)[j] = IF j <= Len(b) THEN b[j] ELSE t[j - Len(b)]
    BY Joined
  <2>2. u = Join(b, t)
    OBVIOUS
  <2> HIDE DEF u
  <2> QED BY <2>1, <2>2
<1> HIDE DEF u
<1>3. Len(s) = Len(t)
  BY <1>1, <1>2
<1>4. \A j \in 1 .. Len(a) : a[j] = b[j]
  BY <1>1, <1>2
<1>5. ASSUME NEW j \in 1 .. Len(s) PROVE s[j] = t[j]
  <2>1. Len(a) + j \in 1 .. Len(a) + Len(s) /\ ~ (Len(a) + j <= Len(a)) /\ (Len(a) + j) - Len(a) = j
    BY <1>1
  <2> QED BY <2>1, <1>1, <1>2, <1>3
<1> QED BY <1>3, <1>4, <1>5, TableSame

-----------------------------------------------------------------------------
(* The words of a call tell what was put into it.                            *)

LEMMA DivisionTells ==
  ASSUME NEW h \in Nat, h > 1, NEW v \in Nat, NEW w \in Nat, v % h = w % h, v \div h = w \div h
  PROVE  v = w
  OBVIOUS

LEMMA HalvesTell ==
  ASSUME NEW v \in Nat, NEW w \in Nat, U32(v) = U32(w)
  PROVE  v = w
<1>1. v % Half = w % Half /\ v \div Half = w \div Half
  BY DEF U32
<1>2. Half \in Nat /\ Half > 1
  BY NumbersAre
<1> QED BY <1>1, <1>2, DivisionTells

Halves(u, s) ==
  /\ IsTable(u) /\ Len(u) = 2 * Len(s)
  /\ \A i \in 1 .. Len(s) : u[2 * (i - 1) + 1] = U32(s[i])[1] /\ u[2 * (i - 1) + 2] = U32(s[i])[2]

LEMMA U32sAre ==
  ASSUME NEW s, IsTable(s)
  PROVE  Halves(U32s(s), s)
<1> DEFINE ss == [i \in 1 .. Len(s) |-> U32(s[i])]
<1>1. Len(s) \in Nat
  BY TableLength
<1>2. IsTable(ss) /\ Len(ss) = Len(s)
  BY <1>1, TableOf
<1>3. \A i \in 1 .. Len(ss) : IsTable(ss[i]) /\ Len(ss[i]) = 2
  BY <1>2, Parts DEF U32
<1>4. \A i \in 1 .. Len(s) : ss[i] = U32(s[i])
  OBVIOUS
<1> HIDE DEF ss
<1>5. Even(FlattenSeq(ss), ss, 2)
  BY <1>1, <1>2, <1>3, FlatEven
<1>6. U32s(s) = FlattenSeq(ss)
  BY DEF U32s, ss
<1>7. 1 \in 1 .. 2 /\ 2 \in 1 .. 2
  OBVIOUS
<1> QED BY <1>2, <1>4, <1>5, <1>6, <1>7 DEF Even, Halves

LEMMA ListIs ==
  ASSUME NEW S, NEW s \in Seq(S)
  PROVE  IsTable(s) /\ Len(s) \in Nat /\ \A i \in 1 .. Len(s) : s[i] \in S
  BY DEF IsTable

LEMMA U32sTell ==
  ASSUME NEW s \in Seq(Nat), NEW t \in Seq(Nat), U32s(s) = U32s(t)
  PROVE  s = t
<1>1. /\ IsTable(s) /\ Len(s) \in Nat /\ \A i \in 1 .. Len(s) : s[i] \in Nat
      /\ IsTable(t) /\ Len(t) \in Nat /\ \A i \in 1 .. Len(t) : t[i] \in Nat
  BY ListIs
<1>2. Len(s) = Len(t)
  <2>1. 2 * Len(s) = 2 * Len(t)
    BY <1>1, U32sAre DEF Halves
  <2> QED BY <1>1, <2>1
<1>3. ASSUME NEW i \in 1 .. Len(s) PROVE s[i] = t[i]
  <2>1. s[i] \in Nat /\ t[i] \in Nat
    BY <1>1, <1>2
  <2>2. U32(s[i])[1] = U32(t[i])[1] /\ U32(s[i])[2] = U32(t[i])[2]
    <3>1. Halves(U32s(s), s) /\ Halves(U32s(t), t)
      BY <1>1, U32sAre
    <3> QED BY <1>2, <3>1 DEF Halves
  <2>3. U32(s[i]) = U32(t[i])
    BY <2>2 DEF U32
  <2> QED BY <2>1, <2>3, HalvesTell
<1> QED BY <1>1, <1>2, <1>3, TableSame

LEMMA FeltsTell ==
  ASSUME NEW s, IsTable(s), NEW t, IsTable(t), Felts(s) = Felts(t)
  PROVE  s = t
<1>1. Len(s) \in Nat /\ Len(t) \in Nat
  BY TableLength
<1>2. Len(Felts(s)) = Len(s) /\ Len(Felts(t)) = Len(t)
  BY <1>1 DEF Felts
<1>3. ASSUME NEW i \in 1 .. Len(s) PROVE s[i] = t[i]
  <2>1. Felts(s)[i] = <<"f", s[i]>> /\ Felts(t)[i] = <<"f", t[i]>>
    BY <1>2 DEF Felts
  <2> QED BY <2>1
<1> QED BY <1>2, <1>3, TableSame

LEMMA U64Tell ==
  ASSUME NEW v \in Nat
  PROVE  Len(U64(v)) = 4 /\ \A w \in Nat : U64(v) = U64(w) => v = w
<1>1. \A x \in Nat : <<x, 0>> \in Seq(Nat) /\ Len(<<x, 0>>) = 2
  OBVIOUS
<1>2. Len(U64(v)) = 4
  <2>1. IsTable(<<v, 0>>) /\ Len(<<v, 0>>) = 2
    BY Parts
  <2>2. Halves(U32s(<<v, 0>>), <<v, 0>>)
    BY <2>1, U32sAre
  <2> QED BY <2>1, <2>2 DEF U64, Halves
<1>3. ASSUME NEW w \in Nat, U64(v) = U64(w) PROVE v = w
  <2>1. <<v, 0>> = <<w, 0>>
    BY <1>1, <1>3, U32sTell DEF U64
  <2> QED BY <2>1
<1> QED BY <1>2, <1>3

LEMMA TuplesAre ==
  /\ \A a, b \in Nat : <<a, b>> \in Seq(Nat)
  /\ \A a, b, c \in Nat : <<a, b, c>> \in Seq(Nat)
  /\ \A a, b, c, d \in Nat : <<a, b, c, d>> \in Seq(Nat)
  OBVIOUS

\* A count, and a list of calls for each: what was counted can be told.
Numbered(ss) == Join(<< U32(Len(ss)) >>, FlattenSeq(ss))

LEMMA NumberedCalls ==
  ASSUME NEW ss, IsTable(ss), \A i \in 1 .. Len(ss) : IsTable(ss[i])
  PROVE  IsTable(Numbered(ss)) /\ IsTable(FlattenSeq(ss)) /\ Len(Numbered(ss)) \in Nat \ {0}
<1>1. Len(ss) \in Nat
  BY TableLength
<1>2. IsTable(FlattenSeq(ss))
  BY <1>1, Flat
<1>3. IsTable(<< U32(Len(ss)) >>) /\ Len(<< U32(Len(ss)) >>) = 1
  BY Parts
<1>4. Len(FlattenSeq(ss)) \in Nat
  BY <1>2, TableLength
<1>5. /\ IsTable(Join(<< U32(Len(ss)) >>, FlattenSeq(ss)))
      /\ Len(Join(<< U32(Len(ss)) >>, FlattenSeq(ss))) = 1 + Len(FlattenSeq(ss))
  BY <1>2, <1>3, Joined
<1> QED BY <1>2, <1>4, <1>5 DEF Numbered

LEMMA NumberedTold ==
  ASSUME NEW ss, IsTable(ss), NEW tt, IsTable(tt),
         \A i \in 1 .. Len(ss) : IsTable(ss[i]) /\ Len(ss[i]) # 0,
         \A i \in 1 .. Len(tt) : IsTable(tt[i]) /\ Len(tt[i]) # 0,
         Len(ss) = Len(tt) => \A i \in 1 .. Len(ss) : ss[i][1] = tt[i][1] => Len(ss[i]) = Len(tt[i]),
         Numbered(ss) = Numbered(tt)
  PROVE  Len(ss) = Len(tt) /\ \A i \in 1 .. Len(ss) : ss[i] = tt[i]
<1>1. Len(ss) \in Nat /\ Len(tt) \in Nat
  BY TableLength
<1>2. << U32(Len(ss)) >> = << U32(Len(tt)) >> /\ FlattenSeq(ss) = FlattenSeq(tt)
  <2>1. IsTable(<< U32(Len(ss)) >>) /\ IsTable(<< U32(Len(tt)) >>) /\ Len(<< U32(Len(ss)) >>) = Len(<< U32(Len(tt)) >>)
    BY Parts
  <2>2. IsTable(FlattenSeq(ss)) /\ IsTable(FlattenSeq(tt))
    BY NumberedCalls
  <2>3. Join(<< U32(Len(ss)) >>, FlattenSeq(ss)) = Join(<< U32(Len(tt)) >>, FlattenSeq(tt))
    BY DEF Numbered
  <2> QED BY <2>1, <2>2, <2>3, JoinTold
<1>3. Len(ss) = Len(tt)
  <2>1. U32(Len(ss)) = U32(Len(tt))
    BY <1>2
  <2> QED BY <1>1, <2>1, HalvesTell
<1> QED BY <1>1, <1>2, <1>3, FlatTold

-----------------------------------------------------------------------------
(* The calls that mix a piece tell the piece.  The public data of a run:     *)

DataHead(d) ==
  << U32s(d.cpu), U32s(d.initial_regs), U32s(d.final_regs), U32s(d.reg_last_clock),
     U32s([i \in 1 .. 3 |-> Flag(d.roots[i])]), U32s([i \in 1 .. 3 |-> UnwrapOr0(d.roots[i])]),
     U32s(d.io \o <<Len(d.output_words)>>), U32s(d.input_words) >>
DataTail(d) == [i \in 1 .. Len(d.output_words) |-> U32s(d.output_words[i])]

LEMMA DataParts ==
  ASSUME NEW d \in PublicData
  PROVE  /\ MixPublicData(d) = Join(DataHead(d), DataTail(d))
         /\ IsTable(DataHead(d)) /\ Len(DataHead(d)) = 8
         /\ IsTable(DataTail(d)) /\ Len(DataTail(d)) = Len(d.output_words) /\ Len(d.output_words) \in Nat
<1>1. MixPublicData(d) = Join(DataHead(d), DataTail(d))
  BY DEF MixPublicData, Join, DataHead, DataTail
<1>2. IsTable(DataHead(d)) /\ Len(DataHead(d)) = 8
  <2>1. PICK a, b, c, e, f, g, h, k : DataHead(d) = <<a, b, c, e, f, g, h, k>>
    BY DEF DataHead
  <2>2. <<a, b, c, e, f, g, h, k>> \in Seq({a, b, c, e, f, g, h, k}) /\ Len(<<a, b, c, e, f, g, h, k>>) = 8
    OBVIOUS
  <2> QED BY <2>1, <2>2 DEF IsTable
<1>3. d.output_words \in Seq(Seq(Nat))
  BY DEF PublicData
<1>4. Len(d.output_words) \in Nat
  BY <1>3
<1>5. IsTable(DataTail(d)) /\ Len(DataTail(d)) = Len(d.output_words)
  BY <1>4, TableOf DEF DataTail
<1> QED BY <1>1, <1>2, <1>4, <1>5

\* An optional root is its flag and its value.
Optional == {opt \in Seq(Nat) : Len(opt) <= 1}

LEMMA OptionTells ==
  ASSUME NEW a \in Optional, NEW b \in Optional, Flag(a) = Flag(b), UnwrapOr0(a) = UnwrapOr0(b)
  PROVE  a = b
<1>1. a \in Seq(Nat) /\ b \in Seq(Nat) /\ Len(a) <= 1 /\ Len(b) <= 1
  BY DEF Optional
<1>2. CASE a = <<>>
  BY <1>2 DEF Flag
<1>3. CASE a # <<>>
  <2>1. b # <<>>
    BY <1>3 DEF Flag
  <2>2. a[1] = b[1]
    BY <1>3, <2>1 DEF UnwrapOr0
  <2>3. Len(a) = 1 /\ Len(b) = 1
    <3>1. Len(a) \in Nat /\ (Len(a) = 0 => a = <<>>)
      BY <1>1, ListEmpty
    <3>2. Len(b) \in Nat /\ (Len(b) = 0 => b = <<>>)
      BY <1>1, ListEmpty
    <3>3. Len(a) # 0
      BY <1>3, <3>1
    <3>4. Len(b) # 0
      BY <2>1, <3>2
    <3>5. Len(a) <= 1 /\ Len(b) <= 1
      BY <1>1
    <3>6. \A n \in Nat : n <= 1 /\ n # 0 => n = 1
      OBVIOUS
    <3> QED BY <3>1, <3>2, <3>3, <3>4, <3>5, <3>6
  <2>4. \A i \in 1 .. Len(a) : a[i] = b[i]
    BY <2>2, <2>3
  <2>5. IsTable(a) /\ IsTable(b)
    BY <1>1 DEF IsTable
  <2> QED BY <2>3, <2>4, <2>5, TableSame
<1> QED BY <1>2, <1>3

LEMMA OptionIs ==
  ASSUME NEW a \in Optional
  PROVE  Flag(a) \in Nat /\ UnwrapOr0(a) \in Nat
<1>1. a \in Seq(Nat)
  BY DEF Optional
<1>2. a # <<>> => a[1] \in Nat
  BY <1>1
<1> QED BY <1>2 DEF Flag, UnwrapOr0

LEMMA RootsTell ==
  ASSUME NEW a \in [1 .. 3 -> Optional], NEW b \in [1 .. 3 -> Optional],
         U32s([i \in 1 .. 3 |-> Flag(a[i])]) = U32s([i \in 1 .. 3 |-> Flag(b[i])]),
         U32s([i \in 1 .. 3 |-> UnwrapOr0(a[i])]) = U32s([i \in 1 .. 3 |-> UnwrapOr0(b[i])])
  PROVE  a = b
<1>1. \A i \in 1 .. 3 : /\ a[i] \in Optional /\ Flag(a[i]) \in Nat /\ UnwrapOr0(a[i]) \in Nat
                        /\ b[i] \in Optional /\ Flag(b[i]) \in Nat /\ UnwrapOr0(b[i]) \in Nat
  BY OptionIs
<1>2. /\ [i \in 1 .. 3 |-> Flag(a[i])] \in Seq(Nat) /\ [i \in 1 .. 3 |-> Flag(b[i])] \in Seq(Nat)
      /\ [i \in 1 .. 3 |-> UnwrapOr0(a[i])] \in Seq(Nat) /\ [i \in 1 .. 3 |-> UnwrapOr0(b[i])] \in Seq(Nat)
  BY <1>1
<1>3. [i \in 1 .. 3 |-> Flag(a[i])] = [i \in 1 .. 3 |-> Flag(b[i])]
  BY <1>2, U32sTell
<1>4. [i \in 1 .. 3 |-> UnwrapOr0(a[i])] = [i \in 1 .. 3 |-> UnwrapOr0(b[i])]
  BY <1>2, U32sTell
<1>5. ASSUME NEW i \in 1 .. 3 PROVE a[i] = b[i]
  <2>1. Flag(a[i]) = Flag(b[i])
    BY <1>3
  <2>2. UnwrapOr0(a[i]) = UnwrapOr0(b[i])
    BY <1>4
  <2> QED BY <1>1, <2>1, <2>2, OptionTells
<1> QED BY <1>5

LEMMA IoTells ==
  ASSUME NEW a \in Seq(Nat), NEW b \in Seq(Nat), NEW m \in Nat, NEW n \in Nat, U32s(a \o <<m>>) = U32s(b \o <<n>>)
  PROVE  a = b /\ m = n
<1>1. a \o <<m>> \in Seq(Nat) /\ b \o <<n>> \in Seq(Nat)
  OBVIOUS
<1>2. a \o <<m>> = b \o <<n>>
  BY <1>1, U32sTell
<1>3. IsTable(a) /\ IsTable(b) /\ IsTable(<<m>>) /\ IsTable(<<n>>) /\ Len(<<m>>) = 1 /\ Len(<<n>>) = 1
  BY Parts DEF IsTable
<1>4. Join(a, <<m>>) = Join(b, <<n>>)
  BY <1>2 DEF Join
<1>5. Len(a) \in Nat /\ Len(b) \in Nat /\ Len(Join(a, <<m>>)) = Len(a) + 1 /\ Len(Join(b, <<n>>)) = Len(b) + 1
  BY <1>3, Joined
<1>6. Len(a) = Len(b)
  BY <1>4, <1>5
<1>7. a = b /\ <<m>> = <<n>>
  BY <1>3, <1>4, <1>6, JoinTold
<1> QED BY <1>7

LEMMA PublicDataTells ==
  ASSUME NEW d \in PublicData, NEW e \in PublicData, MixPublicData(d) = MixPublicData(e)
  PROVE  d = e
<1>1. DataHead(d) = DataHead(e) /\ DataTail(d) = DataTail(e)
  BY DataParts, JoinTold
<1>2. /\ U32s(d.cpu) = U32s(e.cpu) /\ U32s(d.initial_regs) = U32s(e.initial_regs)
      /\ U32s(d.final_regs) = U32s(e.final_regs) /\ U32s(d.reg_last_clock) = U32s(e.reg_last_clock)
      /\ U32s([i \in 1 .. 3 |-> Flag(d.roots[i])]) = U32s([i \in 1 .. 3 |-> Flag(e.roots[i])])
      /\ U32s([i \in 1 .. 3 |-> UnwrapOr0(d.roots[i])]) = U32s([i \in 1 .. 3 |-> UnwrapOr0(e.roots[i])])
      /\ U32s(d.io \o <<Len(d.output_words)>>) = U32s(e.io \o <<Len(e.output_words)>>)
      /\ U32s(d.input_words) = U32s(e.input_words)
  BY <1>1 DEF DataHead
<1>3. \A x \in PublicData :
        /\ x.cpu \in Seq(Nat) /\ x.initial_regs \in Seq(Nat) /\ x.final_regs \in Seq(Nat) /\ x.reg_last_clock \in Seq(Nat)
        /\ x.roots \in [1 .. 3 -> Optional] /\ x.io \in Seq(Nat) /\ x.input_words \in Seq(Nat)
        /\ x.output_words \in Seq(Seq(Nat))
        /\ x = [cpu |-> x.cpu, initial_regs |-> x.initial_regs, final_regs |-> x.final_regs,
                reg_last_clock |-> x.reg_last_clock, roots |-> x.roots, io |-> x.io,
                input_words |-> x.input_words, output_words |-> x.output_words]
  BY DEF PublicData, Optional
<1>4. /\ d.cpu = e.cpu /\ d.initial_regs = e.initial_regs /\ d.final_regs = e.final_regs
      /\ d.reg_last_clock = e.reg_last_clock /\ d.input_words = e.input_words
  BY <1>2, <1>3, U32sTell
<1>5. d.roots = e.roots
  BY <1>2, <1>3, RootsTell
<1>6. Len(d.output_words) \in Nat /\ Len(e.output_words) \in Nat
  BY DataParts
<1>7. d.io = e.io /\ Len(d.output_words) = Len(e.output_words)
  BY <1>2, <1>3, <1>6, IoTells
<1>8. d.output_words = e.output_words
  <2>1. ASSUME NEW i \in 1 .. Len(d.output_words) PROVE d.output_words[i] = e.output_words[i]
    <3>1. DataTail(d)[i] = U32s(d.output_words[i]) /\ DataTail(e)[i] = U32s(e.output_words[i])
      BY <1>7 DEF DataTail
    <3>2. d.output_words[i] \in Seq(Nat) /\ e.output_words[i] \in Seq(Nat)
      <4>1. d.output_words \in Seq(Seq(Nat)) /\ e.output_words \in Seq(Seq(Nat))
        BY <1>3
      <4> QED BY <4>1, <1>7, ListIs
    <3> QED BY <1>1, <3>1, <3>2, U32sTell
  <2>2. IsTable(d.output_words) /\ IsTable(e.output_words)
    BY <1>3 DEF IsTable
  <2> QED BY <1>7, <2>1, <2>2, TableSame
<1> QED BY <1>3, <1>4, <1>5, <1>7, <1>8

-----------------------------------------------------------------------------
(* The public claims of a recursion proof.                                   *)

RootCalls(r) == << U32s(<<r.tree_id, r.n_paths>>), U32s(r.root) >>
LeafCalls(r) == << U32s(<<r.tree_id, r.depth, r.index>>), U32s(r.digest) >>
ChunkCalls(r) == [j \in 1 .. Len(r.chunks) |-> U32s(r.chunks[j])]
ChannelCalls(r) == Join(<< U32s(<<r.channel_id, Len(r.chunks)>>) >>, ChunkCalls(r))
InputCalls(x) == << U32(x[1]), Felts(<<x[2]>>) >>
InputsCalls(r) == [j \in 1 .. Len(r.inputs) |-> InputCalls(r.inputs[j])]
CircuitHead(r) ==
  << U32s(<<r.circuit_id, Len(r.inputs), r.inner_log_size, r.output[1]>>), Felts(<<r.inner_claimed_sum, r.output[2]>>) >>
CircuitCalls(r) == Join(CircuitHead(r), FlattenSeq(InputsCalls(r)))

\* The lists of calls the four mixes lay end to end.
ClaimsAre(p, s) ==
  CASE p = "roots" -> [i \in 1 .. Len(s) |-> RootCalls(s[i])]
    [] p = "leaves" -> [i \in 1 .. Len(s) |-> LeafCalls(s[i])]
    [] p = "channels" -> [i \in 1 .. Len(s) |-> ChannelCalls(s[i])]
    [] p = "circuits" -> [i \in 1 .. Len(s) |-> CircuitCalls(s[i])]

LEMMA MixesNumbered ==
  ASSUME NEW s
  PROVE  /\ MixRoots(s) = Join(<< U32(Len(s)) >>, FlattenSeq(ClaimsAre("roots", s)))
         /\ MixLeaves(s) = Join(<< U32(Len(s)) >>, FlattenSeq(ClaimsAre("leaves", s)))
         /\ MixChannels(s) = Join(<< U32(Len(s)) >>, FlattenSeq(ClaimsAre("channels", s)))
         /\ MixCircuits(s) = Join(<< U32(Len(s)) >>, FlattenSeq(ClaimsAre("circuits", s)))
<1>1. MixRoots(s) = Join(<< U32(Len(s)) >>, FlattenSeq(ClaimsAre("roots", s)))
  BY DEF MixRoots, Join, ClaimsAre, RootCalls
<1>2. MixLeaves(s) = Join(<< U32(Len(s)) >>, FlattenSeq(ClaimsAre("leaves", s)))
  BY DEF MixLeaves, Join, ClaimsAre, LeafCalls
<1>3. MixChannels(s) = Join(<< U32(Len(s)) >>, FlattenSeq(ClaimsAre("channels", s)))
  BY DEF MixChannels, Join, ClaimsAre, ChannelCalls, ChunkCalls
<1>4. MixCircuits(s) = Join(<< U32(Len(s)) >>, FlattenSeq(ClaimsAre("circuits", s)))
  BY DEF MixCircuits, Join, ClaimsAre, CircuitCalls, CircuitHead, InputsCalls, InputCalls
<1> QED BY <1>1, <1>2, <1>3, <1>4

\* What a single claim's calls are, and that they tell the claim.
RootClaim == [tree_id : Nat, n_paths : Nat, root : Seq(Nat)]
LeafClaim == [tree_id : Nat, depth : Nat, index : Nat, digest : Seq(Nat)]
ChannelClaim == [channel_id : Nat, chunks : Seq(Seq(Nat))]
CircuitClaim ==
  [circuit_id : Nat, inputs : Seq(Nat \X Elements), inner_log_size : Nat, inner_claimed_sum : Elements,
   output : Nat \X Elements]

LEMMA RootTells ==
  ASSUME NEW a \in RootClaim
  PROVE  /\ IsTable(RootCalls(a)) /\ Len(RootCalls(a)) = 2
         /\ \A b \in RootClaim : RootCalls(a) = RootCalls(b) => a = b
<1>1. IsTable(RootCalls(a)) /\ Len(RootCalls(a)) = 2
  BY Parts DEF RootCalls
<1>2. ASSUME NEW b \in RootClaim, RootCalls(a) = RootCalls(b) PROVE a = b
  <2>1. U32s(<<a.tree_id, a.n_paths>>) = U32s(<<b.tree_id, b.n_paths>>) /\ U32s(a.root) = U32s(b.root)
    BY <1>2 DEF RootCalls
  <2>2. /\ a.tree_id \in Nat /\ a.n_paths \in Nat /\ a.root \in Seq(Nat)
        /\ b.tree_id \in Nat /\ b.n_paths \in Nat /\ b.root \in Seq(Nat)
    BY DEF RootClaim
  <2>3. <<a.tree_id, a.n_paths>> \in Seq(Nat) /\ <<b.tree_id, b.n_paths>> \in Seq(Nat)
    BY <2>2, TuplesAre
  <2>4. <<a.tree_id, a.n_paths>> = <<b.tree_id, b.n_paths>> /\ a.root = b.root
    BY <2>1, <2>2, <2>3, U32sTell
  <2> QED BY <2>4 DEF RootClaim
<1> QED BY <1>1, <1>2

LEMMA LeafTells ==
  ASSUME NEW a \in LeafClaim
  PROVE  /\ IsTable(LeafCalls(a)) /\ Len(LeafCalls(a)) = 2
         /\ \A b \in LeafClaim : LeafCalls(a) = LeafCalls(b) => a = b
<1>1. IsTable(LeafCalls(a)) /\ Len(LeafCalls(a)) = 2
  BY Parts DEF LeafCalls
<1>2. ASSUME NEW b \in LeafClaim, LeafCalls(a) = LeafCalls(b) PROVE a = b
  <2>1. /\ U32s(<<a.tree_id, a.depth, a.index>>) = U32s(<<b.tree_id, b.depth, b.index>>)
        /\ U32s(a.digest) = U32s(b.digest)
    BY <1>2 DEF LeafCalls
  <2>2. /\ a.tree_id \in Nat /\ a.depth \in Nat /\ a.index \in Nat /\ a.digest \in Seq(Nat)
        /\ b.tree_id \in Nat /\ b.depth \in Nat /\ b.index \in Nat /\ b.digest \in Seq(Nat)
    BY DEF LeafClaim
  <2>3. <<a.tree_id, a.depth, a.index>> \in Seq(Nat) /\ <<b.tree_id, b.depth, b.index>> \in Seq(Nat)
    BY <2>2, TuplesAre
  <2>4. <<a.tree_id, a.depth, a.index>> = <<b.tree_id, b.depth, b.index>> /\ a.digest = b.digest
    BY <2>1, <2>2, <2>3, U32sTell
  <2> QED BY <2>4 DEF LeafClaim
<1> QED BY <1>1, <1>2

LEMMA ChannelTells ==
  ASSUME NEW a \in ChannelClaim
  PROVE  /\ IsTable(ChannelCalls(a)) /\ Len(ChannelCalls(a)) \in Nat \ {0}
         /\ \A b \in ChannelClaim : /\ ChannelCalls(a)[1] = ChannelCalls(b)[1] => Len(ChannelCalls(a)) = Len(ChannelCalls(b))
                                    /\ ChannelCalls(a) = ChannelCalls(b) => a = b
<1> DEFINE head(r) == << U32s(<<r.channel_id, Len(r.chunks)>>) >>
<1>1. ASSUME NEW r \in ChannelClaim
      PROVE  /\ r.channel_id \in Nat /\ r.chunks \in Seq(Seq(Nat)) /\ Len(r.chunks) \in Nat
             /\ IsTable(ChunkCalls(r)) /\ Len(ChunkCalls(r)) = Len(r.chunks)
             /\ IsTable(head(r)) /\ Len(head(r)) = 1
             /\ IsTable(ChannelCalls(r)) /\ Len(ChannelCalls(r)) = 1 + Len(r.chunks)
             /\ ChannelCalls(r)[1] = head(r)[1]
  <2>1. r.channel_id \in Nat /\ r.chunks \in Seq(Seq(Nat))
    BY DEF ChannelClaim
  <2>2. Len(r.chunks) \in Nat
    BY <2>1
  <2>3. IsTable(ChunkCalls(r)) /\ Len(ChunkCalls(r)) = Len(r.chunks)
    BY <2>2, TableOf DEF ChunkCalls
  <2>4. IsTable(head(r)) /\ Len(head(r)) = 1
    BY Parts
  <2>5. ChannelCalls(r) = Join(head(r), ChunkCalls(r))
    BY DEF ChannelCalls
  <2> HIDE DEF head
  <2>6. Headed(Join(head(r), ChunkCalls(r)), head(r), ChunkCalls(r))
    BY <2>3, <2>4, HeadStays
  <2> QED BY <2>1, <2>2, <2>3, <2>4, <2>5, <2>6 DEF Headed
<1>2. ASSUME NEW r \in ChannelClaim, NEW b \in ChannelClaim, head(r)[1] = head(b)[1]
      PROVE  r.channel_id = b.channel_id /\ Len(r.chunks) = Len(b.chunks)
  <2>1. U32s(<<r.channel_id, Len(r.chunks)>>) = U32s(<<b.channel_id, Len(b.chunks)>>)
    BY <1>2
  <2>2. <<r.channel_id, Len(r.chunks)>> \in Seq(Nat) /\ <<b.channel_id, Len(b.chunks)>> \in Seq(Nat)
    BY <1>1, TuplesAre
  <2>3. <<r.channel_id, Len(r.chunks)>> = <<b.channel_id, Len(b.chunks)>>
    BY <2>1, <2>2, U32sTell
  <2> QED BY <2>3
<1>3. ASSUME NEW b \in ChannelClaim, ChannelCalls(a)[1] = ChannelCalls(b)[1]
      PROVE  Len(ChannelCalls(a)) = Len(ChannelCalls(b))
  <2>1. head(a)[1] = head(b)[1]
    BY <1>1, <1>3
  <2> QED BY <2>1, <1>1, <1>2
<1>4. ASSUME NEW b \in ChannelClaim, ChannelCalls(a) = ChannelCalls(b) PROVE a = b
  <2>1. Join(head(a), ChunkCalls(a)) = Join(head(b), ChunkCalls(b))
    BY <1>4 DEF ChannelCalls
  <2>2. head(a)[1] = head(b)[1]
    BY <1>1, <1>4
  <2>3. a.channel_id = b.channel_id /\ Len(a.chunks) = Len(b.chunks)
    BY <1>2, <2>2
  <2> HIDE DEF head
  <2>4. ChunkCalls(a) = ChunkCalls(b)
    BY <1>1, <2>1, JoinTold
  <2>5. ASSUME NEW j \in 1 .. Len(a.chunks) PROVE a.chunks[j] = b.chunks[j]
    <3>1. ChunkCalls(a)[j] = U32s(a.chunks[j]) /\ ChunkCalls(b)[j] = U32s(b.chunks[j])
      BY <2>3 DEF ChunkCalls
    <3>2. a.chunks[j] \in Seq(Nat) /\ b.chunks[j] \in Seq(Nat)
      <4>1. a.chunks \in Seq(Seq(Nat)) /\ b.chunks \in Seq(Seq(Nat))
        BY <1>1
      <4> QED BY <4>1, <2>3, ListIs
    <3> QED BY <2>4, <3>1, <3>2, U32sTell
  <2>6. IsTable(a.chunks) /\ IsTable(b.chunks)
    BY <1>1 DEF IsTable
  <2>7. a.chunks = b.chunks
    BY <2>3, <2>5, <2>6, TableSame
  <2>8. \A x \in ChannelClaim : x = [channel_id |-> x.channel_id, chunks |-> x.chunks]
    BY DEF ChannelClaim
  <2>9. a = [channel_id |-> a.channel_id, chunks |-> a.chunks]
    BY <2>8
  <2>10. b = [channel_id |-> b.channel_id, chunks |-> b.chunks]
    BY <2>8
  <2>11. a = [channel_id |-> b.channel_id, chunks |-> b.chunks]
    BY <2>3, <2>7, <2>9
  <2> QED BY <2>10, <2>11
<1>5. IsTable(ChannelCalls(a)) /\ Len(ChannelCalls(a)) \in Nat \ {0}
  <2>1. Len(a.chunks) \in Nat /\ IsTable(ChannelCalls(a)) /\ Len(ChannelCalls(a)) = 1 + Len(a.chunks)
    BY <1>1
  <2> QED BY <2>1
<1> HIDE DEF head
<1> QED BY <1>3, <1>4, <1>5

LEMMA InputTells ==
  ASSUME NEW x \in Nat \X Elements
  PROVE  /\ IsTable(InputCalls(x)) /\ Len(InputCalls(x)) = 2
         /\ \A y \in Nat \X Elements : InputCalls(x) = InputCalls(y) => x = y
<1>1. IsTable(InputCalls(x)) /\ Len(InputCalls(x)) = 2
  BY Parts DEF InputCalls
<1>2. ASSUME NEW y \in Nat \X Elements, InputCalls(x) = InputCalls(y) PROVE x = y
  <2>1. U32(x[1]) = U32(y[1]) /\ Felts(<<x[2]>>) = Felts(<<y[2]>>)
    BY <1>2 DEF InputCalls
  <2>2. x[1] = y[1]
    BY <2>1, HalvesTell
  <2>3. <<x[2]>> = <<y[2]>>
    BY <2>1, Parts, FeltsTell
  <2> QED BY <2>2, <2>3
<1> QED BY <1>1, <1>2

LEMMA CircuitParts ==
  ASSUME NEW r \in CircuitClaim
  PROVE  /\ r.circuit_id \in Nat /\ r.inner_log_size \in Nat /\ r.output \in Nat \X Elements /\ r.inputs \in Seq(Nat \X Elements)
         /\ Len(r.inputs) \in Nat /\ IsTable(InputsCalls(r)) /\ Len(InputsCalls(r)) = Len(r.inputs)
         /\ \A j \in 1 .. Len(r.inputs) : /\ r.inputs[j] \in Nat \X Elements
                                          /\ IsTable(InputsCalls(r)[j]) /\ Len(InputsCalls(r)[j]) = 2
         /\ IsTable(CircuitHead(r)) /\ Len(CircuitHead(r)) = 2
         /\ IsTable(FlattenSeq(InputsCalls(r)))
         /\ IsTable(CircuitCalls(r)) /\ Len(CircuitCalls(r)) = 2 + 2 * Len(r.inputs)
         /\ CircuitCalls(r)[1] = CircuitHead(r)[1]
<1>1. r.circuit_id \in Nat /\ r.inner_log_size \in Nat /\ r.output \in Nat \X Elements /\ r.inputs \in Seq(Nat \X Elements)
  BY DEF CircuitClaim
<1>2. Len(r.inputs) \in Nat /\ \A j \in 1 .. Len(r.inputs) : r.inputs[j] \in Nat \X Elements
  BY <1>1, ListIs
<1>3. IsTable(InputsCalls(r)) /\ Len(InputsCalls(r)) = Len(r.inputs)
  BY <1>2, TableOf DEF InputsCalls
<1>4. \A j \in 1 .. Len(r.inputs) : InputsCalls(r)[j] = InputCalls(r.inputs[j])
  BY DEF InputsCalls
<1>5. \A j \in 1 .. Len(r.inputs) : IsTable(InputsCalls(r)[j]) /\ Len(InputsCalls(r)[j]) = 2
  BY <1>2, <1>4, InputTells
<1>6. IsTable(CircuitHead(r)) /\ Len(CircuitHead(r)) = 2
  BY Parts DEF CircuitHead
<1>7. Even(FlattenSeq(InputsCalls(r)), InputsCalls(r), 2)
  BY <1>2, <1>3, <1>5, FlatEven
<1>8. IsTable(FlattenSeq(InputsCalls(r))) /\ Len(FlattenSeq(InputsCalls(r))) = 2 * Len(r.inputs)
  BY <1>3, <1>7 DEF Even
<1>9. Headed(CircuitCalls(r), CircuitHead(r), FlattenSeq(InputsCalls(r)))
  BY <1>6, <1>8, HeadStays DEF CircuitCalls
<1>10. /\ IsTable(CircuitCalls(r)) /\ Len(CircuitCalls(r)) = 2 + 2 * Len(r.inputs)
       /\ CircuitCalls(r)[1] = CircuitHead(r)[1]
  BY <1>6, <1>8, <1>9 DEF Headed
<1> QED BY <1>1, <1>2, <1>3, <1>5, <1>6, <1>8, <1>10

LEMMA CircuitHeadTells ==
  ASSUME NEW a \in CircuitClaim, NEW b \in CircuitClaim, CircuitHead(a)[1] = CircuitHead(b)[1]
  PROVE  /\ a.circuit_id = b.circuit_id /\ Len(a.inputs) = Len(b.inputs)
         /\ a.inner_log_size = b.inner_log_size /\ a.output[1] = b.output[1]
<1> DEFINE words(r) == <<r.circuit_id, Len(r.inputs), r.inner_log_size, r.output[1]>>
<1>1. \A r \in CircuitClaim : words(r) \in Seq(Nat)
  <2> TAKE r \in CircuitClaim
  <2>1. r.circuit_id \in Nat /\ Len(r.inputs) \in Nat /\ r.inner_log_size \in Nat /\ r.output[1] \in Nat
    BY CircuitParts
  <2> QED BY <2>1, TuplesAre
<1>2. U32s(words(a)) = U32s(words(b))
  BY DEF CircuitHead
<1>3. words(a) = words(b)
  <2> HIDE DEF words
  <2> QED BY <1>1, <1>2, U32sTell
<1> QED BY <1>3

LEMMA CircuitTells ==
  ASSUME NEW a \in CircuitClaim
  PROVE  /\ IsTable(CircuitCalls(a)) /\ Len(CircuitCalls(a)) \in Nat \ {0}
         /\ \A b \in CircuitClaim : /\ CircuitCalls(a)[1] = CircuitCalls(b)[1] => Len(CircuitCalls(a)) = Len(CircuitCalls(b))
                                    /\ CircuitCalls(a) = CircuitCalls(b) => a = b
<1>1. IsTable(CircuitCalls(a)) /\ Len(CircuitCalls(a)) \in Nat \ {0}
  <2>1. Len(a.inputs) \in Nat /\ IsTable(CircuitCalls(a)) /\ Len(CircuitCalls(a)) = 2 + 2 * Len(a.inputs)
    BY CircuitParts
  <2> QED BY <2>1
<1>2. ASSUME NEW b \in CircuitClaim, CircuitCalls(a)[1] = CircuitCalls(b)[1]
      PROVE  CircuitHead(a)[1] = CircuitHead(b)[1] /\ Len(CircuitCalls(a)) = Len(CircuitCalls(b))
  <2>1. CircuitHead(a)[1] = CircuitHead(b)[1]
    BY <1>2, CircuitParts
  <2>2. Len(a.inputs) = Len(b.inputs)
    BY <2>1, CircuitHeadTells
  <2>3. Len(CircuitCalls(a)) = 2 + 2 * Len(a.inputs) /\ Len(CircuitCalls(b)) = 2 + 2 * Len(b.inputs)
    BY CircuitParts
  <2> QED BY <2>1, <2>2, <2>3
<1>3. ASSUME NEW b \in CircuitClaim, CircuitCalls(a) = CircuitCalls(b) PROVE a = b
  <2>1. /\ a.circuit_id = b.circuit_id /\ Len(a.inputs) = Len(b.inputs)
        /\ a.inner_log_size = b.inner_log_size /\ a.output[1] = b.output[1]
    BY <1>2, <1>3, CircuitHeadTells
  <2>2. CircuitHead(a) = CircuitHead(b) /\ FlattenSeq(InputsCalls(a)) = FlattenSeq(InputsCalls(b))
    <3>1. /\ IsTable(CircuitHead(a)) /\ IsTable(CircuitHead(b)) /\ Len(CircuitHead(a)) = Len(CircuitHead(b))
          /\ IsTable(FlattenSeq(InputsCalls(a))) /\ IsTable(FlattenSeq(InputsCalls(b)))
      BY CircuitParts
    <3>2. Join(CircuitHead(a), FlattenSeq(InputsCalls(a))) = Join(CircuitHead(b), FlattenSeq(InputsCalls(b)))
      BY <1>3 DEF CircuitCalls
    <3> QED BY <3>1, <3>2, JoinTold
  <2>3. Felts(<<a.inner_claimed_sum, a.output[2]>>) = Felts(<<b.inner_claimed_sum, b.output[2]>>)
    BY <2>2 DEF CircuitHead
  <2>4. <<a.inner_claimed_sum, a.output[2]>> = <<b.inner_claimed_sum, b.output[2]>>
    BY <2>3, Parts, FeltsTell
  <2>5. a.output = b.output
    <3>1. a.output \in Nat \X Elements /\ b.output \in Nat \X Elements
      BY CircuitParts
    <3>2. a.output[2] = b.output[2]
      BY <2>4
    <3> QED BY <2>1, <3>1, <3>2
  <2>6. \A j \in 1 .. Len(a.inputs) : InputsCalls(a)[j] = InputsCalls(b)[j]
    <3> DEFINE ss == InputsCalls(a)
    <3> DEFINE tt == InputsCalls(b)
    <3>1. IsTable(ss) /\ Len(ss) = Len(a.inputs) /\ Len(a.inputs) \in Nat /\ IsTable(tt) /\ Len(tt) = Len(a.inputs)
      BY <2>1, CircuitParts
    <3>2. \A j \in 1 .. Len(ss) : IsTable(ss[j]) /\ Len(ss[j]) = 2
      BY <3>1, CircuitParts
    <3>3. \A j \in 1 .. Len(ss) : IsTable(tt[j]) /\ Len(tt[j]) = 2
      BY <3>1, <2>1, CircuitParts
    <3>4. FlattenSeq(ss) = FlattenSeq(tt)
      BY <2>2
    <3> HIDE DEF ss, tt
    <3>5. \A j \in 1 .. Len(ss) : ss[j] = tt[j]
      BY <3>1, <3>2, <3>3, <3>4, FlatTold
    <3> QED BY <3>1, <3>5 DEF ss, tt
  <2>7. ASSUME NEW j \in 1 .. Len(a.inputs) PROVE a.inputs[j] = b.inputs[j]
    <3>1. InputCalls(a.inputs[j]) = InputCalls(b.inputs[j])
      BY <2>1, <2>6 DEF InputsCalls
    <3>2. a.inputs[j] \in Nat \X Elements /\ b.inputs[j] \in Nat \X Elements
      BY <2>1, CircuitParts
    <3> QED BY <3>1, <3>2, InputTells
  <2>8. IsTable(a.inputs) /\ IsTable(b.inputs)
    BY CircuitParts DEF IsTable
  <2>9. a.inputs = b.inputs
    BY <2>1, <2>7, <2>8, TableSame
  <2>10. \A x \in CircuitClaim :
           x = [circuit_id |-> x.circuit_id, inputs |-> x.inputs, inner_log_size |-> x.inner_log_size,
                inner_claimed_sum |-> x.inner_claimed_sum, output |-> x.output]
    BY DEF CircuitClaim
  <2>11. a.inner_claimed_sum = b.inner_claimed_sum
    BY <2>4
  <2> QED BY <2>1, <2>5, <2>9, <2>10, <2>11
<1> QED BY <1>1, <1>2, <1>3

-----------------------------------------------------------------------------
(* The pieces of both kinds of proofs in the order every role mixes them.    *)

RecursionPieces ==
  <<"preprocessed", "log_sizes", "roots", "leaves", "channels", "circuits", "main", "log_sizes", "sums",
    "interaction", "composition", "sampled">>
Piece(P) == IF P = "rv32im" THEN Pieces ELSE RecursionPieces
PieceCount(P) == IF P = "rv32im" THEN 10 ELSE 12
Commitments == {"preprocessed", "main", "interaction", "composition"}
PieceNames ==
  {"public_data", "roots", "leaves", "channels", "circuits", "claim", "log_sizes", "pow", "sums",
   "interaction_log_sizes", "sampled"} \cup Commitments

\* MixesOf and Absent, with the protocol as a parameter.
Calls(P, p, v) ==
  CASE p = "public_data" -> MixPublicData(v)
    [] p = "roots" -> MixRoots(v)
    [] p = "leaves" -> MixLeaves(v)
    [] p = "channels" -> MixChannels(v)
    [] p = "circuits" -> MixCircuits(v)
    [] p = "claim" -> MixClaim(v)
    [] p = "log_sizes" -> << U32s(v) >>
    [] p = "pow" -> << U64(v) >>
    [] p \in Commitments -> << << <<"r", v>> >> >>
    [] p = "sums" -> IF P = "rv32im" THEN MixClaimedSum(v) ELSE << Felts(v) >>
    [] p = "interaction_log_sizes" -> MixInteractionClaim(v)
    [] p = "sampled" -> << << <<"s", v>> >> >>
Skipped(P, pf, p) == P = "rv32im" /\ p = "interaction" /\ pf["interaction_log_sizes"] = <<>>

LEMMA CallsAreMixes ==
  ASSUME NEW p \in PieceNames, NEW v
  PROVE  MixesOf(p, v) = Calls(protocol, p, v)
  BY DEF MixesOf, Calls, PieceNames, Commitments

LEMMA SkippedIsAbsent == \A p : Absent(p) <=> Skipped(protocol, proof, p)
  BY DEF Absent, Skipped

\* What a piece is.
Fits(p, v) ==
  /\ p = "public_data" => v \in PublicData
  /\ p = "roots" => v \in Seq(RootClaim)
  /\ p = "leaves" => v \in Seq(LeafClaim)
  /\ p = "channels" => v \in Seq(ChannelClaim)
  /\ p = "circuits" => v \in Seq(CircuitClaim)
  /\ p \in {"claim", "log_sizes", "interaction_log_sizes"} => v \in Seq(Nat)
  /\ p = "pow" => v \in Nat
  /\ p = "sums" => IsTable(v)

\* Every piece is mixed by a list of calls ...
LEMMA ClaimsAreLists ==
  ASSUME NEW p \in {"roots", "leaves", "channels", "circuits"}, NEW s, Fits(p, s)
  PROVE  /\ Len(s) \in Nat /\ IsTable(s)
         /\ IsTable(ClaimsAre(p, s)) /\ Len(ClaimsAre(p, s)) = Len(s)
         /\ \A i \in 1 .. Len(s) : IsTable(ClaimsAre(p, s)[i]) /\ Len(ClaimsAre(p, s)[i]) \in Nat \ {0}
<1> USE DEF ClaimsAre
<1>1. CASE p = "roots"
  <2>1. s \in Seq(RootClaim)
    BY <1>1 DEF Fits
  <2>2. Len(s) \in Nat /\ IsTable(s) /\ \A i \in 1 .. Len(s) : s[i] \in RootClaim
    BY <2>1, ListIs
  <2> QED BY <1>1, <2>2, TableOf, RootTells
<1>2. CASE p = "leaves"
  <2>1. s \in Seq(LeafClaim)
    BY <1>2 DEF Fits
  <2>2. Len(s) \in Nat /\ IsTable(s) /\ \A i \in 1 .. Len(s) : s[i] \in LeafClaim
    BY <2>1, ListIs
  <2> QED BY <1>2, <2>2, TableOf, LeafTells
<1>3. CASE p = "channels"
  <2>1. s \in Seq(ChannelClaim)
    BY <1>3 DEF Fits
  <2>2. Len(s) \in Nat /\ IsTable(s) /\ \A i \in 1 .. Len(s) : s[i] \in ChannelClaim
    BY <2>1, ListIs
  <2> QED BY <1>3, <2>2, TableOf, ChannelTells
<1>4. CASE p = "circuits"
  <2>1. s \in Seq(CircuitClaim)
    BY <1>4 DEF Fits
  <2>2. Len(s) \in Nat /\ IsTable(s) /\ \A i \in 1 .. Len(s) : s[i] \in CircuitClaim
    BY <2>1, ListIs
  <2> QED BY <1>4, <2>2, TableOf, CircuitTells
<1> QED BY <1>1, <1>2, <1>3, <1>4

LEMMA ClaimsNumbered ==
  ASSUME NEW P, NEW p \in {"roots", "leaves", "channels", "circuits"}, NEW s, Fits(p, s)
  PROVE  Calls(P, p, s) = Numbered(ClaimsAre(p, s))
<1>1. Len(ClaimsAre(p, s)) = Len(s)
  BY ClaimsAreLists
<1> QED BY <1>1, MixesNumbered DEF Calls, Commitments, Numbered

LEMMA CallsList ==
  ASSUME NEW P, NEW p \in PieceNames, NEW v, Fits(p, v)
  PROVE  IsTable(Calls(P, p, v)) /\ Len(Calls(P, p, v)) \in Nat
<1> SUFFICES IsTable(Calls(P, p, v))
  BY TableLength
<1>1. CASE p = "public_data"
  <2>1. v \in PublicData
    BY <1>1 DEF Fits
  <2>2. IsTable(MixPublicData(v))
    <3>1. MixPublicData(v) = Join(DataHead(v), DataTail(v)) /\ IsTable(DataHead(v)) /\ IsTable(DataTail(v))
      BY <2>1, DataParts
    <3> DEFINE u == MixPublicData(v)
    <3>2. u = Join(DataHead(v), DataTail(v))
      BY <3>1
    <3> HIDE DEF u
    <3>3. IsTable(u)
      BY <3>1, <3>2, Joined
    <3> QED BY <3>3 DEF u
  <2>3. Calls(P, p, v) = MixPublicData(v)
    BY <1>1 DEF Calls, Commitments
  <2> QED BY <2>2, <2>3
<1>2. CASE p \in {"roots", "leaves", "channels", "circuits"}
  <2>1. IsTable(Numbered(ClaimsAre(p, v)))
    BY <1>2, ClaimsAreLists, NumberedCalls
  <2> QED BY <1>2, <2>1, ClaimsNumbered
<1>3. CASE p = "claim"
  <2>1. Len(v) \in Nat
    BY <1>3 DEF Fits
  <2> QED BY <1>3, <2>1, TableOf DEF Calls, MixClaim
<1>4. CASE p \in {"log_sizes", "pow", "sampled"} \cup Commitments
  <2>1. \E x : Calls(P, p, v) = <<x>>
    BY <1>4 DEF Calls, Commitments
  <2> QED BY <2>1, Parts
<1>5. CASE p = "sums"
  <2>1. Len(v) \in Nat
    BY <1>5, TableLength DEF Fits
  <2>2. Calls(P, p, v) = IF P = "rv32im" THEN MixClaimedSum(v) ELSE << Felts(v) >>
    BY <1>5 DEF Calls, Commitments
  <2>3. IsTable(MixClaimedSum(v))
    BY <2>1, TableOf DEF MixClaimedSum
  <2> QED BY <2>2, <2>3, Parts
<1>6. CASE p = "interaction_log_sizes"
  <2> DEFINE tail == [i \in 1 .. Len(v) |-> U64(v[i])]
  <2>1. Len(v) \in Nat
    BY <1>6 DEF Fits
  <2>2. IsTable(tail) /\ IsTable(<< U64(Len(v)) >>)
    BY <2>1, TableOf, Parts
  <2>3. Calls(P, p, v) = Join(<< U64(Len(v)) >>, tail)
    BY <1>6 DEF Calls, Commitments, MixInteractionClaim, Join
  <2> HIDE DEF tail
  <2> QED BY <2>2, <2>3, Joined
<1> QED BY <1>1, <1>2, <1>3, <1>4, <1>5, <1>6 DEF PieceNames, Commitments

\* ... that tells it.
LEMMA ClaimsTell ==
  ASSUME NEW p \in {"roots", "leaves", "channels", "circuits"}, NEW s, Fits(p, s), NEW t, Fits(p, t),
         Numbered(ClaimsAre(p, s)) = Numbered(ClaimsAre(p, t))
  PROVE  s = t
<1> DEFINE a == ClaimsAre(p, s)
<1> DEFINE b == ClaimsAre(p, t)
<1>1. /\ Len(s) \in Nat /\ IsTable(s) /\ IsTable(a) /\ Len(a) = Len(s)
      /\ \A i \in 1 .. Len(s) : IsTable(a[i]) /\ Len(a[i]) \in Nat \ {0}
  BY ClaimsAreLists
<1>2. /\ Len(t) \in Nat /\ IsTable(t) /\ IsTable(b) /\ Len(b) = Len(t)
      /\ \A i \in 1 .. Len(t) : IsTable(b[i]) /\ Len(b[i]) \in Nat \ {0}
  BY ClaimsAreLists
<1>3. ASSUME Len(s) = Len(t), NEW i \in 1 .. Len(s)
      PROVE  (a[i][1] = b[i][1] => Len(a[i]) = Len(b[i])) /\ (a[i] = b[i] => s[i] = t[i])
  <2>1. CASE p = "roots"
    <3>1. s \in Seq(RootClaim) /\ t \in Seq(RootClaim)
      BY <2>1 DEF Fits
    <3>2. s[i] \in RootClaim /\ t[i] \in RootClaim
      BY <3>1, <1>3, ListIs
    <3>3. a[i] = RootCalls(s[i]) /\ b[i] = RootCalls(t[i])
      BY <2>1, <1>3 DEF ClaimsAre
    <3> QED BY <3>2, <3>3, RootTells
  <2>2. CASE p = "leaves"
    <3>1. s \in Seq(LeafClaim) /\ t \in Seq(LeafClaim)
      BY <2>2 DEF Fits
    <3>2. s[i] \in LeafClaim /\ t[i] \in LeafClaim
      BY <3>1, <1>3, ListIs
    <3>3. a[i] = LeafCalls(s[i]) /\ b[i] = LeafCalls(t[i])
      BY <2>2, <1>3 DEF ClaimsAre
    <3> QED BY <3>2, <3>3, LeafTells
  <2>3. CASE p = "channels"
    <3>1. s \in Seq(ChannelClaim) /\ t \in Seq(ChannelClaim)
      BY <2>3 DEF Fits
    <3>2. s[i] \in ChannelClaim /\ t[i] \in ChannelClaim
      BY <3>1, <1>3, ListIs
    <3>3. a[i] = ChannelCalls(s[i]) /\ b[i] = ChannelCalls(t[i])
      BY <2>3, <1>3 DEF ClaimsAre
    <3> QED BY <3>2, <3>3, ChannelTells
  <2>4. CASE p = "circuits"
    <3>1. s \in Seq(CircuitClaim) /\ t \in Seq(CircuitClaim)
      BY <2>4 DEF Fits
    <3>2. s[i] \in CircuitClaim /\ t[i] \in CircuitClaim
      BY <3>1, <1>3, ListIs
    <3>3. a[i] = CircuitCalls(s[i]) /\ b[i] = CircuitCalls(t[i])
      BY <2>4, <1>3 DEF ClaimsAre
    <3> QED BY <3>2, <3>3, CircuitTells
  <2> QED BY <2>1, <2>2, <2>3, <2>4
<1>4. Numbered(a) = Numbered(b)
  OBVIOUS
<1> HIDE DEF a, b
<1>5. Len(a) = Len(b) /\ \A i \in 1 .. Len(a) : a[i] = b[i]
  BY <1>1, <1>2, <1>3, <1>4, NumberedTold
<1>6. Len(s) = Len(t) /\ \A i \in 1 .. Len(s) : s[i] = t[i]
  BY <1>1, <1>2, <1>3, <1>5
<1> QED BY <1>1, <1>2, <1>6, TableSame

LEMMA CallsTell ==
  ASSUME NEW P, NEW p \in PieceNames, NEW v, Fits(p, v), NEW w, Fits(p, w), Calls(P, p, v) = Calls(P, p, w)
  PROVE  v = w
<1>1. CASE p = "public_data"
  <2>1. v \in PublicData /\ w \in PublicData
    BY <1>1 DEF Fits
  <2>2. MixPublicData(v) = MixPublicData(w)
    BY <1>1 DEF Calls
  <2> QED BY <2>1, <2>2, PublicDataTells
<1>2. CASE p \in {"roots", "leaves", "channels", "circuits"}
  <2>1. Numbered(ClaimsAre(p, v)) = Numbered(ClaimsAre(p, w))
    BY <1>2, ClaimsNumbered
  <2> QED BY <1>2, <2>1, ClaimsTell
<1>3. CASE p = "claim"
  <2>1. v \in Seq(Nat) /\ w \in Seq(Nat)
    BY <1>3 DEF Fits
  <2>2. /\ IsTable(v) /\ Len(v) \in Nat /\ \A i \in 1 .. Len(v) : v[i] \in Nat
        /\ IsTable(w) /\ Len(w) \in Nat /\ \A i \in 1 .. Len(w) : w[i] \in Nat
    BY <2>1, ListIs
  <2>3. MixClaim(v) = MixClaim(w)
    BY <1>3 DEF Calls
  <2>4. Len(MixClaim(v)) = Len(v) /\ Len(MixClaim(w)) = Len(w)
    BY <2>2 DEF MixClaim
  <2>5. Len(v) = Len(w)
    BY <2>3, <2>4
  <2>6. ASSUME NEW i \in 1 .. Len(v) PROVE v[i] = w[i]
    <3>1. MixClaim(v)[i] = U64(v[i]) /\ MixClaim(w)[i] = U64(w[i])
      BY <2>5 DEF MixClaim
    <3>2. v[i] \in Nat /\ w[i] \in Nat /\ U64(v[i]) = U64(w[i])
      BY <3>1, <2>2, <2>3, <2>5
    <3> QED BY <3>2, U64Tell
  <2> QED BY <2>2, <2>5, <2>6, TableSame
<1>4. CASE p = "log_sizes"
  <2>1. v \in Seq(Nat) /\ w \in Seq(Nat)
    BY <1>4 DEF Fits
  <2>2. << U32s(v) >> = << U32s(w) >>
    BY <1>4 DEF Calls
  <2> QED BY <2>1, <2>2, U32sTell
<1>5. CASE p = "pow"
  <2>1. v \in Nat /\ w \in Nat
    BY <1>5 DEF Fits
  <2>2. << U64(v) >> = << U64(w) >>
    BY <1>5 DEF Calls
  <2> QED BY <2>1, <2>2, U64Tell
<1>6. CASE p \in Commitments
  <2>1. << << <<"r", v>> >> >> = << << <<"r", w>> >> >>
    BY <1>6 DEF Calls, Commitments
  <2> QED BY <2>1
<1>7. CASE p = "sampled"
  <2>1. << << <<"s", v>> >> >> = << << <<"s", w>> >> >>
    BY <1>7 DEF Calls, Commitments
  <2> QED BY <2>1
<1>8. CASE p = "sums"
  <2>1. IsTable(v) /\ IsTable(w)
    BY <1>8 DEF Fits
  <2>2. Len(v) \in Nat /\ Len(w) \in Nat
    BY <2>1, TableLength
  <2>3. CASE P = "rv32im"
    <3>1. MixClaimedSum(v) = MixClaimedSum(w)
      BY <1>8, <2>3 DEF Calls, Commitments
    <3>2. Len(MixClaimedSum(v)) = Len(v) /\ Len(MixClaimedSum(w)) = Len(w)
      BY <2>2 DEF MixClaimedSum
    <3>3. Len(v) = Len(w)
      BY <3>1, <3>2
    <3>4. ASSUME NEW i \in 1 .. Len(v) PROVE v[i] = w[i]
      <4>1. Felts(<<v[i]>>) = Felts(<<w[i]>>)
        BY <3>1, <3>3 DEF MixClaimedSum
      <4>2. <<v[i]>> = <<w[i]>>
        BY <4>1, Parts, FeltsTell
      <4> QED BY <4>2
    <3> QED BY <2>1, <3>3, <3>4, TableSame
  <2>4. CASE P # "rv32im"
    <3>1. << Felts(v) >> = << Felts(w) >>
      BY <1>8, <2>4 DEF Calls, Commitments
    <3>2. Felts(v) = Felts(w)
      BY <3>1
    <3> QED BY <2>1, <3>2, FeltsTell
  <2> QED BY <2>3, <2>4
<1>9. CASE p = "interaction_log_sizes"
  <2> DEFINE tail(x) == [i \in 1 .. Len(x) |-> U64(x[i])]
  <2>1. v \in Seq(Nat) /\ w \in Seq(Nat)
    BY <1>9 DEF Fits
  <2>2. /\ IsTable(v) /\ Len(v) \in Nat /\ \A i \in 1 .. Len(v) : v[i] \in Nat
        /\ IsTable(w) /\ Len(w) \in Nat /\ \A i \in 1 .. Len(w) : w[i] \in Nat
    BY <2>1, ListIs
  <2>3. /\ IsTable(tail(v)) /\ IsTable(<< U64(Len(v)) >>) /\ Len(<< U64(Len(v)) >>) = 1
        /\ IsTable(tail(w)) /\ IsTable(<< U64(Len(w)) >>) /\ Len(<< U64(Len(w)) >>) = 1
    BY <2>2, TableOf, Parts
  <2>4. Join(<< U64(Len(v)) >>, tail(v)) = Join(<< U64(Len(w)) >>, tail(w))
    BY <1>9 DEF Calls, Commitments, MixInteractionClaim, Join
  <2>5. \A i \in 1 .. Len(v) : tail(v)[i] = U64(v[i])
    OBVIOUS
  <2>6. \A i \in 1 .. Len(w) : tail(w)[i] = U64(w[i])
    OBVIOUS
  <2> HIDE DEF tail
  <2>7. << U64(Len(v)) >> = << U64(Len(w)) >> /\ tail(v) = tail(w)
    BY <2>3, <2>4, JoinTold
  <2>8. Len(v) = Len(w)
    BY <2>2, <2>7, U64Tell
  <2>9. ASSUME NEW i \in 1 .. Len(v) PROVE v[i] = w[i]
    <3>1. v[i] \in Nat /\ w[i] \in Nat /\ U64(v[i]) = U64(w[i])
      BY <2>2, <2>5, <2>6, <2>7, <2>8
    <3> QED BY <3>1, U64Tell
  <2> QED BY <2>2, <2>8, <2>9, TableSame
<1> QED BY <1>1, <1>2, <1>3, <1>4, <1>5, <1>6, <1>7, <1>8, <1>9 DEF PieceNames, Commitments

-----------------------------------------------------------------------------
(* The digest that a table gives after the first k pieces of a proof.        *)

Hop(P, t, pf, i, d, e) ==
  LET p == Piece(P)[i]
  IN  IF Skipped(P, pf, p) THEN e = d ELSE Leads(t, d, Calls(P, p, pf[p]), e)
Path(P, t, pf, k, e, D) == D[0] = 0 /\ D[k] = e /\ \A i \in 1 .. k : Hop(P, t, pf, i, D[i - 1], D[i])
Comes(P, t, pf, k, e) == \E D : Path(P, t, pf, k, e, D)

\* The first k pieces are what they have to be; two proofs have the same first k pieces.
FitsTo(P, pf, k) == \A i \in 1 .. k : Fits(Piece(P)[i], pf[Piece(P)[i]])
AgreeTo(P, pf, ph, k) ==
  \A i \in 1 .. k : LET p == Piece(P)[i] IN pf[p] = ph[p] /\ (Skipped(P, pf, p) <=> Skipped(P, ph, p))

\* Comes, piece by piece: before the first, over one more, and back to the one before.
LEMMA ComesStart ==
  ASSUME NEW P, NEW t, NEW pf
  PROVE  Comes(P, t, pf, 0, 0)
<1>1. Path(P, t, pf, 0, 0, [i \in {0} |-> 0])
  BY DEF Path
<1> QED BY <1>1 DEF Comes

LEMMA ComesNext ==
  ASSUME NEW P, NEW t, NEW pf, NEW k \in Nat, NEW d, NEW e, Comes(P, t, pf, k, d), Hop(P, t, pf, k + 1, d, e)
  PROVE  Comes(P, t, pf, k + 1, e)
<1>1. PICK D : Path(P, t, pf, k, d, D)
  BY DEF Comes
<1> DEFINE E == [i \in 0 .. k + 1 |-> IF i = k + 1 THEN e ELSE D[i]]
<1>2. \A i \in 0 .. k : E[i] = D[i]
  OBVIOUS
<1>3. E[k + 1] = e
  OBVIOUS
<1> HIDE DEF E
<1>4. ASSUME NEW i \in 1 .. k + 1 PROVE Hop(P, t, pf, i, E[i - 1], E[i])
  <2>1. CASE i = k + 1
    <3>1. i - 1 = k /\ k \in 0 .. k /\ E[i - 1] = d
      BY <2>1, <1>1, <1>2 DEF Path
    <3> QED BY <2>1, <3>1, <1>3
  <2>2. CASE i # k + 1
    <3>1. i \in 1 .. k /\ i \in 0 .. k /\ i - 1 \in 0 .. k
      BY <2>2
    <3> QED BY <3>1, <1>1, <1>2 DEF Path
  <2> QED BY <2>1, <2>2
<1>5. E[0] = 0
  BY <1>1, <1>2 DEF Path
<1>6. Path(P, t, pf, k + 1, e, E)
  BY <1>3, <1>4, <1>5 DEF Path
<1> QED BY <1>6 DEF Comes

LEMMA ComesBack ==
  ASSUME NEW P, NEW t, NEW pf, NEW k \in Nat, NEW e, Comes(P, t, pf, k + 1, e)
  PROVE  \E d : Comes(P, t, pf, k, d) /\ Hop(P, t, pf, k + 1, d, e)
<1>1. PICK D : Path(P, t, pf, k + 1, e, D)
  BY DEF Comes
<1>2. k + 1 \in 1 .. k + 1 /\ (k + 1) - 1 = k
  OBVIOUS
<1>3. Hop(P, t, pf, k + 1, D[k], e)
  BY <1>1, <1>2 DEF Path
<1>4. Path(P, t, pf, k, D[k], D)
  BY <1>1 DEF Path
<1> QED BY <1>3, <1>4 DEF Comes

\* It stays what it is while others go on hashing,
LEMMA ComesKept ==
  ASSUME NEW P, NEW t, IsTable(t), NEW u, IsTable(u), Extends(u, t),
         NEW pf, NEW k \in Nat, NEW e, Comes(P, t, pf, k, e)
  PROVE  Comes(P, u, pf, k, e)
<1>1. PICK D : Path(P, t, pf, k, e, D)
  BY DEF Comes
<1>2. ASSUME NEW i \in 1 .. k PROVE Hop(P, u, pf, i, D[i - 1], D[i])
  <2>1. Hop(P, t, pf, i, D[i - 1], D[i])
    BY <1>1 DEF Path
  <2> QED BY <2>1, LeadsKept DEF Hop
<1>3. Path(P, u, pf, k, e, D)
  BY <1>1, <1>2 DEF Path
<1> QED BY <1>3 DEF Comes

\* and on every proof with these pieces.
LEMMA ComesAgree ==
  ASSUME NEW P, NEW t, NEW pf, NEW ph, NEW k \in Nat, NEW e, AgreeTo(P, pf, ph, k), Comes(P, t, pf, k, e)
  PROVE  Comes(P, t, ph, k, e)
<1>1. PICK D : Path(P, t, pf, k, e, D)
  BY DEF Comes
<1>2. ASSUME NEW i \in 1 .. k PROVE Hop(P, t, ph, i, D[i - 1], D[i])
  <2>1. Hop(P, t, pf, i, D[i - 1], D[i])
    BY <1>1 DEF Path
  <2>2. /\ pf[Piece(P)[i]] = ph[Piece(P)[i]]
        /\ Skipped(P, pf, Piece(P)[i]) <=> Skipped(P, ph, Piece(P)[i])
    BY DEF AgreeTo
  <2> QED BY <2>1, <2>2 DEF Hop
<1>3. Path(P, t, ph, k, e, D)
  BY <1>1, <1>2 DEF Path
<1> QED BY <1>3 DEF Comes

\* The pieces and their places.  Only the recursion's table sizes are mixed twice.
PlaceOfPiece(P, p) ==
  IF P = "rv32im"
  THEN CASE p = "public_data" -> 1 [] p = "preprocessed" -> 2 [] p = "main" -> 3 [] p = "claim" -> 4 [] p = "pow" -> 5
         [] p = "sums" -> 6 [] p = "interaction_log_sizes" -> 7 [] p = "interaction" -> 8 [] p = "composition" -> 9
         [] p = "sampled" -> 10
  ELSE CASE p = "preprocessed" -> 1 [] p = "log_sizes" -> 2 [] p = "roots" -> 3 [] p = "leaves" -> 4 [] p = "channels" -> 5
         [] p = "circuits" -> 6 [] p = "main" -> 7 [] p = "sums" -> 9 [] p = "interaction" -> 10 [] p = "composition" -> 11
         [] p = "sampled" -> 12

LEMMA RecursionPlaces ==
  ASSUME NEW P, P # "rv32im", NEW i \in 1 .. 12
  PROVE  /\ Piece(P)[i] \in PieceNames \ {"pow", "interaction_log_sizes"}
         /\ Piece(P)[i] = "log_sizes" \/ PlaceOfPiece(P, Piece(P)[i]) = i
<1> USE DEF PlaceOfPiece, Piece, RecursionPieces, PieceNames, Commitments
<1>1. CASE i = 1
  BY <1>1
<1>2. CASE i = 2
  BY <1>2
<1>3. CASE i = 3
  BY <1>3
<1>4. CASE i = 4
  BY <1>4
<1>5. CASE i = 5
  BY <1>5
<1>6. CASE i = 6
  BY <1>6
<1>7. CASE i = 7
  BY <1>7
<1>8. CASE i = 8
  BY <1>8
<1>9. CASE i = 9
  BY <1>9
<1>10. CASE i = 10
  BY <1>10
<1>11. CASE i = 11
  BY <1>11
<1>12. CASE i = 12
  BY <1>12
<1> HIDE DEF PlaceOfPiece, Piece, RecursionPieces, PieceNames, Commitments
<1> QED BY <1>1, <1>2, <1>3, <1>4, <1>5, <1>6, <1>7, <1>8, <1>9, <1>10, <1>11, <1>12

LEMMA Places ==
  ASSUME NEW i \in 1 .. 10
  PROVE  /\ Piece("rv32im")[i] \in PieceNames \ {"log_sizes"}
         /\ PlaceOfPiece("rv32im", Piece("rv32im")[i]) = i
<1> USE DEF PlaceOfPiece, Piece, Pieces, PieceNames, Commitments
<1>1. CASE i = 1
  BY <1>1
<1>2. CASE i = 2
  BY <1>2
<1>3. CASE i = 3
  BY <1>3
<1>4. CASE i = 4
  BY <1>4
<1>5. CASE i = 5
  BY <1>5
<1>6. CASE i = 6
  BY <1>6
<1>7. CASE i = 7
  BY <1>7
<1>8. CASE i = 8
  BY <1>8
<1>9. CASE i = 9
  BY <1>9
<1>10. CASE i = 10
  BY <1>10
<1> HIDE DEF PlaceOfPiece, Piece, Pieces, PieceNames, Commitments
<1> QED BY <1>1, <1>2, <1>3, <1>4, <1>5, <1>6, <1>7, <1>8, <1>9, <1>10

LEMMA PieceIs ==
  ASSUME NEW P
  PROVE  /\ PieceCount(P) \in Nat
         /\ \A i \in 1 .. PieceCount(P) :
              /\ Piece(P)[i] \in PieceNames
              /\ Piece(P)[i] = "log_sizes" \/ PlaceOfPiece(P, Piece(P)[i]) = i
         /\ PlaceOfPiece("rv32im", "interaction") = 8 /\ PlaceOfPiece("rv32im", "interaction_log_sizes") = 7
         /\ Piece("rv32im")[7] = "interaction_log_sizes" /\ Piece("rv32im")[8] = "interaction"
<1>0. /\ PlaceOfPiece("rv32im", "interaction") = 8 /\ PlaceOfPiece("rv32im", "interaction_log_sizes") = 7
      /\ Piece("rv32im")[7] = "interaction_log_sizes" /\ Piece("rv32im")[8] = "interaction"
  BY DEF PlaceOfPiece, Piece, Pieces
<1>1. CASE P = "rv32im"
  <2>1. PieceCount(P) = 10
    BY <1>1 DEF PieceCount
  <2> QED BY <1>0, <1>1, <2>1, Places
<1>2. CASE P # "rv32im"
  <2>1. PieceCount(P) = 12
    BY <1>2 DEF PieceCount
  <2> QED BY <1>0, <1>2, <2>1, RecursionPlaces
<1> QED BY <1>1, <1>2

\* One proof leads to one digest, which is in the table.
LEMMA ComesOnce ==
  ASSUME NEW P, NEW t, NEW pf, NEW k \in 0 .. PieceCount(P), FitsTo(P, pf, k), NEW e, NEW f,
         Comes(P, t, pf, k, e), Comes(P, t, pf, k, f)
  PROVE  e = f
<1>1. PICK D : Path(P, t, pf, k, e, D)
  BY DEF Comes
<1>2. PICK E : Path(P, t, pf, k, f, E)
  BY DEF Comes
<1>0. PieceCount(P) \in Nat /\ k \in Nat
  BY PieceIs
<1> DEFINE S == {i \in 0 .. k : D[i] = E[i]}
<1>3. 0 \in S
  BY <1>0, <1>1, <1>2 DEF Path
<1>4. \A i \in 0 .. k - 1 : i \in S => i + 1 \in S
  <2> TAKE i \in 0 .. k - 1
  <2> HAVE i \in S
  <2>1. i + 1 \in 1 .. k /\ (i + 1) - 1 = i /\ i + 1 \in 0 .. k /\ i + 1 \in 1 .. PieceCount(P)
    BY <1>0
  <2> DEFINE p == Piece(P)[i + 1]
  <2>2. p \in PieceNames /\ Fits(p, pf[p])
    BY <2>1, PieceIs DEF FitsTo
  <2>3. Hop(P, t, pf, i + 1, D[i], D[i + 1]) /\ Hop(P, t, pf, i + 1, D[i], E[i + 1])
    BY <1>1, <1>2, <2>1 DEF Path
  <2>4. CASE Skipped(P, pf, p)
    BY <2>1, <2>3, <2>4 DEF Hop
  <2>5. CASE ~ Skipped(P, pf, p)
    <3> DEFINE c == Calls(P, p, pf[p])
    <3>1. Leads(t, D[i], c, D[i + 1]) /\ Leads(t, D[i], c, E[i + 1])
      BY <2>3, <2>5 DEF Hop
    <3> HIDE DEF p
    <3>2. Len(c) \in Nat
      BY <2>2, CallsList
    <3> HIDE DEF c
    <3>3. D[i + 1] = E[i + 1]
      BY <3>1, <3>2, LeadsOnce
    <3> QED BY <2>1, <3>3
  <2> QED BY <2>4, <2>5
<1>5. 0 .. k \subseteq S
  <2> HIDE DEF S
  <2> QED BY <1>0, <1>3, <1>4, InductionTo
<1> QED BY <1>0, <1>1, <1>2, <1>5 DEF Path

LEMMA ComesIn ==
  ASSUME NEW P, NEW t, Grounded(t), NEW pf, NEW k \in 0 .. PieceCount(P), FitsTo(P, pf, k), NEW e, Comes(P, t, pf, k, e)
  PROVE  e \in 0 .. Len(t)
<1>1. PICK D : Path(P, t, pf, k, e, D)
  BY DEF Comes
<1>0. PieceCount(P) \in Nat /\ k \in Nat /\ Len(t) \in Nat
  BY PieceIs, TableLength DEF Grounded
<1> DEFINE S == {i \in 0 .. k : D[i] \in 0 .. Len(t)}
<1>3. 0 \in S
  BY <1>0, <1>1 DEF Path
<1>4. \A i \in 0 .. k - 1 : i \in S => i + 1 \in S
  <2> TAKE i \in 0 .. k - 1
  <2> HAVE i \in S
  <2>1. i + 1 \in 1 .. k /\ (i + 1) - 1 = i /\ i + 1 \in 0 .. k /\ i + 1 \in 1 .. PieceCount(P)
    BY <1>0
  <2> DEFINE p == Piece(P)[i + 1]
  <2>2. p \in PieceNames /\ Fits(p, pf[p])
    BY <2>1, PieceIs DEF FitsTo
  <2>3. Hop(P, t, pf, i + 1, D[i], D[i + 1])
    BY <1>1, <2>1 DEF Path
  <2>4. CASE Skipped(P, pf, p)
    BY <2>1, <2>3, <2>4 DEF Hop
  <2>5. CASE ~ Skipped(P, pf, p)
    <3> DEFINE c == Calls(P, p, pf[p])
    <3>1. Leads(t, D[i], c, D[i + 1])
      BY <2>3, <2>5 DEF Hop
    <3> HIDE DEF p
    <3>2. Len(c) \in Nat
      BY <2>2, CallsList
    <3> HIDE DEF c
    <3>3. D[i + 1] \in 0 .. Len(t)
      BY <3>1, <3>2, LeadsIn
    <3> QED BY <2>1, <3>3
  <2> QED BY <2>4, <2>5
<1>5. 0 .. k \subseteq S
  <2> HIDE DEF S
  <2> QED BY <1>0, <1>3, <1>4, InductionTo
<1> QED BY <1>0, <1>1, <1>5 DEF Path

\* Two proofs that differ in one piece, and where they lead.
Differ(P, pf, ph, q) ==
  /\ \A i \in 1 .. PieceCount(P) : Piece(P)[i] # q => pf[Piece(P)[i]] = ph[Piece(P)[i]]
  /\ pf[q] # ph[q]
  /\ P = "rv32im" => ph["interaction_log_sizes"] # <<>>

\* The list of interaction sizes says whether the next piece is there: without
\* it the last call before the draws is a length, with it a root.
LEMMA SkipShows ==
  ASSUME NEW t, Grounded(t), NEW pf, NEW ph, NEW d, NEW e, pf["interaction_log_sizes"] = <<>>,
         Comes("rv32im", t, pf, 7, e), Leads(t, d, Calls("rv32im", "interaction", ph["interaction"]), e)
  PROVE  FALSE
<1>1. 6 \in Nat /\ Comes("rv32im", t, pf, 6 + 1, e)
  OBVIOUS
<1>2. PICK g : Hop("rv32im", t, pf, 6 + 1, g, e)
  BY <1>1, ComesBack
<1>3. Piece("rv32im")[6 + 1] = "interaction_log_sizes"
  BY PieceIs
<1>4. Leads(t, g, MixInteractionClaim(<<>>), e)
  BY <1>2, <1>3 DEF Hop, Skipped, Calls, Commitments
<1>5. MixInteractionClaim(<<>>) = << U64(0) >>
  BY DEF MixInteractionClaim
<1>6. Len(<< U64(0) >>) \in Nat \ {0} /\ << U64(0) >>[Len(<< U64(0) >>)] = U64(0)
  OBVIOUS
<1>7. t[e][2] = U64(0)
  BY <1>4, <1>5, <1>6, LeadsLast
<1> DEFINE root == << <<"r", ph["interaction"]>> >>
<1>8. Calls("rv32im", "interaction", ph["interaction"]) = << root >>
  BY DEF Calls, Commitments
<1>9. Len(<< root >>) \in Nat \ {0} /\ << root >>[Len(<< root >>)] = root /\ Len(root) = 1
  OBVIOUS
<1> HIDE DEF root
<1>10. t[e][2] = root
  BY <1>8, <1>9, LeadsLast
<1>11. Len(U64(0)) = 4
  BY U64Tell
<1> QED BY <1>7, <1>9, <1>10, <1>11

\* One piece, once: a digest tells it if the digest before it is known, or if it is one call.
LEMMA HopTells ==
  ASSUME NEW P, NEW t, Grounded(t), NEW p \in PieceNames, NEW v, Fits(p, v), NEW w, Fits(p, w),
         NEW d \in Nat, NEW f \in Nat, NEW e, Leads(t, d, Calls(P, p, v), e), Leads(t, f, Calls(P, p, w), e),
         d = f \/ p = "log_sizes"
  PROVE  v = w
<1> DEFINE c == Calls(P, p, v)
<1> DEFINE b == Calls(P, p, w)
<1>1. IsTable(c) /\ Len(c) \in Nat /\ IsTable(b) /\ Len(b) \in Nat
  BY CallsList
<1>2. Len(c) = Len(b) /\ \A j \in 1 .. Len(c) : c[j] = b[j]
  <2>1. CASE d = f
    <3> HIDE DEF c, b
    <3>1. Leads(t, d, c, e) /\ Leads(t, d, b, e)
      BY <2>1 DEF c, b
    <3> QED BY <1>1, <3>1, LeadsSame
  <2>2. CASE p = "log_sizes"
    <3>1. Len(c) = 1 /\ Len(b) = 1
      BY <2>2 DEF Calls, Commitments
    <3> HIDE DEF c, b
    <3>2. Leads(t, d, c, e) /\ Leads(t, f, b, e)
      BY DEF c, b
    <3> QED BY <3>1, <3>2, LeadsBack
  <2> QED BY <2>1, <2>2
<1>3. c = b
  <2> HIDE DEF c, b
  <2> QED BY <1>1, <1>2, TableSame
<1> QED BY <1>3, CallsTell

\* A digest tells all the pieces before it.
LEMMA Bound ==
  ASSUME NEW P, NEW t, Grounded(t), NEW pf, FitsTo(P, pf, PieceCount(P)), NEW ph, FitsTo(P, ph, PieceCount(P)),
         NEW q, Differ(P, pf, ph, q), NEW k \in 0 .. PieceCount(P), NEW e, Comes(P, t, pf, k, e), Comes(P, t, ph, k, e)
  PROVE  \A i \in 1 .. k : Piece(P)[i] # q
<1> DEFINE Apart(n) == \A i \in 1 .. n : Piece(P)[i] # q
<1> DEFINE Told(n) == \A x : Comes(P, t, pf, n, x) /\ Comes(P, t, ph, n, x) => Apart(n)
<1> DEFINE S == {n \in 0 .. k : Told(n)}
<1>0. PieceCount(P) \in Nat /\ k \in Nat
  BY PieceIs
<1>1. 0 \in S
  BY <1>0
<1>2. ASSUME NEW n \in 0 .. k - 1, Told(n) PROVE Told(n + 1)
  <2> SUFFICES ASSUME NEW x, Comes(P, t, pf, n + 1, x), Comes(P, t, ph, n + 1, x) PROVE Apart(n + 1)
    OBVIOUS
  <2>0. n \in Nat /\ n + 1 \in 1 .. PieceCount(P) /\ n \in 0 .. PieceCount(P)
    BY <1>0
  <2>1. PICK d : Comes(P, t, pf, n, d) /\ Hop(P, t, pf, n + 1, d, x)
    BY <2>0, ComesBack
  <2>2. PICK f : Comes(P, t, ph, n, f) /\ Hop(P, t, ph, n + 1, f, x)
    BY <2>0, ComesBack
  <2> DEFINE p == Piece(P)[n + 1]
  <2>3. p \in PieceNames /\ Fits(p, pf[p]) /\ Fits(p, ph[p]) /\ (p = "log_sizes" \/ PlaceOfPiece(P, p) = n + 1)
    BY <2>0, PieceIs DEF FitsTo
  <2>4. FitsTo(P, pf, n) /\ FitsTo(P, ph, n)
    BY <1>0, <2>0 DEF FitsTo
  <2>5. d \in Nat /\ f \in Nat
    BY <2>0, <2>1, <2>2, <2>4, ComesIn, TableLength DEF Grounded
  <2>6. ~ Skipped(P, ph, p) /\ Leads(t, f, Calls(P, p, ph[p]), x)
    BY <2>2 DEF Skipped, Differ, Hop
  <2>7. ~ Skipped(P, pf, p)
    <3> SUFFICES ASSUME Skipped(P, pf, p) PROVE FALSE
      OBVIOUS
    <3>1. P = "rv32im" /\ p = "interaction" /\ pf["interaction_log_sizes"] = <<>>
      BY DEF Skipped
    <3>2. n = 7
      BY <2>0, <2>3, <3>1, PieceIs
    <3>3. x = d
      BY <2>1 DEF Hop
    <3>4. Comes("rv32im", t, pf, 7, x) /\ Leads(t, f, Calls("rv32im", "interaction", ph["interaction"]), x)
      BY <2>1, <2>6, <3>1, <3>2, <3>3
    <3> QED BY <3>1, <3>4, SkipShows
  <2>8. Leads(t, d, Calls(P, p, pf[p]), x)
    BY <2>1, <2>7 DEF Hop
  <2> HIDE DEF p
  <2>9. p # q
    <3> SUFFICES ASSUME p = q PROVE FALSE
      OBVIOUS
    <3>1. d = f \/ p = "log_sizes"
      <4> SUFFICES ASSUME p # "log_sizes" PROVE d = f
        OBVIOUS
      <4>1. \A i \in 1 .. n : i \in 1 .. PieceCount(P) /\ Piece(P)[i] # q
        <5> TAKE i \in 1 .. n
        <5>1. i \in 1 .. PieceCount(P) /\ i # n + 1
          BY <1>0, <2>0
        <5>2. Piece(P)[i] \in PieceNames /\ (Piece(P)[i] = "log_sizes" \/ PlaceOfPiece(P, Piece(P)[i]) = i)
          BY <5>1, PieceIs
        <5> QED BY <2>3, <5>1, <5>2
      <4>2. AgreeTo(P, pf, ph, n)
        <5>1. ASSUME NEW i \in 1 .. n PROVE pf[Piece(P)[i]] = ph[Piece(P)[i]]
          BY <4>1 DEF Differ
        <5>2. ASSUME NEW i \in 1 .. n PROVE Skipped(P, pf, Piece(P)[i]) <=> Skipped(P, ph, Piece(P)[i])
          <6>1. CASE P = "rv32im" /\ Piece(P)[i] = "interaction"
            <7>1. i \in 1 .. PieceCount(P)
              BY <1>0, <2>0
            <7>2. i = 8
              BY <6>1, <7>1, PieceIs
            <7>3. 7 \in 1 .. n
              BY <2>0, <7>2
            <7>4. pf["interaction_log_sizes"] = ph["interaction_log_sizes"]
              BY <6>1, <7>3, <5>1, PieceIs
            <7> QED BY <7>4 DEF Skipped
          <6>2. CASE ~ (P = "rv32im" /\ Piece(P)[i] = "interaction")
            BY <6>2 DEF Skipped
          <6> QED BY <6>1, <6>2
        <5> QED BY <5>1, <5>2 DEF AgreeTo
      <4>3. Comes(P, t, ph, n, d)
        BY <2>0, <2>1, <4>2, ComesAgree
      <4> QED BY <2>0, <2>2, <2>4, <4>3, ComesOnce
    <3>2. pf[p] = ph[p]
      BY <2>3, <2>5, <2>6, <2>8, <3>1, HopTells
    <3> QED BY <3>2 DEF Differ
  <2>10. d = f
    <3> DEFINE c == Calls(P, p, pf[p])
    <3>1. pf[p] = ph[p]
      BY <2>0, <2>9 DEF Differ, p
    <3>2. Leads(t, d, c, x) /\ Leads(t, f, c, x)
      BY <2>6, <2>8, <3>1
    <3>3. Len(c) \in Nat /\ Len(c) = Len(c)
      BY <2>3, CallsList
    <3> HIDE DEF c
    <3> QED BY <3>2, <3>3, LeadsBack
  <2>11. Apart(n)
    BY <1>2, <2>1, <2>2, <2>10
  <2>12. ASSUME NEW i \in 1 .. n + 1 PROVE Piece(P)[i] # q
    <3>1. CASE i = n + 1
      BY <2>9, <3>1 DEF p
    <3>2. CASE i # n + 1
      <4>1. i \in 1 .. n
        BY <2>0, <3>2
      <4> QED BY <2>11, <4>1
    <3> QED BY <3>1, <3>2
  <2> QED BY <2>12
<1>3. \A n \in 0 .. k - 1 : n \in S => n + 1 \in S
  <2> HIDE DEF Told
  <2> TAKE n \in 0 .. k - 1
  <2>1. n + 1 \in 0 .. k
    BY <1>0
  <2> QED BY <2>1, <1>2
<1>4. 0 .. k \subseteq S
  <2> HIDE DEF S
  <2> QED BY <1>0, <1>1, <1>3, InductionTo
<1>5. Told(k)
  <2> HIDE DEF Told
  <2> QED BY <1>0, <1>4
<1> QED BY <1>5

-----------------------------------------------------------------------------
(* The plans of all roles of both protocols, with the pieces that are mixed  *)
(* and the counter of the channel before every step.                         *)

RecursionProverPlan ==
  << Mix("preprocessed"), Mix("log_sizes"), Mix("roots"), Mix("leaves"), Mix("channels"), Mix("circuits"),
     Mix("main"), Draw("relations", NRelations), Draw("recursion_relations", NRelations),
     Mix("log_sizes"), Mix("sums"), Mix("interaction"), Draw("random_coeff", 1), Mix("composition"),
     Draw("oods", 1), Mix("sampled") >>
RecursionVerifierPlan ==
  << Check("outputs"), Mix("preprocessed"), Mix("log_sizes"), Mix("roots"), Mix("leaves"), Mix("channels"),
     Mix("circuits"), Mix("main"), Draw("relations", NRelations), Draw("recursion_relations", NRelations),
     Check("logup"), Mix("log_sizes"), Mix("sums"), Mix("interaction"), Draw("random_coeff", 1), Mix("composition"),
     Draw("oods", 1), Check("masks"), Check("oods"), Mix("sampled"), Check("opening") >>

Protocols == {"rv32im", "recursion"}
Roles(P) == IF P = "rv32im" THEN {"prover", "verifier", "replay"} ELSE {"prover", "verifier"}
PlanOf(P, r) ==
  IF P = "rv32im" THEN CASE r = "prover" -> ProverPlan [] r = "verifier" -> VerifierPlan [] r = "replay" -> ReplayPlan
  ELSE CASE r = "prover" -> RecursionProverPlan [] r = "verifier" -> RecursionVerifierPlan
StepsOf(P, r) ==
  IF P = "rv32im" THEN CASE r = "prover" -> 13 [] r = "verifier" -> 18 [] r = "replay" -> 15
  ELSE CASE r = "prover" -> 16 [] r = "verifier" -> 21
Done(P, r) ==
  IF P = "rv32im"
  THEN CASE r = "prover" -> <<0, 1, 2, 3, 4, 5, 5, 6, 7, 8, 8, 9, 9, 10>>
         [] r = "verifier" -> <<0, 1, 2, 3, 4, 4, 5, 5, 6, 7, 8, 8, 8, 9, 9, 9, 9, 10, 10>>
         [] r = "replay" -> <<0, 1, 2, 3, 4, 4, 5, 5, 6, 7, 8, 8, 9, 9, 9, 9>>
  ELSE CASE r = "prover" -> <<0, 1, 2, 3, 4, 5, 6, 7, 7, 7, 8, 9, 10, 10, 11, 11, 12>>
         [] r = "verifier" -> <<0, 0, 1, 2, 3, 4, 5, 6, 7, 7, 7, 7, 8, 9, 10, 10, 11, 11, 11, 11, 12, 12>>
Count(P, r) ==
  LET N == NRelations
      M == NRelations + NRelations
  IN  IF P = "rv32im"
      THEN CASE r = "prover" -> <<0, 0, 0, 0, 0, 0, N, 0, 0, 0, 1, 0, 1, 0>>
             [] r = "verifier" -> <<0, 0, 0, 0, 0, 0, 0, N, 0, 0, 0, 0, 1, 0, 1, 1, 1, 0, 0>>
             [] r = "replay" -> <<0, 0, 0, 0, 0, 0, 0, N, 0, 0, 0, 1, 0, 1, 1, 1>>
      ELSE CASE r = "prover" -> <<0, 0, 0, 0, 0, 0, 0, 0, N, M, 0, 0, 0, 1, 0, 1, 0>>
             [] r = "verifier" -> <<0, 0, 0, 0, 0, 0, 0, 0, 0, N, M, M, 0, 0, 0, 1, 0, 1, 1, 1, 0, 0>>

\* The draws: how many pieces are mixed before each, where its counter starts, at which step it is.
RelationNames(P) == IF P = "rv32im" THEN {"relations"} ELSE {"relations", "recursion_relations"}
DrawsOf(P) == RelationNames(P) \cup {"random_coeff", "oods"}
Depth(P, name) ==
  IF P = "rv32im" THEN CASE name = "relations" -> 5 [] name = "random_coeff" -> 8 [] name = "oods" -> 9
  ELSE CASE name \in {"relations", "recursion_relations"} -> 7 [] name = "random_coeff" -> 10 [] name = "oods" -> 11
Offset(name) == IF name = "recursion_relations" THEN NRelations ELSE 0
DrawnAt(P, r, name) ==
  IF P = "rv32im"
  THEN CASE name = "relations" -> (IF r = "prover" THEN 6 ELSE 7)
         [] name = "random_coeff" -> (IF r = "prover" THEN 10 ELSE IF r = "verifier" THEN 12 ELSE 11)
         [] name = "oods" -> (IF r = "prover" THEN 12 ELSE IF r = "verifier" THEN 14 ELSE 13)
  ELSE CASE name = "relations" -> (IF r = "prover" THEN 8 ELSE 9)
         [] name = "recursion_relations" -> (IF r = "prover" THEN 9 ELSE 10)
         [] name = "random_coeff" -> (IF r = "prover" THEN 13 ELSE 15)
         [] name = "oods" -> (IF r = "prover" THEN 15 ELSE 17)

StepFact(P, r, k) ==
  LET step == PlanOf(P, r)[k]
      done == Done(P, r)
      n == Count(P, r)
  IN  /\ step.do \in {"mix", "draw", "check", "pow"}
      /\ done[k] \in 0 .. PieceCount(P) /\ done[k + 1] \in 0 .. PieceCount(P)
      /\ step.do = "mix" => /\ done[k] \in 0 .. PieceCount(P) - 1 /\ step.what = Piece(P)[done[k] + 1]
                            /\ done[k + 1] = done[k] + 1 /\ n[k + 1] = 0
                            /\ step.what = "interaction" => n[k] = 0
      /\ step.do = "draw" => /\ done[k + 1] = done[k] /\ n[k + 1] = n[k] + step.n
                             /\ step.what \in DrawsOf(P) /\ Depth(P, step.what) = done[k] /\ Offset(step.what) = n[k]
      /\ step.do = "check" => r # "prover" /\ done[k + 1] = done[k] /\ n[k + 1] = n[k]
      /\ step.do = "pow" => P = "rv32im" /\ r = "prover" /\ done[k] = 4 /\ done[k + 1] = 5 /\ n[k + 1] = 0
DrawFact(P, r, k) ==
  LET step == PlanOf(P, r)[k]
  IN  /\ step.do = "draw" => DrawnAt(P, r, step.what) = k
      /\ \A name \in DrawsOf(P) : DrawnAt(P, r, name) = k => step.do = "draw" /\ step.what = name
      /\ \A name \in DrawsOf(P) : DrawnAt(P, r, name) <= k => Depth(P, name) <= Done(P, r)[k]
      /\ step.do = "mix" /\ step.what \in {"sums", "interaction"} => \A name \in RelationNames(P) : DrawnAt(P, r, name) < k
      /\ step.do = "mix" /\ step.what = "sampled" => \A name \in DrawsOf(P) : DrawnAt(P, r, name) < k
CheckFact(P, r, k) ==
  LET step == PlanOf(P, r)[k]
  IN  /\ step.do = "check" =>
           /\ step.what \in {"pow", "outputs", "logup", "masks", "oods", "opening"}
           /\ step.what = "pow" => P = "rv32im" /\ Done(P, r)[k] = 4
           /\ step.what = "outputs" => P = "recursion"
           /\ step.what = "logup" => \A name \in RelationNames(P) : DrawnAt(P, r, name) < k
           /\ step.what \in {"masks", "oods"} => \A name \in DrawsOf(P) : DrawnAt(P, r, name) < k
           /\ step.what = "opening" => Done(P, r)[k] = PieceCount(P)
      /\ r = "verifier" /\ k = StepsOf(P, r) => step.do = "check" /\ step.what = "opening"

\* Every step of every plan is as these say.
LEMMA ProverSteps ==
  ASSUME NEW k \in 1 .. 13
  PROVE  StepFact("rv32im", "prover", k) /\ DrawFact("rv32im", "prover", k) /\ CheckFact("rv32im", "prover", k)
<1> USE NumbersAre DEF StepFact, DrawFact, CheckFact, PlanOf, ProverPlan, Mix, Draw, Check, Pow, Done, Count, PieceCount, Piece, Pieces, DrawsOf, RelationNames,
        Depth, Offset, DrawnAt, StepsOf
<1>1. CASE k = 1
  BY <1>1
<1>2. CASE k = 2
  BY <1>2
<1>3. CASE k = 3
  BY <1>3
<1>4. CASE k = 4
  BY <1>4
<1>5. CASE k = 5
  BY <1>5
<1>6. CASE k = 6
  BY <1>6
<1>7. CASE k = 7
  BY <1>7
<1>8. CASE k = 8
  BY <1>8
<1>9. CASE k = 9
  BY <1>9
<1>10. CASE k = 10
  BY <1>10
<1>11. CASE k = 11
  BY <1>11
<1>12. CASE k = 12
  BY <1>12
<1>13. CASE k = 13
  BY <1>13
<1> HIDE DEF StepFact, DrawFact, CheckFact, PlanOf, ProverPlan, Mix, Draw, Check, Pow, Done, Count, PieceCount, Piece, Pieces, DrawsOf, RelationNames,
         Depth, Offset, DrawnAt, StepsOf
<1> QED BY <1>1, <1>2, <1>3, <1>4, <1>5, <1>6, <1>7, <1>8, <1>9, <1>10, <1>11, <1>12, <1>13

LEMMA VerifierSteps ==
  ASSUME NEW k \in 1 .. 18
  PROVE  StepFact("rv32im", "verifier", k) /\ DrawFact("rv32im", "verifier", k) /\ CheckFact("rv32im", "verifier", k)
<1> USE NumbersAre DEF StepFact, DrawFact, CheckFact, PlanOf, VerifierPlan, Mix, Draw, Check, Pow, Done, Count, PieceCount, Piece, Pieces, DrawsOf, RelationNames,
        Depth, Offset, DrawnAt, StepsOf
<1>1. CASE k = 1
  BY <1>1
<1>2. CASE k = 2
  BY <1>2
<1>3. CASE k = 3
  BY <1>3
<1>4. CASE k = 4
  BY <1>4
<1>5. CASE k = 5
  BY <1>5
<1>6. CASE k = 6
  BY <1>6
<1>7. CASE k = 7
  BY <1>7
<1>8. CASE k = 8
  BY <1>8
<1>9. CASE k = 9
  BY <1>9
<1>10. CASE k = 10
  BY <1>10
<1>11. CASE k = 11
  BY <1>11
<1>12. CASE k = 12
  BY <1>12
<1>13. CASE k = 13
  BY <1>13
<1>14. CASE k = 14
  BY <1>14
<1>15. CASE k = 15
  BY <1>15
<1>16. CASE k = 16
  BY <1>16
<1>17. CASE k = 17
  BY <1>17
<1>18. CASE k = 18
  BY <1>18
<1> HIDE DEF StepFact, DrawFact, CheckFact, PlanOf, VerifierPlan, Mix, Draw, Check, Pow, Done, Count, PieceCount, Piece, Pieces, DrawsOf, RelationNames,
         Depth, Offset, DrawnAt, StepsOf
<1> QED BY <1>1, <1>2, <1>3, <1>4, <1>5, <1>6, <1>7, <1>8, <1>9, <1>10, <1>11, <1>12, <1>13, <1>14, <1>15, <1>16, <1>17, <1>18

LEMMA ReplaySteps ==
  ASSUME NEW k \in 1 .. 15
  PROVE  StepFact("rv32im", "replay", k) /\ DrawFact("rv32im", "replay", k) /\ CheckFact("rv32im", "replay", k)
<1> USE NumbersAre DEF StepFact, DrawFact, CheckFact, PlanOf, ReplayPlan, Mix, Draw, Check, Pow, Done, Count, PieceCount, Piece, Pieces, DrawsOf, RelationNames,
        Depth, Offset, DrawnAt, StepsOf
<1>1. CASE k = 1
  BY <1>1
<1>2. CASE k = 2
  BY <1>2
<1>3. CASE k = 3
  BY <1>3
<1>4. CASE k = 4
  BY <1>4
<1>5. CASE k = 5
  BY <1>5
<1>6. CASE k = 6
  BY <1>6
<1>7. CASE k = 7
  BY <1>7
<1>8. CASE k = 8
  BY <1>8
<1>9. CASE k = 9
  BY <1>9
<1>10. CASE k = 10
  BY <1>10
<1>11. CASE k = 11
  BY <1>11
<1>12. CASE k = 12
  BY <1>12
<1>13. CASE k = 13
  BY <1>13
<1>14. CASE k = 14
  BY <1>14
<1>15. CASE k = 15
  BY <1>15
<1> HIDE DEF StepFact, DrawFact, CheckFact, PlanOf, ReplayPlan, Mix, Draw, Check, Pow, Done, Count, PieceCount, Piece, Pieces, DrawsOf, RelationNames,
         Depth, Offset, DrawnAt, StepsOf
<1> QED BY <1>1, <1>2, <1>3, <1>4, <1>5, <1>6, <1>7, <1>8, <1>9, <1>10, <1>11, <1>12, <1>13, <1>14, <1>15

LEMMA RecursionProverSteps ==
  ASSUME NEW k \in 1 .. 16
  PROVE  StepFact("recursion", "prover", k) /\ DrawFact("recursion", "prover", k) /\ CheckFact("recursion", "prover", k)
<1> USE NumbersAre DEF StepFact, DrawFact, CheckFact, PlanOf, RecursionProverPlan, Mix, Draw, Check, Pow, Done, Count, PieceCount, Piece, RecursionPieces, DrawsOf, RelationNames,
        Depth, Offset, DrawnAt, StepsOf
<1>1. CASE k = 1
  BY <1>1
<1>2. CASE k = 2
  BY <1>2
<1>3. CASE k = 3
  BY <1>3
<1>4. CASE k = 4
  BY <1>4
<1>5. CASE k = 5
  BY <1>5
<1>6. CASE k = 6
  BY <1>6
<1>7. CASE k = 7
  BY <1>7
<1>8. CASE k = 8
  BY <1>8
<1>9. CASE k = 9
  BY <1>9
<1>10. CASE k = 10
  BY <1>10
<1>11. CASE k = 11
  BY <1>11
<1>12. CASE k = 12
  BY <1>12
<1>13. CASE k = 13
  BY <1>13
<1>14. CASE k = 14
  BY <1>14
<1>15. CASE k = 15
  BY <1>15
<1>16. CASE k = 16
  BY <1>16
<1> HIDE DEF StepFact, DrawFact, CheckFact, PlanOf, RecursionProverPlan, Mix, Draw, Check, Pow, Done, Count, PieceCount, Piece, RecursionPieces, DrawsOf, RelationNames,
         Depth, Offset, DrawnAt, StepsOf
<1> QED BY <1>1, <1>2, <1>3, <1>4, <1>5, <1>6, <1>7, <1>8, <1>9, <1>10, <1>11, <1>12, <1>13, <1>14, <1>15, <1>16

LEMMA RecursionVerifierSteps ==
  ASSUME NEW k \in 1 .. 21
  PROVE  StepFact("recursion", "verifier", k) /\ DrawFact("recursion", "verifier", k) /\ CheckFact("recursion", "verifier", k)
<1> USE NumbersAre DEF StepFact, DrawFact, CheckFact, PlanOf, RecursionVerifierPlan, Mix, Draw, Check, Pow, Done, Count, PieceCount, Piece, RecursionPieces, DrawsOf, RelationNames,
        Depth, Offset, DrawnAt, StepsOf
<1>1. CASE k = 1
  BY <1>1
<1>2. CASE k = 2
  BY <1>2
<1>3. CASE k = 3
  BY <1>3
<1>4. CASE k = 4
  BY <1>4
<1>5. CASE k = 5
  BY <1>5
<1>6. CASE k = 6
  BY <1>6
<1>7. CASE k = 7
  BY <1>7
<1>8. CASE k = 8
  BY <1>8
<1>9. CASE k = 9
  BY <1>9
<1>10. CASE k = 10
  BY <1>10
<1>11. CASE k = 11
  BY <1>11
<1>12. CASE k = 12
  BY <1>12
<1>13. CASE k = 13
  BY <1>13
<1>14. CASE k = 14
  BY <1>14
<1>15. CASE k = 15
  BY <1>15
<1>16. CASE k = 16
  BY <1>16
<1>17. CASE k = 17
  BY <1>17
<1>18. CASE k = 18
  BY <1>18
<1>19. CASE k = 19
  BY <1>19
<1>20. CASE k = 20
  BY <1>20
<1>21. CASE k = 21
  BY <1>21
<1> HIDE DEF StepFact, DrawFact, CheckFact, PlanOf, RecursionVerifierPlan, Mix, Draw, Check, Pow, Done, Count, PieceCount, Piece, RecursionPieces, DrawsOf, RelationNames,
         Depth, Offset, DrawnAt, StepsOf
<1> QED BY <1>1, <1>2, <1>3, <1>4, <1>5, <1>6, <1>7, <1>8, <1>9, <1>10, <1>11, <1>12, <1>13, <1>14, <1>15, <1>16, <1>17, <1>18, <1>19, <1>20, <1>21

\* The model's scripts are the plans: the recursion prover's,
LEMMA RecursionProverScript ==
  ASSUME role = "prover", protocol # "rv32im"
  PROVE  Len(Script) = 16 /\ \A j \in 1 .. 16 : Script[j] = RecursionProverPlan[j]
<1> DEFINE P == RecursionProverPlan
<1> DEFINE a == ProveRecursion
<1> DEFINE b == StarkTail
<1> DEFINE c == << Mix("sampled") >>
<1>1. Along(a, P, 0, 12)
  <2>1. IsTable(a) /\ Len(a) = 12
    <3>1. PICK x1, x2, x3, x4, x5, x6, x7, x8, x9, x10, x11, x12 :
            a = <<x1, x2, x3, x4, x5, x6, x7, x8, x9, x10, x11, x12>>
      BY DEF ProveRecursion
    <3>2. /\ <<x1, x2, x3, x4, x5, x6, x7, x8, x9, x10, x11, x12>>
               \in Seq({x1, x2, x3, x4, x5, x6, x7, x8, x9, x10, x11, x12})
          /\ Len(<<x1, x2, x3, x4, x5, x6, x7, x8, x9, x10, x11, x12>>) = 12
      OBVIOUS
    <3> QED BY <3>1, <3>2 DEF IsTable
  <2>2. \A j \in 1 .. 12 : a[j] = P[0 + j]
    BY DEF ProveRecursion, RecursionProverPlan
  <2> QED BY <2>1, <2>2 DEF Along
<1>2. Along(b, P, 12, 3)
  <2>1. IsTable(b) /\ Len(b) = 3
    BY Parts
  <2>2. \A j \in 1 .. 3 : b[j] = P[12 + j]
    BY DEF StarkTail, RecursionProverPlan
  <2> QED BY <2>1, <2>2 DEF Along
<1>3. Along(c, P, 15, 1)
  <2>1. IsTable(c) /\ Len(c) = 1
    BY Parts
  <2>2. \A j \in 1 .. 1 : c[j] = P[15 + j]
    BY DEF RecursionProverPlan
  <2> QED BY <2>1, <2>2 DEF Along
<1>4. Script = Join(Join(a, b), c)
  BY DEF Script, Join
<1> HIDE DEF P, a, b, c
<1>5. Along(Join(a, b), P, 0, 12 + 3)
  BY <1>1, <1>2, AlongJoined
<1>6. Along(Join(a, b), P, 0, 15)
  BY <1>5
<1>7. Along(Join(Join(a, b), c), P, 0, 15 + 1)
  BY <1>6, <1>3, AlongJoined
<1>8. Along(Join(Join(a, b), c), P, 0, 16)
  BY <1>7
<1> QED BY <1>4, <1>8 DEF P, Along

\* the recursion verifier's,
LEMMA RecursionVerifierScript ==
  ASSUME role = "verifier", protocol # "rv32im"
  PROVE  Len(Script) = 21 /\ \A j \in 1 .. 21 : Script[j] = RecursionVerifierPlan[j]
<1> DEFINE P == RecursionVerifierPlan
<1> DEFINE a == VerifyRecursion
<1> DEFINE b == StarkTail
<1> DEFINE c == << Check("masks"), Check("oods") >>
<1> DEFINE d == Openings
<1>1. Along(a, P, 0, 14)
  <2>1. IsTable(a) /\ Len(a) = 14
    <3>1. PICK x1, x2, x3, x4, x5, x6, x7, x8, x9, x10, x11, x12, x13, x14 :
            a = <<x1, x2, x3, x4, x5, x6, x7, x8, x9, x10, x11, x12, x13, x14>>
      BY DEF VerifyRecursion
    <3>2. /\ <<x1, x2, x3, x4, x5, x6, x7, x8, x9, x10, x11, x12, x13, x14>>
               \in Seq({x1, x2, x3, x4, x5, x6, x7, x8, x9, x10, x11, x12, x13, x14})
          /\ Len(<<x1, x2, x3, x4, x5, x6, x7, x8, x9, x10, x11, x12, x13, x14>>) = 14
      OBVIOUS
    <3> QED BY <3>1, <3>2 DEF IsTable
  <2>2. \A j \in 1 .. 14 : a[j] = P[0 + j]
    BY DEF VerifyRecursion, RecursionVerifierPlan
  <2> QED BY <2>1, <2>2 DEF Along
<1>2. Along(b, P, 14, 3)
  <2>1. IsTable(b) /\ Len(b) = 3
    BY Parts
  <2>2. \A j \in 1 .. 3 : b[j] = P[14 + j]
    BY DEF StarkTail, RecursionVerifierPlan
  <2> QED BY <2>1, <2>2 DEF Along
<1>3. Along(c, P, 17, 2)
  <2>1. IsTable(c) /\ Len(c) = 2
    BY Parts
  <2>2. \A j \in 1 .. 2 : c[j] = P[17 + j]
    BY DEF RecursionVerifierPlan
  <2> QED BY <2>1, <2>2 DEF Along
<1>4. Along(d, P, 19, 2)
  <2>1. IsTable(d) /\ Len(d) = 2
    BY Parts
  <2>2. \A j \in 1 .. 2 : d[j] = P[19 + j]
    BY DEF Openings, RecursionVerifierPlan
  <2> QED BY <2>1, <2>2 DEF Along
<1>5. Script = Join(Join(Join(a, b), c), d)
  BY DEF Script, Join
<1> HIDE DEF P, a, b, c, d
<1>6. Along(Join(a, b), P, 0, 14 + 3)
  BY <1>1, <1>2, AlongJoined
<1>7. Along(Join(a, b), P, 0, 17)
  BY <1>6
<1>8. Along(Join(Join(a, b), c), P, 0, 17 + 2)
  BY <1>7, <1>3, AlongJoined
<1>9. Along(Join(Join(a, b), c), P, 0, 19)
  BY <1>8
<1>10. Along(Join(Join(Join(a, b), c), d), P, 0, 19 + 2)
  BY <1>9, <1>4, AlongJoined
<1>11. Along(Join(Join(Join(a, b), c), d), P, 0, 21)
  BY <1>10
<1> QED BY <1>5, <1>11 DEF P, Along

LEMMA FactsAre ==
  ASSUME NEW P \in Protocols, NEW r \in Roles(P), NEW k \in 1 .. StepsOf(P, r)
  PROVE  StepFact(P, r, k) /\ DrawFact(P, r, k) /\ CheckFact(P, r, k)
<1>1. CASE P = "rv32im" /\ r = "prover"
  BY <1>1, ProverSteps DEF StepsOf
<1>2. CASE P = "rv32im" /\ r = "verifier"
  BY <1>2, VerifierSteps DEF StepsOf
<1>3. CASE P = "rv32im" /\ r = "replay"
  BY <1>3, ReplaySteps DEF StepsOf
<1>4. CASE P = "recursion" /\ r = "prover"
  BY <1>4, RecursionProverSteps DEF StepsOf
<1>5. CASE P = "recursion" /\ r = "verifier"
  BY <1>5, RecursionVerifierSteps DEF StepsOf
<1> QED BY <1>1, <1>2, <1>3, <1>4, <1>5 DEF Protocols, Roles

\* and everyone's.
LEMMA ScriptIs ==
  ASSUME protocol \in Protocols, role \in Roles(protocol)
  PROVE  /\ Len(Script) = StepsOf(protocol, role)
         /\ \A j \in 1 .. StepsOf(protocol, role) : Script[j] = PlanOf(protocol, role)[j]
<1>1. CASE protocol = "rv32im" /\ role = "prover"
  BY <1>1, ProverScript DEF StepsOf, PlanOf
<1>2. CASE protocol = "rv32im" /\ role = "verifier"
  BY <1>2, VerifierScript DEF StepsOf, PlanOf
<1>3. CASE protocol = "rv32im" /\ role = "replay"
  BY <1>3, ReplayScript DEF StepsOf, PlanOf
<1>4. CASE protocol = "recursion" /\ role = "prover"
  BY <1>4, RecursionProverScript DEF StepsOf, PlanOf
<1>5. CASE protocol = "recursion" /\ role = "verifier"
  BY <1>5, RecursionVerifierScript DEF StepsOf, PlanOf
<1> QED BY <1>1, <1>2, <1>3, <1>4, <1>5 DEF Protocols, Roles

\* Every draw and every check of a plan is before its end.
LEMMA StepsIn ==
  ASSUME NEW P \in Protocols, NEW r \in Roles(P)
  PROVE  /\ StepsOf(P, r) \in Nat \ {0} /\ Done(P, r)[1] = 0 /\ Count(P, r)[1] = 0
         /\ \A name \in DrawsOf(P) : DrawnAt(P, r, name) \in 1 .. StepsOf(P, r)
         /\ \A name \in DrawsOf(P) : Depth(P, name) \in 1 .. PieceCount(P)
         /\ r \in {"verifier", "replay"} => \A name \in DrawsOf(P) : DrawnAt(P, r, name) # 1
         /\ r \in {"prover", "verifier"} => Done(P, r)[StepsOf(P, r) + 1] = PieceCount(P)
<1> USE DEF StepsOf, Done, Count, DrawsOf, RelationNames, DrawnAt, Depth, PieceCount
<1>1. CASE P = "rv32im" /\ r = "prover"
  BY <1>1
<1>2. CASE P = "rv32im" /\ r = "verifier"
  BY <1>2
<1>3. CASE P = "rv32im" /\ r = "replay"
  BY <1>3
<1>4. CASE P = "recursion" /\ r = "prover"
  BY <1>4
<1>5. CASE P = "recursion" /\ r = "verifier"
  BY <1>5
<1> HIDE DEF StepsOf, Done, Count, DrawsOf, RelationNames, DrawnAt, Depth, PieceCount
<1> QED BY <1>1, <1>2, <1>3, <1>4, <1>5 DEF Protocols, Roles

-----------------------------------------------------------------------------
(* What a role has done when it is about to take step k of its plan.         *)

DrewAt(P, t, pf, name, x) == \E e : x = <<e, Offset(name)>> /\ Comes(P, t, pf, Depth(P, name), e)
DrewTo(P, r, t, pf, k, dr) ==
  /\ \A name \in DOMAIN dr : name \in DrawsOf(P) /\ DrawnAt(P, r, name) < k /\ DrewAt(P, t, pf, name, dr[name])
  /\ \A name \in DrawsOf(P) : DrawnAt(P, r, name) < k => name \in DOMAIN dr
At(P, r, t, pf, k, d, n, dr) ==
  /\ k \in 1 .. StepsOf(P, r) + 1
  /\ n = Count(P, r)[k]
  /\ Comes(P, t, pf, Done(P, r)[k], d)
  /\ DrewTo(P, r, t, pf, k, dr)

\* A draw stays what it is while the table grows and pieces after it are added.
LEMMA DrewKeeps ==
  ASSUME NEW P, NEW t, IsTable(t), NEW u, IsTable(u), Extends(u, t), NEW pf, NEW pg, NEW k \in Nat,
         AgreeTo(P, pf, pg, k), NEW name, Depth(P, name) \in 0 .. k, NEW x, DrewAt(P, t, pf, name, x)
  PROVE  DrewAt(P, u, pg, name, x)
<1>1. PICK e : x = <<e, Offset(name)>> /\ Comes(P, t, pf, Depth(P, name), e)
  BY DEF DrewAt
<1> DEFINE m == Depth(P, name)
<1>2. m \in Nat /\ AgreeTo(P, pf, pg, m)
  BY DEF AgreeTo
<1> HIDE DEF m
<1>3. Comes(P, t, pg, m, e)
  BY <1>1, <1>2, ComesAgree DEF m
<1>4. Comes(P, u, pg, m, e)
  BY <1>2, <1>3, ComesKept
<1> QED BY <1>1, <1>4 DEF DrewAt, m

\* Every proof agrees with itself.
LEMMA AgreeSelf ==
  ASSUME NEW P, NEW pf, NEW k
  PROVE  AgreeTo(P, pf, pf, k)
  BY DEF AgreeTo

\* The steps of a plan: mixing a piece that may be new to the proof, or grinding,
LEMMA AtMixes ==
  ASSUME NEW P \in Protocols, NEW r \in Roles(P), NEW t, IsTable(t), NEW u, IsTable(u), Extends(u, t),
         NEW pf, NEW pg, NEW k, NEW d, NEW n, NEW dr, At(P, r, t, pf, k, d, n, dr), k \in 1 .. StepsOf(P, r),
         PlanOf(P, r)[k].do \in {"mix", "pow"}, AgreeTo(P, pf, pg, Done(P, r)[k]),
         NEW e, Hop(P, u, pg, Done(P, r)[k] + 1, d, e)
  PROVE  At(P, r, u, pg, k + 1, e, 0, dr)
<1>1. StepFact(P, r, k) /\ DrawFact(P, r, k) /\ PieceCount(P) \in Nat /\ StepsOf(P, r) \in Nat
  BY FactsAre, PieceIs, StepsIn
<1> DEFINE m == Done(P, r)[k]
<1>2. m \in Nat /\ Done(P, r)[k + 1] = m + 1 /\ Count(P, r)[k + 1] = 0
  <2>1. CASE PlanOf(P, r)[k].do = "mix"
    <3>1. m \in 0 .. PieceCount(P) - 1 /\ Done(P, r)[k + 1] = m + 1 /\ Count(P, r)[k + 1] = 0
      BY <1>1, <2>1 DEF StepFact
    <3> QED BY <1>1, <3>1
  <2>2. CASE PlanOf(P, r)[k].do = "pow"
    BY <1>1, <2>2 DEF StepFact
  <2> QED BY <2>1, <2>2
<1> HIDE DEF m
<1>3. Comes(P, u, pg, m + 1, e)
  <2>1. Comes(P, t, pf, m, d)
    BY DEF At, m
  <2>2. Comes(P, t, pg, m, d)
    BY <1>2, <2>1, ComesAgree DEF m
  <2>3. Comes(P, u, pg, m, d)
    BY <1>2, <2>2, ComesKept
  <2> QED BY <1>2, <2>3, ComesNext DEF m
<1>4. DrewTo(P, r, u, pg, k + 1, dr)
  <2>1. ASSUME NEW name \in DOMAIN dr
        PROVE  name \in DrawsOf(P) /\ DrawnAt(P, r, name) < k + 1 /\ DrewAt(P, u, pg, name, dr[name])
    <3>1. name \in DrawsOf(P) /\ DrawnAt(P, r, name) < k /\ DrewAt(P, t, pf, name, dr[name])
      BY DEF At, DrewTo
    <3>2. DrawnAt(P, r, name) \in Nat /\ Depth(P, name) \in 1 .. PieceCount(P)
      BY <3>1, StepsIn
    <3>3. DrawnAt(P, r, name) <= k
      BY <3>1, <3>2
    <3>4. Depth(P, name) <= m
      BY <1>1, <3>1, <3>3 DEF DrawFact, m
    <3>5. Depth(P, name) \in 0 .. m
      BY <1>1, <1>2, <3>2, <3>4
    <3>6. DrewAt(P, u, pg, name, dr[name])
      BY <1>2, <3>1, <3>5, DrewKeeps DEF m
    <3> QED BY <3>1, <3>2, <3>6
  <2>2. ASSUME NEW name \in DrawsOf(P), DrawnAt(P, r, name) < k + 1 PROVE name \in DOMAIN dr
    <3>1. DrawnAt(P, r, name) \in Nat
      BY StepsIn
    <3>2. DrawnAt(P, r, name) # k
      BY <1>1 DEF DrawFact
    <3>3. DrawnAt(P, r, name) < k
      BY <2>2, <3>1, <3>2
    <3> QED BY <3>3 DEF At, DrewTo
  <2> QED BY <2>1, <2>2 DEF DrewTo
<1>5. k + 1 \in 1 .. StepsOf(P, r) + 1
  BY <1>1
<1> QED BY <1>2, <1>3, <1>4, <1>5 DEF At

\* leaving out a tree that is not there,
LEMMA AtSkips ==
  ASSUME NEW P \in Protocols, NEW r \in Roles(P), NEW t, IsTable(t), NEW pf, NEW k, NEW d, NEW n, NEW dr,
         At(P, r, t, pf, k, d, n, dr), k \in 1 .. StepsOf(P, r), PlanOf(P, r)[k].do = "mix",
         Skipped(P, pf, PlanOf(P, r)[k].what)
  PROVE  At(P, r, t, pf, k + 1, d, n, dr)
<1>1. StepFact(P, r, k)
  BY FactsAre
<1>2. PlanOf(P, r)[k].what = Piece(P)[Done(P, r)[k] + 1] /\ Count(P, r)[k] = 0
  BY <1>1 DEF StepFact, Skipped
<1>3. n = 0
  BY <1>2 DEF At
<1>4. Hop(P, t, pf, Done(P, r)[k] + 1, d, d)
  BY <1>2 DEF Hop
<1>5. Extends(t, t) /\ AgreeTo(P, pf, pf, Done(P, r)[k])
  BY ExtendsSelf, AgreeSelf
<1>6. At(P, r, t, pf, k + 1, d, 0, dr)
  BY <1>4, <1>5, AtMixes
<1> QED BY <1>3, <1>6

\* a check,
LEMMA AtChecks ==
  ASSUME NEW P \in Protocols, NEW r \in Roles(P), NEW t, NEW pf, NEW k, NEW d, NEW n, NEW dr,
         At(P, r, t, pf, k, d, n, dr), k \in 1 .. StepsOf(P, r), PlanOf(P, r)[k].do = "check"
  PROVE  At(P, r, t, pf, k + 1, d, n, dr)
<1>1. StepFact(P, r, k) /\ DrawFact(P, r, k) /\ StepsOf(P, r) \in Nat
  BY FactsAre, StepsIn
<1>2. Done(P, r)[k + 1] = Done(P, r)[k] /\ Count(P, r)[k + 1] = Count(P, r)[k]
  BY <1>1 DEF StepFact
<1>3. DrewTo(P, r, t, pf, k + 1, dr)
  <2>1. ASSUME NEW name \in DrawsOf(P) PROVE DrawnAt(P, r, name) < k + 1 <=> DrawnAt(P, r, name) < k
    <3>1. DrawnAt(P, r, name) \in Nat
      BY StepsIn
    <3>2. DrawnAt(P, r, name) # k
      BY <1>1 DEF DrawFact
    <3> QED BY <3>1, <3>2
  <2>2. DrewTo(P, r, t, pf, k, dr)
    BY DEF At
  <2> QED BY <2>1, <2>2 DEF DrewTo
<1>4. k + 1 \in 1 .. StepsOf(P, r) + 1
  BY <1>1
<1> QED BY <1>2, <1>3, <1>4 DEF At

\* and a draw.
LEMMA AtDraws ==
  ASSUME NEW P \in Protocols, NEW r \in Roles(P), NEW t, NEW pf, NEW k, NEW d, NEW n, NEW dr,
         At(P, r, t, pf, k, d, n, dr), k \in 1 .. StepsOf(P, r), PlanOf(P, r)[k].do = "draw"
  PROVE  /\ PlanOf(P, r)[k].what \notin DOMAIN dr
         /\ At(P, r, t, pf, k + 1, d, n + PlanOf(P, r)[k].n, Put(dr, PlanOf(P, r)[k].what, <<d, n>>))
<1> DEFINE step == PlanOf(P, r)[k]
<1> DEFINE name == step.what
<1> DEFINE du == Put(dr, name, <<d, n>>)
<1>1. StepFact(P, r, k) /\ DrawFact(P, r, k) /\ StepsOf(P, r) \in Nat
  BY FactsAre, StepsIn
<1>2. /\ Done(P, r)[k + 1] = Done(P, r)[k] /\ Count(P, r)[k + 1] = Count(P, r)[k] + step.n
      /\ name \in DrawsOf(P) /\ Depth(P, name) = Done(P, r)[k] /\ Offset(name) = Count(P, r)[k]
  BY <1>1 DEF StepFact
<1>3. DrawnAt(P, r, name) = k /\ \A other \in DrawsOf(P) : DrawnAt(P, r, other) = k => other = name
  BY <1>1 DEF DrawFact
<1>4. n = Count(P, r)[k] /\ Comes(P, t, pf, Done(P, r)[k], d) /\ DrewTo(P, r, t, pf, k, dr)
  BY DEF At
<1>5. name \notin DOMAIN dr
  <2>1. k \in Nat
    BY <1>1
  <2> QED BY <1>3, <1>4, <2>1 DEF DrewTo
<1>6. DOMAIN du = DOMAIN dr \cup {name} /\ du[name] = <<d, n>> /\ \A x \in DOMAIN dr \ {name} : du[x] = dr[x]
  <2>1. PICK y : y = <<d, n>>
    OBVIOUS
  <2>2. PICK nm : nm = name
    OBVIOUS
  <2>3. du = Put(dr, nm, y)
    BY <2>1, <2>2
  <2> HIDE DEF du, name, step
  <2>4. DOMAIN du = DOMAIN dr \cup {nm} /\ du[nm] = y /\ \A x \in DOMAIN dr \ {nm} : du[x] = dr[x]
    <3>1. /\ DOMAIN Put(dr, nm, y) = DOMAIN dr \cup {nm} /\ Put(dr, nm, y)[nm] = y
      BY DEF Put
    <3>2. ASSUME NEW x \in DOMAIN dr \ {nm} PROVE Put(dr, nm, y)[x] = dr[x]
      BY DEF Put
    <3> QED BY <2>3, <3>1, <3>2
  <2> QED BY <2>1, <2>2, <2>4
<1> HIDE DEF du, step
<1>7. DrewAt(P, t, pf, name, <<d, n>>)
  BY <1>2, <1>4 DEF DrewAt
<1>8. DrewTo(P, r, t, pf, k + 1, du)
  <2>1. ASSUME NEW x \in DOMAIN du PROVE x \in DrawsOf(P) /\ DrawnAt(P, r, x) < k + 1 /\ DrewAt(P, t, pf, x, du[x])
    <3>1. CASE x = name
      BY <3>1, <1>1, <1>2, <1>3, <1>6, <1>7
    <3>2. CASE x # name
      <4>1. x \in DOMAIN dr /\ du[x] = dr[x]
        BY <3>2, <1>6
      <4>2. x \in DrawsOf(P) /\ DrawnAt(P, r, x) < k /\ DrewAt(P, t, pf, x, dr[x])
        BY <4>1, <1>4 DEF DrewTo
      <4>3. DrawnAt(P, r, x) \in Nat
        BY <4>2, StepsIn
      <4> QED BY <4>1, <4>2, <4>3, <1>1
    <3> QED BY <3>1, <3>2
  <2>2. ASSUME NEW x \in DrawsOf(P), DrawnAt(P, r, x) < k + 1 PROVE x \in DOMAIN du
    <3>1. DrawnAt(P, r, x) \in Nat
      BY StepsIn
    <3>2. CASE DrawnAt(P, r, x) = k
      BY <3>2, <1>3, <1>6
    <3>3. CASE DrawnAt(P, r, x) # k
      <4>1. DrawnAt(P, r, x) < k
        BY <2>2, <3>1, <3>3, <1>1
      <4> QED BY <4>1, <1>4, <1>6 DEF DrewTo
    <3> QED BY <3>2, <3>3
  <2> QED BY <2>1, <2>2 DEF DrewTo
<1>9. At(P, r, t, pf, k + 1, d, n + step.n, du)
  <2>1. k + 1 \in 1 .. StepsOf(P, r) + 1
    BY <1>1
  <2> QED BY <1>2, <1>4, <1>8, <2>1 DEF At
<1> QED BY <1>5, <1>9 DEF du, step

\* A role starts on a channel of its own.
LEMMA AtStart ==
  ASSUME NEW P \in Protocols, NEW r \in Roles(P), NEW t, NEW pf
  PROVE  At(P, r, t, pf, 1, 0, 0, <<>>)
<1>1. StepsOf(P, r) \in Nat \ {0} /\ Done(P, r)[1] = 0 /\ Count(P, r)[1] = 0
  BY StepsIn
<1>2. Comes(P, t, pf, 0, 0)
  BY ComesStart
<1>3. DrewTo(P, r, t, pf, 1, <<>>)
  <2>1. \A name \in DrawsOf(P) : DrawnAt(P, r, name) \in Nat \ {0}
    BY StepsIn
  <2> QED BY <2>1 DEF DrewTo
<1>4. 1 \in 1 .. StepsOf(P, r) + 1
  BY <1>1
<1> QED BY <1>1, <1>2, <1>3, <1>4 DEF At

-----------------------------------------------------------------------------
(* The layout of a proof's columns, with the protocol as a parameter.        *)

OrderOf(P) == IF P = "rv32im" THEN Tables ELSE RecursionTables
MainWidths(P) ==
  [c \in ToSet(OrderOf(P)) |-> IF P = "rv32im" /\ Contains(LookupComponents, c) THEN 1 ELSE Width[c]]
InteractionWidths(P) == [c \in ToSet(OrderOf(P)) |-> 4 * Fractions[c]]
InteractionOrderOf(P) ==
  IF P = "rv32im" THEN Tables
  ELSE <<"qm31_mul", "qm31_inv", "logup_sum", "merkle_path", "channel_replay", "linear_ops", "poseidon2">>
Spans(P, order, log, width) ==
  [i \in 1 .. Len(order) |-> Copies(<<order[i], log[PlaceIn(OrderOf(P), order[i])]>>, width[order[i]])]
MainOf(P, log) == FlattenSeq(Spans(P, OrderOf(P), log, MainWidths(P)))
InteractionOf(P, log) == FlattenSeq(Spans(P, InteractionOrderOf(P), log, InteractionWidths(P)))

LEMMA LayoutsAre ==
  /\ Order = OrderOf(protocol) /\ MainWidth = MainWidths(protocol)
  /\ InteractionOrder = InteractionOrderOf(protocol) /\ InteractionWidth = InteractionWidths(protocol)
  /\ \A log : MainColumns(log) = MainOf(protocol, log) /\ InteractionColumns(log) = InteractionOf(protocol, log)
<1>1. Order = OrderOf(protocol)
  BY DEF Order, OrderOf, Tables
<1>2. InteractionOrder = InteractionOrderOf(protocol)
  BY <1>1 DEF InteractionOrder, InteractionOrderOf, OrderOf
<1>3. MainWidth = MainWidths(protocol)
  BY <1>1 DEF MainWidth, MainWidths, IsLookup
<1>4. InteractionWidth = InteractionWidths(protocol)
  BY <1>1 DEF InteractionWidth, InteractionWidths
<1>5. \A order, log, width : Columns(order, log, width) = FlattenSeq(Spans(protocol, order, log, width))
  BY <1>1 DEF Columns, Spans, Position
<1> QED BY <1>1, <1>2, <1>3, <1>4, <1>5 DEF MainColumns, InteractionColumns, MainOf, InteractionOf

\* The tables of a protocol have names of their own, and a run has a size for each.
LEMMA OrderIs ==
  ASSUME NEW P \in Protocols
  PROVE  /\ IsTable(OrderOf(P)) /\ Len(OrderOf(P)) \in Nat
         /\ \A i \in 1 .. Len(OrderOf(P)) : OrderOf(P)[i] \in DOMAIN Width
         /\ \A i, j \in 1 .. Len(OrderOf(P)) : OrderOf(P)[i] = OrderOf(P)[j] => i = j
         /\ \A log \in LogSizes[P] : log \in Seq(Nat) /\ Len(log) = Len(OrderOf(P))
         /\ P = "recursion" => Len(OrderOf(P)) = 9
<1>1. CASE P = "rv32im"
  <2>1. OrderOf(P) = Tables
    BY <1>1 DEF OrderOf
  <2>2. Len(Tables) = Len(TraceComponents) + Len(LookupComponents)
    <3>1. IsTable(TraceComponents) /\ IsTable(LookupComponents)
      BY TablesAre DEF IsTable
    <3>2. Len(Join(TraceComponents, LookupComponents)) = Len(TraceComponents) + Len(LookupComponents)
      BY <3>1, Joined
    <3> QED BY <3>2 DEF Join, Tables
  <2>3. \A i, j \in 1 .. Len(Tables) : Tables[i] = Tables[j] => i = j
    BY TranscriptAssumption DEF Tables
  <2>4. IsTable(Tables)
    BY TablesList DEF IsTable
  <2> QED BY <1>1, <2>1, <2>2, <2>3, <2>4, TablesList, StatementsAre
<1>2. CASE P = "recursion"
  <2>1. OrderOf(P) = RecursionTables /\ Len(RecursionTables) = 9
    BY <1>2 DEF OrderOf, RecursionTables
  <2>2. \A i, j \in 1 .. 9 : RecursionTables[i] = RecursionTables[j] => i = j
    BY DEF RecursionTables
  <2>3. \A i \in 1 .. 9 : RecursionTables[i] \in DOMAIN Width
    BY TranscriptAssumption
  <2>4. IsTable(RecursionTables)
    <3>1. PICK x1, x2, x3, x4, x5, x6, x7, x8, x9 : RecursionTables = <<x1, x2, x3, x4, x5, x6, x7, x8, x9>>
      BY DEF RecursionTables
    <3>2. <<x1, x2, x3, x4, x5, x6, x7, x8, x9>> \in Seq({x1, x2, x3, x4, x5, x6, x7, x8, x9})
      OBVIOUS
    <3> QED BY <3>1, <3>2 DEF IsTable
  <2>5. \A log \in LogSizes[P] : log \in Seq(Nat) /\ Len(log) = 9
    BY <1>2, StatementsAre
  <2> DEFINE o == OrderOf(P)
  <2>6. IsTable(o) /\ Len(o) = 9 /\ (\A i \in 1 .. 9 : o[i] \in DOMAIN Width) /\ \A i, j \in 1 .. 9 : o[i] = o[j] => i = j
    BY <2>1, <2>2, <2>3, <2>4
  <2> HIDE DEF o
  <2>7. Len(o) \in Nat /\ 1 .. Len(o) = 1 .. 9
    BY <2>6
  <2> QED BY <2>5, <2>6, <2>7 DEF o
<1> QED BY <1>1, <1>2 DEF Protocols

\* A table's name tells its place in the order.
LEMMA PlaceIs ==
  ASSUME NEW P \in Protocols
  PROVE  /\ \A i \in 1 .. Len(OrderOf(P)) : PlaceIn(OrderOf(P), OrderOf(P)[i]) = i
         /\ \A c \in ToSet(OrderOf(P)) : /\ PlaceIn(OrderOf(P), c) \in 1 .. Len(OrderOf(P))
                                         /\ OrderOf(P)[PlaceIn(OrderOf(P), c)] = c
<1> DEFINE o == OrderOf(P)
<1>1. Len(o) \in Nat /\ IsTable(o) /\ \A i, j \in 1 .. Len(o) : o[i] = o[j] => i = j
  BY OrderIs
<1> HIDE DEF o
<1>2. \A c : PlaceIn(o, c) = IdOf(o, c)
  BY DEF PlaceIn, IdOf
<1>3. ASSUME NEW c, Known(o, c) PROVE PlaceIn(o, c) \in 1 .. Len(o) /\ o[PlaceIn(o, c)] = c
  BY <1>1, <1>2, <1>3, PlaceOf
<1>4. ASSUME NEW i \in 1 .. Len(o) PROVE PlaceIn(o, o[i]) = i
  <2>1. Known(o, o[i])
    BY DEF Known
  <2> QED BY <1>1, <1>3, <2>1
<1>5. DOMAIN o = 1 .. Len(o)
  BY <1>1 DEF IsTable
<1>6. ASSUME NEW c \in ToSet(o) PROVE PlaceIn(o, c) \in 1 .. Len(o) /\ o[PlaceIn(o, c)] = c
  <2>1. Known(o, c)
    BY <1>5 DEF Known, ToSet
  <2> QED BY <1>3, <2>1
<1> QED BY <1>4, <1>6 DEF o

\* The widths are counts.
LEMMA WidthsAre ==
  ASSUME NEW P \in Protocols, NEW c \in ToSet(OrderOf(P))
  PROVE  /\ MainWidths(P)[c] \in Nat /\ InteractionWidths(P)[c] = 4 * Fractions[c] /\ Fractions[c] \in Nat
         /\ MainWidths(P)[c] = IF P = "rv32im" /\ Contains(LookupComponents, c) THEN 1 ELSE Width[c]
<1>1. c \in DOMAIN Width
  BY PlaceIs, OrderIs
<1>2. Width[c] \in Nat /\ Fractions[c] \in Nat
  BY <1>1, TablesAre
<1> QED BY <1>2 DEF MainWidths, InteractionWidths

\* Every place of a list of parts is a place of a part.
LEMMA FlatPlaces ==
  ASSUME NEW ss, Len(ss) \in Nat, \A i \in 1 .. Len(ss) : Len(ss[i]) \in Nat, NEW off, Offsets(ss, off),
         NEW m \in 1 .. off[Len(ss)]
  PROVE  \E i \in 1 .. Len(ss) : \E j \in 1 .. Len(ss[i]) : m = off[i - 1] + j
<1> DEFINE Found(x) == \E i \in 1 .. Len(ss) : \E j \in 1 .. Len(ss[i]) : x = off[i - 1] + j
<1> DEFINE T == {n \in 0 .. Len(ss) : off[n] \in Nat /\ \A x \in 1 .. off[n] : Found(x)}
<1>1. 0 \in T
  BY DEF Offsets
<1>2. \A n \in 0 .. Len(ss) - 1 : n \in T => n + 1 \in T
  <2> TAKE n \in 0 .. Len(ss) - 1
  <2> HAVE n \in T
  <2>1. n + 1 \in 1 .. Len(ss) /\ (n + 1) - 1 = n /\ n + 1 \in 0 .. Len(ss)
    OBVIOUS
  <2>2. off[n + 1] = off[n] + Len(ss[n + 1]) /\ Len(ss[n + 1]) \in Nat /\ off[n] \in Nat
    BY <2>1 DEF Offsets
  <2>3. ASSUME NEW x \in 1 .. off[n + 1] PROVE Found(x)
    <3>1. CASE x <= off[n]
      <4>1. x \in 1 .. off[n]
        BY <3>1, <2>2
      <4> QED BY <4>1
    <3>2. CASE ~ (x <= off[n])
      <4>1. x - off[n] \in 1 .. Len(ss[n + 1]) /\ x = off[n] + (x - off[n])
        BY <3>2, <2>2
      <4>2. x = off[(n + 1) - 1] + (x - off[n])
        BY <4>1, <2>1
      <4> QED BY <4>1, <4>2, <2>1
    <3> QED BY <3>1, <3>2
  <2> HIDE DEF Found
  <2>4. off[n + 1] \in Nat
    BY <2>2
  <2> QED BY <2>1, <2>3, <2>4
<1>3. 0 .. Len(ss) \subseteq T
  <2> HIDE DEF T
  <2> QED BY <1>1, <1>2, InductionTo
<1>4. Len(ss) \in T
  <2> HIDE DEF T
  <2> QED BY <1>3
<1> QED BY <1>4

\* Offsets only grow.
LEMMA OffsetsGrow ==
  ASSUME NEW ss, Len(ss) \in Nat, \A i \in 1 .. Len(ss) : Len(ss[i]) \in Nat, NEW off, Offsets(ss, off)
  PROVE  \A i \in 0 .. Len(ss) : off[i] \in Nat /\ \A k \in 0 .. i : off[k] \in Nat /\ off[k] <= off[i]
<1> DEFINE Grows(i) == off[i] \in Nat /\ \A k \in 0 .. i : off[k] \in Nat /\ off[k] <= off[i]
<1> DEFINE T == {i \in 0 .. Len(ss) : Grows(i)}
<1>1. 0 \in T
  BY DEF Offsets
<1>2. \A n \in 0 .. Len(ss) - 1 : n \in T => n + 1 \in T
  <2> TAKE n \in 0 .. Len(ss) - 1
  <2> HAVE n \in T
  <2>1. n + 1 \in 1 .. Len(ss) /\ (n + 1) - 1 = n /\ n + 1 \in 0 .. Len(ss)
    OBVIOUS
  <2>2. off[n + 1] = off[n] + Len(ss[n + 1]) /\ Len(ss[n + 1]) \in Nat /\ off[n] \in Nat
    BY <2>1 DEF Offsets
  <2>3. ASSUME NEW k \in 0 .. n + 1 PROVE off[k] \in Nat /\ off[k] <= off[n + 1]
    <3>1. CASE k = n + 1
      BY <3>1, <2>2
    <3>2. CASE k # n + 1
      <4>1. k \in 0 .. n
        BY <3>2
      <4> QED BY <4>1, <2>2
    <3> QED BY <3>1, <3>2
  <2>4. Grows(n + 1)
    BY <2>2, <2>3
  <2> HIDE DEF Grows
  <2> QED BY <2>1, <2>4
<1>3. 0 .. Len(ss) \subseteq T
  <2> HIDE DEF T
  <2> QED BY <1>1, <1>2, InductionTo
<1>4. ASSUME NEW i \in 0 .. Len(ss) PROVE Grows(i)
  <2>1. i \in T
    <3> HIDE DEF T
    <3> QED BY <1>3
  <2> QED BY <2>1
<1> QED BY <1>4

\* The second entries of a flat list, part by part.
LEMMA FlatSizes ==
  ASSUME NEW ss, IsTable(ss), NEW tt, IsTable(tt), Len(tt) = Len(ss),
         \A i \in 1 .. Len(ss) : /\ IsTable(ss[i]) /\ IsTable(tt[i]) /\ Len(tt[i]) = Len(ss[i])
                                 /\ \A j \in 1 .. Len(ss[i]) : tt[i][j] = ss[i][j][2]
  PROVE  FlattenSeq(tt) = Sizes(FlattenSeq(ss))
<1> DEFINE u == FlattenSeq(ss)
<1> DEFINE v == FlattenSeq(tt)
<1>0. Len(ss) \in Nat /\ \A i \in 1 .. Len(ss) : Len(ss[i]) \in Nat
  BY TableLength
<1>1. PICK a : Offsets(ss, a) /\ Laid(u, ss, a)
  BY <1>0, FlatParts
<1>2. PICK b : Offsets(tt, b) /\ Laid(v, tt, b)
  BY <1>0, FlatParts
<1> HIDE DEF u, v
<1> DEFINE T == {n \in 0 .. Len(ss) : a[n] = b[n]}
<1>3. 0 \in T
  BY <1>0, <1>1, <1>2 DEF Offsets
<1>4. \A n \in 0 .. Len(ss) - 1 : n \in T => n + 1 \in T
  <2> TAKE n \in 0 .. Len(ss) - 1
  <2> HAVE n \in T
  <2>1. n + 1 \in 1 .. Len(ss) /\ (n + 1) - 1 = n /\ n + 1 \in 0 .. Len(ss)
    BY <1>0
  <2>2. a[n + 1] = a[n] + Len(ss[n + 1]) /\ b[n + 1] = b[n] + Len(tt[n + 1]) /\ Len(tt[n + 1]) = Len(ss[n + 1])
    BY <2>1, <1>1, <1>2 DEF Offsets
  <2> QED BY <2>1, <2>2
<1>5. 0 .. Len(ss) \subseteq T
  <2> HIDE DEF T
  <2> QED BY <1>0, <1>3, <1>4, InductionTo
<1>6. \A n \in 0 .. Len(ss) : a[n] = b[n]
  BY <1>5
<1>7. Len(u) = a[Len(ss)] /\ Len(v) = a[Len(ss)] /\ IsTable(u) /\ IsTable(v)
  <2>1. a[Len(ss)] = b[Len(ss)]
    BY <1>0, <1>6
  <2> QED BY <2>1, <1>1, <1>2 DEF Laid
<1>8. ASSUME NEW m \in 1 .. a[Len(ss)] PROVE v[m] = u[m][2]
  <2>1. PICK i \in 1 .. Len(ss) : \E j \in 1 .. Len(ss[i]) : m = a[i - 1] + j
    BY <1>0, <1>1, FlatPlaces
  <2>2. PICK j \in 1 .. Len(ss[i]) : m = a[i - 1] + j
    BY <2>1
  <2>3. u[m] = ss[i][j]
    BY <2>2, <1>1 DEF Laid
  <2>4. m = b[i - 1] + j
    <3>1. i - 1 \in 0 .. Len(ss)
      BY <1>0
    <3> QED BY <3>1, <2>2, <1>6
  <2>5. v[m] = tt[i][j]
    BY <2>4, <1>2 DEF Laid
  <2> QED BY <2>3, <2>5
<1>9. v = Sizes(u)
  <2>1. Len(u) \in Nat /\ Len(u) = Len(v)
    BY <1>7, TableLength
  <2>2. IsTable(Sizes(u)) /\ Len(Sizes(u)) = Len(u)
    BY <2>1, TableOf DEF Sizes
  <2>3. \A m \in 1 .. Len(u) : Sizes(u)[m] = u[m][2]
    BY DEF Sizes
  <2>4. \A m \in 1 .. Len(v) : v[m] = Sizes(u)[m]
    BY <2>1, <2>3, <1>7, <1>8
  <2> QED BY <2>1, <2>2, <2>4, <1>7, TableSame
<1> QED BY <1>9 DEF u, v

\* The parts of a layout.
Laying(P, order, log, width, ss) ==
  /\ IsTable(ss) /\ Len(ss) = Len(order)
  /\ \A i \in 1 .. Len(order) :
       /\ ss[i] = Copies(<<order[i], log[PlaceIn(OrderOf(P), order[i])]>>, width[order[i]])
       /\ IsTable(ss[i]) /\ Len(ss[i]) = width[order[i]]
       /\ \A j \in 1 .. width[order[i]] : ss[i][j] = <<order[i], log[PlaceIn(OrderOf(P), order[i])]>>
       /\ log[PlaceIn(OrderOf(P), order[i])] \in Nat
Counts(P, width) == \A c \in ToSet(OrderOf(P)) : width[c] \in Nat

LEMMA SpansAre ==
  ASSUME NEW P \in Protocols, NEW log \in LogSizes[P], NEW order, Len(order) \in Nat,
         \A i \in 1 .. Len(order) : order[i] \in ToSet(OrderOf(P)), NEW width, Counts(P, width)
  PROVE  Laying(P, order, log, width, Spans(P, order, log, width))
<1> DEFINE ss == Spans(P, order, log, width)
<1>1. IsTable(ss) /\ Len(ss) = Len(order)
  BY TableOf DEF Spans
<1>2. ASSUME NEW i \in 1 .. Len(order)
      PROVE  /\ ss[i] = Copies(<<order[i], log[PlaceIn(OrderOf(P), order[i])]>>, width[order[i]])
             /\ IsTable(ss[i]) /\ Len(ss[i]) = width[order[i]]
             /\ \A j \in 1 .. width[order[i]] : ss[i][j] = <<order[i], log[PlaceIn(OrderOf(P), order[i])]>>
             /\ log[PlaceIn(OrderOf(P), order[i])] \in Nat
  <2> DEFINE x == <<order[i], log[PlaceIn(OrderOf(P), order[i])]>>
  <2> DEFINE n == width[order[i]]
  <2>1. ss[i] = Copies(x, n)
    BY DEF Spans
  <2>2. n \in Nat
    BY DEF Counts
  <2>3. log[PlaceIn(OrderOf(P), order[i])] \in Nat
    <3>1. PlaceIn(OrderOf(P), order[i]) \in 1 .. Len(OrderOf(P))
      BY PlaceIs
    <3>2. log \in Seq(Nat) /\ Len(log) = Len(OrderOf(P))
      BY OrderIs
    <3> QED BY <3>1, <3>2
  <2> HIDE DEF ss, x, n
  <2>4. IsTable(Copies(x, n)) /\ Len(Copies(x, n)) = n /\ \A j \in 1 .. n : Copies(x, n)[j] = x
    BY <2>2, TableOf DEF Copies
  <2>5. IsTable(ss[i]) /\ Len(ss[i]) = n /\ \A j \in 1 .. n : ss[i][j] = x
    BY <2>1, <2>4
  <2> QED BY <2>1, <2>3, <2>5 DEF x, n
<1> HIDE DEF ss
<1>3. IsTable(ss) /\ Len(ss) = Len(order)
  BY <1>1
<1> QED BY <1>2, <1>3 DEF ss, Laying

\* The interaction trees leave out the tables that have none.
LEMMA InteractionOrderIs ==
  ASSUME NEW P \in Protocols
  PROVE  /\ Len(InteractionOrderOf(P)) \in Nat
         /\ \A i \in 1 .. Len(InteractionOrderOf(P)) : InteractionOrderOf(P)[i] \in ToSet(OrderOf(P))
         /\ P = "recursion" => /\ Len(InteractionOrderOf(P)) = 7
                               /\ \A i \in 1 .. 7 : InteractionOrderOf(P)[i] = RecursionTables[<<1, 2, 5, 6, 7, 8, 9>>[i]]
<1>0. DOMAIN OrderOf(P) = 1 .. Len(OrderOf(P))
  BY OrderIs DEF IsTable
<1>1. CASE P = "rv32im"
  <2>1. InteractionOrderOf(P) = OrderOf(P) /\ P # "recursion"
    BY <1>1 DEF InteractionOrderOf, OrderOf
  <2>2. \A i \in 1 .. Len(OrderOf(P)) : OrderOf(P)[i] \in ToSet(OrderOf(P))
    BY <1>0 DEF ToSet
  <2> QED BY <2>1, <2>2, OrderIs
<1>2. CASE P = "recursion"
  <2>1. /\ Len(InteractionOrderOf(P)) = 7
        /\ \A i \in 1 .. 7 : InteractionOrderOf(P)[i] = RecursionTables[<<1, 2, 5, 6, 7, 8, 9>>[i]]
    BY <1>2 DEF InteractionOrderOf, RecursionTables
  <2>2. OrderOf(P) = RecursionTables /\ DOMAIN RecursionTables = 1 .. 9
    BY <1>2 DEF OrderOf, RecursionTables
  <2>3. \A i \in 1 .. 9 : RecursionTables[i] \in ToSet(OrderOf(P))
    BY <2>2 DEF ToSet
  <2>4. \A i \in 1 .. 7 : <<1, 2, 5, 6, 7, 8, 9>>[i] \in 1 .. 9
    OBVIOUS
  <2>5. \A i \in 1 .. 7 : InteractionOrderOf(P)[i] \in ToSet(OrderOf(P))
    BY <2>1, <2>3, <2>4
  <2> QED BY <2>1, <2>5
<1> QED BY <1>1, <1>2 DEF Protocols

\* The sizes of the interaction columns are numbers, and an rv32im proof has such columns.
LEMMA InteractionIs ==
  ASSUME NEW P \in Protocols, NEW log \in LogSizes[P]
  PROVE  /\ Sizes(InteractionOf(P, log)) \in Seq(Nat)
         /\ P = "rv32im" => Sizes(InteractionOf(P, log)) # <<>>
<1> DEFINE o == InteractionOrderOf(P)
<1> DEFINE ss == Spans(P, o, log, InteractionWidths(P))
<1> DEFINE u == FlattenSeq(ss)
<1>1. Len(o) \in Nat /\ \A i \in 1 .. Len(o) : o[i] \in ToSet(OrderOf(P))
  BY InteractionOrderIs
<1>2. \A c \in ToSet(OrderOf(P)) : InteractionWidths(P)[c] \in Nat /\ InteractionWidths(P)[c] = 4 * Fractions[c] /\ Fractions[c] \in Nat
  BY WidthsAre
<1>3. /\ IsTable(ss) /\ Len(ss) = Len(o)
      /\ \A i \in 1 .. Len(o) :
           /\ IsTable(ss[i]) /\ Len(ss[i]) = InteractionWidths(P)[o[i]]
           /\ \A j \in 1 .. InteractionWidths(P)[o[i]] : ss[i][j] = <<o[i], log[PlaceIn(OrderOf(P), o[i])]>>
           /\ log[PlaceIn(OrderOf(P), o[i])] \in Nat
  <2>1. Counts(P, InteractionWidths(P))
    BY <1>2 DEF Counts
  <2> HIDE DEF o
  <2>2. Laying(P, o, log, InteractionWidths(P), ss)
    BY <1>1, <2>1, SpansAre
  <2> HIDE DEF ss
  <2> QED BY <2>2 DEF Laying
<1>4. InteractionOf(P, log) = u
  BY DEF InteractionOf
<1> HIDE DEF ss, o
<1>5. \A i \in 1 .. Len(ss) : IsTable(ss[i]) /\ Len(ss[i]) \in Nat /\ \A j \in 1 .. Len(ss[i]) : ss[i][j][2] \in Nat
  BY <1>3, TableLength
<1>6. PICK off : Offsets(ss, off) /\ Laid(u, ss, off)
  BY <1>1, <1>3, <1>5, FlatParts
<1> HIDE DEF u
<1>7. IsTable(u) /\ Len(u) = off[Len(ss)] /\ Len(u) \in Nat
  BY <1>6, TableLength DEF Laid
<1>8. ASSUME NEW m \in 1 .. off[Len(ss)] PROVE u[m][2] \in Nat
  <2>0. Len(ss) \in Nat /\ \A i \in 1 .. Len(ss) : Len(ss[i]) \in Nat
    BY <1>1, <1>3, <1>5
  <2>1. PICK i \in 1 .. Len(ss) : \E j \in 1 .. Len(ss[i]) : m = off[i - 1] + j
    BY <2>0, <1>6, FlatPlaces
  <2>2. PICK j \in 1 .. Len(ss[i]) : m = off[i - 1] + j
    BY <2>1
  <2>3. u[m] = ss[i][j]
    BY <2>2, <1>6 DEF Laid
  <2> QED BY <2>3, <1>5
<1>9. Sizes(u) \in Seq(Nat) /\ Len(Sizes(u)) = Len(u)
  <2>1. Sizes(u) = [m \in 1 .. Len(u) |-> u[m][2]]
    BY DEF Sizes
  <2> QED BY <2>1, <1>7, <1>8
<1>10. ASSUME P = "rv32im" PROVE Sizes(u) # <<>>
  <2>1. PICK i \in DOMAIN TraceComponents : Fractions[TraceComponents[i]] > 0
    BY TranscriptAssumption
  <2>2. i \in 1 .. Len(Tables) /\ Tables[i] = TraceComponents[i]
    <3>1. IsTable(TraceComponents) /\ IsTable(LookupComponents) /\ DOMAIN TraceComponents = 1 .. Len(TraceComponents)
      BY TablesAre DEF IsTable
    <3>2. /\ Len(Join(TraceComponents, LookupComponents)) = Len(TraceComponents) + Len(LookupComponents)
          /\ Len(TraceComponents) \in Nat /\ Len(LookupComponents) \in Nat
          /\ \A j \in 1 .. Len(TraceComponents) + Len(LookupComponents) :
               Join(TraceComponents, LookupComponents)[j]
                 = IF j <= Len(TraceComponents) THEN TraceComponents[j] ELSE LookupComponents[j - Len(TraceComponents)]
      BY <3>1, Joined
    <3>3. Tables = Join(TraceComponents, LookupComponents)
      BY DEF Tables, Join
    <3> QED BY <3>1, <3>2, <3>3
  <2>3. o = Tables
    BY <1>10 DEF o, InteractionOrderOf
  <2>4. Len(ss[i]) = 4 * Fractions[o[i]] /\ Fractions[o[i]] \in Nat /\ Fractions[o[i]] > 0 /\ i \in 1 .. Len(ss)
    BY <2>1, <2>2, <2>3, <1>1, <1>2, <1>3
  <2>5. off[i] = off[i - 1] + Len(ss[i]) /\ off[i - 1] \in Nat
    BY <2>4, <1>6 DEF Offsets
  <2>6. off[i] \in Nat /\ off[i] <= off[Len(ss)]
    <3>1. i \in 0 .. Len(ss) /\ Len(ss) \in 0 .. Len(ss)
      BY <2>4, <1>1, <1>3
    <3> QED BY <3>1, <1>1, <1>3, <1>5, <1>6, OffsetsGrow
  <2>7. Len(u) > 0
    <3>1. Len(ss[i]) \in Nat /\ Len(ss[i]) > 0
      BY <2>4
    <3>2. Len(u) \in Nat /\ off[i] <= Len(u)
      BY <2>6, <1>7
    <3> QED BY <3>1, <3>2, <2>5
  <2> QED BY <2>7, <1>9
<1> QED BY <1>4, <1>9, <1>10

\* A stretch of a list.
LEMMA CutOut ==
  ASSUME NEW S, NEW u \in Seq(S), NEW lo \in 1 .. Len(u) + 1, NEW hi \in lo - 1 .. Len(u)
  PROVE  /\ SubSeq(u, lo, hi) \in Seq(S) /\ Len(SubSeq(u, lo, hi)) = hi - lo + 1
         /\ \A j \in 1 .. hi - lo + 1 : SubSeq(u, lo, hi)[j] = u[lo + j - 1]
<1>1. PICK n \in Nat : n = hi - lo + 1
  OBVIOUS
<1>2. PICK q : q = SubSeq(u, lo, hi)
  OBVIOUS
<1>3. q = [j \in 1 .. n |-> u[lo + j - 1]]
  BY <1>1, <1>2
<1>4. ASSUME NEW j \in 1 .. n PROVE u[lo + j - 1] \in S
  <2>1. lo + j - 1 \in 1 .. Len(u)
    BY <1>1
  <2> QED BY <2>1
<1>5. q \in Seq(S) /\ Len(q) = n /\ \A j \in 1 .. n : q[j] = u[lo + j - 1]
  BY <1>3, <1>4
<1> QED BY <1>1, <1>2, <1>5

\* The allocator hands every table of a layout its own part.
Parted(order, width, ss) ==
  /\ IsTable(ss) /\ Len(ss) = Len(order) /\ Len(order) \in Nat
  /\ \A i \in 1 .. Len(order) : IsTable(ss[i]) /\ Len(ss[i]) = width[order[i]]

LEMMA SpanIs ==
  ASSUME NEW order, NEW width, NEW ss, Parted(order, width, ss), NEW i \in 1 .. Len(order), PlaceIn(order, order[i]) = i
  PROVE  Span(order, FlattenSeq(ss), width, order[i]) = ss[i]
<1> USE DEF Parted
<1> DEFINE u == FlattenSeq(ss)
<1> DEFINE c == order[i]
<1> DEFINE Loop(f) == f = [k \in 1 .. i |-> IF k = 1 THEN 0 ELSE f[k - 1] + width[order[k - 1]]]
<1>0. \A k \in 1 .. Len(ss) : Len(ss[k]) \in Nat
  BY TableLength
<1>1. PICK off : Offsets(ss, off) /\ Laid(u, ss, off)
  BY <1>0, FlatParts
<1> HIDE DEF u
<1>2. \E f : Loop(f)
  <2> DEFINE f == [k \in 1 .. i |-> off[k - 1]]
  <2>1. ASSUME NEW k \in 1 .. i, k # 1 PROVE f[k - 1] + width[order[k - 1]] = off[k - 1]
    <3>1. k - 1 \in 1 .. i /\ k - 1 \in 1 .. Len(ss)
      <4>1. i \in Nat /\ i <= Len(ss) /\ Len(ss) \in Nat
        OBVIOUS
      <4> HIDE DEF f, Loop
      <4> QED BY <4>1, <2>1
    <3>2. off[k - 1] = off[(k - 1) - 1] + Len(ss[k - 1]) /\ Len(ss[k - 1]) = width[order[k - 1]]
      BY <3>1, <1>1 DEF Offsets
    <3> QED BY <3>1, <3>2
  <2>2. off[1 - 1] = 0
    BY <1>1 DEF Offsets
  <2>3. \A k \in 1 .. i : f[k] = IF k = 1 THEN 0 ELSE f[k - 1] + width[order[k - 1]]
    BY <2>1, <2>2
  <2>4. Loop(f)
    BY <2>3
  <2> HIDE DEF Loop
  <2> QED BY <2>4
<1> DEFINE before == CHOOSE f : Loop(f)
<1>3. Loop(before)
  <2> HIDE DEF Loop
  <2> QED BY <1>2
<1>4. Span(order, u, width, c)
        = IF before[i] + width[c] > Len(u) THEN <<>> ELSE SubSeq(u, before[i] + 1, before[i] + width[c])
  BY DEF Span
<1> HIDE DEF before
<1>5. \A k \in 1 .. i : before[k] = IF k = 1 THEN 0 ELSE before[k - 1] + width[order[k - 1]]
  BY <1>3
<1> HIDE DEF Loop
<1> DEFINE T == {k \in 0 .. i - 1 : before[k + 1] = off[k]}
<1>6. 0 \in T
  BY <1>1, <1>5 DEF Offsets
<1>7. \A k \in 0 .. (i - 1) - 1 : k \in T => k + 1 \in T
  <2> TAKE k \in 0 .. (i - 1) - 1
  <2> HAVE k \in T
  <2>1. k + 1 \in 1 .. Len(ss) /\ k + 2 \in 1 .. i /\ k + 2 # 1 /\ (k + 2) - 1 = k + 1 /\ (k + 1) - 1 = k /\ (k + 1) + 1 = k + 2
    OBVIOUS
  <2>2. before[k + 2] = before[k + 1] + width[order[k + 1]]
    BY <2>1, <1>5
  <2>3. off[k + 1] = off[k] + Len(ss[k + 1]) /\ Len(ss[k + 1]) = width[order[k + 1]]
    BY <2>1, <1>1 DEF Offsets
  <2>4. before[(k + 1) + 1] = off[k + 1]
    BY <2>1, <2>2, <2>3
  <2> QED BY <2>1, <2>4
<1>8. 0 .. i - 1 \subseteq T
  <2>1. i - 1 \in Nat
    OBVIOUS
  <2> HIDE DEF T
  <2> QED BY <2>1, <1>6, <1>7, InductionTo
<1>9. before[i] = off[i - 1]
  <2>1. i - 1 \in 0 .. i - 1 /\ (i - 1) + 1 = i
    OBVIOUS
  <2> QED BY <2>1, <1>8
<1>10. /\ off[i - 1] \in Nat /\ off[i] = off[i - 1] + width[c] /\ width[c] = Len(ss[i]) /\ Len(ss[i]) \in Nat
       /\ off[i] \in Nat /\ off[i] <= Len(u) /\ IsTable(u)
  <2>1. off[i - 1] \in Nat /\ off[i] = off[i - 1] + Len(ss[i])
    BY <1>1 DEF Offsets
  <2>2. off[i] \in Nat /\ off[i] <= off[Len(ss)]
    <3>1. i \in 0 .. Len(ss) /\ Len(ss) \in 0 .. Len(ss)
      OBVIOUS
    <3> QED BY <3>1, <1>0, <1>1, OffsetsGrow
  <2> QED BY <2>1, <2>2, <1>0, <1>1 DEF Laid
<1> DEFINE s == SubSeq(u, off[i - 1] + 1, off[i])
<1>11. Span(order, u, width, c) = s
  <2> HIDE DEF u, c
  <2>1. ~ (before[i] + width[c] > Len(u))
    BY <1>9, <1>10, TableLength
  <2>2. before[i] + width[c] = off[i]
    BY <1>9, <1>10
  <2> QED BY <1>4, <1>9, <2>1, <2>2
<1> HIDE DEF c
<1>12. IsTable(s) /\ Len(s) = Len(ss[i]) /\ \A j \in 1 .. Len(ss[i]) : s[j] = u[off[i - 1] + j]
  <2>1. PICK S : u \in Seq(S)
    BY <1>10 DEF IsTable
  <2> DEFINE lo == off[i - 1] + 1
  <2> DEFINE hi == off[i]
  <2>2. /\ lo \in 1 .. Len(u) + 1 /\ hi \in lo - 1 .. Len(u) /\ hi - lo + 1 = Len(ss[i])
        /\ \A j \in Nat : lo + j - 1 = off[i - 1] + j
    <3> DEFINE a == off[i - 1]
    <3> DEFINE b == off[i]
    <3> DEFINE n == Len(ss[i])
    <3>1. a \in Nat /\ b = a + n /\ n \in Nat /\ b \in Nat /\ b <= Len(u) /\ Len(u) \in Nat
      BY <1>10, TableLength
    <3> HIDE DEF a, b, n
    <3>2. a + 1 \in 1 .. Len(u) + 1 /\ b \in (a + 1) - 1 .. Len(u) /\ b - (a + 1) + 1 = n
      BY <3>1
    <3>3. ASSUME NEW j \in Nat PROVE (a + 1) + j - 1 = a + j
      BY <3>1
    <3> QED BY <3>2, <3>3 DEF a, b, n
  <2> HIDE DEF s, lo, hi
  <2>3. s = SubSeq(u, lo, hi)
    BY DEF s, lo, hi
  <2>4. s \in Seq(S) /\ Len(s) = hi - lo + 1 /\ \A j \in 1 .. hi - lo + 1 : s[j] = u[lo + j - 1]
    <3>1. u \in Seq(S) /\ lo \in 1 .. Len(u) + 1 /\ hi \in lo - 1 .. Len(u)
      BY <2>1, <2>2
    <3>2. /\ SubSeq(u, lo, hi) \in Seq(S) /\ Len(SubSeq(u, lo, hi)) = hi - lo + 1
          /\ \A j \in 1 .. hi - lo + 1 : SubSeq(u, lo, hi)[j] = u[lo + j - 1]
      BY <3>1, CutOut
    <3> QED BY <3>2, <2>3
  <2>5. IsTable(s)
    BY <2>4 DEF IsTable
  <2>6. ASSUME NEW j \in 1 .. Len(ss[i]) PROVE s[j] = u[off[i - 1] + j]
    <3>1. j \in Nat /\ j \in 1 .. hi - lo + 1
      <4>1. hi - lo + 1 = Len(ss[i])
        BY <2>2
      <4>2. j \in 1 .. hi - lo + 1
        BY <4>1, Zenon
      <4> QED BY <4>2
    <3>2. s[j] = u[lo + j - 1]
      BY <3>1, <2>4
    <3>3. lo + j - 1 = off[i - 1] + j
      BY <3>1, <2>2
    <3> QED BY <3>2, <3>3
  <2>7. Len(s) = Len(ss[i])
    BY <2>2, <2>4
  <2> QED BY <2>5, <2>6, <2>7
<1>13. \A j \in 1 .. Len(ss[i]) : s[j] = ss[i][j]
  BY <1>12, <1>1 DEF Laid
<1>14. s = ss[i]
  <2> HIDE DEF s
  <2> QED BY <1>12, <1>13, TableSame
<1> QED BY <1>11, <1>14 DEF u, c

\* The verifier's expectation of tree 1, with the protocol as a parameter.
MainSizesOf(P, log) == FlattenSeq([i \in 1 .. Len(log) |-> Copies(log[i], MainWidths(P)[OrderOf(P)[i]])])

LEMMA MainSizesAre ==
  ASSUME protocol \in Protocols, NEW log \in LogSizes[protocol]
  PROVE  MainTraceLogSizes(log) = MainSizesOf(protocol, log)
<1> DEFINE o == OrderOf(protocol)
<1>1. Len(log) = Len(o) /\ Len(o) \in Nat /\ IsTable(o)
  BY OrderIs
<1>2. ASSUME NEW i \in 1 .. Len(log)
      PROVE  Copies(log[i], IF IsLookup(Order[i]) THEN 1 ELSE Width[Order[i]]) = Copies(log[i], MainWidths(protocol)[o[i]])
  <2>1. o[i] \in ToSet(o)
    BY <1>1 DEF ToSet, IsTable
  <2>2. MainWidths(protocol)[o[i]] = IF protocol = "rv32im" /\ Contains(LookupComponents, o[i]) THEN 1 ELSE Width[o[i]]
    BY <2>1, WidthsAre
  <2>3. Order = o
    BY LayoutsAre
  <2> QED BY <2>2, <2>3 DEF IsLookup
<1>3. [i \in 1 .. Len(log) |-> Copies(log[i], IF IsLookup(Order[i]) THEN 1 ELSE Width[Order[i]])]
        = [i \in 1 .. Len(log) |-> Copies(log[i], MainWidths(protocol)[o[i]])]
  BY <1>2
<1> QED BY <1>3 DEF MainTraceLogSizes, MainSizesOf

\* The main tree has the sizes that are expected,
LEMMA MainSizes ==
  ASSUME NEW P \in Protocols, NEW log \in LogSizes[P]
  PROVE  MainSizesOf(P, log) = Sizes(MainOf(P, log))
<1> DEFINE o == OrderOf(P)
<1> DEFINE w == MainWidths(P)
<1> DEFINE ss == Spans(P, o, log, w)
<1> DEFINE tt == [i \in 1 .. Len(log) |-> Copies(log[i], w[o[i]])]
<1>1. Len(o) \in Nat /\ IsTable(o) /\ Len(log) = Len(o)
  BY OrderIs
<1>2. \A i \in 1 .. Len(o) : o[i] \in ToSet(o) /\ PlaceIn(o, o[i]) = i
  BY <1>1, PlaceIs DEF ToSet, IsTable
<1>3. Counts(P, w)
  BY WidthsAre DEF Counts
<1>4. Laying(P, o, log, w, ss)
  <2> HIDE DEF w
  <2> QED BY <1>1, <1>2, <1>3, SpansAre
<1> HIDE DEF ss
<1>5. IsTable(tt) /\ Len(tt) = Len(ss)
  <2>1. Len(log) \in Nat /\ Len(ss) = Len(log)
    BY <1>1, <1>4 DEF Laying
  <2> QED BY <2>1, TableOf
<1>6. ASSUME NEW i \in 1 .. Len(ss)
      PROVE  /\ IsTable(ss[i]) /\ IsTable(tt[i]) /\ Len(tt[i]) = Len(ss[i])
             /\ \A j \in 1 .. Len(ss[i]) : tt[i][j] = ss[i][j][2]
  <2>1. i \in 1 .. Len(o) /\ i \in 1 .. Len(log)
    BY <1>1, <1>4 DEF Laying
  <2>2. /\ IsTable(ss[i]) /\ Len(ss[i]) = w[o[i]]
        /\ \A j \in 1 .. w[o[i]] : ss[i][j] = <<o[i], log[PlaceIn(o, o[i])]>>
    BY <2>1, <1>4 DEF Laying
  <2>3. tt[i] = Copies(log[i], w[o[i]])
    BY <2>1
  <2> DEFINE n == w[o[i]]
  <2>4. n \in Nat
    BY <2>1, <1>2, <1>3 DEF Counts
  <2> HIDE DEF n, tt
  <2>5. IsTable(Copies(log[i], n)) /\ Len(Copies(log[i], n)) = n /\ \A j \in 1 .. n : Copies(log[i], n)[j] = log[i]
    BY <2>4, TableOf DEF Copies
  <2>6. tt[i] = Copies(log[i], n)
    BY <2>3 DEF n
  <2>7. \A j \in 1 .. n : ss[i][j] = <<o[i], log[i]>>
    BY <2>1, <2>2, <1>2 DEF n
  <2>8. Len(ss[i]) = n
    BY <2>2 DEF n
  <2> HIDE DEF o
  <2> QED BY <2>2, <2>5, <2>6, <2>7, <2>8
<1>7. IsTable(ss)
  BY <1>4 DEF Laying
<1>8. FlattenSeq(tt) = Sizes(FlattenSeq(ss))
  <2> HIDE DEF tt
  <2> QED BY <1>5, <1>6, <1>7, FlatSizes
<1> QED BY <1>8 DEF MainSizesOf, MainOf, ss

\* and every table finds its columns in a tree that has all tables,
LEMMA FullSpan ==
  ASSUME NEW P \in Protocols, NEW log \in LogSizes[P], NEW c \in ToSet(OrderOf(P)), NEW w, Counts(P, w)
  PROVE  Span(OrderOf(P), FlattenSeq(Spans(P, OrderOf(P), log, w)), w, c) = Copies(<<c, log[PlaceIn(OrderOf(P), c)]>>, w[c])
<1> DEFINE o == OrderOf(P)
<1> DEFINE ss == Spans(P, o, log, w)
<1> DEFINE i == PlaceIn(o, c)
<1>1. Len(o) \in Nat /\ IsTable(o)
  BY OrderIs
<1>2. \A k \in 1 .. Len(o) : o[k] \in ToSet(o) /\ PlaceIn(o, o[k]) = k
  BY <1>1, PlaceIs DEF ToSet, IsTable
<1>3. Laying(P, o, log, w, ss)
  BY <1>1, <1>2, SpansAre
<1>4. i \in 1 .. Len(o) /\ o[i] = c /\ PlaceIn(o, o[i]) = i
  BY PlaceIs
<1> HIDE DEF ss
<1>5. Parted(o, w, ss)
  BY <1>1, <1>3 DEF Laying, Parted
<1>6. ss[i] = Copies(<<c, log[i]>>, w[c])
  BY <1>3, <1>4 DEF Laying
<1> HIDE DEF o, i
<1>7. Span(o, FlattenSeq(ss), w, o[i]) = ss[i]
  BY <1>4, <1>5, SpanIs
<1> QED BY <1>4, <1>6, <1>7 DEF o, i, ss

\* as the main tree has.
LEMMA MainSpan ==
  ASSUME NEW P \in Protocols, NEW log \in LogSizes[P], NEW c \in ToSet(OrderOf(P))
  PROVE  Span(OrderOf(P), MainOf(P, log), MainWidths(P), c) = Copies(<<c, log[PlaceIn(OrderOf(P), c)]>>, MainWidths(P)[c])
<1>1. Counts(P, MainWidths(P))
  BY WidthsAre DEF Counts
<1> QED BY <1>1, FullSpan DEF MainOf

\* The recursion's tables of interaction columns, and where they start.
SomeTables == <<1, 2, 5, 6, 7, 8, 9>>
SomeWidths == <<8, 8, 4, 8, 8, 8, 8>>
SomeStarts == <<0, 8, 16, 20, 28, 36, 44>>
AllWidths == <<8, 8, 0, 0, 4, 8, 8, 8, 8>>
AllStarts == <<0, 8, 16, 16, 16, 20, 28, 36, 44>>

LEMMA RecursionWidths ==
  /\ \A i \in 1 .. 9 : InteractionWidths("recursion")[RecursionTables[i]] = AllWidths[i]
  /\ \A i \in 1 .. 7 : /\ SomeTables[i] \in 1 .. 9 /\ AllWidths[SomeTables[i]] = SomeWidths[i]
                       /\ AllStarts[SomeTables[i]] = SomeStarts[i]
<1>1. \A i \in 1 .. 9 : Fractions[RecursionTables[i]] = <<2, 2, 0, 0, 1, 2, 2, 2, 2>>[i]
  BY TranscriptAssumption
<1>2. OrderOf("recursion") = RecursionTables /\ DOMAIN RecursionTables = 1 .. 9
  BY DEF OrderOf, RecursionTables
<1>3. ASSUME NEW i \in 1 .. 9 PROVE InteractionWidths("recursion")[RecursionTables[i]] = AllWidths[i]
  <2>1. RecursionTables[i] \in ToSet(OrderOf("recursion"))
    BY <1>2 DEF ToSet
  <2>2. InteractionWidths("recursion")[RecursionTables[i]] = 4 * Fractions[RecursionTables[i]]
    BY <2>1 DEF InteractionWidths
  <2>3. Fractions[RecursionTables[i]] = <<2, 2, 0, 0, 1, 2, 2, 2, 2>>[i]
    BY <1>1
  <2>4. 4 * <<2, 2, 0, 0, 1, 2, 2, 2, 2>>[i] = AllWidths[i]
    BY DEF AllWidths
  <2> QED BY <2>2, <2>3, <2>4
<1>4. \A i \in 1 .. 7 : /\ SomeTables[i] \in 1 .. 9 /\ AllWidths[SomeTables[i]] = SomeWidths[i]
                       /\ AllStarts[SomeTables[i]] = SomeStarts[i]
  BY DEF SomeTables, SomeWidths, SomeStarts, AllWidths, AllStarts
<1> QED BY <1>3, <1>4

\* Where nine parts start, and where seven.
Adding(off, n, widths) == off[0] = 0 /\ \A i \in 1 .. n : off[i] = off[i - 1] + widths[i]
Starting(off, n, starts) == \A i \in 1 .. n : off[i - 1] = starts[i]

LEMMA NineStarts ==
  ASSUME NEW off, Adding(off, 9, AllWidths)
  PROVE  off[9] = 52 /\ Starting(off, 9, AllStarts)
<1> USE DEF AllWidths, AllStarts, Starting
<1>1. off[0] = 0 /\ \A i \in 1 .. 9 : off[i] = off[i - 1] + AllWidths[i]
  BY DEF Adding
<1>2. off[1] = off[1 - 1] + 8 /\ off[2] = off[2 - 1] + 8 /\ off[3] = off[3 - 1] + 0 /\ off[4] = off[4 - 1] + 0
  BY <1>1
<1>3. off[5] = off[5 - 1] + 4 /\ off[6] = off[6 - 1] + 8 /\ off[7] = off[7 - 1] + 8 /\ off[8] = off[8 - 1] + 8 /\ off[9] = off[9 - 1] + 8
  BY <1>1
<1>4. off[1] = 8 /\ off[2] = 16 /\ off[3] = 16 /\ off[4] = 16
  BY <1>1, <1>2
<1>5. off[5] = 20 /\ off[6] = 28 /\ off[7] = 36 /\ off[8] = 44 /\ off[9] = 52
  BY <1>3, <1>4
<1> QED BY <1>1, <1>4, <1>5

LEMMA SevenStarts ==
  ASSUME NEW off, Adding(off, 7, SomeWidths)
  PROVE  off[7] = 52 /\ Starting(off, 7, SomeStarts)
<1> USE DEF SomeWidths, SomeStarts, Starting
<1>1. off[0] = 0 /\ \A i \in 1 .. 7 : off[i] = off[i - 1] + SomeWidths[i]
  BY DEF Adding
<1>2. off[1] = off[1 - 1] + 8 /\ off[2] = off[2 - 1] + 8 /\ off[3] = off[3 - 1] + 4 /\ off[4] = off[4 - 1] + 8
  BY <1>1
<1>3. off[5] = off[5 - 1] + 8 /\ off[6] = off[6 - 1] + 8 /\ off[7] = off[7 - 1] + 8
  BY <1>1
<1>4. off[1] = 8 /\ off[2] = 16 /\ off[3] = 20 /\ off[4] = 28
  BY <1>1, <1>2
<1>5. off[5] = 36 /\ off[6] = 44 /\ off[7] = 52
  BY <1>3, <1>4
<1> QED BY <1>1, <1>4, <1>5

\* A tree without the tables that have no columns is the tree with them.
LEMMA InteractionFull ==
  ASSUME NEW P \in Protocols, NEW log \in LogSizes[P]
  PROVE  InteractionOf(P, log) = FlattenSeq(Spans(P, OrderOf(P), log, InteractionWidths(P)))
<1>1. CASE P = "rv32im"
  <2>1. InteractionOrderOf(P) = OrderOf(P)
    BY <1>1 DEF InteractionOrderOf, OrderOf
  <2> QED BY <2>1 DEF InteractionOf
<1>2. CASE P = "recursion"
  <2> DEFINE w == InteractionWidths(P)
  <2> DEFINE o == OrderOf(P)
  <2> DEFINE p == InteractionOrderOf(P)
  <2> DEFINE ss == Spans(P, o, log, w)
  <2> DEFINE tt == Spans(P, p, log, w)
  <2> DEFINE u == FlattenSeq(ss)
  <2> DEFINE v == FlattenSeq(tt)
  <2>1. Counts(P, w)
    BY WidthsAre DEF Counts
  <2>2. Len(o) = 9 /\ IsTable(o) /\ o = RecursionTables /\ \A k \in 1 .. 9 : o[k] \in ToSet(o)
    <3>1. Len(o) = 9 /\ IsTable(o)
      BY <1>2, OrderIs
    <3> QED BY <3>1, <1>2 DEF ToSet, IsTable, OrderOf
  <2>3. Len(p) = 7 /\ \A k \in 1 .. 7 : p[k] \in ToSet(o) /\ p[k] = RecursionTables[SomeTables[k]]
    BY <1>2, InteractionOrderIs DEF SomeTables
  <2>4. Laying(P, o, log, w, ss)
    <3> HIDE DEF w
    <3> QED BY <2>1, <2>2, SpansAre
  <2>5. Laying(P, p, log, w, tt)
    <3>1. Len(p) \in Nat /\ \A k \in 1 .. Len(p) : p[k] \in ToSet(OrderOf(P))
      BY <2>3
    <3> HIDE DEF w, p
    <3> QED BY <2>1, <3>1, SpansAre
  <2>6. /\ \A k \in 1 .. 9 : w[RecursionTables[k]] = AllWidths[k]
        /\ \A k \in 1 .. 7 : SomeTables[k] \in 1 .. 9 /\ AllWidths[SomeTables[k]] = SomeWidths[k] /\ AllStarts[SomeTables[k]] = SomeStarts[k]
    BY <1>2, RecursionWidths
  <2>7. \A k \in 1 .. 7 : SomeWidths[k] \in Nat
    BY DEF SomeWidths
  <2> HIDE DEF ss, tt, w, o, p
  <2>8. IsTable(ss) /\ Len(ss) = 9 /\ \A k \in 1 .. 9 : IsTable(ss[k]) /\ Len(ss[k]) = AllWidths[k]
    BY <2>2, <2>4, <2>6 DEF Laying
  <2>9. IsTable(tt) /\ Len(tt) = 7 /\ \A k \in 1 .. 7 : IsTable(tt[k]) /\ Len(tt[k]) = SomeWidths[k]
    <3>1. IsTable(tt) /\ Len(tt) = 7 /\ \A k \in 1 .. 7 : IsTable(tt[k]) /\ Len(tt[k]) = w[p[k]]
      BY <2>3, <2>5 DEF Laying
    <3>2. \A k \in 1 .. 7 : w[p[k]] = SomeWidths[k]
      BY <2>3, <2>6
    <3> QED BY <3>1, <3>2
  <2>10. PICK a : Offsets(ss, a) /\ Laid(u, ss, a)
    <3>1. IsTable(ss) /\ Len(ss) \in Nat /\ \A k \in 1 .. Len(ss) : IsTable(ss[k])
      BY <2>8
    <3> QED BY <3>1, FlatParts
  <2>11. PICK b : Offsets(tt, b) /\ Laid(v, tt, b)
    <3>1. IsTable(tt) /\ Len(tt) \in Nat /\ \A k \in 1 .. Len(tt) : IsTable(tt[k])
      BY <2>9
    <3> QED BY <3>1, FlatParts
  <2> HIDE DEF u, v
  <2>12. a[9] = 52 /\ \A k \in 1 .. 9 : a[k - 1] = AllStarts[k]
    <3>1. Adding(a, 9, AllWidths)
      BY <2>8, <2>10 DEF Offsets, Adding
    <3>2. a[9] = 52 /\ Starting(a, 9, AllStarts)
      BY <3>1, NineStarts
    <3> QED BY <3>2 DEF Starting
  <2>13. b[7] = 52 /\ \A k \in 1 .. 7 : b[k - 1] = SomeStarts[k]
    <3>1. Adding(b, 7, SomeWidths)
      BY <2>9, <2>11 DEF Offsets, Adding
    <3>2. b[7] = 52 /\ Starting(b, 7, SomeStarts)
      BY <3>1, SevenStarts
    <3> QED BY <3>2 DEF Starting
  <2>14. IsTable(u) /\ Len(u) = 52 /\ IsTable(v) /\ Len(v) = 52
    BY <2>8, <2>9, <2>10, <2>11, <2>12, <2>13 DEF Laid
  <2>15. ASSUME NEW m \in 1 .. b[Len(tt)] PROVE v[m] = u[m]
    <3>0. Len(tt) \in Nat /\ \A k \in 1 .. Len(tt) : Len(tt[k]) \in Nat
      BY <2>7, <2>9
    <3>1. PICK i \in 1 .. Len(tt) : \E j \in 1 .. Len(tt[i]) : m = b[i - 1] + j
      BY <3>0, <2>11, FlatPlaces
    <3>2. PICK j \in 1 .. Len(tt[i]) : m = b[i - 1] + j
      BY <3>1
    <3>3. v[m] = tt[i][j]
      BY <3>2, <2>11 DEF Laid
    <3> DEFINE k == SomeTables[i]
    <3>4. i \in 1 .. 7 /\ k \in 1 .. 9 /\ AllWidths[k] = SomeWidths[i] /\ AllStarts[k] = SomeStarts[i]
      BY <2>6, <2>9
    <3> HIDE DEF k
    <3>5. Len(ss[k]) = Len(tt[i]) /\ a[k - 1] = b[i - 1]
      <4>1. Len(ss[k]) = AllWidths[k] /\ a[k - 1] = AllStarts[k]
        BY <3>4, <2>8, <2>12
      <4>2. Len(tt[i]) = SomeWidths[i] /\ b[i - 1] = SomeStarts[i]
        BY <3>4, <2>9, <2>13
      <4> QED BY <4>1, <4>2, <3>4
    <3>6. j \in 1 .. Len(ss[k]) /\ m = a[k - 1] + j /\ k \in 1 .. Len(ss)
      BY <3>2, <3>4, <3>5, <2>8
    <3>7. u[m] = ss[k][j]
      BY <3>6, <2>10 DEF Laid
    <3>8. p[i] = o[k]
      BY <3>4, <2>2, <2>3 DEF k
    <3>9. ss[k] = Copies(<<o[k], log[PlaceIn(OrderOf(P), o[k])]>>, w[o[k]])
      BY <3>4, <2>2, <2>4 DEF Laying
    <3>10. tt[i] = Copies(<<p[i], log[PlaceIn(OrderOf(P), p[i])]>>, w[p[i]])
      BY <3>4, <2>3, <2>5 DEF Laying
    <3>11. ss[k] = tt[i]
      BY <3>8, <3>9, <3>10
    <3> QED BY <3>3, <3>7, <3>11
  <2>16. \A m \in 1 .. Len(v) : v[m] = u[m]
    BY <2>9, <2>13, <2>14, <2>15
  <2>17. v = u
    <3>1. Len(v) = Len(u)
      BY <2>14
    <3> QED BY <3>1, <2>14, <2>16, TableSame
  <2>18. InteractionOf(P, log) = v
    BY DEF InteractionOf, v, tt, p, w
  <2> QED BY <2>17, <2>18 DEF u, ss, o, w
<1> QED BY <1>1, <1>2 DEF Protocols

\* Every table finds its interaction columns,
LEMMA InteractionSpan ==
  ASSUME NEW P \in Protocols, NEW log \in LogSizes[P], NEW c \in ToSet(OrderOf(P))
  PROVE  Span(OrderOf(P), InteractionOf(P, log), InteractionWidths(P), c)
           = Copies(<<c, log[PlaceIn(OrderOf(P), c)]>>, InteractionWidths(P)[c])
<1>1. Counts(P, InteractionWidths(P))
  BY WidthsAre DEF Counts
<1>2. PICK u : u = InteractionOf(P, log)
  OBVIOUS
<1>3. u = FlattenSeq(Spans(P, OrderOf(P), log, InteractionWidths(P)))
  BY <1>2, InteractionFull
<1>4. Span(OrderOf(P), FlattenSeq(Spans(P, OrderOf(P), log, InteractionWidths(P))), InteractionWidths(P), c)
        = Copies(<<c, log[PlaceIn(OrderOf(P), c)]>>, InteractionWidths(P)[c])
  BY <1>1, FullSpan
<1> QED BY <1>2, <1>3, <1>4

\* and the recursion's tree has the sizes that its verifier expects.
LEMMA InteractionSizes ==
  ASSUME NEW log \in LogSizes["recursion"]
  PROVE  InteractionLogSizes(log) = Sizes(InteractionOf("recursion", log))
<1> DEFINE P == "recursion"
<1> DEFINE w == InteractionWidths(P)
<1> DEFINE o == OrderOf(P)
<1> DEFINE p == InteractionOrderOf(P)
<1> DEFINE ss == Spans(P, p, log, w)
<1> DEFINE tt == [i \in 1 .. 7 |-> Copies(log[SomeTables[i]], SomeWidths[i])]
<1>0. P \in Protocols
  BY DEF Protocols
<1>1. Counts(P, w)
  BY <1>0, WidthsAre DEF Counts
<1>2. Len(p) = 7 /\ \A k \in 1 .. 7 : p[k] \in ToSet(o) /\ p[k] = RecursionTables[SomeTables[k]]
  BY <1>0, InteractionOrderIs DEF SomeTables
<1>3. Laying(P, p, log, w, ss)
  <2>1. Len(p) \in Nat /\ \A k \in 1 .. Len(p) : p[k] \in ToSet(OrderOf(P))
    BY <1>2
  <2>2. \A y : Len(y) \in Nat /\ (\A k \in 1 .. Len(y) : y[k] \in ToSet(OrderOf(P)))
                 => Laying(P, y, log, w, Spans(P, y, log, w))
    <3> TAKE y
    <3> HAVE Len(y) \in Nat /\ (\A k \in 1 .. Len(y) : y[k] \in ToSet(OrderOf(P)))
    <3>1. PICK width : width = w
      OBVIOUS
    <3>2. Counts(P, width) /\ log \in LogSizes[P]
      BY <1>1, <3>1
    <3> HIDE DEF w, P
    <3>3. Laying(P, y, log, width, Spans(P, y, log, width))
      BY <1>0, <3>2, SpansAre
    <3> QED BY <3>1, <3>3
  <2> HIDE DEF w, p, P
  <2> QED BY <2>1, <2>2
<1>4. /\ \A k \in 1 .. 9 : w[RecursionTables[k]] = AllWidths[k]
      /\ \A k \in 1 .. 7 : SomeTables[k] \in 1 .. 9 /\ AllWidths[SomeTables[k]] = SomeWidths[k] /\ SomeWidths[k] \in Nat
  BY RecursionWidths DEF SomeWidths
<1>5. \A k \in 1 .. 9 : PlaceIn(o, RecursionTables[k]) = k
  <2>1. o = RecursionTables /\ Len(o) = 9
    BY <1>0, OrderIs DEF OrderOf
  <2>2. \A i \in 1 .. Len(o) : PlaceIn(o, o[i]) = i
    BY <1>0, PlaceIs
  <2> HIDE DEF o
  <2> QED BY <2>1, <2>2
<1> HIDE DEF ss, w, p
<1>6. IsTable(tt) /\ Len(tt) = 7
  BY TableOf
<1>7. IsTable(ss) /\ Len(ss) = 7
  BY <1>2, <1>3 DEF Laying
<1>8. ASSUME NEW i \in 1 .. Len(ss)
      PROVE  /\ IsTable(ss[i]) /\ IsTable(tt[i]) /\ Len(tt[i]) = Len(ss[i])
             /\ \A j \in 1 .. Len(ss[i]) : tt[i][j] = ss[i][j][2]
  <2> DEFINE k == SomeTables[i]
  <2> DEFINE n == SomeWidths[i]
  <2>1. i \in 1 .. 7 /\ i \in 1 .. Len(p) /\ k \in 1 .. 9 /\ p[i] = RecursionTables[k] /\ w[p[i]] = n /\ n \in Nat
    BY <1>2, <1>4, <1>7
  <2>2. tt[i] = Copies(log[k], n)
    BY <2>1
  <2> HIDE DEF k, n, tt
  <2>3. PlaceIn(o, p[i]) = k
    BY <2>1, <1>5
  <2>4. IsTable(ss[i]) /\ Len(ss[i]) = n /\ \A j \in 1 .. n : ss[i][j] = <<p[i], log[k]>>
    BY <2>1, <2>3, <1>3 DEF Laying
  <2>5. IsTable(Copies(log[k], n)) /\ Len(Copies(log[k], n)) = n /\ \A j \in 1 .. n : Copies(log[k], n)[j] = log[k]
    BY <2>1, TableOf DEF Copies
  <2> QED BY <2>2, <2>4, <2>5
<1>9. FlattenSeq(tt) = Sizes(FlattenSeq(ss))
  <2> HIDE DEF tt
  <2> QED BY <1>6, <1>7, <1>8, FlatSizes
<1>10. InteractionLogSizes(log) = FlattenSeq(tt)
  <2>1. \A i \in 1 .. 7 : /\ <<1, 2, 5, 6, 7, 8, 9>>[i] = SomeTables[i] /\ <<8, 8, 4, 8, 8, 8, 8>>[i] = SomeWidths[i]
    BY DEF SomeTables, SomeWidths
  <2>2. [i \in 1 .. 7 |-> Copies(log[<<1, 2, 5, 6, 7, 8, 9>>[i]], <<8, 8, 4, 8, 8, 8, 8>>[i])] = tt
    BY <2>1
  <2> HIDE DEF tt
  <2> QED BY <2>2 DEF InteractionLogSizes
<1> QED BY <1>9, <1>10 DEF InteractionOf, ss, p, w

-----------------------------------------------------------------------------
(* What the pieces of a proof are when its prover has made them.             *)

PiecesOf(P) ==
  IF P = "rv32im"
  THEN {"public_data", "preprocessed", "main", "claim", "pow", "sums", "interaction_log_sizes", "interaction",
        "composition", "sampled"}
  ELSE {"preprocessed", "log_sizes", "roots", "leaves", "channels", "circuits", "main", "sums", "interaction",
        "composition", "sampled"}

\* Each of these is mixed at its place, and nothing else is.
LEMMA PiecesAre ==
  ASSUME NEW P \in Protocols
  PROVE  /\ \A i \in 1 .. PieceCount(P) : Piece(P)[i] \in PiecesOf(P)
         /\ \A p \in PiecesOf(P) : PlaceOfPiece(P, p) \in 1 .. PieceCount(P) /\ Piece(P)[PlaceOfPiece(P, p)] = p
         /\ PiecesOf(P) \subseteq PieceNames
<1> DEFINE Placed(p) == PlaceOfPiece(P, p) \in 1 .. PieceCount(P) /\ Piece(P)[PlaceOfPiece(P, p)] = p
<1> DEFINE Listed(i) == Piece(P)[i] \in PiecesOf(P)
<1>1. CASE P = "rv32im"
  <2>1. PieceCount(P) = 10
    BY <1>1 DEF PieceCount
  <2> USE <1>1, <2>1 DEF PiecesOf, Piece, Pieces, PlaceOfPiece
  <2>2. Placed("public_data") /\ Placed("preprocessed") /\ Placed("main") /\ Placed("claim") /\ Placed("pow")
    OBVIOUS
  <2>3. Placed("sums") /\ Placed("interaction_log_sizes") /\ Placed("interaction") /\ Placed("composition") /\ Placed("sampled")
    OBVIOUS
  <2>4. Listed(1) /\ Listed(2) /\ Listed(3) /\ Listed(4) /\ Listed(5)
    OBVIOUS
  <2>5. Listed(6) /\ Listed(7) /\ Listed(8) /\ Listed(9) /\ Listed(10)
    OBVIOUS
  <2> HIDE DEF Placed, Listed, Piece, Pieces, PlaceOfPiece
  <2>6. \A p \in PiecesOf(P) : Placed(p)
    BY <2>2, <2>3
  <2>7. \A i \in 1 .. PieceCount(P) : Listed(i)
    <3> SUFFICES ASSUME NEW i \in 1 .. 10 PROVE Listed(i)
      OBVIOUS
    <3>1. i \in {1, 2, 3, 4, 5} \/ i \in {6, 7, 8, 9, 10}
      OBVIOUS
    <3> HIDE DEF PiecesOf
    <3> QED BY <3>1, <2>4, <2>5
  <2>8. PiecesOf(P) \subseteq PieceNames
    BY DEF PieceNames, Commitments
  <2> HIDE DEF PiecesOf
  <2> QED BY <2>6, <2>7, <2>8 DEF Placed, Listed
<1>2. CASE P = "recursion"
  <2>1. PieceCount(P) = 12
    BY <1>2 DEF PieceCount
  <2> USE <1>2, <2>1
  <2>10. Placed("preprocessed")
    <3>1. PlaceOfPiece(P, "preprocessed") = 1
      BY DEF PlaceOfPiece
    <3>2. Piece(P)[1] = "preprocessed"
      BY DEF Piece, RecursionPieces
    <3> QED BY <3>1, <3>2
  <2>11. Placed("log_sizes")
    <3>1. PlaceOfPiece(P, "log_sizes") = 2
      BY DEF PlaceOfPiece
    <3>2. Piece(P)[2] = "log_sizes"
      BY DEF Piece, RecursionPieces
    <3> QED BY <3>1, <3>2
  <2>12. Placed("roots")
    <3>1. PlaceOfPiece(P, "roots") = 3
      BY DEF PlaceOfPiece
    <3>2. Piece(P)[3] = "roots"
      BY DEF Piece, RecursionPieces
    <3> QED BY <3>1, <3>2
  <2>13. Placed("leaves")
    <3>1. PlaceOfPiece(P, "leaves") = 4
      BY DEF PlaceOfPiece
    <3>2. Piece(P)[4] = "leaves"
      BY DEF Piece, RecursionPieces
    <3> QED BY <3>1, <3>2
  <2>14. Placed("channels")
    <3>1. PlaceOfPiece(P, "channels") = 5
      BY DEF PlaceOfPiece
    <3>2. Piece(P)[5] = "channels"
      BY DEF Piece, RecursionPieces
    <3> QED BY <3>1, <3>2
  <2>15. Placed("circuits")
    <3>1. PlaceOfPiece(P, "circuits") = 6
      BY DEF PlaceOfPiece
    <3>2. Piece(P)[6] = "circuits"
      BY DEF Piece, RecursionPieces
    <3> QED BY <3>1, <3>2
  <2>16. Placed("main")
    <3>1. PlaceOfPiece(P, "main") = 7
      BY DEF PlaceOfPiece
    <3>2. Piece(P)[7] = "main"
      BY DEF Piece, RecursionPieces
    <3> QED BY <3>1, <3>2
  <2>17. Placed("sums")
    <3>1. PlaceOfPiece(P, "sums") = 9
      BY DEF PlaceOfPiece
    <3>2. Piece(P)[9] = "sums"
      BY DEF Piece, RecursionPieces
    <3> QED BY <3>1, <3>2
  <2>18. Placed("interaction")
    <3>1. PlaceOfPiece(P, "interaction") = 10
      BY DEF PlaceOfPiece
    <3>2. Piece(P)[10] = "interaction"
      BY DEF Piece, RecursionPieces
    <3> QED BY <3>1, <3>2
  <2>19. Placed("composition")
    <3>1. PlaceOfPiece(P, "composition") = 11
      BY DEF PlaceOfPiece
    <3>2. Piece(P)[11] = "composition"
      BY DEF Piece, RecursionPieces
    <3> QED BY <3>1, <3>2
  <2>20. Placed("sampled")
    <3>1. PlaceOfPiece(P, "sampled") = 12
      BY DEF PlaceOfPiece
    <3>2. Piece(P)[12] = "sampled"
      BY DEF Piece, RecursionPieces
    <3> QED BY <3>1, <3>2
  <2>4. Listed(1) /\ Listed(2) /\ Listed(3) /\ Listed(4) /\ Listed(5) /\ Listed(6)
    BY DEF PiecesOf, Piece, RecursionPieces
  <2>5. Listed(7) /\ Listed(8) /\ Listed(9) /\ Listed(10) /\ Listed(11) /\ Listed(12)
    BY DEF PiecesOf, Piece, RecursionPieces
  <2> HIDE DEF Placed, Listed
  <2>6. \A p \in PiecesOf(P) : Placed(p)
    BY <2>10, <2>11, <2>12, <2>13, <2>14, <2>15, <2>16, <2>17, <2>18, <2>19, <2>20 DEF PiecesOf
  <2>7. \A i \in 1 .. PieceCount(P) : Listed(i)
    <3> SUFFICES ASSUME NEW i \in 1 .. 12 PROVE Listed(i)
      OBVIOUS
    <3>1. i \in {1, 2, 3, 4, 5, 6} \/ i \in {7, 8, 9, 10, 11, 12}
      OBVIOUS
    <3> QED BY <3>1, <2>4, <2>5
  <2>8. PiecesOf(P) \subseteq PieceNames
    BY DEF PieceNames, Commitments, PiecesOf
  <2> QED BY <2>6, <2>7, <2>8 DEF Placed, Listed
<1> HIDE DEF Placed, Listed
<1> QED BY <1>1, <1>2 DEF Protocols

SumOrderOf(P) == IF P = "rv32im" THEN Tables ELSE SumOrder
RelationsOf(P, dr) ==
  IF P = "rv32im" THEN <<dr["relations"]>> ELSE <<dr["relations"], dr["recursion_relations"]>>
PartOf(P, st) ==
  IF P = "rv32im"
  THEN <<st.cpu, st.initial_regs, st.final_regs, st.reg_last_clock, st.roots, st.input_words, st.output_words>>
  ELSE <<st.roots, st.leaves, st.channels, st.circuits>>
SumsOf(P, rel, part) == [i \in 1 .. Len(SumOrderOf(P)) |-> SumOf(SumOrderOf(P)[i], rel, part)]

\* The run that is proved, and the piece v that its prover makes of it under the draws dr.
Running(P, s) == s.statement \in Statements[P] /\ s.log \in LogSizes[P]
Right(P, s, dr, p, v) ==
  /\ p = "public_data" => v = s.statement
  /\ p \in {"roots", "leaves", "channels", "circuits"} => v = s.statement[p]
  /\ p \in {"claim", "log_sizes"} => v = s.log
  /\ p = "main" => v = Root(MainOf(P, s.log), <<>>)
  /\ p = "pow" => v \in Nat
  /\ p = "sums" => RelationNames(P) \subseteq DOMAIN dr /\ v = SumsOf(P, RelationsOf(P, dr), PartOf(P, s.statement))
  /\ p = "interaction_log_sizes" => v = Sizes(InteractionOf(P, s.log))
  /\ p = "interaction" => RelationNames(P) \subseteq DOMAIN dr /\ v = Root(InteractionOf(P, s.log), RelationsOf(P, dr))
  /\ p = "sampled" => DrawsOf(P) \subseteq DOMAIN dr /\ v = Sampled(<<dr["random_coeff"], dr["oods"]>>, Masks)

\* The claims of a recursion proof.
LEMMA ClaimsFit ==
  ASSUME NEW st \in Statements["recursion"], NEW p \in {"roots", "leaves", "channels", "circuits"}
  PROVE  Fits(p, st[p])
<1>1. st.roots \in RootClaims /\ st.leaves \in LeafClaims /\ st.channels \in ChannelClaims /\ st.circuits \in CircuitClaims
  BY TranscriptAssumption
<1>2. RootClaims = Seq(RootClaim)
  BY DEF RootClaims, RootClaim
<1>3. LeafClaims = Seq(LeafClaim)
  BY DEF LeafClaims, LeafClaim
<1>4. ChannelClaims = Seq(ChannelClaim)
  BY DEF ChannelClaims, ChannelClaim
<1>5. CircuitClaims = Seq(CircuitClaim)
  BY DEF CircuitClaims, CircuitClaim
<1>6. CASE p = "roots"
  BY <1>1, <1>2, <1>6 DEF Fits
<1>7. CASE p = "leaves"
  BY <1>1, <1>3, <1>7 DEF Fits
<1>8. CASE p = "channels"
  BY <1>1, <1>4, <1>8 DEF Fits
<1>9. CASE p = "circuits"
  BY <1>1, <1>5, <1>9 DEF Fits
<1> QED BY <1>6, <1>7, <1>8, <1>9

\* The sums are a list.
LEMMA SumsList ==
  ASSUME NEW P \in Protocols, NEW rel, NEW part
  PROVE  IsTable(SumsOf(P, rel, part)) /\ Len(SumsOf(P, rel, part)) = Len(SumOrderOf(P)) /\ Len(SumOrderOf(P)) \in Nat
<1>1. Len(SumOrderOf(P)) \in Nat
  BY TablesList DEF SumOrderOf, SumOrder
<1> QED BY <1>1, TableOf DEF SumsOf

\* A right piece is what it has to be.
LEMMA RightFits ==
  ASSUME NEW P \in Protocols, NEW s, Running(P, s), NEW dr, NEW p \in PiecesOf(P), NEW v, Right(P, s, dr, p, v)
  PROVE  Fits(p, v)
<1>1. s.statement \in Statements[P] /\ s.log \in LogSizes[P] /\ s.log \in Seq(Nat)
  BY OrderIs DEF Running
<1>2. CASE p = "public_data"
  <2>1. P = "rv32im"
    BY <1>2 DEF PiecesOf
  <2>2. v = s.statement
    BY <1>2 DEF Right
  <2> QED BY <1>1, <1>2, <2>1, <2>2, StatementsAre DEF Fits
<1>3. CASE p \in {"roots", "leaves", "channels", "circuits"}
  <2>1. P = "recursion"
    BY <1>3 DEF PiecesOf, Protocols
  <2>2. v = s.statement[p]
    BY <1>3 DEF Right
  <2> QED BY <1>1, <1>3, <2>1, <2>2, ClaimsFit
<1>4. CASE p \in {"claim", "log_sizes"}
  <2>1. v = s.log
    BY <1>4 DEF Right
  <2> QED BY <1>1, <1>4, <2>1 DEF Fits
<1>5. CASE p = "pow"
  BY <1>5 DEF Right, Fits
<1>6. CASE p = "sums"
  <2>1. v = SumsOf(P, RelationsOf(P, dr), PartOf(P, s.statement))
    BY <1>6 DEF Right
  <2>2. IsTable(v)
    BY <2>1, SumsList
  <2> QED BY <1>6, <2>2 DEF Fits
<1>7. CASE p = "interaction_log_sizes"
  <2>1. v = Sizes(InteractionOf(P, s.log))
    BY <1>7 DEF Right
  <2>2. v \in Seq(Nat)
    BY <1>1, <2>1, InteractionIs
  <2> QED BY <1>7, <2>2 DEF Fits
<1>8. CASE p \in Commitments \cup {"sampled"}
  BY <1>8 DEF Fits, Commitments
<1> QED BY <1>2, <1>3, <1>4, <1>5, <1>6, <1>7, <1>8 DEF PiecesOf, Commitments

\* It stays right when there are more draws.
LEMMA RightKept ==
  ASSUME NEW P, NEW s, NEW dr, NEW du, \A x \in DOMAIN dr : x \in DOMAIN du /\ du[x] = dr[x],
         NEW p, NEW v, Right(P, s, dr, p, v)
  PROVE  Right(P, s, du, p, v)
<1>1. RelationNames(P) \subseteq DOMAIN dr => RelationNames(P) \subseteq DOMAIN du /\ RelationsOf(P, du) = RelationsOf(P, dr)
  BY DEF RelationNames, RelationsOf
<1>2. DrawsOf(P) \subseteq DOMAIN dr => DrawsOf(P) \subseteq DOMAIN du /\ du["random_coeff"] = dr["random_coeff"] /\ du["oods"] = dr["oods"]
  BY DEF DrawsOf
<1>3. p = "sums" => RelationNames(P) \subseteq DOMAIN du /\ v = SumsOf(P, RelationsOf(P, du), PartOf(P, s.statement))
  BY <1>1 DEF Right
<1>4. p = "interaction" => RelationNames(P) \subseteq DOMAIN du /\ v = Root(InteractionOf(P, s.log), RelationsOf(P, du))
  BY <1>1 DEF Right
<1>5. p = "sampled" => DrawsOf(P) \subseteq DOMAIN du /\ v = Sampled(<<du["random_coeff"], du["oods"]>>, Masks)
  BY <1>2 DEF Right
<1> QED BY <1>3, <1>4, <1>5 DEF Right

\* The proof has its first m pieces, and no other.
MadeTo(P, pf, m) == IsMap(pf) /\ DOMAIN pf = {Piece(P)[i] : i \in 1 .. m}
AllRight(P, s, dr, pf) == \A p \in DOMAIN pf : Right(P, s, dr, p, pf[p])

LEMMA MadePut ==
  ASSUME NEW P, NEW pf, NEW m \in Nat, MadeTo(P, pf, m), NEW v
  PROVE  MadeTo(P, Put(pf, Piece(P)[m + 1], v), m + 1)
<1> DEFINE p == Piece(P)[m + 1]
<1> DEFINE f == Put(pf, p, v)
<1>1. IsMap(f) /\ DOMAIN f = DOMAIN pf \cup {p}
  BY DEF Put, IsMap
<1> HIDE DEF f
<1>2. {Piece(P)[i] : i \in 1 .. m + 1} = {Piece(P)[i] : i \in 1 .. m} \cup {p}
  BY DEF p
<1> QED BY <1>1, <1>2 DEF MadeTo, f

\* A piece that is added, or put again, leaves what was there.
LEMMA AgreePut ==
  ASSUME NEW P \in Protocols, NEW pf, NEW m \in 0 .. PieceCount(P), MadeTo(P, pf, m), NEW p, NEW v,
         p \in DOMAIN pf => v = pf[p]
  PROVE  AgreeTo(P, pf, Put(pf, p, v), m)
<1> DEFINE f == Put(pf, p, v)
<1>1. \A x \in DOMAIN pf : f[x] = pf[x]
  BY DEF Put
<1> HIDE DEF f
<1>2. PieceCount(P) \in Nat /\ m \in Nat /\ m <= PieceCount(P)
  BY PieceIs
<1>3. ASSUME NEW i \in 1 .. m
      PROVE  pf[Piece(P)[i]] = f[Piece(P)[i]] /\ (Skipped(P, pf, Piece(P)[i]) <=> Skipped(P, f, Piece(P)[i]))
  <2>1. Piece(P)[i] \in DOMAIN pf
    BY DEF MadeTo
  <2>2. CASE P = "rv32im" /\ Piece(P)[i] = "interaction"
    <3>1. i \in 1 .. PieceCount(P)
      BY <1>2
    <3>2. i = 8
      BY <2>2, <3>1, PieceIs
    <3>3. Piece(P)[7] = "interaction_log_sizes" /\ 7 \in 1 .. m
      BY <2>2, <3>2, <1>2, PieceIs
    <3>4. "interaction_log_sizes" \in DOMAIN pf
      BY <3>3 DEF MadeTo
    <3> QED BY <2>1, <3>4, <1>1 DEF Skipped
  <2>3. CASE ~ (P = "rv32im" /\ Piece(P)[i] = "interaction")
    BY <2>1, <2>3, <1>1 DEF Skipped
  <2> QED BY <2>2, <2>3
<1> QED BY <1>3 DEF AgreeTo, f

\* The prover's statement, as the claimed sums see it.
LEMMA StatementIs ==
  ASSUME protocol = "rv32im" => proof["public_data"] = run.statement,
         protocol # "rv32im" => \A p \in {"roots", "leaves", "channels", "circuits"} : proof[p] = run.statement[p]
  PROVE  LogupPart(Statement) = PartOf(protocol, run.statement)
<1>1. CASE protocol = "rv32im"
  <2>1. Statement = run.statement
    BY <1>1 DEF Statement
  <2> QED BY <1>1, <2>1 DEF LogupPart, PartOf
<1>2. CASE protocol # "rv32im"
  <2> DEFINE st == [p \in {"roots", "leaves", "channels", "circuits"} |-> proof[p]]
  <2>1. Statement = st
    BY <1>2 DEF Statement
  <2>2. /\ st["roots"] = run.statement["roots"] /\ st["leaves"] = run.statement["leaves"]
        /\ st["channels"] = run.statement["channels"] /\ st["circuits"] = run.statement["circuits"]
    BY <1>2
  <2> HIDE DEF st
  <2>3. /\ st.roots = run.statement.roots /\ st.leaves = run.statement.leaves
        /\ st.channels = run.statement.channels /\ st.circuits = run.statement.circuits
    BY <2>2
  <2> QED BY <1>2, <2>1, <2>3 DEF LogupPart, PartOf
<1> QED BY <1>1, <1>2

\* Every piece is made right.
LEMMA ProducedRight ==
  ASSUME protocol \in Protocols, NEW p \in PiecesOf(protocol) \ {"pow"},
         p \in {"sums", "interaction"} => RelationNames(protocol) \subseteq DOMAIN drawn,
         p = "sampled" => DrawsOf(protocol) \subseteq DOMAIN drawn,
         p = "sums" => LogupPart(Statement) = PartOf(protocol, run.statement)
  PROVE  Right(protocol, run, drawn, p, Produce(p))
<1>0. Relations = RelationsOf(protocol, drawn)
  BY DEF Relations, RelationsOf
<1>1. CASE p \in {"public_data", "roots", "leaves", "channels", "circuits", "claim", "log_sizes", "preprocessed", "composition"}
  BY <1>1 DEF Right, Produce
<1>2. CASE p = "main"
  <2>1. Produce(p) = Root(MainColumns(run.log), <<>>)
    BY <1>2 DEF Produce
  <2>2. MainColumns(run.log) = MainOf(protocol, run.log)
    BY LayoutsAre
  <2> QED BY <1>2, <2>1, <2>2 DEF Right
<1>3. CASE p = "sums"
  <2>1. Order = OrderOf(protocol)
    BY LayoutsAre
  <2>2. CASE protocol = "rv32im"
    <3>1. Order = Tables /\ SumOrderOf(protocol) = Tables
      BY <2>1, <2>2 DEF OrderOf, SumOrderOf
    <3>2. Produce(p) = [i \in 1 .. Len(Order) |-> SumOf(Order[i], Relations, LogupPart(Statement))]
      BY <1>3, <2>2 DEF Produce
    <3>3. Produce(p) = SumsOf(protocol, Relations, LogupPart(Statement))
      BY <3>1, <3>2 DEF SumsOf
    <3> QED BY <1>0, <1>3, <3>3 DEF Right
  <2>3. CASE protocol # "rv32im"
    <3>1. SumOrderOf(protocol) = SumOrder
      BY <2>3 DEF SumOrderOf
    <3>2. Produce(p) = [i \in 1 .. Len(SumOrder) |-> SumOf(SumOrder[i], Relations, LogupPart(Statement))]
      BY <1>3, <2>3 DEF Produce
    <3>3. Produce(p) = SumsOf(protocol, Relations, LogupPart(Statement))
      BY <3>1, <3>2 DEF SumsOf
    <3> QED BY <1>0, <1>3, <3>3 DEF Right
  <2> QED BY <2>2, <2>3
<1>4. CASE p = "interaction_log_sizes"
  <2>1. Produce(p) = Sizes(InteractionColumns(run.log))
    BY <1>4 DEF Produce
  <2>2. InteractionColumns(run.log) = InteractionOf(protocol, run.log)
    BY LayoutsAre
  <2> QED BY <1>4, <2>1, <2>2 DEF Right
<1>5. CASE p = "interaction"
  <2>1. Produce(p) = Root(InteractionColumns(run.log), Relations)
    BY <1>5 DEF Produce
  <2>2. InteractionColumns(run.log) = InteractionOf(protocol, run.log)
    BY LayoutsAre
  <2> QED BY <1>0, <1>5, <2>1, <2>2 DEF Right
<1>6. CASE p = "sampled"
  <2>1. Produce(p) = Sampled(Challenges, Masks)
    BY <1>6 DEF Produce
  <2>2. Challenges = <<drawn["random_coeff"], drawn["oods"]>>
    BY DEF Challenges
  <2> QED BY <1>6, <2>1, <2>2 DEF Right
<1> QED BY <1>1, <1>2, <1>3, <1>4, <1>5, <1>6 DEF PiecesOf

-----------------------------------------------------------------------------
(* The prover at work.                                                       *)

\* Grinding from a digest that is new hashes nonce after nonce behind it.
LEMMA GroundLeads ==
  ASSUME Grounded(mixes), digest = Len(mixes), NEW n \in Nat
  PROVE  LET u == Join(mixes, Ground(n + 1))
         IN  /\ Grounded(u) /\ IsTable(u) /\ Extends(u, mixes) /\ Len(u) = Len(mixes) + 1 + n
             /\ Leads(u, digest, << U64(n) >>, Len(mixes) + 1 + n)
<1> DEFINE g == Ground(n + 1)
<1> DEFINE u == Join(mixes, g)
<1> DEFINE e == Len(mixes) + 1 + n
<1> DEFINE pair == <<digest, U64(n)>>
<1>1. n + 1 \in Nat /\ IsTable(mixes) /\ Len(mixes) \in Nat
  BY TableLength DEF Grounded
<1>2. IsTable(g) /\ Len(g) = n + 1 /\ \A i \in 1 .. n + 1 : g[i] = <<digest, U64(i - 1)>>
  BY <1>1, TableOf DEF Ground
<1> HIDE DEF g
<1>3. /\ IsTable(u) /\ Len(u) = Len(mixes) + Len(g)
      /\ \A j \in 1 .. Len(mixes) + Len(g) : u[j] = IF j <= Len(mixes) THEN mixes[j] ELSE g[j - Len(mixes)]
  BY <1>1, <1>2, Joined
<1> HIDE DEF u
<1>4. Len(u) = e /\ e \in Nat
  BY <1>1, <1>2, <1>3
<1>5. \A j \in 1 .. Len(mixes) : u[j] = mixes[j]
  BY <1>1, <1>2, <1>3
<1>6. ASSUME NEW j \in Len(mixes) + 1 .. e PROVE u[j] = <<digest, U64(j - Len(mixes) - 1)>>
  <2>1. j \in 1 .. Len(mixes) + Len(g) /\ ~ (j <= Len(mixes)) /\ j - Len(mixes) \in 1 .. n + 1
    BY <1>1, <1>2
  <2> QED BY <2>1, <1>2, <1>3
<1>7. ASSUME NEW j \in 1 .. Len(u) PROVE u[j][1] \in 0 .. j - 1
  <2>1. CASE j <= Len(mixes)
    <3>1. j \in 1 .. Len(mixes)
      BY <1>1, <1>4, <2>1
    <3> QED BY <3>1, <1>5 DEF Grounded
  <2>2. CASE ~ (j <= Len(mixes))
    <3>1. j \in Len(mixes) + 1 .. e
      BY <1>1, <1>4, <2>2
    <3>2. u[j][1] = Len(mixes)
      BY <3>1, <1>6
    <3> QED BY <1>1, <3>1, <3>2
  <2> QED BY <2>1, <2>2
<1>8. Grounded(u) /\ Extends(u, mixes)
  BY <1>1, <1>3, <1>4, <1>5, <1>7 DEF Grounded, Extends
<1>9. u[e] = pair
  <2>1. e \in Len(mixes) + 1 .. e /\ e - Len(mixes) - 1 = n
    BY <1>1
  <2> QED BY <2>1, <1>6
<1>10. Known(u, pair)
  <2>1. e \in 1 .. Len(u)
    BY <1>1, <1>4
  <2> QED BY <1>9, <2>1 DEF Known
<1>11. IdOf(u, pair) = e
  <2> DEFINE i == IdOf(u, pair)
  <2>1. i \in 1 .. Len(u) /\ u[i] = pair /\ i <= e
    <3>1. Len(u) \in Nat /\ e \in 1 .. Len(u)
      BY <1>1, <1>4
    <3> QED BY <1>9, <1>10, <3>1, PlaceOf
  <2> HIDE DEF i
  <2>2. i > Len(mixes)
    <3> SUFFICES ASSUME i <= Len(mixes) PROVE FALSE
      BY <1>1, <1>4, <2>1
    <3>1. i \in 1 .. Len(mixes)
      BY <1>1, <1>4, <2>1
    <3>2. mixes[i][1] \in 0 .. i - 1 /\ mixes[i][1] = Len(mixes)
      BY <3>1, <1>5, <2>1 DEF Grounded
    <3> QED BY <1>1, <3>1, <3>2
  <2>3. i \in Len(mixes) + 1 .. e /\ i - Len(mixes) - 1 \in Nat
    BY <1>1, <1>4, <2>1, <2>2
  <2>4. U64(i - Len(mixes) - 1) = U64(n)
    BY <2>1, <2>3, <1>6
  <2>5. i - Len(mixes) - 1 = n
    <3> DEFINE m == i - Len(mixes) - 1
    <3>1. m \in Nat /\ U64(m) = U64(n)
      BY <2>3, <2>4
    <3> HIDE DEF m
    <3>2. m = n
      BY <3>1, U64Tell
    <3> QED BY <3>2 DEF m
  <2> QED BY <1>1, <2>3, <2>5 DEF i
<1>12. Leads(u, digest, << U64(n) >>, e)
  <2> DEFINE w == [j \in 0 .. 1 |-> IF j = 0 THEN digest ELSE e]
  <2> DEFINE c == << U64(n) >>
  <2>1. w[0] = digest /\ w[1] = e /\ Len(c) = 1 /\ c[1] = U64(n)
    OBVIOUS
  <2> HIDE DEF w, c
  <2>2. ASSUME NEW j \in 1 .. Len(c) PROVE Known(u, <<w[j - 1], c[j]>>) /\ w[j] = IdOf(u, <<w[j - 1], c[j]>>)
    <3>1. j = 1 /\ j - 1 = 0
      BY <2>1
    <3> QED BY <2>1, <3>1, <1>10, <1>11
  <2>3. Walk(u, digest, c, e, w)
    BY <2>1, <2>2 DEF Walk
  <2> QED BY <2>3 DEF Leads, c
<1> QED BY <1>3, <1>4, <1>8, <1>12 DEF u, g

\* The step that is taken is the one the plan says.
LEMMA StepIs ==
  ASSUME protocol \in Protocols, role \in Roles(protocol), pc \in 1 .. StepsOf(protocol, role) + 1, NEW what, Doing(what)
  PROVE  /\ pc \in 1 .. StepsOf(protocol, role) /\ Step = PlanOf(protocol, role)[pc] /\ Step.do = what
         /\ StepFact(protocol, role, pc) /\ DrawFact(protocol, role, pc) /\ CheckFact(protocol, role, pc)
<1>1. StepsOf(protocol, role) \in Nat
  BY StepsIn
<1>2. pc <= Len(Script) /\ Step.do = what
  BY DEF Doing
<1>3. pc \in 1 .. StepsOf(protocol, role)
  BY <1>1, <1>2, ScriptIs
<1>4. Step = PlanOf(protocol, role)[pc]
  BY <1>3, ScriptIs DEF Step
<1> QED BY <1>2, <1>3, <1>4, FactsAre

\* Nonces are ground, and not made from what the prover has.
LEMMA NoncesGround ==
  ASSUME NEW P \in Protocols, NEW k \in 1 .. StepsOf(P, "prover"), PlanOf(P, "prover")[k].do = "mix"
  PROVE  PlanOf(P, "prover")[k].what # "pow"
<1>1. CASE P = "rv32im"
  <2>1. k \in 1 .. 13 /\ PlanOf(P, "prover") = ProverPlan
    BY <1>1 DEF StepsOf, PlanOf
  <2>2. ProverPlan[k].do = "mix" => ProverPlan[k].what # "pow"
    BY <2>1 DEF ProverPlan, Mix, Draw, Pow
  <2> QED BY <2>1, <2>2
<1>2. CASE P = "recursion"
  <2>1. k \in 1 .. 16 /\ PlanOf(P, "prover") = RecursionProverPlan
    BY <1>2 DEF StepsOf, PlanOf
  <2>2. RecursionProverPlan[k].do = "mix" => RecursionProverPlan[k].what # "pow"
    BY <2>1 DEF RecursionProverPlan, Mix, Draw
  <2> QED BY <2>1, <2>2
<1> QED BY <1>1, <1>2 DEF Protocols

\* The ground nonce leads to an even digest.
EvenAt(P, t, pf) == "pow" \in DOMAIN pf => \E e : Comes(P, t, pf, 5, e) /\ e % 2 = 0
Makes(P, s, t, pf, k, d, n, dr) ==
  /\ d = Len(t) /\ MadeTo(P, pf, Done(P, "prover")[k]) /\ AllRight(P, s, dr, pf) /\ EvenAt(P, t, pf)
  /\ At(P, "prover", t, pf, k, d, n, dr)

LEMMA MadeFits ==
  ASSUME NEW P \in Protocols, NEW s, Running(P, s), NEW dr, NEW pf, NEW m \in 0 .. PieceCount(P),
         MadeTo(P, pf, m), AllRight(P, s, dr, pf)
  PROVE  FitsTo(P, pf, m)
<1>1. ASSUME NEW i \in 1 .. m PROVE Fits(Piece(P)[i], pf[Piece(P)[i]])
  <2>1. PieceCount(P) \in Nat
    BY PieceIs
  <2>2. i \in 1 .. PieceCount(P)
    BY <2>1
  <2>3. Piece(P)[i] \in PiecesOf(P) /\ Piece(P)[i] \in DOMAIN pf
    BY <2>2, PiecesAre DEF MadeTo
  <2>4. Right(P, s, dr, Piece(P)[i], pf[Piece(P)[i]])
    BY <2>3 DEF AllRight
  <2> QED BY <2>3, <2>4, RightFits
<1> QED BY <1>1 DEF FitsTo

\* A piece that is there is among the first m.
LEMMA MadePlace ==
  ASSUME NEW P \in Protocols, NEW pf, NEW m \in 0 .. PieceCount(P), MadeTo(P, pf, m), NEW p \in DOMAIN pf
  PROVE  p \in PiecesOf(P) /\ (p # "log_sizes" => PlaceOfPiece(P, p) \in 1 .. m)
<1>1. PICK i \in 1 .. m : p = Piece(P)[i]
  BY DEF MadeTo
<1>2. PieceCount(P) \in Nat
  BY PieceIs
<1>3. i \in 1 .. PieceCount(P)
  BY <1>2
<1> QED BY <1>1, <1>3, PieceIs, PiecesAre

LEMMA EvenKept ==
  ASSUME NEW P \in Protocols, NEW t, IsTable(t), NEW u, IsTable(u), Extends(u, t), NEW pf, NEW pg, NEW m \in 0 .. PieceCount(P),
         MadeTo(P, pf, m), AgreeTo(P, pf, pg, m), EvenAt(P, t, pf), "pow" \in DOMAIN pg => "pow" \in DOMAIN pf
  PROVE  EvenAt(P, u, pg)
<1> SUFFICES ASSUME "pow" \in DOMAIN pf PROVE \E e : Comes(P, u, pg, 5, e) /\ e % 2 = 0
  BY DEF EvenAt
<1>1. PICK e : Comes(P, t, pf, 5, e) /\ e % 2 = 0
  BY DEF EvenAt
<1>2. "pow" \in PiecesOf(P) /\ PlaceOfPiece(P, "pow") \in 1 .. m
  BY MadePlace
<1>3. P = "rv32im"
  BY <1>2 DEF PiecesOf, Protocols
<1>4. PlaceOfPiece(P, "pow") = 5
  BY <1>3 DEF PlaceOfPiece
<1>5. PieceCount(P) \in Nat
  BY PieceIs
<1>6. AgreeTo(P, pf, pg, 5) /\ 5 \in Nat
  BY <1>2, <1>4, <1>5 DEF AgreeTo
<1>7. Comes(P, t, pg, 5, e)
  BY <1>1, <1>6, ComesAgree
<1>8. Comes(P, u, pg, 5, e)
  BY <1>6, <1>7, ComesKept
<1> QED BY <1>1, <1>8

\* Another piece, made right and mixed.
LEMMA MakesNext ==
  ASSUME NEW P \in Protocols, NEW s, NEW t, IsTable(t), NEW u, IsTable(u), Extends(u, t),
         NEW pf, NEW k \in 1 .. StepsOf(P, "prover"), NEW d, NEW n, NEW dr, Makes(P, s, t, pf, k, d, n, dr),
         PlanOf(P, "prover")[k].do \in {"mix", "pow"}, NEW p, p = Piece(P)[Done(P, "prover")[k] + 1], NEW v,
         p \in DOMAIN pf => v = pf[p], Right(P, s, dr, p, v),
         Hop(P, u, Put(pf, p, v), Done(P, "prover")[k] + 1, d, Len(u)), EvenAt(P, u, Put(pf, p, v))
  PROVE  Makes(P, s, u, Put(pf, p, v), k + 1, Len(u), 0, dr)
<1> DEFINE f == Put(pf, p, v)
<1> DEFINE m == Done(P, "prover")[k]
<1>1. "prover" \in Roles(P) /\ PieceCount(P) \in Nat
  BY PieceIs DEF Roles
<1>2. StepFact(P, "prover", k)
  BY <1>1, FactsAre
<1>3. m \in 0 .. PieceCount(P) /\ Done(P, "prover")[k + 1] = m + 1
  <2>1. CASE PlanOf(P, "prover")[k].do = "mix"
    BY <1>2, <2>1 DEF StepFact
  <2>2. CASE PlanOf(P, "prover")[k].do = "pow"
    BY <1>2, <2>2 DEF StepFact
  <2> QED BY <2>1, <2>2
<1>4. MadeTo(P, pf, m) /\ AllRight(P, s, dr, pf) /\ At(P, "prover", t, pf, k, d, n, dr)
  BY DEF Makes
<1>5. AgreeTo(P, pf, f, m)
  BY <1>3, <1>4, AgreePut
<1>6. Hop(P, u, f, m + 1, d, Len(u))
  OBVIOUS
<1>7. m \in Nat
  BY <1>1, <1>3
<1> HIDE DEF m
<1>8. MadeTo(P, f, m + 1)
  BY <1>4, <1>7, MadePut DEF m
<1>9. DOMAIN f = DOMAIN pf \cup {p} /\ f[p] = v /\ \A x \in DOMAIN pf \ {p} : f[x] = pf[x]
  BY DEF Put
<1> HIDE DEF f
<1>10. AllRight(P, s, dr, f)
  <2>1. ASSUME NEW x \in DOMAIN f PROVE Right(P, s, dr, x, f[x])
    <3>1. CASE x = p
      BY <1>9, <3>1
    <3>2. CASE x # p
      BY <1>4, <1>9, <3>2 DEF AllRight
    <3> QED BY <3>1, <3>2
  <2> QED BY <2>1 DEF AllRight
<1>11. At(P, "prover", u, f, k + 1, Len(u), 0, dr)
  BY <1>1, <1>4, <1>5, <1>6, AtMixes DEF m
<1>12. EvenAt(P, u, f)
  BY DEF f
<1> QED BY <1>3, <1>8, <1>10, <1>11, <1>12 DEF Makes, f, m

\* What the prover needs for a piece is there before it.
LEMMA NeedsAre ==
  ASSUME NEW P \in Protocols, NEW m \in 0 .. PieceCount(P) - 1, NEW pf, MadeTo(P, pf, m)
  PROVE  /\ Piece(P)[m + 1] = "sums" /\ P = "rv32im" => "public_data" \in DOMAIN pf
         /\ Piece(P)[m + 1] = "sums" /\ P = "recursion" => {"roots", "leaves", "channels", "circuits"} \subseteq DOMAIN pf
         /\ Piece(P)[m + 1] = "interaction" /\ P = "rv32im" => "interaction_log_sizes" \in DOMAIN pf
<1>1. PieceCount(P) \in Nat
  BY PieceIs
<1>2. m + 1 \in 1 .. PieceCount(P)
  BY <1>1
<1>3. Piece(P)[m + 1] = "log_sizes" \/ PlaceOfPiece(P, Piece(P)[m + 1]) = m + 1
  BY <1>2, PieceIs
<1>4. \A i \in 1 .. m : Piece(P)[i] \in DOMAIN pf
  BY DEF MadeTo
<1>5. CASE P = "rv32im" /\ Piece(P)[m + 1] = "sums"
  <2>1. m = 5
    BY <1>3, <1>5 DEF PlaceOfPiece
  <2>2. Piece(P)[1] = "public_data"
    BY <1>5 DEF Piece, Pieces
  <2>3. 1 \in 1 .. m
    BY <2>1
  <2>4. "public_data" \in DOMAIN pf
    BY <2>2, <2>3, <1>4
  <2> QED BY <1>5, <2>4 DEF Protocols
<1>6. CASE P = "rv32im" /\ Piece(P)[m + 1] = "interaction"
  <2>1. m = 7
    BY <1>3, <1>6 DEF PlaceOfPiece
  <2>2. Piece(P)[7] = "interaction_log_sizes" /\ 7 \in 1 .. m
    BY <1>6, <2>1 DEF Piece, Pieces
  <2>3. "interaction_log_sizes" \in DOMAIN pf
    BY <2>2, <1>4
  <2> QED BY <1>6, <2>3
<1>7. CASE P = "recursion" /\ Piece(P)[m + 1] = "sums"
  <2>1. m = 8
    BY <1>3, <1>7 DEF PlaceOfPiece
  <2>2. Piece(P)[3] = "roots" /\ Piece(P)[4] = "leaves" /\ Piece(P)[5] = "channels" /\ Piece(P)[6] = "circuits"
    BY <1>7 DEF Piece, RecursionPieces
  <2>3. 3 \in 1 .. m /\ 4 \in 1 .. m /\ 5 \in 1 .. m /\ 6 \in 1 .. m
    BY <2>1
  <2>4. "roots" \in DOMAIN pf /\ "leaves" \in DOMAIN pf /\ "channels" \in DOMAIN pf /\ "circuits" \in DOMAIN pf
    BY <2>2, <2>3, <1>4
  <2> QED BY <1>7, <2>4
<1> QED BY <1>5, <1>6, <1>7 DEF Protocols

\* Its interaction tree is never left out.
LEMMA NothingSkipped ==
  ASSUME NEW P \in Protocols, NEW s, Running(P, s), NEW dr, NEW pf, AllRight(P, s, dr, pf),
         P = "rv32im" => "interaction_log_sizes" \in DOMAIN pf
  PROVE  (P = "rv32im" => pf["interaction_log_sizes"] # <<>>) /\ \A p : ~ Skipped(P, pf, p)
<1>1. P = "rv32im" => pf["interaction_log_sizes"] # <<>>
  <2> SUFFICES ASSUME P = "rv32im" PROVE pf["interaction_log_sizes"] # <<>>
    OBVIOUS
  <2>1. pf["interaction_log_sizes"] = Sizes(InteractionOf(P, s.log))
    BY DEF AllRight, Right
  <2>2. s.log \in LogSizes[P]
    BY DEF Running
  <2> QED BY <2>1, <2>2, InteractionIs
<1> QED BY <1>1 DEF Skipped

\* What holds while a proof is made.
Making ==
  /\ protocol \in Protocols /\ Running(protocol, run) /\ Grounded(mixes) /\ role = "prover"
  /\ Makes(protocol, run, mixes, proof, pc, digest, n_draws, drawn)

LEMMA MakingAt ==
  ASSUME Making
  PROVE  /\ role \in Roles(protocol) /\ pc \in 1 .. StepsOf(protocol, role) + 1 /\ IsTable(mixes)
         /\ PieceCount(protocol) \in Nat /\ Done(protocol, "prover")[pc] \in 0 .. PieceCount(protocol)
<1>1. role \in Roles(protocol) /\ PieceCount(protocol) \in Nat
  BY PieceIs DEF Making, Roles
<1>2. pc \in 1 .. StepsOf(protocol, role) + 1 /\ IsTable(mixes)
  BY DEF Making, Makes, At, Grounded
<1>3. Done(protocol, "prover")[pc] \in 0 .. PieceCount(protocol)
  <2>1. StepsOf(protocol, "prover") \in Nat \ {0} /\ Done(protocol, "prover")[StepsOf(protocol, "prover") + 1] = PieceCount(protocol)
    BY <1>1, StepsIn DEF Making
  <2>2. CASE pc = StepsOf(protocol, "prover") + 1
    BY <1>1, <2>1, <2>2
  <2>3. CASE pc # StepsOf(protocol, "prover") + 1
    <3>1. pc \in 1 .. StepsOf(protocol, "prover")
      BY <1>2, <2>1, <2>3 DEF Making
    <3>2. StepFact(protocol, "prover", pc)
      BY <1>1, <3>1, FactsAre DEF Making
    <3> QED BY <3>2 DEF StepFact
  <2> QED BY <2>2, <2>3
<1> QED BY <1>1, <1>2, <1>3

\* The prover mixes a piece,
LEMMA MakingMixes ==
  ASSUME Making, MixStep
  PROVE  Grounded(mixes') /\ Makes(protocol, run, mixes', proof', pc', digest', n_draws', drawn')
<1> DEFINE p == Step.what
<1> DEFINE v == IF Producing THEN Produce(p) ELSE proof[p]
<1> DEFINE calls == MixesOf(p, v)
<1> DEFINE after == MixAll(Channel, calls)
<1> DEFINE m == Done(protocol, "prover")[pc]
<1> DEFINE f == Put(proof, p, v)
<1>1. /\ proof' = f /\ mixes' = after.table /\ digest' = after.digest /\ n_draws' = 0 /\ pc' = pc + 1 /\ drawn' = drawn
  BY DEF MixStep
<1>2. /\ role = "prover" /\ pc \in 1 .. StepsOf(protocol, "prover") /\ Step = PlanOf(protocol, "prover")[pc] /\ Step.do = "mix"
      /\ StepFact(protocol, "prover", pc) /\ DrawFact(protocol, "prover", pc)
  BY MakingAt, StepIs DEF MixStep, Making
<1>3. /\ protocol \in Protocols /\ Running(protocol, run) /\ Grounded(mixes) /\ IsTable(mixes) /\ digest = Len(mixes)
      /\ MadeTo(protocol, proof, m) /\ AllRight(protocol, run, drawn, proof) /\ EvenAt(protocol, mixes, proof)
      /\ At(protocol, "prover", mixes, proof, pc, digest, n_draws, drawn) /\ PieceCount(protocol) \in Nat
  BY MakingAt DEF Making, Makes
<1>4. m \in 0 .. PieceCount(protocol) - 1 /\ p = Piece(protocol)[m + 1]
  BY <1>2 DEF StepFact
<1>5. p \in PiecesOf(protocol) \ {"pow"} /\ p \in PieceNames
  <2>1. m + 1 \in 1 .. PieceCount(protocol)
    BY <1>3, <1>4
  <2>2. p # "pow"
    BY <1>2, <1>3, NoncesGround
  <2> QED BY <1>3, <1>4, <2>1, <2>2, PiecesAre
<1> HIDE DEF m
<1>6. /\ p \in {"sums", "interaction"} => RelationNames(protocol) \subseteq DOMAIN drawn
      /\ p = "sampled" => DrawsOf(protocol) \subseteq DOMAIN drawn
  <2>1. \A name \in DrawsOf(protocol) : DrawnAt(protocol, "prover", name) < pc => name \in DOMAIN drawn
    BY <1>3 DEF At, DrewTo
  <2>2. RelationNames(protocol) \subseteq DrawsOf(protocol)
    BY DEF DrawsOf
  <2>3. p \in {"sums", "interaction"} => \A name \in RelationNames(protocol) : DrawnAt(protocol, "prover", name) < pc
    BY <1>2 DEF DrawFact
  <2>4. p = "sampled" => \A name \in DrawsOf(protocol) : DrawnAt(protocol, "prover", name) < pc
    BY <1>2 DEF DrawFact
  <2> QED BY <2>1, <2>2, <2>3, <2>4
<1>7. p = "sums" => LogupPart(Statement) = PartOf(protocol, run.statement)
  <2> SUFFICES ASSUME p = "sums" PROVE LogupPart(Statement) = PartOf(protocol, run.statement)
    OBVIOUS
  <2>1. protocol = "rv32im" => proof["public_data"] = run.statement
    <3> SUFFICES ASSUME protocol = "rv32im" PROVE proof["public_data"] = run.statement
      OBVIOUS
    <3>1. "public_data" \in DOMAIN proof
      BY <1>3, <1>4, NeedsAre
    <3> QED BY <1>3, <3>1 DEF AllRight, Right
  <2>2. protocol # "rv32im" => \A x \in {"roots", "leaves", "channels", "circuits"} : proof[x] = run.statement[x]
    <3> SUFFICES ASSUME protocol # "rv32im", NEW x \in {"roots", "leaves", "channels", "circuits"} PROVE proof[x] = run.statement[x]
      OBVIOUS
    <3>1. protocol = "recursion"
      BY <1>3 DEF Protocols
    <3>2. x \in DOMAIN proof
      BY <1>3, <1>4, <3>1, NeedsAre
    <3> QED BY <1>3, <3>2 DEF AllRight, Right
  <2> QED BY <2>1, <2>2, StatementIs
<1> HIDE DEF p
<1>8. p \in DOMAIN proof => v = proof[p]
  BY DEF Producing, p
<1>9. Right(protocol, run, drawn, p, v)
  <2>1. CASE Producing
    <3>1. Right(protocol, run, drawn, p, Produce(p))
      BY <1>3, <1>5, <1>6, <1>7, ProducedRight
    <3> QED BY <2>1, <3>1
  <2>2. CASE ~ Producing
    <3>1. p \in DOMAIN proof
      BY <1>2, <2>2 DEF Producing, p
    <3> QED BY <1>3, <1>8, <3>1 DEF AllRight
  <2> QED BY <2>1, <2>2
<1> HIDE DEF v
<1>10. calls = Calls(protocol, p, v) /\ IsTable(calls) /\ Len(calls) \in Nat
  <2>1. Fits(p, v)
    BY <1>3, <1>5, <1>9, RightFits
  <2> QED BY <1>5, <2>1, CallsAreMixes, CallsList
<1> HIDE DEF calls
<1>11. /\ IsTable(after.table) /\ Extends(after.table, mixes) /\ Leads(after.table, digest, calls, after.digest)
       /\ Grounded(after.table) /\ after.digest = Len(after.table)
  <2>1. Channel.table = mixes /\ Channel.digest = digest
    BY DEF Channel
  <2>2. IsTable(Channel.table) /\ Grounded(Channel.table) /\ Channel.digest \in 0 .. Len(Channel.table) /\ Channel.digest = Len(Channel.table)
    BY <1>3, <2>1, TableLength
  <2> QED BY <1>10, <2>1, <2>2, MixAllLeads, MixAllGrounded
<1> DEFINE u == after.table
<1>12. f[p] = v /\ DOMAIN f = DOMAIN proof \cup {p} /\ \A x \in DOMAIN proof \ {p} : f[x] = proof[x]
  BY DEF Put
<1>13. AgreeTo(protocol, proof, f, m)
  <2>1. m \in 0 .. PieceCount(protocol)
    BY <1>3, <1>4
  <2> QED BY <1>3, <1>8, <2>1, AgreePut
<1> HIDE DEF f, after
<1>14. Hop(protocol, u, f, m + 1, digest, Len(u))
  <2>1. ~ Skipped(protocol, f, p)
    <3> SUFFICES ASSUME Skipped(protocol, f, p) PROVE FALSE
      OBVIOUS
    <3>1. protocol = "rv32im" /\ p = "interaction" /\ f["interaction_log_sizes"] = <<>>
      BY DEF Skipped
    <3>2. "interaction_log_sizes" \in DOMAIN proof
      BY <1>3, <1>4, <3>1, NeedsAre DEF p
    <3>3. proof["interaction_log_sizes"] # <<>>
      BY <1>3, <3>2, NothingSkipped, <3>1
    <3> QED BY <1>12, <3>1, <3>2, <3>3
  <2>2. Leads(u, digest, Calls(protocol, p, f[p]), Len(u))
    BY <1>10, <1>11, <1>12
  <2>3. Piece(protocol)[m + 1] = p
    BY <1>4 DEF p
  <2> QED BY <2>1, <2>2, <2>3 DEF Hop
<1>15. EvenAt(protocol, u, f)
  <2>1. m \in 0 .. PieceCount(protocol)
    BY <1>3, <1>4
  <2>2. "pow" \in DOMAIN f => "pow" \in DOMAIN proof
    BY <1>5, <1>12 DEF p
  <2> QED BY <1>3, <1>11, <1>13, <2>1, <2>2, EvenKept
<1>16. Makes(protocol, run, u, f, pc + 1, Len(u), 0, drawn)
  <2>1. p = Piece(protocol)[Done(protocol, "prover")[pc] + 1]
    BY <1>4 DEF p, m
  <2>2. PlanOf(protocol, "prover")[pc].do \in {"mix", "pow"}
    BY <1>2
  <2>3. Makes(protocol, run, mixes, proof, pc, digest, n_draws, drawn)
    BY DEF Making
  <2>4. Hop(protocol, u, Put(proof, p, v), Done(protocol, "prover")[pc] + 1, digest, Len(u)) /\ EvenAt(protocol, u, Put(proof, p, v))
    BY <1>14, <1>15 DEF f, m
  <2>5. IsTable(u) /\ Extends(u, mixes)
    BY <1>11
  <2> HIDE DEF u
  <2>6. Makes(protocol, run, u, Put(proof, p, v), pc + 1, Len(u), 0, drawn)
    BY <1>2, <1>3, <1>8, <1>9, <2>1, <2>2, <2>3, <2>4, <2>5, MakesNext
  <2> QED BY <2>6 DEF f
<1>17. proof' = f /\ mixes' = u /\ digest' = Len(u) /\ n_draws' = 0 /\ pc' = pc + 1 /\ drawn' = drawn
  BY <1>1, <1>11 DEF f, after, calls, v, p
<1> HIDE DEF u
<1>18. Grounded(u)
  BY <1>11 DEF u
<1> QED BY <1>16, <1>17, <1>18

\* grinds a nonce,
LEMMA MakingGrinds ==
  ASSUME Making, Grind
  PROVE  Grounded(mixes') /\ Makes(protocol, run, mixes', proof', pc', digest', n_draws', drawn')
<1> DEFINE m == Done(protocol, "prover")[pc]
<1>1. /\ role = "prover" /\ pc \in 1 .. StepsOf(protocol, "prover") /\ PlanOf(protocol, "prover")[pc].do = "pow"
      /\ protocol = "rv32im" /\ m = 4
  <2>1. /\ pc \in 1 .. StepsOf(protocol, role) /\ Step = PlanOf(protocol, role)[pc] /\ Step.do = "pow"
        /\ StepFact(protocol, role, pc)
    BY MakingAt, StepIs DEF Grind, Making
  <2> QED BY <2>1 DEF StepFact, Making
<1>2. /\ protocol \in Protocols /\ Running(protocol, run) /\ Grounded(mixes) /\ IsTable(mixes) /\ digest = Len(mixes)
      /\ MadeTo(protocol, proof, m) /\ PieceCount(protocol) \in Nat /\ Len(mixes) \in Nat
      /\ At(protocol, "prover", mixes, proof, pc, digest, n_draws, drawn)
  BY MakingAt, TableLength DEF Making, Makes
<1>3. PICK nonce \in 0 .. NonceBound - 1 :
         /\ Grinds(nonce) /\ mixes' = mixes \o Ground(nonce + 1) /\ proof' = Put(proof, "pow", nonce)
         /\ digest' = Len(mixes) + 1 + nonce
  BY DEF Grind
<1>4. n_draws' = 0 /\ pc' = pc + 1 /\ drawn' = drawn
  BY DEF Grind
<1>5. nonce \in Nat
  BY NumbersAre
<1> DEFINE u == Join(mixes, Ground(nonce + 1))
<1> DEFINE f == Put(proof, "pow", nonce)
<1>6. /\ Grounded(u) /\ IsTable(u) /\ Extends(u, mixes) /\ Len(u) = Len(mixes) + 1 + nonce
      /\ Leads(u, digest, << U64(nonce) >>, Len(mixes) + 1 + nonce)
  BY <1>2, <1>5, GroundLeads
<1>7. mixes' = u
  BY <1>3 DEF Join
<1>8. Piece(protocol)[5] = "pow" /\ PlaceOfPiece(protocol, "pow") = 5
  BY <1>1 DEF Piece, Pieces, PlaceOfPiece
<1>9. 4 \in 0 .. PieceCount(protocol)
  BY <1>1 DEF PieceCount
<1>10. "pow" \notin DOMAIN proof
  <2> SUFFICES ASSUME "pow" \in DOMAIN proof PROVE FALSE
    OBVIOUS
  <2>1. MadeTo(protocol, proof, 4)
    BY <1>1, <1>2
  <2>2. PlaceOfPiece(protocol, "pow") \in 1 .. 4
    BY <1>2, <1>9, <2>1, MadePlace
  <2> QED BY <1>8, <2>2
<1>11. f["pow"] = nonce
  BY DEF Put
<1>12. AgreeTo(protocol, proof, f, 4)
  <2>1. MadeTo(protocol, proof, 4)
    BY <1>1, <1>2
  <2> QED BY <1>2, <1>9, <1>10, <2>1, AgreePut
<1> HIDE DEF u, f
<1>13. Hop(protocol, u, f, 4 + 1, digest, Len(u))
  <2>1. Calls(protocol, "pow", nonce) = << U64(nonce) >>
    BY DEF Calls, Commitments
  <2>2. ~ Skipped(protocol, f, "pow")
    BY DEF Skipped
  <2>3. Piece(protocol)[4 + 1] = "pow"
    BY <1>8
  <2>4. Leads(u, digest, Calls(protocol, "pow", f["pow"]), Len(u))
    BY <1>6, <1>11, <2>1
  <2> QED BY <2>2, <2>3, <2>4 DEF Hop
<1>14. EvenAt(protocol, u, f)
  <2>1. Comes(protocol, mixes, proof, 4, digest)
    BY <1>1, <1>2 DEF At
  <2>2. Comes(protocol, mixes, f, 4, digest)
    BY <1>12, <2>1, ComesAgree
  <2>3. Comes(protocol, u, f, 4, digest)
    BY <1>2, <1>6, <2>2, ComesKept
  <2>4. Comes(protocol, u, f, 4 + 1, Len(u))
    BY <1>13, <2>3, ComesNext
  <2>5. Len(u) % 2 = 0
    BY <1>3, <1>6 DEF Grinds
  <2>6. Comes(protocol, u, f, 5, Len(u))
    BY <2>4
  <2> QED BY <2>5, <2>6 DEF EvenAt
<1>15. Right(protocol, run, drawn, "pow", nonce)
  BY <1>5 DEF Right
<1>16. Makes(protocol, run, u, f, pc + 1, Len(u), 0, drawn)
  <2>1. "pow" = Piece(protocol)[m + 1]
    BY <1>1, <1>8
  <2>2. Makes(protocol, run, mixes, proof, pc, digest, n_draws, drawn)
    BY DEF Making
  <2>3. Hop(protocol, u, Put(proof, "pow", nonce), m + 1, digest, Len(u)) /\ EvenAt(protocol, u, Put(proof, "pow", nonce))
    BY <1>1, <1>13, <1>14 DEF f
  <2>4. PlanOf(protocol, "prover")[pc].do \in {"mix", "pow"}
    BY <1>1
  <2>5. Makes(protocol, run, u, Put(proof, "pow", nonce), pc + 1, Len(u), 0, drawn)
    BY <1>1, <1>2, <1>6, <1>10, <1>15, <2>1, <2>2, <2>3, <2>4, MakesNext
  <2> QED BY <2>5 DEF f
<1>17. proof' = f /\ mixes' = u /\ digest' = Len(u) /\ n_draws' = 0 /\ pc' = pc + 1 /\ drawn' = drawn
  BY <1>3, <1>4, <1>6, <1>7 DEF f
<1> QED BY <1>6, <1>16, <1>17

\* or draws,
LEMMA MakingDraws ==
  ASSUME Making, DrawStep
  PROVE  Makes(protocol, run, mixes', proof', pc', digest', n_draws', drawn')
<1> DEFINE name == Step.what
<1> DEFINE dr == Put(drawn, name, <<digest, n_draws>>)
<1>1. /\ drawn' = dr /\ n_draws' = n_draws + Step.n /\ pc' = pc + 1 /\ mixes' = mixes /\ digest' = digest /\ proof' = proof
  BY DEF DrawStep
<1>2. /\ role = "prover" /\ pc \in 1 .. StepsOf(protocol, "prover") /\ Step = PlanOf(protocol, "prover")[pc] /\ Step.do = "draw"
      /\ StepFact(protocol, "prover", pc)
  BY MakingAt, StepIs DEF DrawStep, Making
<1>3. Makes(protocol, run, mixes, proof, pc, digest, n_draws, drawn) /\ protocol \in Protocols /\ "prover" \in Roles(protocol)
  BY MakingAt DEF Making
<1>4. name \notin DOMAIN drawn /\ At(protocol, "prover", mixes, proof, pc + 1, digest, n_draws + Step.n, dr)
  <2>1. At(protocol, "prover", mixes, proof, pc, digest, n_draws, drawn)
    BY <1>3 DEF Makes
  <2> QED BY <1>2, <1>3, <2>1, AtDraws
<1>5. \A x \in DOMAIN drawn : x \in DOMAIN dr /\ dr[x] = drawn[x]
  BY <1>4 DEF Put
<1> HIDE DEF dr
<1>6. AllRight(protocol, run, dr, proof)
  <2>1. ASSUME NEW p \in DOMAIN proof PROVE Right(protocol, run, dr, p, proof[p])
    <3>1. Right(protocol, run, drawn, p, proof[p])
      BY <1>3 DEF Makes, AllRight
    <3> QED BY <1>5, <3>1, RightKept
  <2> QED BY <2>1 DEF AllRight
<1>7. Done(protocol, "prover")[pc + 1] = Done(protocol, "prover")[pc]
  BY <1>2 DEF StepFact
<1>8. Makes(protocol, run, mixes, proof, pc + 1, digest, n_draws + Step.n, dr)
  BY <1>3, <1>4, <1>6, <1>7 DEF Makes
<1> QED BY <1>1, <1>8

\* and does nothing else before its end.
LEMMA MakingOnly ==
  ASSUME Making
  PROVE  ~ SkipTree /\ ~ CheckStep /\ ~ CheckFails /\ ~ Finish /\ (Publish => pc = StepsOf(protocol, "prover") + 1)
<1>1. ~ SkipTree
  <2> SUFFICES ASSUME SkipTree PROVE FALSE
    OBVIOUS
  <2>1. /\ role = "prover" /\ pc \in 1 .. StepsOf(protocol, "prover") /\ Step = PlanOf(protocol, "prover")[pc] /\ Step.do = "mix"
        /\ StepFact(protocol, "prover", pc)
    BY MakingAt, StepIs DEF SkipTree, Making
  <2> DEFINE m == Done(protocol, "prover")[pc]
  <2>2. m \in 0 .. PieceCount(protocol) - 1 /\ Step.what = Piece(protocol)[m + 1]
    BY <2>1 DEF StepFact
  <2>3. Skipped(protocol, proof, Step.what)
    BY SkippedIsAbsent DEF SkipTree
  <2>4. protocol = "rv32im" /\ Piece(protocol)[m + 1] = "interaction"
    BY <2>2, <2>3 DEF Skipped
  <2>5. MadeTo(protocol, proof, m) /\ AllRight(protocol, run, drawn, proof) /\ protocol \in Protocols /\ Running(protocol, run)
    BY DEF Making, Makes
  <2>6. "interaction_log_sizes" \in DOMAIN proof
    BY <2>2, <2>4, <2>5, NeedsAre
  <2> QED BY <2>3, <2>5, <2>6, NothingSkipped
<1>2. ~ Doing("check")
  <2> SUFFICES ASSUME Doing("check") PROVE FALSE
    OBVIOUS
  <2>1. role = "prover" /\ Step = PlanOf(protocol, role)[pc] /\ Step.do = "check" /\ StepFact(protocol, role, pc)
    BY MakingAt, StepIs DEF Making
  <2> QED BY <2>1 DEF StepFact
<1>3. Publish => pc = StepsOf(protocol, "prover") + 1
  <2>1. Len(Script) = StepsOf(protocol, "prover") /\ pc \in 1 .. StepsOf(protocol, "prover") + 1 /\ StepsOf(protocol, "prover") \in Nat
    BY MakingAt, ScriptIs, StepsIn DEF Making
  <2> QED BY <2>1 DEF Publish
<1> QED BY <1>1, <1>2, <1>3 DEF CheckStep, CheckFails, Finish, Making

-----------------------------------------------------------------------------
(* The proof as its prover left it, and as its readers get it.               *)

Whole(P, s, t, ph, dr) ==
  /\ IsMap(ph) /\ DOMAIN ph = PiecesOf(P) \cup {"opening"}
  /\ AllRight(P, s, dr, ph) /\ EvenAt(P, t, ph)
  /\ DrewTo(P, "prover", t, ph, StepsOf(P, "prover") + 1, dr)
  /\ Comes(P, t, ph, PieceCount(P), ph["opening"])
Altered(pf, ph) == pf = ph \/ \E q \in DOMAIN ph : \E v : pf = Put(ph, q, v) /\ v # ph[q] /\ Fits(q, v)

\* An altered circuit claim is a list of claims.
LEMMA OutputsFit ==
  ASSUME NEW s \in Seq(CircuitClaim), NEW i \in DOMAIN s
  PROVE  [s EXCEPT ![i].output[2] = "other"] \in Seq(CircuitClaim)
<1>1. s[i] \in CircuitClaim
  OBVIOUS
<1>2. "other" \in Elements
  BY TranscriptAssumption
<1> DEFINE o == s[i].output
<1>3. o \in Nat \X Elements
  BY <1>1 DEF CircuitClaim
<1>4. [o EXCEPT ![2] = "other"] \in Nat \X Elements
  <2>1. PICK n \in Nat, x \in Elements : o = <<n, x>>
    BY <1>3
  <2>2. [<<n, x>> EXCEPT ![2] = "other"] = <<n, "other">>
    OBVIOUS
  <2> QED BY <1>2, <2>1, <2>2
<1> DEFINE w == [o EXCEPT ![2] = "other"]
<1> DEFINE r == [s[i] EXCEPT !.output = w]
<1>5. r \in CircuitClaim
  <2>1. w \in Nat \X Elements
    BY <1>4
  <2> HIDE DEF w
  <2> QED BY <1>1, <2>1 DEF CircuitClaim
<1>6. [s EXCEPT ![i].output[2] = "other"] = [s EXCEPT ![i] = r]
  OBVIOUS
<1> HIDE DEF r
<1>7. [s EXCEPT ![i] = r] \in Seq(CircuitClaim)
  BY <1>5
<1> QED BY <1>6, <1>7

\* Whatever takes the place of a piece is one.
LEMMA VariantsFit ==
  ASSUME Making, NEW p \in DOMAIN proof, p \in PiecesOf(protocol), NEW v \in Variants(p)
  PROVE  Fits(p, v)
<1>1. /\ protocol \in Protocols /\ run.statement \in Statements[protocol] /\ run.log \in LogSizes[protocol]
      /\ Right(protocol, run, drawn, p, proof[p])
  BY DEF Making, Makes, Running, AllRight
<1>2. CASE p = "public_data"
  <2>1. v \in {r.statement : r \in [statement : Statements["rv32im"]]}
    BY <1>2 DEF Variants
  <2>2. v \in Statements["rv32im"]
    BY <2>1
  <2> QED BY <1>2, <2>2, StatementsAre DEF Fits
<1>3. CASE p \in {"roots", "leaves", "channels"}
  <2>1. v \in {s[p] : s \in Statements["recursion"]}
    BY <1>3 DEF Variants
  <2> QED BY <1>3, <2>1, ClaimsFit
<1>4. CASE p = "circuits"
  <2>1. v \in {s[p] : s \in Statements["recursion"]} \cup {[proof[p] EXCEPT ![i].output[2] = "other"] : i \in DOMAIN proof[p]}
    BY <1>4 DEF Variants
  <2>2. CASE v \in {s[p] : s \in Statements["recursion"]}
    BY <1>4, <2>2, ClaimsFit
  <2>3. CASE v \in {[proof[p] EXCEPT ![i].output[2] = "other"] : i \in DOMAIN proof[p]}
    <3> DEFINE c == proof[p]
    <3>1. PICK i \in DOMAIN c : v = [c EXCEPT ![i].output[2] = "other"]
      BY <2>3
    <3>2. Fits(p, c)
      BY <1>1, RightFits DEF Making
    <3> HIDE DEF c
    <3>3. c \in Seq(CircuitClaim)
      BY <1>4, <3>2 DEF Fits
    <3>4. v \in Seq(CircuitClaim)
      BY <3>1, <3>3, OutputsFit
    <3> QED BY <1>4, <3>4 DEF Fits
  <2> QED BY <2>1, <2>2, <2>3
<1>5. CASE p \in {"claim", "log_sizes"}
  <2>1. v \in LogSizes[protocol]
    BY <1>5 DEF Variants
  <2>2. v \in Seq(Nat)
    BY <1>1, <2>1, OrderIs
  <2> QED BY <1>5, <2>2 DEF Fits
<1>6. CASE p = "pow"
  <2>1. v \in 0 .. NonceBound - 1
    BY <1>6 DEF Variants
  <2> QED BY <1>6, <2>1, NumbersAre DEF Fits
<1>7. CASE p = "sums"
  <2> DEFINE c == proof[p]
  <2>1. v \in {[c EXCEPT ![i] = NoSum] : i \in DOMAIN c}
    BY <1>7 DEF Variants
  <2>2. Fits(p, c)
    BY <1>1, RightFits DEF Making
  <2> HIDE DEF c
  <2>3. IsTable(c)
    BY <1>7, <2>2 DEF Fits
  <2>4. IsTable(v)
    BY <2>1, <2>3, TableExcept
  <2> QED BY <1>7, <2>4 DEF Fits
<1>8. CASE p = "interaction_log_sizes"
  <2> DEFINE c == proof[p]
  <2>1. v \in {<<>>, SubSeq(c, 1, Len(c) - 1)}
    BY <1>8 DEF Variants
  <2>2. Fits(p, c)
    BY <1>1, RightFits DEF Making
  <2> HIDE DEF c
  <2>3. c \in Seq(Nat)
    BY <1>8, <2>2 DEF Fits
  <2>4. v \in Seq(Nat)
    <3>1. <<>> \in Seq(Nat)
      OBVIOUS
    <3>2. SubSeq(c, 1, Len(c) - 1) \in Seq(Nat)
      BY <2>3
    <3> QED BY <2>1, <3>1, <3>2
  <2> QED BY <1>8, <2>4 DEF Fits
<1>9. CASE p \in Commitments \cup {"sampled"}
  BY <1>9 DEF Fits, Commitments
<1> QED BY <1>2, <1>3, <1>4, <1>5, <1>6, <1>7, <1>8, <1>9 DEF PiecesOf, Commitments

LEMMA MadeWhole ==
  ASSUME Making, Publish
  PROVE  Whole(protocol, run, mixes, honest', drawn) /\ Altered(proof', honest')
<1> DEFINE made == Put(proof, "opening", digest)
<1> DEFINE m == PieceCount(protocol)
<1>1. /\ protocol \in Protocols /\ "prover" \in Roles(protocol) /\ IsTable(mixes) /\ m \in Nat
      /\ pc = StepsOf(protocol, "prover") + 1
  BY MakingAt, MakingOnly DEF Making
<1>2. Done(protocol, "prover")[pc] = m
  BY <1>1, StepsIn
<1> HIDE DEF m
<1>3. /\ MadeTo(protocol, proof, m) /\ AllRight(protocol, run, drawn, proof) /\ EvenAt(protocol, mixes, proof)
      /\ Comes(protocol, mixes, proof, m, digest) /\ DrewTo(protocol, "prover", mixes, proof, pc, drawn)
  BY <1>2 DEF Making, Makes, At
<1>4. DOMAIN proof = PiecesOf(protocol) /\ "opening" \notin DOMAIN proof
  <2>1. /\ \A i \in 1 .. m : Piece(protocol)[i] \in PiecesOf(protocol)
        /\ \A p \in PiecesOf(protocol) : PlaceOfPiece(protocol, p) \in 1 .. m /\ Piece(protocol)[PlaceOfPiece(protocol, p)] = p
    BY <1>1, PiecesAre DEF m
  <2>2. DOMAIN proof = PiecesOf(protocol)
    BY <1>3, <2>1 DEF MadeTo
  <2> QED BY <2>2 DEF PiecesOf
<1>5. IsMap(made) /\ DOMAIN made = DOMAIN proof \cup {"opening"} /\ made["opening"] = digest
      /\ \A x \in DOMAIN proof : made[x] = proof[x]
  BY <1>4 DEF Put, IsMap
<1>6. AgreeTo(protocol, proof, made, m)
  BY <1>1, <1>3, <1>4, AgreePut DEF m
<1> HIDE DEF made
<1>7. AllRight(protocol, run, drawn, made)
  <2>1. ASSUME NEW p \in DOMAIN made PROVE Right(protocol, run, drawn, p, made[p])
    <3>1. CASE p = "opening"
      BY <3>1 DEF Right
    <3>2. CASE p # "opening"
      BY <1>3, <1>5, <3>2 DEF AllRight
    <3> QED BY <3>1, <3>2
  <2> QED BY <2>1 DEF AllRight
<1>8. EvenAt(protocol, mixes, made)
  <2>1. Extends(mixes, mixes) /\ m \in 0 .. PieceCount(protocol)
    BY <1>1, ExtendsSelf DEF m
  <2>2. "pow" \in DOMAIN made => "pow" \in DOMAIN proof
    BY <1>5
  <2> QED BY <1>1, <1>3, <1>6, <2>1, <2>2, EvenKept
<1>9. Comes(protocol, mixes, made, m, made["opening"])
  BY <1>1, <1>3, <1>5, <1>6, ComesAgree
<1>10. DrewTo(protocol, "prover", mixes, made, pc, drawn)
  <2>1. ASSUME NEW name \in DOMAIN drawn PROVE DrewAt(protocol, mixes, made, name, drawn[name])
    <3>1. name \in DrawsOf(protocol) /\ DrewAt(protocol, mixes, proof, name, drawn[name])
      BY <1>3 DEF DrewTo
    <3>2. Depth(protocol, name) \in 0 .. m
      <4>1. Depth(protocol, name) \in 1 .. m
        BY <1>1, <3>1, StepsIn DEF m
      <4> QED BY <1>1, <4>1
    <3>3. Extends(mixes, mixes)
      BY <1>1, ExtendsSelf
    <3> QED BY <1>1, <1>6, <3>1, <3>2, <3>3, DrewKeeps
  <2> QED BY <1>3, <2>1 DEF DrewTo
<1>11. Whole(protocol, run, mixes, made, drawn)
  BY <1>1, <1>4, <1>5, <1>7, <1>8, <1>9, <1>10 DEF Whole, m
<1>12. /\ honest' = made
       /\ \/ proof' = made
          \/ \E p \in DOMAIN proof : \E v \in Variants(p) \ {proof[p]} : proof' = Put(made, p, v)
          \/ proof' = Put(made, "opening", 0)
  BY DEF Publish, made
<1>13. Altered(proof', made)
  <2>1. CASE proof' = made
    BY <2>1 DEF Altered
  <2>2. ASSUME NEW p \in DOMAIN proof, NEW v \in Variants(p) \ {proof[p]}, proof' = Put(made, p, v) PROVE Altered(proof', made)
    <3>1. Fits(p, v)
      BY <1>4, VariantsFit
    <3>2. p \in DOMAIN made /\ v # made[p]
      BY <1>5
    <3> QED BY <2>2, <3>1, <3>2 DEF Altered
  <2>3. CASE proof' = Put(made, "opening", 0)
    <3>1. CASE made["opening"] = 0
      <4>1. Put(made, "opening", made["opening"]) = made
        BY <1>5, PutBack
      <4> QED BY <2>3, <3>1, <4>1 DEF Altered
    <3>2. CASE made["opening"] # 0
      <4>1. Fits("opening", 0) /\ "opening" \in DOMAIN made
        BY <1>5 DEF Fits
      <4> QED BY <2>3, <3>2, <4>1 DEF Altered
    <3> QED BY <3>1, <3>2
  <2> QED BY <1>12, <2>1, <2>2, <2>3
<1> QED BY <1>11, <1>12, <1>13

\* Both stay what they are while others go on hashing, and have all their pieces.
LEMMA WholeKept ==
  ASSUME NEW P \in Protocols, NEW s, NEW t, IsTable(t), NEW u, IsTable(u), Extends(u, t),
         NEW ph, NEW dr, Whole(P, s, t, ph, dr)
  PROVE  Whole(P, s, u, ph, dr)
<1> DEFINE m == PieceCount(P)
<1>1. m \in Nat /\ "prover" \in Roles(P)
  BY PieceIs DEF Roles
<1>2. EvenAt(P, u, ph)
  <2>1. EvenAt(P, t, ph) /\ 5 \in Nat
    BY DEF Whole
  <2> QED BY <2>1, ComesKept DEF EvenAt
<1>3. Comes(P, u, ph, m, ph["opening"])
  BY <1>1, ComesKept DEF Whole
<1>4. DrewTo(P, "prover", u, ph, StepsOf(P, "prover") + 1, dr)
  <2>1. ASSUME NEW name \in DOMAIN dr PROVE DrewAt(P, u, ph, name, dr[name])
    <3>1. name \in DrawsOf(P) /\ DrewAt(P, t, ph, name, dr[name])
      BY DEF Whole, DrewTo
    <3>2. Depth(P, name) \in 1 .. m
      BY <1>1, <3>1, StepsIn
    <3>3. Depth(P, name) \in 0 .. m /\ AgreeTo(P, ph, ph, m)
      BY <1>1, <3>2, AgreeSelf
    <3> HIDE DEF m
    <3> QED BY <1>1, <3>1, <3>3, DrewKeeps
  <2> QED BY <2>1 DEF Whole, DrewTo
<1> QED BY <1>2, <1>3, <1>4 DEF Whole

LEMMA AlteredFits ==
  ASSUME NEW P \in Protocols, NEW s, Running(P, s), NEW t, NEW ph, NEW dr, Whole(P, s, t, ph, dr), NEW pf, Altered(pf, ph)
  PROVE  /\ IsMap(pf) /\ DOMAIN pf = PiecesOf(P) \cup {"opening"}
         /\ FitsTo(P, pf, PieceCount(P)) /\ FitsTo(P, ph, PieceCount(P))
<1>1. IsMap(ph) /\ DOMAIN ph = PiecesOf(P) \cup {"opening"} /\ AllRight(P, s, dr, ph)
  BY DEF Whole
<1>2. \A p \in PiecesOf(P) : Fits(p, ph[p])
  <2>1. ASSUME NEW p \in PiecesOf(P) PROVE Fits(p, ph[p])
    <3>1. Right(P, s, dr, p, ph[p])
      BY <1>1 DEF AllRight
    <3> QED BY <3>1, RightFits
  <2> QED BY <2>1
<1>3. IsMap(pf) /\ DOMAIN pf = PiecesOf(P) \cup {"opening"} /\ \A p \in PiecesOf(P) : Fits(p, pf[p])
  <2>1. CASE pf = ph
    BY <1>1, <1>2, <2>1
  <2>2. ASSUME NEW q \in DOMAIN ph, NEW v, pf = Put(ph, q, v), Fits(q, v)
        PROVE  IsMap(pf) /\ DOMAIN pf = PiecesOf(P) \cup {"opening"} /\ \A p \in PiecesOf(P) : Fits(p, pf[p])
    <3>1. IsMap(pf) /\ DOMAIN pf = DOMAIN ph \cup {q} /\ pf[q] = v /\ \A x \in DOMAIN ph \ {q} : pf[x] = ph[x]
      BY <2>2 DEF Put, IsMap
    <3>2. ASSUME NEW p \in PiecesOf(P) PROVE Fits(p, pf[p])
      <4>1. CASE p = q
        BY <2>2, <3>1, <4>1
      <4>2. CASE p # q
        BY <1>1, <1>2, <3>1, <4>2
      <4> QED BY <4>1, <4>2
    <3> QED BY <1>1, <3>1, <3>2
  <2> QED BY <2>1, <2>2 DEF Altered
<1>4. \A i \in 1 .. PieceCount(P) : Piece(P)[i] \in PiecesOf(P)
  BY PiecesAre
<1>5. FitsTo(P, pf, PieceCount(P)) /\ FitsTo(P, ph, PieceCount(P))
  BY <1>2, <1>3, <1>4 DEF FitsTo
<1> QED BY <1>3, <1>5

\* An altered proof differs in one piece, or in what its openings were made after.
LEMMA AlteredDiffers ==
  ASSUME NEW P \in Protocols, NEW s, Running(P, s), NEW t, NEW ph, NEW dr, Whole(P, s, t, ph, dr),
         NEW pf, Altered(pf, ph), pf # ph
  PROVE  \E q \in PiecesOf(P) \cup {"opening"} : Differ(P, pf, ph, q) /\ \A p \in (PiecesOf(P) \cup {"opening"}) \ {q} : pf[p] = ph[p]
<1>1. IsMap(ph) /\ DOMAIN ph = PiecesOf(P) \cup {"opening"} /\ AllRight(P, s, dr, ph)
  BY DEF Whole
<1>2. PICK q \in DOMAIN ph : \E v : pf = Put(ph, q, v) /\ v # ph[q]
  BY DEF Altered
<1>3. PICK v : pf = Put(ph, q, v) /\ v # ph[q]
  BY <1>2
<1>4. pf[q] = v /\ \A x \in DOMAIN ph \ {q} : pf[x] = ph[x]
  BY <1>3 DEF Put
<1>5. P = "rv32im" => ph["interaction_log_sizes"] # <<>>
  <2>1. P = "rv32im" => "interaction_log_sizes" \in DOMAIN ph
    BY <1>1 DEF PiecesOf
  <2> QED BY <1>1, <2>1, NothingSkipped
<1>6. \A i \in 1 .. PieceCount(P) : Piece(P)[i] \in PiecesOf(P)
  BY PiecesAre
<1>7. Differ(P, pf, ph, q)
  BY <1>1, <1>3, <1>4, <1>5, <1>6 DEF Differ
<1> QED BY <1>1, <1>4, <1>7

\* A reader's draw that is the prover's tells every piece before it,
LEMMA DrawBinds ==
  ASSUME NEW P \in Protocols, NEW s, Running(P, s), NEW t, Grounded(t), NEW ph, NEW dr, Whole(P, s, t, ph, dr),
         NEW pf, Altered(pf, ph), NEW name \in DrawsOf(P), DrewAt(P, t, pf, name, dr[name]),
         NEW p \in PiecesOf(P), PlaceOfPiece(P, p) <= Depth(P, name)
  PROVE  pf[p] = ph[p]
<1> SUFFICES ASSUME pf[p] # ph[p] PROVE FALSE
  OBVIOUS
<1> DEFINE k == Depth(P, name)
<1> DEFINE m == PieceCount(P)
<1>0. m \in Nat /\ "prover" \in Roles(P)
  BY PieceIs DEF Roles
<1>1. k \in 1 .. m /\ DrawnAt(P, "prover", name) \in 1 .. StepsOf(P, "prover") /\ StepsOf(P, "prover") \in Nat
  BY <1>0, StepsIn
<1>2. PICK e : dr[name] = <<e, Offset(name)>> /\ Comes(P, t, pf, k, e)
  BY DEF DrewAt
<1>3. name \in DOMAIN dr /\ DrewAt(P, t, ph, name, dr[name])
  <2>1. DrawnAt(P, "prover", name) < StepsOf(P, "prover") + 1
    BY <1>1
  <2> QED BY <2>1 DEF Whole, DrewTo
<1>4. Comes(P, t, ph, k, e)
  <2>1. PICK f : dr[name] = <<f, Offset(name)>> /\ Comes(P, t, ph, k, f)
    BY <1>3 DEF DrewAt
  <2>2. f = e
    BY <1>2, <2>1
  <2> QED BY <2>1, <2>2
<1>5. pf # ph /\ FitsTo(P, pf, m) /\ FitsTo(P, ph, m)
  BY AlteredFits
<1>6. PICK q : Differ(P, pf, ph, q) /\ \A x \in (PiecesOf(P) \cup {"opening"}) \ {q} : pf[x] = ph[x]
  BY <1>5, AlteredDiffers
<1>7. p = q
  BY <1>6
<1>8. k \in 0 .. m
  BY <1>0, <1>1
<1>9. \A i \in 1 .. k : Piece(P)[i] # q
  <2> HIDE DEF k
  <2> QED BY <1>2, <1>4, <1>5, <1>6, <1>8, Bound DEF m
<1>10. PlaceOfPiece(P, p) \in 1 .. m /\ Piece(P)[PlaceOfPiece(P, p)] = p
  BY PiecesAre
<1>11. PlaceOfPiece(P, p) \in 1 .. k
  BY <1>0, <1>1, <1>10
<1> QED BY <1>7, <1>9, <1>10, <1>11

\* and the digest that the openings were made after tells all of them.
LEMMA OpeningBinds ==
  ASSUME NEW P \in Protocols, NEW s, Running(P, s), NEW t, Grounded(t), NEW ph, NEW dr, Whole(P, s, t, ph, dr),
         NEW pf, Altered(pf, ph), Comes(P, t, pf, PieceCount(P), pf["opening"])
  PROVE  pf = ph
<1> SUFFICES ASSUME pf # ph PROVE FALSE
  OBVIOUS
<1> DEFINE m == PieceCount(P)
<1>1. m \in Nat /\ m \in 0 .. m
  BY PieceIs
<1>2. FitsTo(P, pf, m) /\ FitsTo(P, ph, m)
  BY AlteredFits
<1>3. Comes(P, t, ph, m, ph["opening"])
  BY DEF Whole
<1>4. PICK q \in PiecesOf(P) \cup {"opening"} :
         Differ(P, pf, ph, q) /\ \A x \in (PiecesOf(P) \cup {"opening"}) \ {q} : pf[x] = ph[x]
  BY AlteredDiffers
<1>5. pf[q] # ph[q]
  BY <1>4 DEF Differ
<1>6. CASE q = "opening"
  <2>1. "opening" \notin PiecesOf(P)
    BY DEF PiecesOf
  <2>2. \A x \in PiecesOf(P) : pf[x] = ph[x]
    BY <1>4, <1>6, <2>1
  <2>3. P = "rv32im" => "interaction_log_sizes" \in PiecesOf(P)
    BY DEF PiecesOf
  <2>4. \A i \in 1 .. m : Piece(P)[i] \in PiecesOf(P)
    BY PiecesAre
  <2>5. AgreeTo(P, pf, ph, m)
    BY <2>2, <2>3, <2>4 DEF AgreeTo, Skipped
  <2>6. Comes(P, t, ph, m, pf["opening"])
    BY <1>1, <2>5, ComesAgree
  <2>7. pf["opening"] = ph["opening"]
    BY <1>1, <1>2, <1>3, <2>6, ComesOnce
  <2> QED BY <1>5, <1>6, <2>7
<1>7. CASE q # "opening"
  <2>1. pf["opening"] = ph["opening"]
    BY <1>4, <1>7
  <2>2. Comes(P, t, ph, m, pf["opening"])
    BY <1>3, <2>1
  <2>3. \A i \in 1 .. m : Piece(P)[i] # q
    BY <1>1, <1>2, <1>4, <2>2, Bound
  <2>4. q \in PiecesOf(P)
    BY <1>7
  <2>5. PlaceOfPiece(P, q) \in 1 .. m /\ Piece(P)[PlaceOfPiece(P, q)] = q
    BY <2>4, PiecesAre
  <2> QED BY <2>3, <2>5
<1> QED BY <1>6, <1>7

\* The pieces each draw must depend on are mixed before it.
LEMMA BeforeIs ==
  ASSUME protocol \in Protocols, NEW name \in DrawsOf(protocol), NEW p \in Before(name)
  PROVE  p \in PiecesOf(protocol) /\ PlaceOfPiece(protocol, p) <= Depth(protocol, name)
<1>1. CASE protocol = "rv32im"
  <2>1. name \in {"relations", "random_coeff", "oods"}
    BY <1>1 DEF DrawsOf, RelationNames
  <2>2. CASE name = "relations"
    <3>1. p \in {"public_data", "preprocessed", "main", "claim", "pow"} /\ Depth(protocol, name) = 5
      BY <1>1, <2>2 DEF Before, Depth
    <3> QED BY <1>1, <3>1 DEF PiecesOf, PlaceOfPiece
  <2>3. CASE name = "random_coeff"
    <3>1. /\ p \in {"public_data", "preprocessed", "main", "claim", "pow", "sums", "interaction", "interaction_log_sizes"}
          /\ Depth(protocol, name) = 8
      BY <1>1, <2>3 DEF Before, Depth
    <3> QED BY <1>1, <3>1 DEF PiecesOf, PlaceOfPiece
  <2>4. CASE name = "oods"
    <3>1. /\ p \in {"public_data", "preprocessed", "main", "claim", "pow", "sums", "interaction", "interaction_log_sizes", "composition"}
          /\ Depth(protocol, name) = 9
      BY <1>1, <2>4 DEF Before, Depth
    <3> QED BY <1>1, <3>1 DEF PiecesOf, PlaceOfPiece
  <2> QED BY <2>1, <2>2, <2>3, <2>4
<1>2. CASE protocol = "recursion"
  <2>1. name \in {"relations", "recursion_relations", "random_coeff", "oods"}
    BY <1>2 DEF DrawsOf, RelationNames
  <2>2. CASE name \in {"relations", "recursion_relations"}
    <3>1. p \in {"preprocessed", "log_sizes", "roots", "leaves", "channels", "circuits", "main"} /\ Depth(protocol, name) = 7
      BY <1>2, <2>2 DEF Before, Depth
    <3> QED BY <1>2, <3>1 DEF PiecesOf, PlaceOfPiece
  <2>3. CASE name = "random_coeff"
    <3>1. /\ p \in {"preprocessed", "log_sizes", "roots", "leaves", "channels", "circuits", "main", "sums", "interaction"}
          /\ Depth(protocol, name) = 10
      BY <1>2, <2>3 DEF Before, Depth
    <3> QED BY <1>2, <3>1 DEF PiecesOf, PlaceOfPiece
  <2>4. CASE name = "oods"
    <3>1. /\ p \in {"preprocessed", "log_sizes", "roots", "leaves", "channels", "circuits", "main", "sums", "interaction", "composition"}
          /\ Depth(protocol, name) = 11
      BY <1>2, <2>4 DEF Before, Depth
    <3> QED BY <1>2, <3>1 DEF PiecesOf, PlaceOfPiece
  <2> QED BY <2>1, <2>2, <2>3, <2>4
<1> QED BY <1>1, <1>2 DEF Protocols

-----------------------------------------------------------------------------
(* The readers at work.                                                      *)

Justified(P, t, pf, dr) == \A name \in DOMAIN dr : name \in DrawsOf(P) /\ DrewAt(P, t, pf, name, dr[name])
Earlier(P, t, pf, drs) == \A r \in DOMAIN drs \ {"prover"} : Justified(P, t, pf, drs[r])
Verdicts(vs, same) ==
  /\ DOMAIN vs = {"prover", "verifier", "replay"}
  /\ IF same THEN \A r \in DOMAIN vs : vs[r] \in {"running", "accepted"} ELSE vs["verifier"] # "accepted"

\* What holds while a proof is read, and after.
Given ==
  /\ protocol \in Protocols /\ Running(protocol, run) /\ Grounded(mixes)
  /\ role \in (Roles(protocol) \ {"prover"}) \cup {"done"}
  /\ "prover" \in DOMAIN draws /\ Whole(protocol, run, mixes, honest, draws["prover"]) /\ Altered(proof, honest)
  /\ Earlier(protocol, mixes, proof, draws)
  /\ role # "done" => At(protocol, role, mixes, proof, pc, digest, n_draws, drawn)
  /\ role = "verifier" /\ pc = StepsOf(protocol, role) + 1 => digest = proof["opening"]
  /\ Verdicts(verdict, proof = honest)

LEMMA EarlierKept ==
  ASSUME NEW P \in Protocols, NEW t, IsTable(t), NEW u, IsTable(u), Extends(u, t), NEW pf, NEW drs, Earlier(P, t, pf, drs)
  PROVE  Earlier(P, u, pf, drs)
<1>1. ASSUME NEW r \in DOMAIN drs \ {"prover"}, NEW name \in DOMAIN drs[r]
      PROVE  name \in DrawsOf(P) /\ DrewAt(P, u, pf, name, drs[r][name])
  <2>1. name \in DrawsOf(P) /\ DrewAt(P, t, pf, name, drs[r][name])
    BY DEF Earlier, Justified
  <2> DEFINE m == PieceCount(P)
  <2>2. m \in Nat /\ "prover" \in Roles(P)
    BY PieceIs DEF Roles
  <2>3. Depth(P, name) \in 1 .. m
    BY <2>1, <2>2, StepsIn
  <2>4. Depth(P, name) \in 0 .. m /\ AgreeTo(P, pf, pf, m)
    BY <2>2, <2>3, AgreeSelf
  <2> HIDE DEF m
  <2>5. DrewAt(P, u, pf, name, drs[r][name])
    BY <2>1, <2>2, <2>4, DrewKeeps
  <2> QED BY <2>1, <2>5
<1> QED BY <1>1 DEF Earlier, Justified

LEMMA GivenAt ==
  ASSUME Given, role # "done"
  PROVE  /\ role \in Roles(protocol) /\ role # "prover" /\ pc \in 1 .. StepsOf(protocol, role) + 1 /\ IsTable(mixes)
         /\ StepsOf(protocol, role) \in Nat \ {0} /\ PieceCount(protocol) \in Nat
         /\ IsMap(proof) /\ DOMAIN proof = PiecesOf(protocol) \cup {"opening"}
         /\ FitsTo(protocol, proof, PieceCount(protocol)) /\ FitsTo(protocol, honest, PieceCount(protocol))
<1>1. role \in Roles(protocol) /\ role # "prover" /\ pc \in 1 .. StepsOf(protocol, role) + 1 /\ IsTable(mixes)
  BY DEF Given, At, Grounded, Roles
<1>2. StepsOf(protocol, role) \in Nat \ {0} /\ PieceCount(protocol) \in Nat
  BY <1>1, StepsIn, PieceIs DEF Given
<1> QED BY <1>1, <1>2, AlteredFits DEF Given

\* A reader mixes a piece,
LEMMA GivenMixes ==
  ASSUME Given, MixStep
  PROVE  Given'
<1> DEFINE p == Step.what
<1> DEFINE calls == MixesOf(p, proof[p])
<1> DEFINE after == MixAll(Channel, calls)
<1> DEFINE m == Done(protocol, role)[pc]
<1>0. role # "done"
  BY DEF MixStep, Doing
<1>1. /\ role \in Roles(protocol) /\ role # "prover" /\ pc \in 1 .. StepsOf(protocol, role) /\ Step = PlanOf(protocol, role)[pc]
      /\ Step.do = "mix" /\ StepFact(protocol, role, pc) /\ CheckFact(protocol, role, pc)
  BY <1>0, GivenAt, StepIs DEF MixStep, Given
<1>2. /\ protocol \in Protocols /\ IsTable(mixes) /\ Grounded(mixes) /\ PieceCount(protocol) \in Nat /\ StepsOf(protocol, role) \in Nat
      /\ IsMap(proof) /\ DOMAIN proof = PiecesOf(protocol) \cup {"opening"} /\ FitsTo(protocol, proof, PieceCount(protocol))
      /\ At(protocol, role, mixes, proof, pc, digest, n_draws, drawn)
  BY <1>0, GivenAt DEF Given
<1>3. m \in 0 .. PieceCount(protocol) - 1 /\ p = Piece(protocol)[m + 1]
  BY <1>1 DEF StepFact
<1>4. p \in PiecesOf(protocol) /\ p \in PieceNames /\ Fits(p, proof[p])
  <2>1. m + 1 \in 1 .. PieceCount(protocol)
    BY <1>2, <1>3
  <2> QED BY <1>2, <1>3, <2>1, PiecesAre DEF FitsTo
<1>5. calls = Calls(protocol, p, proof[p]) /\ Len(calls) \in Nat
  BY <1>4, CallsAreMixes, CallsList
<1>6. digest \in 0 .. Len(mixes)
  <2>1. m \in 0 .. PieceCount(protocol)
    BY <1>2, <1>3
  <2>2. FitsTo(protocol, proof, m)
    BY <1>2, <2>1 DEF FitsTo
  <2>3. Comes(protocol, mixes, proof, m, digest)
    BY <1>2 DEF At
  <2> QED BY <1>2, <2>1, <2>2, <2>3, ComesIn
<1> HIDE DEF m
<1>7. /\ proof' = proof /\ mixes' = after.table /\ digest' = after.digest /\ n_draws' = 0 /\ pc' = pc + 1
      /\ UNCHANGED <<protocol, run, role, drawn, honest, draws, verdict>>
  <2>1. ~ Producing
    BY <1>1 DEF Producing
  <2>2. Put(proof, p, proof[p]) = proof
    BY <1>2, <1>4, PutBack
  <2> QED BY <2>1, <2>2 DEF MixStep
<1>8. ~ Skipped(protocol, proof, p)
  BY SkippedIsAbsent DEF MixStep
<1> HIDE DEF p, calls
<1>9. /\ IsTable(after.table) /\ Extends(after.table, mixes) /\ Leads(after.table, digest, calls, after.digest)
      /\ Grounded(after.table)
  <2>1. Channel.table = mixes /\ Channel.digest = digest
    BY DEF Channel
  <2>2. IsTable(Channel.table) /\ Grounded(Channel.table) /\ Channel.digest \in 0 .. Len(Channel.table)
    BY <1>2, <1>6, <2>1
  <2> QED BY <1>5, <2>1, <2>2, MixAllLeads, MixAllGrounded
<1> DEFINE u == after.table
<1> DEFINE e == after.digest
<1> HIDE DEF after
<1>10. Hop(protocol, u, proof, m + 1, digest, e)
  BY <1>3, <1>5, <1>8, <1>9 DEF Hop, m, p
<1>11. At(protocol, role, u, proof, pc + 1, e, 0, drawn)
  <2>1. AgreeTo(protocol, proof, proof, m)
    BY AgreeSelf
  <2>2. PlanOf(protocol, role)[pc].do \in {"mix", "pow"} /\ IsTable(u) /\ Extends(u, mixes)
    BY <1>1, <1>9
  <2> HIDE DEF u, e
  <2> QED BY <1>1, <1>2, <1>10, <2>1, <2>2, AtMixes DEF m
<1>12. Whole(protocol, run, u, honest, draws["prover"]) /\ Earlier(protocol, u, proof, draws)
  <2>1. Whole(protocol, run, mixes, honest, draws["prover"]) /\ Earlier(protocol, mixes, proof, draws)
    BY DEF Given
  <2>2. IsTable(u) /\ Extends(u, mixes)
    BY <1>9
  <2> HIDE DEF u
  <2> QED BY <1>2, <2>1, <2>2, WholeKept, EarlierKept
<1>13. role = "verifier" => pc + 1 # StepsOf(protocol, role) + 1
  BY <1>1, <1>2 DEF CheckFact
<1>14. mixes' = u /\ digest' = e /\ Grounded(u)
  BY <1>7, <1>9 DEF after, calls, p
<1> HIDE DEF u, e
<1> QED BY <1>7, <1>11, <1>12, <1>13, <1>14 DEF Given

\* leaves out a tree,
LEMMA GivenSkips ==
  ASSUME Given, SkipTree
  PROVE  Given'
<1>0. role # "done"
  BY DEF SkipTree, Doing
<1>1. /\ role \in Roles(protocol) /\ pc \in 1 .. StepsOf(protocol, role) /\ Step = PlanOf(protocol, role)[pc]
      /\ Step.do = "mix" /\ CheckFact(protocol, role, pc) /\ IsTable(mixes) /\ StepsOf(protocol, role) \in Nat
  BY <1>0, GivenAt, StepIs DEF SkipTree, Given
<1>2. Skipped(protocol, proof, Step.what)
  BY SkippedIsAbsent DEF SkipTree
<1>3. At(protocol, role, mixes, proof, pc, digest, n_draws, drawn) /\ protocol \in Protocols
  BY <1>0 DEF Given
<1>4. At(protocol, role, mixes, proof, pc + 1, digest, n_draws, drawn)
  BY <1>1, <1>2, <1>3, AtSkips
<1>5. role = "verifier" => pc + 1 # StepsOf(protocol, role) + 1
  BY <1>1 DEF CheckFact
<1>6. pc' = pc + 1 /\ UNCHANGED <<protocol, run, mixes, role, digest, n_draws, drawn, proof, honest, draws, verdict>>
  BY DEF SkipTree
<1> QED BY <1>4, <1>5, <1>6 DEF Given

\* draws,
LEMMA GivenDraws ==
  ASSUME Given, DrawStep
  PROVE  Given'
<1>0. role # "done"
  BY DEF DrawStep, Doing
<1>1. /\ role \in Roles(protocol) /\ pc \in 1 .. StepsOf(protocol, role) /\ Step = PlanOf(protocol, role)[pc]
      /\ Step.do = "draw" /\ CheckFact(protocol, role, pc) /\ StepsOf(protocol, role) \in Nat
  BY <1>0, GivenAt, StepIs DEF DrawStep, Given
<1>2. At(protocol, role, mixes, proof, pc, digest, n_draws, drawn) /\ protocol \in Protocols
  BY <1>0 DEF Given
<1> DEFINE dr == Put(drawn, Step.what, <<digest, n_draws>>)
<1>3. At(protocol, role, mixes, proof, pc + 1, digest, n_draws + Step.n, dr)
  BY <1>1, <1>2, AtDraws
<1>4. role = "verifier" => pc + 1 # StepsOf(protocol, role) + 1
  BY <1>1 DEF CheckFact
<1>5. /\ drawn' = dr /\ n_draws' = n_draws + Step.n /\ pc' = pc + 1
      /\ UNCHANGED <<protocol, run, mixes, role, digest, proof, honest, draws, verdict>>
  BY DEF DrawStep
<1> HIDE DEF dr
<1> QED BY <1>3, <1>4, <1>5 DEF Given

\* passes a check,
LEMMA GivenChecks ==
  ASSUME Given, CheckStep
  PROVE  Given'
<1>0. role # "done"
  BY DEF CheckStep, Doing
<1>1. /\ role \in Roles(protocol) /\ pc \in 1 .. StepsOf(protocol, role) /\ Step = PlanOf(protocol, role)[pc]
      /\ Step.do = "check" /\ CheckFact(protocol, role, pc) /\ StepsOf(protocol, role) \in Nat
  BY <1>0, GivenAt, StepIs DEF CheckStep, Given
<1>2. At(protocol, role, mixes, proof, pc, digest, n_draws, drawn) /\ protocol \in Protocols
  BY <1>0 DEF Given
<1>3. At(protocol, role, mixes, proof, pc + 1, digest, n_draws, drawn)
  BY <1>1, <1>2, AtChecks
<1>4. role = "verifier" /\ pc + 1 = StepsOf(protocol, role) + 1 => digest = proof["opening"]
  <2> SUFFICES ASSUME role = "verifier", pc = StepsOf(protocol, role) PROVE digest = proof["opening"]
    BY <1>1
  <2>1. Step.what = "opening"
    BY <1>1 DEF CheckFact
  <2>2. Holds("opening")
    BY <2>1 DEF CheckStep
  <2> QED BY <2>2 DEF Holds
<1>5. pc' = pc + 1 /\ UNCHANGED <<protocol, run, mixes, role, digest, n_draws, drawn, proof, honest, draws, verdict>>
  BY DEF CheckStep
<1> QED BY <1>3, <1>4, <1>5 DEF Given

-----------------------------------------------------------------------------
(* A proof that was not altered passes every check.                          *)

Unaltered == Given /\ role # "done" /\ proof = honest
RightPieces == \A p \in DOMAIN proof : Right(protocol, run, draws["prover"], p, proof[p])

LEMMA UnalteredIs ==
  ASSUME Unaltered
  PROVE  /\ protocol \in Protocols /\ Running(protocol, run) /\ run.log \in LogSizes[protocol] /\ RightPieces
         /\ DOMAIN proof = PiecesOf(protocol) \cup {"opening"}
         /\ Whole(protocol, run, mixes, proof, draws["prover"]) /\ FitsTo(protocol, proof, PieceCount(protocol))
         /\ At(protocol, role, mixes, proof, pc, digest, n_draws, drawn)
<1>1. Given /\ role # "done" /\ proof = honest
  BY DEF Unaltered
<1>2. DOMAIN proof = PiecesOf(protocol) \cup {"opening"} /\ FitsTo(protocol, proof, PieceCount(protocol))
  BY <1>1, GivenAt
<1>3. /\ protocol \in Protocols /\ Running(protocol, run) /\ Whole(protocol, run, mixes, honest, draws["prover"])
      /\ At(protocol, role, mixes, proof, pc, digest, n_draws, drawn)
  BY <1>1 DEF Given
<1>4. RightPieces
  BY <1>1, <1>3 DEF Whole, AllRight, RightPieces
<1>5. run.log \in LogSizes[protocol]
  BY <1>3 DEF Running
<1> QED BY <1>1, <1>2, <1>3, <1>4, <1>5

\* Its readers draw what its prover drew,
LEMMA DrawsSame ==
  ASSUME Unaltered, NEW name \in DOMAIN drawn
  PROVE  drawn[name] = draws["prover"][name]
<1> DEFINE m == PieceCount(protocol)
<1> DEFINE k == Depth(protocol, name)
<1> DEFINE dr == draws["prover"]
<1>1. name \in DrawsOf(protocol) /\ DrewAt(protocol, mixes, proof, name, drawn[name])
  BY UnalteredIs DEF At, DrewTo
<1>2. m \in Nat /\ "prover" \in Roles(protocol) /\ protocol \in Protocols
  BY UnalteredIs, PieceIs DEF Roles
<1>3. k \in 1 .. m /\ DrawnAt(protocol, "prover", name) \in 1 .. StepsOf(protocol, "prover") /\ StepsOf(protocol, "prover") \in Nat
  BY <1>1, <1>2, StepsIn
<1>4. DrewAt(protocol, mixes, proof, name, dr[name])
  <2>1. DrawnAt(protocol, "prover", name) < StepsOf(protocol, "prover") + 1
    BY <1>3
  <2>2. DrewTo(protocol, "prover", mixes, proof, StepsOf(protocol, "prover") + 1, dr)
    BY UnalteredIs DEF Whole
  <2> HIDE DEF dr
  <2> QED BY <1>1, <2>1, <2>2 DEF DrewTo
<1>5. PICK e : drawn[name] = <<e, Offset(name)>> /\ Comes(protocol, mixes, proof, k, e)
  BY <1>1 DEF DrewAt
<1>6. PICK f : dr[name] = <<f, Offset(name)>> /\ Comes(protocol, mixes, proof, k, f)
  BY <1>4 DEF DrewAt
<1>7. e = f
  <2>1. k \in 0 .. m
    BY <1>2, <1>3
  <2>2. FitsTo(protocol, proof, k)
    BY <1>2, <1>3, UnalteredIs DEF FitsTo
  <2> HIDE DEF k
  <2> QED BY <1>5, <1>6, <2>1, <2>2, ComesOnce DEF m
<1> QED BY <1>5, <1>6, <1>7

LEMMA RelationsSame ==
  ASSUME Unaltered, \A name \in RelationNames(protocol) : DrawnAt(protocol, role, name) < pc
  PROVE  Relations = RelationsOf(protocol, draws["prover"])
<1>1. RelationNames(protocol) \subseteq DOMAIN drawn
  BY UnalteredIs DEF At, DrewTo, DrawsOf
<1>2. \A name \in RelationNames(protocol) : drawn[name] = draws["prover"][name]
  BY <1>1, DrawsSame
<1> QED BY <1>2 DEF Relations, RelationsOf, RelationNames

LEMMA ChallengesSame ==
  ASSUME Unaltered, \A name \in DrawsOf(protocol) : DrawnAt(protocol, role, name) < pc
  PROVE  Challenges = <<draws["prover"]["random_coeff"], draws["prover"]["oods"]>>
<1>1. "random_coeff" \in DOMAIN drawn /\ "oods" \in DOMAIN drawn
  BY UnalteredIs DEF At, DrewTo, DrawsOf
<1> QED BY <1>1, DrawsSame DEF Challenges

\* read the statement, the sizes and the sums that it left,
LEMMA StatementSame ==
  ASSUME Unaltered
  PROVE  LogupPart(Statement) = PartOf(protocol, run.statement)
<1>1. protocol = "rv32im" => proof["public_data"] = run.statement
  <2> SUFFICES ASSUME protocol = "rv32im" PROVE proof["public_data"] = run.statement
    OBVIOUS
  <2>1. "public_data" \in DOMAIN proof
    BY UnalteredIs DEF PiecesOf
  <2> QED BY <2>1, UnalteredIs DEF RightPieces, Right
<1>2. protocol # "rv32im" => \A x \in {"roots", "leaves", "channels", "circuits"} : proof[x] = run.statement[x]
  <2> SUFFICES ASSUME protocol # "rv32im", NEW x \in {"roots", "leaves", "channels", "circuits"} PROVE proof[x] = run.statement[x]
    OBVIOUS
  <2>1. x \in DOMAIN proof
    BY UnalteredIs DEF PiecesOf
  <2> QED BY <2>1, UnalteredIs DEF RightPieces, Right
<1> QED BY <1>1, <1>2, StatementIs

LEMMA ClaimSame ==
  ASSUME Unaltered
  PROVE  ClaimLog = run.log
<1>1. CASE protocol = "rv32im"
  <2>1. "claim" \in DOMAIN proof
    BY <1>1, UnalteredIs DEF PiecesOf
  <2>2. proof["claim"] = run.log
    BY <2>1, UnalteredIs DEF RightPieces, Right
  <2> QED BY <1>1, <2>2 DEF ClaimLog
<1>2. CASE protocol # "rv32im"
  <2>1. "log_sizes" \in DOMAIN proof
    BY <1>2, UnalteredIs DEF PiecesOf
  <2>2. proof["log_sizes"] = run.log
    BY <2>1, UnalteredIs DEF RightPieces, Right
  <2> QED BY <1>2, <2>2 DEF ClaimLog
<1> QED BY <1>1, <1>2

LEMMA SumsAre ==
  ASSUME protocol \in Protocols, NEW rel, NEW part, proof["sums"] = SumsOf(protocol, rel, part),
         NEW c \in ToSet(OrderOf(protocol)), HasSum(c)
  PROVE  SumOfTable(c) = SumOf(c, rel, part)
<1>1. CASE protocol = "rv32im"
  <2> DEFINE o == OrderOf(protocol)
  <2>1. o = Tables /\ SumOrderOf(protocol) = Tables /\ Order = o
    BY <1>1, LayoutsAre DEF OrderOf, SumOrderOf
  <2>2. PlaceIn(o, c) \in 1 .. Len(o) /\ o[PlaceIn(o, c)] = c
    BY PlaceIs
  <2>3. SumOfTable(c) = proof["sums"][PlaceIn(o, c)]
    BY <1>1, <2>1 DEF SumOfTable, Position
  <2>4. proof["sums"] = [i \in 1 .. Len(o) |-> SumOf(o[i], rel, part)]
    BY <2>1 DEF SumsOf
  <2> HIDE DEF o
  <2>5. proof["sums"][PlaceIn(o, c)] = SumOf(o[PlaceIn(o, c)], rel, part)
    BY <2>2, <2>4
  <2> QED BY <2>2, <2>3, <2>5
<1>2. CASE protocol # "rv32im"
  <2>1. SumOrderOf(protocol) = SumOrder /\ Len(SumOrder) = 7
    BY <1>2 DEF SumOrderOf, SumOrder
  <2>2. SumIndex(c) # 7
    BY <1>2 DEF HasSum
  <2>3. SumIndex(c) + 1 \in 1 .. 7 /\ SumOrder[SumIndex(c) + 1] = c
    BY <2>2 DEF SumIndex, SumOrder
  <2>4. SumOfTable(c) = proof["sums"][SumIndex(c) + 1]
    BY <1>2, <2>2 DEF SumOfTable
  <2>5. proof["sums"] = [i \in 1 .. 7 |-> SumOf(SumOrder[i], rel, part)]
    BY <2>1 DEF SumsOf
  <2>6. proof["sums"][SumIndex(c) + 1] = SumOf(SumOrder[SumIndex(c) + 1], rel, part)
    BY <2>3, <2>5
  <2> QED BY <2>3, <2>4, <2>6
<1> QED BY <1>1, <1>2

LEMMA SumsSame ==
  ASSUME Unaltered, \A name \in RelationNames(protocol) : DrawnAt(protocol, role, name) < pc,
         NEW c \in Range(Order), HasSum(c)
  PROVE  SumOfTable(c) = SumOf(c, Relations, LogupPart(Statement))
<1>1. protocol \in Protocols /\ "sums" \in DOMAIN proof
  BY UnalteredIs DEF PiecesOf
<1>2. proof["sums"] = SumsOf(protocol, RelationsOf(protocol, draws["prover"]), PartOf(protocol, run.statement))
  BY <1>1, UnalteredIs DEF RightPieces, Right
<1>3. proof["sums"] = SumsOf(protocol, Relations, LogupPart(Statement))
  BY <1>2, RelationsSame, StatementSame
<1>4. c \in ToSet(OrderOf(protocol))
  BY LayoutsAre DEF Range, ToSet
<1> QED BY <1>1, <1>3, <1>4, SumsAre

\* and find every check to hold: the nonce was ground,
LEMMA PowHolds ==
  ASSUME Unaltered, protocol = "rv32im", Done(protocol, role)[pc] = 4
  PROVE  Holds("pow")
<1> DEFINE pair == <<digest, U64(proof["pow"])>>
<1>1. "pow" \in DOMAIN proof
  BY UnalteredIs DEF PiecesOf
<1>2. PICK e : Comes(protocol, mixes, proof, 5, e) /\ e % 2 = 0
  BY <1>1, UnalteredIs DEF Whole, EvenAt
<1>3. Comes(protocol, mixes, proof, 4 + 1, e) /\ 4 \in Nat
  BY <1>2
<1>4. PICK d : Comes(protocol, mixes, proof, 4, d) /\ Hop(protocol, mixes, proof, 4 + 1, d, e)
  BY <1>3, ComesBack
<1>5. d = digest
  <2>1. Comes(protocol, mixes, proof, 4, digest)
    BY UnalteredIs DEF At
  <2>2. PieceCount(protocol) = 10
    BY DEF PieceCount
  <2>3. 4 \in 0 .. PieceCount(protocol) /\ FitsTo(protocol, proof, 4)
    BY <2>2, UnalteredIs DEF FitsTo
  <2> QED BY <1>4, <2>1, <2>3, ComesOnce
<1>6. Leads(mixes, digest, << U64(proof["pow"]) >>, e)
  <2>1. Piece(protocol)[4 + 1] = "pow"
    BY DEF Piece, Pieces
  <2>2. Calls(protocol, "pow", proof["pow"]) = << U64(proof["pow"]) >>
    BY DEF Calls, Commitments
  <2>3. ~ Skipped(protocol, proof, "pow")
    BY DEF Skipped
  <2> QED BY <1>4, <1>5, <2>1, <2>2, <2>3 DEF Hop
<1>7. Known(mixes, pair) /\ e = IdOf(mixes, pair)
  <2> DEFINE c == << U64(proof["pow"]) >>
  <2>1. PICK w : Walk(mixes, digest, c, e, w)
    BY <1>6 DEF Leads
  <2>2. Len(c) = 1 /\ c[1] = U64(proof["pow"])
    OBVIOUS
  <2> HIDE DEF c
  <2>3. w[0] = digest /\ w[1] = e /\ Known(mixes, <<w[1 - 1], c[1]>>) /\ w[1] = IdOf(mixes, <<w[1 - 1], c[1]>>)
    BY <2>1, <2>2 DEF Walk
  <2>4. 1 - 1 = 0
    OBVIOUS
  <2> QED BY <2>2, <2>3, <2>4
<1>8. Hashed(Channel, U64(proof["pow"])).digest = e
  <2>1. Channel.table = mixes /\ Channel.digest = digest
    BY DEF Channel
  <2> QED BY <1>7, <2>1 DEF Hashed
<1> QED BY <1>2, <1>8 DEF Holds, PowOk

\* the outputs are computed, the sums cancel,
LEMMA OutputsHold ==
  ASSUME Unaltered, protocol = "recursion"
  PROVE  Holds("outputs")
<1>1. "circuits" \in DOMAIN proof
  BY UnalteredIs DEF PiecesOf
<1>2. proof["circuits"] = run.statement["circuits"] /\ run.statement \in Statements["recursion"]
  BY <1>1, UnalteredIs DEF RightPieces, Right, Running
<1> DEFINE s == run.statement.circuits
<1>3. s \in CircuitClaims /\ \A i \in DOMAIN s : s[i].output[2] = "computed"
  BY <1>2, TranscriptAssumption
<1>4. DOMAIN s = 1 .. Len(s)
  BY <1>3 DEF CircuitClaims
<1>5. proof["circuits"] = s
  BY <1>2
<1> HIDE DEF s
<1> QED BY <1>3, <1>4, <1>5 DEF Holds

LEMMA LogupHolds ==
  ASSUME Unaltered, \A name \in RelationNames(protocol) : DrawnAt(protocol, role, name) < pc
  PROVE  Holds("logup")
<1>1. ASSUME NEW c \in Range(Order), HasSum(c)
      PROVE  SumOfTable(c).at = Relations /\ SumOfTable(c).over = LogupPart(Statement)
  <2>1. SumOfTable(c) = SumOf(c, Relations, LogupPart(Statement))
    BY <1>1, SumsSame
  <2> QED BY <2>1 DEF SumOf
<1> QED BY <1>1 DEF Holds

\* the samples are all there, taken at their point of the tables the components read,
LEMMA MasksHold ==
  ASSUME Unaltered
  PROVE  Holds("masks")
<1>1. "sampled" \in DOMAIN proof
  BY UnalteredIs DEF PiecesOf
<1>2. proof["sampled"] = Sampled(<<draws["prover"]["random_coeff"], draws["prover"]["oods"]>>, Masks)
  BY <1>1, UnalteredIs DEF RightPieces, Right
<1>3. proof["sampled"].masks = Masks
  BY <1>2 DEF Sampled
<1> QED BY <1>3 DEF Holds

LEMMA RootsSame ==
  ASSUME Unaltered
  PROVE  /\ proof["main"] = Root(MainOf(protocol, run.log), <<>>)
         /\ proof["interaction"] = Root(InteractionOf(protocol, run.log), RelationsOf(protocol, draws["prover"]))
<1>1. "main" \in DOMAIN proof /\ "interaction" \in DOMAIN proof
  BY UnalteredIs DEF PiecesOf
<1> QED BY <1>1, UnalteredIs DEF RightPieces, Right

LEMMA SpansHold ==
  ASSUME Unaltered, NEW c \in Range(Order)
  PROVE  SpansMatch(c)
<1> DEFINE o == OrderOf(protocol)
<1> DEFINE l == run.log[PlaceIn(o, c)]
<1>1. c \in ToSet(o)
  BY LayoutsAre DEF Range, ToSet
<1>2. /\ Span(o, MainOf(protocol, run.log), MainWidths(protocol), c) = Copies(<<c, l>>, MainWidths(protocol)[c])
      /\ Span(o, InteractionOf(protocol, run.log), InteractionWidths(protocol), c) = Copies(<<c, l>>, InteractionWidths(protocol)[c])
  BY <1>1, UnalteredIs, MainSpan, InteractionSpan
<1>3. proof["main"].columns = MainOf(protocol, run.log) /\ proof["interaction"].columns = InteractionOf(protocol, run.log)
  BY RootsSame DEF Root
<1>4. Order = o /\ MainWidth = MainWidths(protocol) /\ InteractionWidth = InteractionWidths(protocol)
  BY LayoutsAre
<1>5. ClaimLog[Position(c)] = l
  BY <1>4, ClaimSame DEF Position
<1> HIDE DEF o, l
<1> QED BY <1>2, <1>3, <1>4, <1>5 DEF SpansMatch

LEMMA OodsHolds ==
  ASSUME Unaltered, \A name \in DrawsOf(protocol) : DrawnAt(protocol, role, name) < pc
  PROVE  Holds("oods")
<1>0. \A name \in RelationNames(protocol) : DrawnAt(protocol, role, name) < pc
  BY DEF DrawsOf
<1>1. proof["sampled"].after = Challenges
  <2>1. "sampled" \in DOMAIN proof
    BY UnalteredIs DEF PiecesOf
  <2>2. proof["sampled"] = Sampled(<<draws["prover"]["random_coeff"], draws["prover"]["oods"]>>, Masks)
    BY <2>1, UnalteredIs DEF RightPieces, Right
  <2>3. proof["sampled"] = Sampled(Challenges, Masks)
    BY <2>2, ChallengesSame
  <2> QED BY <2>3 DEF Sampled
<1>2. proof["interaction"].after = Relations
  <2>1. proof["interaction"] = Root(InteractionOf(protocol, run.log), Relations)
    BY <1>0, RootsSame, RelationsSame
  <2> QED BY <2>1 DEF Root
<1>3. ASSUME NEW c \in Range(Order), HasSum(c)
      PROVE  SumOfTable(c) = SumOf(c, Relations, SumOfTable(c).over)
  <2>1. SumOfTable(c) = SumOf(c, Relations, LogupPart(Statement))
    BY <1>0, <1>3, SumsSame
  <2>2. SumOfTable(c).over = LogupPart(Statement)
    BY <2>1 DEF SumOf
  <2> QED BY <2>1, <2>2
<1>4. \A c \in Range(Order) : SpansMatch(c)
  BY SpansHold
<1> QED BY <1>1, <1>2, <1>3, <1>4 DEF Holds

\* and the openings follow all of it.
LEMMA OpeningHolds ==
  ASSUME Unaltered, Done(protocol, role)[pc] = PieceCount(protocol)
  PROVE  Holds("opening")
<1> DEFINE m == PieceCount(protocol)
<1>1. proof["opening"] = digest
  <2>1. Comes(protocol, mixes, proof, m, digest) /\ Comes(protocol, mixes, proof, m, proof["opening"])
    BY UnalteredIs DEF At, Whole
  <2>2. m \in 0 .. PieceCount(protocol) /\ FitsTo(protocol, proof, m)
    BY PieceIs, UnalteredIs
  <2> HIDE DEF m
  <2> QED BY <2>1, <2>2, ComesOnce
<1>2. proof["main"].columns = MainOf(protocol, run.log) /\ proof["interaction"].columns = InteractionOf(protocol, run.log)
  BY RootsSame DEF Root
<1>3. Expected.main = Sizes(proof["main"].columns)
  <2>1. Expected.main = MainTraceLogSizes(run.log)
    BY ClaimSame DEF Expected
  <2>2. MainTraceLogSizes(run.log) = Sizes(MainOf(protocol, run.log))
    BY UnalteredIs, MainSizesAre, MainSizes
  <2> QED BY <1>2, <2>1, <2>2
<1>4. Expected.interaction = Sizes(proof["interaction"].columns)
  <2>1. CASE protocol = "rv32im"
    <3>1. "interaction_log_sizes" \in DOMAIN proof
      BY <2>1, UnalteredIs DEF PiecesOf
    <3>2. proof["interaction_log_sizes"] = Sizes(InteractionOf(protocol, run.log))
      BY <3>1, UnalteredIs DEF RightPieces, Right
    <3>3. Expected.interaction = proof["interaction_log_sizes"]
      BY <2>1 DEF Expected
    <3> QED BY <1>2, <3>2, <3>3
  <2>2. CASE protocol # "rv32im"
    <3>1. protocol = "recursion" /\ run.log \in LogSizes["recursion"]
      BY <2>2, UnalteredIs DEF Protocols
    <3>2. Expected.interaction = InteractionLogSizes(run.log)
      BY <2>2, ClaimSame DEF Expected
    <3> QED BY <1>2, <3>1, <3>2, InteractionSizes
  <2> QED BY <2>1, <2>2
<1> QED BY <1>1, <1>3, <1>4 DEF Holds

LEMMA UnalteredHolds ==
  ASSUME Unaltered, Doing("check")
  PROVE  Holds(Step.what)
<1>1. /\ role \in Roles(protocol) /\ Step = PlanOf(protocol, role)[pc] /\ Step.do = "check" /\ CheckFact(protocol, role, pc)
  BY GivenAt, StepIs DEF Unaltered, Given
<1>2. Step.what \in {"pow", "outputs", "logup", "masks", "oods", "opening"}
  BY <1>1 DEF CheckFact
<1>3. CASE Step.what = "pow"
  BY <1>1, <1>3, PowHolds DEF CheckFact
<1>4. CASE Step.what = "outputs"
  BY <1>1, <1>4, OutputsHold DEF CheckFact
<1>5. CASE Step.what = "logup"
  BY <1>1, <1>5, LogupHolds DEF CheckFact
<1>6. CASE Step.what = "masks"
  BY <1>6, MasksHold
<1>7. CASE Step.what = "oods"
  BY <1>1, <1>7, OodsHolds DEF CheckFact
<1>8. CASE Step.what = "opening"
  BY <1>1, <1>8, OpeningHolds DEF CheckFact
<1> QED BY <1>2, <1>3, <1>4, <1>5, <1>6, <1>7, <1>8

-----------------------------------------------------------------------------
(* The invariant.                                                            *)

BInv ==
  /\ role = "prover" => /\ Making /\ honest = <<>> /\ draws = <<>>
                        /\ DOMAIN verdict = {"prover", "verifier", "replay"} /\ \A r \in DOMAIN verdict : verdict[r] = "running"
  /\ role # "prover" => Given

LEMMA BInvInit == Init => BInv
<1> SUFFICES ASSUME Init PROVE BInv
  OBVIOUS
<1>1. /\ mixes = <<>> /\ role = "prover" /\ pc = 1 /\ digest = 0 /\ n_draws = 0 /\ drawn = <<>> /\ proof = <<>>
      /\ honest = <<>> /\ draws = <<>>
  BY DEF Init
<1>2. protocol \in Protocols /\ Running(protocol, run)
  <2>1. DOMAIN Statements = Protocols
    BY TranscriptAssumption DEF Protocols
  <2>2. run.statement \in Statements[protocol] /\ run.log \in LogSizes[protocol]
    BY DEF Init
  <2> QED BY <2>1, <2>2 DEF Running, Init
<1>3. "prover" \in Roles(protocol)
  BY DEF Roles
<1>4. Done(protocol, "prover")[1] = 0
  BY <1>2, <1>3, StepsIn
<1>5. MadeTo(protocol, <<>>, 0)
  BY DEF MadeTo, IsMap
<1>6. AllRight(protocol, run, <<>>, <<>>) /\ EvenAt(protocol, <<>>, <<>>)
  BY DEF AllRight, EvenAt
<1>7. At(protocol, "prover", <<>>, <<>>, 1, 0, 0, <<>>)
  BY <1>2, <1>3, AtStart
<1>8. Makes(protocol, run, <<>>, <<>>, 1, 0, 0, <<>>)
  BY <1>4, <1>5, <1>6, <1>7 DEF Makes
<1>9. Making
  BY <1>1, <1>2, <1>8, GroundedEmpty DEF Making
<1>10. DOMAIN verdict = {"prover", "verifier", "replay"} /\ \A r \in DOMAIN verdict : verdict[r] = "running"
  BY DEF Init
<1> QED BY <1>1, <1>9, <1>10 DEF BInv

\* The proof is published and read by the verifier,
LEMMA MakingEnds ==
  ASSUME BInv, role = "prover", Publish
  PROVE  BInv'
<1>1. /\ Making /\ draws = <<>> /\ DOMAIN verdict = {"prover", "verifier", "replay"}
      /\ \A r \in DOMAIN verdict : verdict[r] = "running"
  BY DEF BInv
<1>2. Whole(protocol, run, mixes, honest', drawn) /\ Altered(proof', honest')
  BY <1>1, MadeWhole
<1>3. /\ verdict' = [verdict EXCEPT !["prover"] = "accepted"] /\ draws' = Put(draws, "prover", drawn)
      /\ role' = "verifier" /\ pc' = 1 /\ digest' = 0 /\ n_draws' = 0 /\ drawn' = <<>>
      /\ protocol' = protocol /\ run' = run /\ mixes' = mixes
  BY DEF Publish, Leave
<1>4. DOMAIN draws' = {"prover"} /\ draws'["prover"] = drawn
  BY <1>1, <1>3 DEF Put
<1>5. protocol \in Protocols /\ Running(protocol, run) /\ Grounded(mixes) /\ "verifier" \in Roles(protocol) \ {"prover"}
  BY <1>1 DEF Making, Roles
<1>6. Earlier(protocol, mixes, proof', draws')
  BY <1>4 DEF Earlier
<1>7. At(protocol, "verifier", mixes, proof', 1, 0, 0, <<>>)
  BY <1>5, AtStart
<1>8. Verdicts(verdict', proof' = honest')
  BY <1>1, <1>3 DEF Verdicts
<1>9. 1 # StepsOf(protocol, "verifier") + 1
  BY <1>5, StepsIn
<1>10. Given'
  BY <1>2, <1>3, <1>4, <1>5, <1>6, <1>7, <1>8, <1>9 DEF Given
<1> QED BY <1>3, <1>10 DEF BInv

\* who leaves it to the next.
LEMMA GivenLeaves ==
  ASSUME Given, role # "done", NEW how, Leave(how, After(role)), UNCHANGED <<proof, honest>>,
         IF proof = honest THEN how = "accepted" ELSE role = "verifier" => how # "accepted"
  PROVE  Given' /\ role' # "prover"
<1>1. /\ protocol \in Protocols /\ role \in Roles(protocol) /\ role # "prover"
      /\ At(protocol, role, mixes, proof, pc, digest, n_draws, drawn)
  BY GivenAt DEF Given
<1>2. /\ verdict' = [verdict EXCEPT ![role] = how] /\ draws' = Put(draws, role, drawn)
      /\ role' = After(role) /\ pc' = 1 /\ digest' = 0 /\ n_draws' = 0 /\ drawn' = <<>>
      /\ protocol' = protocol /\ run' = run /\ mixes' = mixes /\ proof' = proof /\ honest' = honest
  BY DEF Leave
<1>3. After(role) \in (Roles(protocol) \ {"prover", "verifier"}) \cup {"done"}
  BY <1>1 DEF After, Roles
<1>4. /\ DOMAIN draws' = DOMAIN draws \cup {role} /\ draws'[role] = drawn
      /\ \A r \in DOMAIN draws \ {role} : draws'[r] = draws[r]
  BY <1>2 DEF Put
<1>5. "prover" \in DOMAIN draws' /\ draws'["prover"] = draws["prover"]
  BY <1>1, <1>4 DEF Given
<1>6. Earlier(protocol, mixes, proof, draws')
  <2>1. ASSUME NEW r \in DOMAIN draws' \ {"prover"} PROVE Justified(protocol, mixes, proof, draws'[r])
    <3>1. CASE r = role
      <4>1. Justified(protocol, mixes, proof, drawn)
        BY <1>1 DEF At, DrewTo, Justified
      <4> QED BY <1>4, <3>1, <4>1
    <3>2. CASE r # role
      <4>1. r \in DOMAIN draws \ {"prover"} /\ draws'[r] = draws[r]
        BY <1>4, <3>2
      <4>2. Justified(protocol, mixes, proof, draws[r])
        BY <4>1 DEF Given, Earlier
      <4> QED BY <4>1, <4>2
    <3> QED BY <3>1, <3>2
  <2> QED BY <2>1 DEF Earlier
<1>7. After(role) # "done" => At(protocol, After(role), mixes, proof, 1, 0, 0, <<>>)
  BY <1>1, <1>3, AtStart
<1>8. Verdicts(verdict', proof = honest)
  <2>1. DOMAIN verdict = {"prover", "verifier", "replay"} /\ role \in DOMAIN verdict
    BY <1>1 DEF Given, Verdicts, Roles
  <2>2. DOMAIN verdict' = DOMAIN verdict /\ verdict'[role] = how /\ \A r \in DOMAIN verdict \ {role} : verdict'[r] = verdict[r]
    BY <1>2, <2>1
  <2>3. CASE proof = honest
    <3>1. \A r \in DOMAIN verdict : verdict[r] \in {"running", "accepted"}
      BY <2>3 DEF Given, Verdicts
    <3>2. how = "accepted"
      BY <2>3
    <3> QED BY <2>1, <2>2, <2>3, <3>1, <3>2 DEF Verdicts
  <2>4. CASE proof # honest
    <3>1. verdict["verifier"] # "accepted"
      BY <2>4 DEF Given, Verdicts
    <3>2. role = "verifier" => how # "accepted"
      BY <2>4
    <3> QED BY <2>1, <2>2, <2>4, <3>1, <3>2 DEF Verdicts
  <2> QED BY <2>3, <2>4
<1> QED BY <1>2, <1>3, <1>5, <1>6, <1>7, <1>8 DEF Given

LEMMA GivenFails ==
  ASSUME Given, CheckFails
  PROVE  Given' /\ role' # "prover"
<1>1. role # "done" /\ Doing("check") /\ ~ Holds(Step.what) /\ Leave(Step.what, After(role)) /\ UNCHANGED <<proof, honest>>
  BY DEF CheckFails, Doing
<1>2. proof # honest
  BY <1>1, UnalteredHolds DEF Unaltered
<1>3. Step.what # "accepted"
  <2>1. CheckFact(protocol, role, pc) /\ Step = PlanOf(protocol, role)[pc] /\ Step.do = "check"
    BY <1>1, GivenAt, StepIs DEF Given
  <2> QED BY <2>1 DEF CheckFact
<1> QED BY <1>1, <1>2, <1>3, GivenLeaves

LEMMA GivenEnds ==
  ASSUME Given, Finish
  PROVE  Given' /\ role' # "prover"
<1>1. role # "done" /\ pc > Len(Script) /\ Leave("accepted", After(role)) /\ UNCHANGED <<proof, honest>>
  BY DEF Finish
<1>2. role = "verifier" => proof = honest
  <2> SUFFICES ASSUME role = "verifier" PROVE proof = honest
    OBVIOUS
  <2>1. /\ role \in Roles(protocol) /\ pc \in 1 .. StepsOf(protocol, role) + 1 /\ StepsOf(protocol, role) \in Nat
        /\ Len(Script) = StepsOf(protocol, role)
    BY <1>1, GivenAt, ScriptIs DEF Given
  <2>2. pc = StepsOf(protocol, role) + 1
    BY <1>1, <2>1
  <2>3. Done(protocol, role)[pc] = PieceCount(protocol)
    BY <2>1, <2>2, StepsIn DEF Given
  <2>4. Comes(protocol, mixes, proof, PieceCount(protocol), digest) /\ digest = proof["opening"]
    BY <1>1, <2>2, <2>3 DEF Given, At
  <2> QED BY <2>4, OpeningBinds DEF Given
<1> QED BY <1>1, <1>2, GivenLeaves

\* Every step keeps the invariant.
LEMMA BInvNext == BInv /\ [Next]_vars => BInv'
<1> SUFFICES ASSUME BInv, [Next]_vars PROVE BInv'
  OBVIOUS
<1>1. CASE role = "prover"
  <2>1. /\ Making /\ honest = <<>> /\ draws = <<>> /\ DOMAIN verdict = {"prover", "verifier", "replay"}
        /\ \A r \in DOMAIN verdict : verdict[r] = "running"
    BY <1>1 DEF BInv
  <2>2. CASE MixStep
    <3>1. Grounded(mixes') /\ Makes(protocol, run, mixes', proof', pc', digest', n_draws', drawn')
      BY <2>1, <2>2, MakingMixes
    <3>2. UNCHANGED <<protocol, run, role, honest, draws, verdict>>
      BY <2>2 DEF MixStep
    <3> QED BY <1>1, <2>1, <3>1, <3>2 DEF BInv, Making
  <2>3. CASE Grind
    <3>1. Grounded(mixes') /\ Makes(protocol, run, mixes', proof', pc', digest', n_draws', drawn')
      BY <2>1, <2>3, MakingGrinds
    <3>2. UNCHANGED <<protocol, run, role, honest, draws, verdict>>
      BY <2>3 DEF Grind
    <3> QED BY <1>1, <2>1, <3>1, <3>2 DEF BInv, Making
  <2>4. CASE DrawStep
    <3>1. Makes(protocol, run, mixes', proof', pc', digest', n_draws', drawn')
      BY <2>1, <2>4, MakingDraws
    <3>2. UNCHANGED <<protocol, run, mixes, role, honest, draws, verdict>>
      BY <2>4 DEF DrawStep
    <3> QED BY <1>1, <2>1, <3>1, <3>2 DEF BInv, Making
  <2>5. CASE Publish
    BY <1>1, <2>5, MakingEnds
  <2>6. CASE UNCHANGED vars
    BY <1>1, <2>1, <2>6 DEF BInv, Making, vars
  <2>7. ~ SkipTree /\ ~ CheckStep /\ ~ CheckFails /\ ~ Finish
    BY <2>1, MakingOnly
  <2> QED BY <2>2, <2>3, <2>4, <2>5, <2>6, <2>7 DEF Next
<1>2. CASE role # "prover"
  <2>1. Given
    BY <1>2 DEF BInv
  <2>2. CASE MixStep
    BY <1>2, <2>1, <2>2, GivenMixes DEF BInv, MixStep
  <2>3. CASE SkipTree
    BY <1>2, <2>1, <2>3, GivenSkips DEF BInv, SkipTree
  <2>4. CASE DrawStep
    BY <1>2, <2>1, <2>4, GivenDraws DEF BInv, DrawStep
  <2>5. CASE CheckStep
    BY <1>2, <2>1, <2>5, GivenChecks DEF BInv, CheckStep
  <2>6. CASE CheckFails
    BY <2>1, <2>6, GivenFails DEF BInv
  <2>7. CASE Finish
    BY <2>1, <2>7, GivenEnds DEF BInv
  <2>8. ~ Publish
    BY <1>2 DEF Publish
  <2>9. ~ Grind
    <3> SUFFICES ASSUME Grind PROVE FALSE
      OBVIOUS
    <3>1. role # "done" /\ Doing("pow")
      BY DEF Grind, Doing
    <3>2. StepFact(protocol, role, pc) /\ Step = PlanOf(protocol, role)[pc] /\ Step.do = "pow"
      BY <2>1, <3>1, GivenAt, StepIs DEF Given
    <3> QED BY <1>2, <3>2 DEF StepFact
  <2>10. CASE UNCHANGED vars
    BY <1>2, <2>1, <2>10 DEF BInv, Given, vars
  <2> QED BY <2>2, <2>3, <2>4, <2>5, <2>6, <2>7, <2>8, <2>9, <2>10 DEF Next
<1> QED BY <1>1, <1>2

LEMMA BInvBinds == BInv => DrawsBind
<1> SUFFICES ASSUME BInv PROVE DrawsBind
  OBVIOUS
<1>1. CASE role = "prover"
  <2>1. DOMAIN draws = {}
    BY <1>1 DEF BInv
  <2> QED BY <2>1 DEF DrawsBind
<1>2. CASE role # "prover"
  <2>1. Given
    BY <1>2 DEF BInv
  <2>2. ASSUME NEW r \in DOMAIN draws \ {"prover"}, NEW name \in DOMAIN draws[r], draws[r][name] = draws["prover"][name],
               NEW p \in Before(name)
        PROVE  proof[p] = honest[p]
    <3>1. name \in DrawsOf(protocol) /\ DrewAt(protocol, mixes, proof, name, draws[r][name])
      BY <2>1 DEF Given, Earlier, Justified
    <3> DEFINE dr == draws["prover"]
    <3>2. DrewAt(protocol, mixes, proof, name, dr[name])
      BY <2>2, <3>1
    <3>3. p \in PiecesOf(protocol) /\ PlaceOfPiece(protocol, p) <= Depth(protocol, name)
      BY <2>1, <3>1, BeforeIs DEF Given
    <3>4. /\ protocol \in Protocols /\ Running(protocol, run) /\ Grounded(mixes)
          /\ Whole(protocol, run, mixes, honest, dr) /\ Altered(proof, honest)
      BY <2>1 DEF Given
    <3> HIDE DEF dr
    <3> QED BY <3>1, <3>2, <3>3, <3>4, DrawBinds
  <2> QED BY <2>2 DEF DrawsBind
<1> QED BY <1>1, <1>2

LEMMA BInvAccepts == BInv => AcceptedExactly
<1> SUFFICES ASSUME BInv, honest # <<>> PROVE AcceptedExactly
  BY DEF AcceptedExactly
<1>1. role # "prover"
  BY DEF BInv
<1>2. Verdicts(verdict, proof = honest)
  BY <1>1 DEF BInv, Given
<1> QED BY <1>2 DEF Verdicts, AcceptedExactly

\* In every run of either protocol, whatever the tables, the statements and the one
\* altered piece, a reader's draw that equals the prover's was made after the very pieces
\* the prover mixed before its own (air/prover.rs, air/verifier.rs, recursion/prover.rs).
THEOREM DrawsBindAlways == Spec => []DrawsBind
<1>1. Spec => []BInv
  BY BInvInit, BInvNext, PTL DEF Spec
<1> QED BY <1>1, BInvBinds, PTL

\* No reader rejects a proof as its prover left it, and the verifier accepts no proof of
\* which one piece was altered (air/verifier.rs, air/transcript.rs, recursion/prover.rs).
THEOREM AcceptedExactlyAlways == Spec => []AcceptedExactly
<1>1. Spec => []BInv
  BY BInvInit, BInvNext, PTL DEF Spec
<1> QED BY <1>1, BInvAccepts, PTL

=============================================================================
