-------------------------- MODULE TranscriptProofs --------------------------
(***************************************************************************)
(* Proofs about Transcript.                                                *)
(***************************************************************************)
EXTENDS Transcript, SpongeProofs

-----------------------------------------------------------------------------
(* What the assumption says of the statements and the tables, part by part.  *)

LEMMA NumbersAre ==
  Half \in Nat \ {0, 1} /\ NRelations \in Nat \ {0} /\ NonceBound \in Nat \ {0, 1}
  BY TranscriptAssumption

LEMMA StatementsAre ==
  /\ \A d \in Statements["rv32im"] : d \in PublicData
  /\ \A log \in LogSizes["rv32im"] : log \in Seq(Nat) /\ Len(log) = Len(TraceComponents) + Len(LookupComponents)
  /\ \A log \in LogSizes["recursion"] : log \in Seq(Nat) /\ Len(log) = 9
  BY TranscriptAssumption

LEMMA TablesAre ==
  /\ TraceComponents \in Seq(DOMAIN Width) /\ LookupComponents \in Seq(DOMAIN Width)
  /\ \A c \in DOMAIN Width : Width[c] \in Nat /\ Fractions[c] \in Nat
<1>1. Width \in [DOMAIN Width -> Nat] /\ Fractions \in [DOMAIN Width -> Nat]
  BY TranscriptAssumption
<1>2. TraceComponents \in Seq(DOMAIN Width) /\ LookupComponents \in Seq(DOMAIN Width)
  BY TranscriptAssumption
<1> QED BY <1>1, <1>2

-----------------------------------------------------------------------------
(* The ideal hash.  A table only grows, and a pair keeps its place in it.    *)

Extends(u, t) == Len(t) <= Len(u) /\ \A i \in 1 .. Len(t) : u[i] = t[i]

\* The place of a known pair is the first that holds it.
LEMMA PlaceOf ==
  ASSUME NEW t, Len(t) \in Nat, NEW pair, Known(t, pair)
  PROVE  /\ IdOf(t, pair) \in 1 .. Len(t)
         /\ t[IdOf(t, pair)] = pair
         /\ \A j \in 1 .. Len(t) : t[j] = pair => IdOf(t, pair) <= j
<1> DEFINE I == {i \in 1 .. Len(t) : t[i] = pair}
<1> DEFINE Less == {ss \in Nat \X Nat : ss[1] < ss[2]}
<1>1. I # {} /\ I \subseteq Nat
  BY DEF Known
<1>2. IsWellFoundedOn(Less, Nat)
  BY NatLessThanWellFounded DEF OpToRel
<1>3. PICK x \in I : \A y \in I : ~ (<<y, x>> \in Less)
  <2> HIDE DEF Less, I
  <2> QED BY <1>1, <1>2, WFMin
<1>4. \A y \in I : x =< y
  <2> TAKE y \in I
  <2>1. x \in Nat /\ y \in Nat
    BY <1>1
  <2>2. y < x => <<y, x>> \in Less
    BY <2>1
  <2> HIDE DEF Less
  <2> QED BY <2>1, <2>2, <1>3
<1>5. IdOf(t, pair) = Min(I)
  BY <1>1 DEF IdOf, SelectInSeq
<1>6. Min(I) \in I /\ \A y \in I : Min(I) =< y
  <2> HIDE DEF I
  <2> QED BY <1>4 DEF Min
<1> QED BY <1>5, <1>6

LEMMA PlaceKept ==
  ASSUME NEW t, IsTable(t), NEW u, IsTable(u), Extends(u, t), NEW pair, Known(t, pair)
  PROVE  Known(u, pair) /\ IdOf(u, pair) = IdOf(t, pair)
<1>1. Len(t) \in Nat /\ Len(u) \in Nat
  BY TableLength
<1>2. Known(u, pair)
  BY <1>1 DEF Known, Extends
<1> QED BY <1>1, <1>2, PlaceOf DEF Extends

\* Hashing a pair adds it at the end.
LEMMA Grown ==
  ASSUME NEW t, IsTable(t), NEW pair
  PROVE  /\ IsTable(Append(t, pair)) /\ Extends(Append(t, pair), t)
         /\ Known(Append(t, pair), pair)
<1>1. PICK S : t \in Seq(S)
  BY DEF IsTable
<1>2. /\ Append(t, pair) \in Seq(S \cup {pair})
      /\ Len(Append(t, pair)) = Len(t) + 1
      /\ \A i \in 1 .. Len(t) : Append(t, pair)[i] = t[i]
      /\ Append(t, pair)[Len(t) + 1] = pair
  BY <1>1, Appended
<1> QED BY <1>1, <1>2 DEF IsTable, Extends, Known

\* Growth is transitive, and a table extends itself.
LEMMA ExtendsChain ==
  ASSUME NEW t, IsTable(t), NEW u, IsTable(u), NEW v, IsTable(v), Extends(u, t), Extends(v, u)
  PROVE  Extends(v, t)
  BY TableLength DEF Extends

LEMMA ExtendsSelf ==
  ASSUME NEW t, IsTable(t)
  PROVE  Extends(t, t)
  BY TableLength DEF Extends

-----------------------------------------------------------------------------
(* Which digest a list of channel calls leads to, in a given table.          *)

Walk(t, d, calls, e, w) ==
  /\ w[0] = d /\ w[Len(calls)] = e
  /\ \A j \in 1 .. Len(calls) : Known(t, <<w[j - 1], calls[j]>>) /\ w[j] = IdOf(t, <<w[j - 1], calls[j]>>)
Leads(t, d, calls, e) == \E w : Walk(t, d, calls, e, w)

\* One digest and one list of calls lead to one digest.
LEMMA LeadsOnce ==
  ASSUME NEW t, NEW d, NEW calls, Len(calls) \in Nat, NEW e, NEW f,
         Leads(t, d, calls, e), Leads(t, d, calls, f)
  PROVE  e = f
<1>1. PICK w : Walk(t, d, calls, e, w)
  BY DEF Leads
<1>2. PICK v : Walk(t, d, calls, f, v)
  BY DEF Leads
<1> DEFINE S == {i \in 0 .. Len(calls) : w[i] = v[i]}
<1>3. 0 \in S
  BY <1>1, <1>2 DEF Walk
<1>4. \A i \in 0 .. Len(calls) - 1 : i \in S => i + 1 \in S
  <2> TAKE i \in 0 .. Len(calls) - 1
  <2> HAVE i \in S
  <2>1. i + 1 \in 1 .. Len(calls) /\ (i + 1) - 1 = i
    OBVIOUS
  <2>2. w[i + 1] = IdOf(t, <<w[i], calls[i + 1]>>) /\ v[i + 1] = IdOf(t, <<v[i], calls[i + 1]>>)
    BY <1>1, <1>2, <2>1 DEF Walk
  <2> QED BY <2>1, <2>2
<1>5. 0 .. Len(calls) \subseteq S
  <2> HIDE DEF S
  <2> QED BY <1>3, <1>4, InductionTo
<1> QED BY <1>1, <1>2, <1>5 DEF Walk

\* What a table says of calls it goes on saying as it grows.
LEMMA LeadsKept ==
  ASSUME NEW t, IsTable(t), NEW u, IsTable(u), Extends(u, t),
         NEW d, NEW calls, NEW e, Leads(t, d, calls, e)
  PROVE  Leads(u, d, calls, e)
<1>1. PICK w : Walk(t, d, calls, e, w)
  BY DEF Leads
<1>2. Walk(u, d, calls, e, w)
  BY <1>1, PlaceKept DEF Walk
<1> QED BY <1>2 DEF Leads

\* mix_words, once.
LEMMA HashedLeads ==
  ASSUME NEW s, IsTable(s.table), NEW words
  PROVE  LET h == Hashed(s, words)
         IN  /\ IsTable(h.table) /\ Extends(h.table, s.table)
             /\ Known(h.table, <<s.digest, words>>)
             /\ h.digest = IdOf(h.table, <<s.digest, words>>)
<1> DEFINE pair == <<s.digest, words>>
<1>1. CASE Known(s.table, pair)
  BY <1>1, ExtendsSelf DEF Hashed
<1>2. CASE ~ Known(s.table, pair)
  <2>1. Hashed(s, words) = [table |-> Append(s.table, pair), digest |-> IdOf(Append(s.table, pair), pair)]
    BY <1>2 DEF Hashed
  <2> QED BY <2>1, Grown
<1> QED BY <1>1, <1>2

\* The loop over the calls of a piece.
LEMMA MixedLoop ==
  ASSUME NEW s, NEW calls, Len(calls) \in Nat
  PROVE  /\ MixedAfter(s, calls)[0] = s
         /\ \A i \in 1 .. Len(calls) : MixedAfter(s, calls)[i] = Hashed(MixedAfter(s, calls)[i - 1], calls[i])
<1> DEFINE Loop(h, n) ==
      h = [i \in 0 .. n |-> IF i = 0 THEN s ELSE Hashed(h[i - 1], calls[i])]
<1> DEFINE S == {n \in Nat : \E h : Loop(h, n)}
<1>1. 0 \in S
  <2>1. Loop([i \in 0 .. 0 |-> s], 0)
    OBVIOUS
  <2> HIDE DEF Loop
  <2> QED BY <2>1
<1>2. ASSUME NEW n \in Nat, n \in S PROVE n + 1 \in S
  <2>1. PICK g : Loop(g, n)
    BY <1>2
  <2> DEFINE h == [i \in 0 .. n + 1 |-> IF i = n + 1 THEN Hashed(g[n], calls[n + 1]) ELSE g[i]]
  <2>2. \A i \in 0 .. n : g[i] = IF i = 0 THEN s ELSE Hashed(g[i - 1], calls[i])
    BY <2>1
  <2>3. \A i \in 0 .. n : h[i] = g[i]
    OBVIOUS
  <2>4. h[n + 1] = Hashed(g[n], calls[n + 1])
    OBVIOUS
  <2>5. \A i \in 0 .. n + 1 : h[i] = IF i = 0 THEN s ELSE Hashed(h[i - 1], calls[i])
    <3> HIDE DEF h
    <3> TAKE i \in 0 .. n + 1
    <3>1. CASE i = n + 1
      BY <3>1, <2>3, <2>4
    <3>2. CASE i # n + 1
      <4>1. i \in 0 .. n /\ (i # 0 => i - 1 \in 0 .. n)
        BY <3>2
      <4> QED BY <4>1, <2>2, <2>3
    <3> QED BY <3>1, <3>2
  <2>6. Loop(h, n + 1)
    BY <2>5
  <2> HIDE DEF Loop
  <2> QED BY <2>6
<1>3. Len(calls) \in S
  <2> HIDE DEF S
  <2> QED BY <1>1, <1>2, Induction
<1>4. \E h : Loop(h, Len(calls))
  BY <1>3
<1>5. MixedAfter(s, calls) = CHOOSE h : Loop(h, Len(calls))
  BY DEF MixedAfter
<1>6. Loop(MixedAfter(s, calls), Len(calls))
  <2> HIDE DEF Loop
  <2> QED BY <1>4, <1>5
<1> QED BY <1>6

\* A piece that is mixed leads from the digest before it to the one after it.
LEMMA MixAllLeads ==
  ASSUME NEW s, IsTable(s.table), NEW calls, Len(calls) \in Nat
  PROVE  LET r == MixAll(s, calls)
         IN  /\ IsTable(r.table) /\ Extends(r.table, s.table)
             /\ Leads(r.table, s.digest, calls, r.digest)
<1> DEFINE h == MixedAfter(s, calls)
<1> DEFINE w == [i \in 0 .. Len(calls) |-> h[i].digest]
<1> DEFINE Sound(i) ==
      /\ IsTable(h[i].table) /\ Extends(h[i].table, s.table)
      /\ \A j \in 1 .. i : /\ Known(h[i].table, <<w[j - 1], calls[j]>>)
                           /\ w[j] = IdOf(h[i].table, <<w[j - 1], calls[j]>>)
<1> DEFINE S == {i \in 0 .. Len(calls) : Sound(i)}
<1>1. h[0] = s /\ \A i \in 1 .. Len(calls) : h[i] = Hashed(h[i - 1], calls[i])
  BY MixedLoop
<1>2. \A i \in 0 .. Len(calls) : w[i] = h[i].digest
  OBVIOUS
<1> HIDE DEF h, w
<1>3. 0 \in S
  BY <1>1, ExtendsSelf
<1>4. \A i \in 0 .. Len(calls) - 1 : i \in S => i + 1 \in S
  <2> TAKE i \in 0 .. Len(calls) - 1
  <2> HAVE i \in S
  <2>1. i + 1 \in 1 .. Len(calls) /\ (i + 1) - 1 = i /\ i \in 0 .. Len(calls) /\ i + 1 \in 0 .. Len(calls)
    OBVIOUS
  <2>2. h[i + 1] = Hashed(h[i], calls[i + 1])
    BY <1>1, <2>1
  <2>3. Sound(i)
    OBVIOUS
  <2>4. /\ IsTable(h[i + 1].table) /\ Extends(h[i + 1].table, h[i].table)
        /\ Known(h[i + 1].table, <<h[i].digest, calls[i + 1]>>)
        /\ h[i + 1].digest = IdOf(h[i + 1].table, <<h[i].digest, calls[i + 1]>>)
    BY <2>2, <2>3, HashedLeads
  <2>5. IsTable(s.table)
    OBVIOUS
  <2>6. Extends(h[i + 1].table, s.table)
    BY <2>3, <2>4, <2>5, ExtendsChain
  <2>7. ASSUME NEW j \in 1 .. i + 1
        PROVE  /\ Known(h[i + 1].table, <<w[j - 1], calls[j]>>)
               /\ w[j] = IdOf(h[i + 1].table, <<w[j - 1], calls[j]>>)
    <3>1. CASE j = i + 1
      BY <3>1, <2>1, <2>4, <1>2
    <3>2. CASE j # i + 1
      <4>1. j \in 1 .. i
        BY <3>2
      <4> QED BY <4>1, <2>3, <2>4, PlaceKept
    <3> QED BY <3>1, <3>2
  <2>8. Sound(i + 1)
    BY <2>4, <2>6, <2>7
  <2> QED BY <2>1, <2>8
<1>5. 0 .. Len(calls) \subseteq S
  <2> HIDE DEF S
  <2> QED BY <1>3, <1>4, InductionTo
<1>6. Sound(Len(calls))
  BY <1>5
<1>7. MixAll(s, calls) = h[Len(calls)]
  BY DEF MixAll, h
<1>8. Walk(h[Len(calls)].table, s.digest, calls, h[Len(calls)].digest, w)
  BY <1>1, <1>2, <1>6 DEF Walk
<1>9. Leads(h[Len(calls)].table, s.digest, calls, h[Len(calls)].digest)
  BY <1>8 DEF Leads
<1> QED BY <1>6, <1>7, <1>9

-----------------------------------------------------------------------------
(* The pieces of an rv32im proof in the order every role mixes them, and the *)
(* digest that a table gives after the first k of them.                      *)

Pieces == <<"public_data", "preprocessed", "main", "claim", "pow", "sums", "interaction_log_sizes",
            "interaction", "composition", "sampled">>

CallsOf(p, v) ==
  CASE p = "public_data" -> MixPublicData(v)
    [] p = "claim" -> MixClaim(v)
    [] p = "pow" -> << U64(v) >>
    [] p = "sums" -> MixClaimedSum(v)
    [] p = "interaction_log_sizes" -> MixInteractionClaim(v)
    [] p = "sampled" -> << << <<"s", v>> >> >>
    [] OTHER -> << << <<"r", v>> >> >>

Missing(pf, p) == p = "interaction" /\ pf["interaction_log_sizes"] = <<>>

\* How piece i leads from digest d to digest e.
Link(t, pf, i, d, e) ==
  IF Missing(pf, Pieces[i]) THEN e = d ELSE Leads(t, d, CallsOf(Pieces[i], pf[Pieces[i]]), e)

Chain(t, pf, k, e, D) == D[0] = 0 /\ D[k] = e /\ \A i \in 1 .. k : Link(t, pf, i, D[i - 1], D[i])
Reached(t, pf, k, e) == \E D : Chain(t, pf, k, e, D)

Sized(pf) == \A i \in 1 .. 10 : Missing(pf, Pieces[i]) \/ Len(CallsOf(Pieces[i], pf[Pieces[i]])) \in Nat

\* CallsOf and Missing are the model's MixesOf and Absent, of an rv32im proof.
LEMMA MixesAre ==
  ASSUME protocol = "rv32im", NEW i \in 1 .. 10, NEW v
  PROVE  MixesOf(Pieces[i], v) = CallsOf(Pieces[i], v)
  BY DEF Pieces, MixesOf, CallsOf

LEMMA AbsentIs ==
  ASSUME protocol = "rv32im", NEW p
  PROVE  Absent(p) <=> Missing(proof, p)
  BY DEF Absent, Missing

\* Reached, piece by piece: before the first ...
LEMMA ReachedStart ==
  ASSUME NEW t, NEW pf
  PROVE  Reached(t, pf, 0, 0)
<1>1. Chain(t, pf, 0, 0, [i \in {0} |-> 0])
  BY DEF Chain
<1> QED BY <1>1 DEF Reached

\* ... over one more ...
LEMMA ReachedNext ==
  ASSUME NEW t, NEW pf, NEW k \in Nat, NEW d, NEW e, Reached(t, pf, k, d), Link(t, pf, k + 1, d, e)
  PROVE  Reached(t, pf, k + 1, e)
<1>1. PICK D : Chain(t, pf, k, d, D)
  BY DEF Reached
<1> DEFINE E == [i \in 0 .. k + 1 |-> IF i = k + 1 THEN e ELSE D[i]]
<1>2. \A i \in 0 .. k : E[i] = D[i]
  OBVIOUS
<1>3. E[k + 1] = e
  OBVIOUS
<1> HIDE DEF E
<1>4. ASSUME NEW i \in 1 .. k + 1 PROVE Link(t, pf, i, E[i - 1], E[i])
  <2>1. CASE i = k + 1
    <3>1. i - 1 = k /\ k \in 0 .. k /\ E[i - 1] = d
      BY <2>1, <1>1, <1>2 DEF Chain
    <3> QED BY <2>1, <3>1, <1>3
  <2>2. CASE i # k + 1
    <3>1. i \in 1 .. k /\ i \in 0 .. k /\ i - 1 \in 0 .. k
      BY <2>2
    <3> QED BY <3>1, <1>1, <1>2 DEF Chain
  <2> QED BY <2>1, <2>2
<1>5. E[0] = 0
  BY <1>1, <1>2 DEF Chain
<1>6. Chain(t, pf, k + 1, e, E)
  BY <1>3, <1>4, <1>5 DEF Chain
<1> QED BY <1>6 DEF Reached

\* ... and back to the one before.
LEMMA ReachedBack ==
  ASSUME NEW t, NEW pf, NEW k \in Nat, NEW e, Reached(t, pf, k + 1, e)
  PROVE  \E d : Reached(t, pf, k, d) /\ Link(t, pf, k + 1, d, e)
<1>1. PICK D : Chain(t, pf, k + 1, e, D)
  BY DEF Reached
<1>2. k + 1 \in 1 .. k + 1 /\ (k + 1) - 1 = k
  OBVIOUS
<1>3. Link(t, pf, k + 1, D[k], e)
  BY <1>1, <1>2 DEF Chain
<1>4. Chain(t, pf, k, D[k], D)
  BY <1>1 DEF Chain
<1> QED BY <1>3, <1>4 DEF Reached

\* Every reader of the same proof meets the same digest after the same piece.
LEMMA ReachedOnce ==
  ASSUME NEW t, NEW pf, Sized(pf), NEW k \in 0 .. 10, NEW e, NEW f, Reached(t, pf, k, e), Reached(t, pf, k, f)
  PROVE  e = f
<1>1. PICK D : Chain(t, pf, k, e, D)
  BY DEF Reached
<1>2. PICK E : Chain(t, pf, k, f, E)
  BY DEF Reached
<1> DEFINE S == {i \in 0 .. k : D[i] = E[i]}
<1>3. 0 \in S
  BY <1>1, <1>2 DEF Chain
<1>4. \A i \in 0 .. k - 1 : i \in S => i + 1 \in S
  <2> TAKE i \in 0 .. k - 1
  <2> HAVE i \in S
  <2>1. i + 1 \in 1 .. k /\ (i + 1) - 1 = i /\ i + 1 \in 1 .. 10
    OBVIOUS
  <2>2. Link(t, pf, i + 1, D[i], D[i + 1]) /\ Link(t, pf, i + 1, D[i], E[i + 1])
    BY <1>1, <1>2, <2>1 DEF Chain
  <2>3. CASE Missing(pf, Pieces[i + 1])
    BY <2>1, <2>2, <2>3 DEF Link
  <2>4. CASE ~ Missing(pf, Pieces[i + 1])
    <3> DEFINE c == CallsOf(Pieces[i + 1], pf[Pieces[i + 1]])
    <3>1. Len(c) \in Nat
      BY <2>1, <2>4 DEF Sized
    <3>2. Leads(t, D[i], c, D[i + 1]) /\ Leads(t, D[i], c, E[i + 1])
      BY <2>2, <2>4 DEF Link
    <3> HIDE DEF c
    <3>3. D[i + 1] = E[i + 1]
      BY <3>1, <3>2, LeadsOnce
    <3> QED BY <2>1, <3>3
  <2> QED BY <2>3, <2>4
<1>5. 0 .. k \subseteq S
  <2> HIDE DEF S
  <2> QED BY <1>3, <1>4, InductionTo
<1> QED BY <1>1, <1>2, <1>5 DEF Chain

\* It stays what it is while others go on hashing.
LEMMA ReachedKept ==
  ASSUME NEW t, IsTable(t), NEW u, IsTable(u), Extends(u, t),
         NEW pf, NEW k \in Nat, NEW e, Reached(t, pf, k, e)
  PROVE  Reached(u, pf, k, e)
<1>1. PICK D : Chain(t, pf, k, e, D)
  BY DEF Reached
<1>2. ASSUME NEW i \in 1 .. k PROVE Link(u, pf, i, D[i - 1], D[i])
  <2>1. Link(t, pf, i, D[i - 1], D[i])
    BY <1>1 DEF Chain
  <2> QED BY <2>1, LeadsKept DEF Link
<1>3. Chain(u, pf, k, e, D)
  BY <1>1, <1>2 DEF Chain
<1> QED BY <1>3 DEF Reached

-----------------------------------------------------------------------------
(* Every piece is mixed by a list of calls.                                  *)

\* The pieces that are lists.
Lists(pf) ==
  /\ "public_data" \in DOMAIN pf => Len(pf["public_data"].output_words) \in Nat
  /\ "claim" \in DOMAIN pf => Len(pf["claim"]) \in Nat
  /\ "sums" \in DOMAIN pf => IsTable(pf["sums"])
  /\ "interaction_log_sizes" \in DOMAIN pf => IsTable(pf["interaction_log_sizes"])

\* The calls that mix a statement, and those that mix table sizes, are finitely many ...
LEMMA PublicDataCalls ==
  ASSUME NEW d, Len(d.output_words) \in Nat
  PROVE  Len(MixPublicData(d)) \in Nat
<1> DEFINE n == Len(d.output_words)
<1> DEFINE tail == [i \in 1 .. n |-> U32s(d.output_words[i])]
<1>1. PICK a, b, c, e, f, g, h, k : MixPublicData(d) = Join(<<a, b, c, e, f, g, h, k>>, tail)
  BY DEF MixPublicData, Join
<1>2. IsTable(tail)
  BY TableOf
<1>3. IsTable(<<a, b, c, e, f, g, h, k>>)
  <2>1. <<a, b, c, e, f, g, h, k>> \in Seq({a, b, c, e, f, g, h, k})
    OBVIOUS
  <2> QED BY <2>1 DEF IsTable
<1> HIDE DEF tail
<1> QED BY <1>1, <1>2, <1>3, Joined

LEMMA InteractionClaimCalls ==
  ASSUME NEW v, Len(v) \in Nat
  PROVE  Len(MixInteractionClaim(v)) \in Nat
<1> DEFINE tail == [i \in 1 .. Len(v) |-> U64(v[i])]
<1>1. MixInteractionClaim(v) = Join(<< U64(Len(v)) >>, tail)
  BY DEF MixInteractionClaim, Join
<1>2. IsTable(tail)
  BY TableOf
<1>3. IsTable(<< U64(Len(v)) >>)
  <2>1. << U64(Len(v)) >> \in Seq({U64(Len(v))})
    OBVIOUS
  <2> QED BY <2>1 DEF IsTable
<1> HIDE DEF tail
<1> QED BY <1>1, <1>2, <1>3, Joined

\* ... and so are those of every piece.
LEMMA CallsSized ==
  ASSUME NEW pf, Lists(pf), NEW i \in 1 .. 10, Pieces[i] \in DOMAIN pf
  PROVE  Len(CallsOf(Pieces[i], pf[Pieces[i]])) \in Nat
<1> DEFINE p == Pieces[i]
<1>1. CASE p = "public_data"
  BY <1>1, PublicDataCalls DEF Lists, CallsOf
<1>2. CASE p = "claim"
  BY <1>2 DEF Lists, CallsOf, MixClaim
<1>3. CASE p = "sums"
  <2>1. Len(pf["sums"]) \in Nat
    BY <1>3, TableLength DEF Lists
  <2> QED BY <1>3, <2>1 DEF CallsOf, MixClaimedSum
<1>4. CASE p = "interaction_log_sizes"
  BY <1>4, TableLength, InteractionClaimCalls DEF Lists, CallsOf
<1>5. CASE p \notin {"public_data", "claim", "sums", "interaction_log_sizes"}
  BY <1>5 DEF CallsOf
<1> QED BY <1>1, <1>2, <1>3, <1>4, <1>5

-----------------------------------------------------------------------------
(* The scripts of the two readers of an rv32im proof, step by step.          *)

VerifierPlan ==
  << Mix("public_data"), Mix("preprocessed"), Mix("main"), Mix("claim"), Check("pow"), Mix("pow"),
     Draw("relations", NRelations), Mix("sums"), Mix("interaction_log_sizes"), Mix("interaction"), Check("logup"),
     Draw("random_coeff", 1), Mix("composition"), Draw("oods", 1), Check("masks"), Check("oods"),
     Mix("sampled"), Check("opening") >>
ReplayPlan ==
  << Mix("public_data"), Mix("preprocessed"), Mix("main"), Mix("claim"), Check("pow"), Mix("pow"),
     Draw("relations", NRelations), Mix("sums"), Mix("interaction_log_sizes"), Mix("interaction"),
     Draw("random_coeff", 1), Mix("composition"), Draw("oods", 1), Check("masks"), Check("oods") >>
ProverPlan ==
  << Mix("public_data"), Mix("preprocessed"), Mix("main"), Mix("claim"), Pow, Draw("relations", NRelations),
     Mix("sums"), Mix("interaction_log_sizes"), Mix("interaction"), Draw("random_coeff", 1), Mix("composition"),
     Draw("oods", 1), Mix("sampled") >>

\* s is the part of the plan from `from` on, of n steps.
Along(s, plan, from, n) == IsTable(s) /\ Len(s) = n /\ \A j \in 1 .. n : s[j] = plan[from + j]

\* Two parts of a plan that follow one another make one part.
LEMMA AlongJoined ==
  ASSUME NEW plan, NEW m \in Nat, NEW n \in Nat, NEW s, NEW t, Along(s, plan, 0, m), Along(t, plan, m, n)
  PROVE  Along(Join(s, t), plan, 0, m + n)
<1> DEFINE u == Join(s, t)
<1>1. /\ IsTable(u) /\ Len(u) = m + n
      /\ \A j \in 1 .. m + n : u[j] = IF j <= m THEN s[j] ELSE t[j - m]
  BY Joined DEF Along
<1> HIDE DEF u
<1>2. ASSUME NEW j \in 1 .. m + n PROVE u[j] = plan[j]
  <2>1. CASE j <= m
    BY <2>1, <1>1 DEF Along
  <2>2. CASE ~ (j <= m)
    <3>1. j - m \in 1 .. n /\ m + (j - m) = j
      BY <2>2
    <3>2. t[j - m] = plan[m + (j - m)]
      BY <3>1 DEF Along
    <3> QED BY <2>2, <3>1, <3>2, <1>1
  <2> QED BY <2>1, <2>2
<1>3. Along(u, plan, 0, m + n)
  BY <1>1, <1>2 DEF Along
<1> QED BY <1>3 DEF u

\* The parts the scripts are made of, with their lengths.
LEMMA Parts ==
  /\ IsTable(ReplayClaimPhase) /\ Len(ReplayClaimPhase) = 10
  /\ IsTable(ProveRv32im) /\ Len(ProveRv32im) = 9
  /\ IsTable(StarkTail) /\ Len(StarkTail) = 3
  /\ IsTable(Openings) /\ Len(Openings) = 2
  /\ IsTable(TranscriptTail) /\ Len(TranscriptTail) = 5
  /\ \A x : IsTable(<<x>>) /\ Len(<<x>>) = 1
  /\ \A x, y : IsTable(<<x, y>>) /\ Len(<<x, y>>) = 2
<1>1. IsTable(ReplayClaimPhase) /\ Len(ReplayClaimPhase) = 10
  <2>1. PICK a, b, c, e, f, g, h, k, m, n : ReplayClaimPhase = <<a, b, c, e, f, g, h, k, m, n>>
    BY DEF ReplayClaimPhase
  <2>2. <<a, b, c, e, f, g, h, k, m, n>> \in Seq({a, b, c, e, f, g, h, k, m, n}) /\ Len(<<a, b, c, e, f, g, h, k, m, n>>) = 10
    OBVIOUS
  <2> QED BY <2>1, <2>2 DEF IsTable
<1>2. IsTable(ProveRv32im) /\ Len(ProveRv32im) = 9
  <2>1. PICK a, b, c, e, f, g, h, k, m : ProveRv32im = <<a, b, c, e, f, g, h, k, m>>
    BY DEF ProveRv32im
  <2>2. <<a, b, c, e, f, g, h, k, m>> \in Seq({a, b, c, e, f, g, h, k, m}) /\ Len(<<a, b, c, e, f, g, h, k, m>>) = 9
    OBVIOUS
  <2> QED BY <2>1, <2>2 DEF IsTable
<1>3. IsTable(StarkTail) /\ Len(StarkTail) = 3
  <2>1. PICK a, b, c : StarkTail = <<a, b, c>>
    BY DEF StarkTail
  <2>2. <<a, b, c>> \in Seq({a, b, c}) /\ Len(<<a, b, c>>) = 3
    OBVIOUS
  <2> QED BY <2>1, <2>2 DEF IsTable
<1>4. IsTable(Openings) /\ Len(Openings) = 2
  <2>1. PICK a, b : Openings = <<a, b>>
    BY DEF Openings
  <2>2. <<a, b>> \in Seq({a, b}) /\ Len(<<a, b>>) = 2
    OBVIOUS
  <2> QED BY <2>1, <2>2 DEF IsTable
<1>5. IsTable(TranscriptTail) /\ Len(TranscriptTail) = 5
  <2>1. PICK a, b, c, e, f : TranscriptTail = <<a, b, c, e, f>>
    BY DEF TranscriptTail
  <2>2. <<a, b, c, e, f>> \in Seq({a, b, c, e, f}) /\ Len(<<a, b, c, e, f>>) = 5
    OBVIOUS
  <2> QED BY <2>1, <2>2 DEF IsTable
<1>6. \A x : <<x>> \in Seq({x}) /\ Len(<<x>>) = 1
  OBVIOUS
<1>7. \A x, y : <<x, y>> \in Seq({x, y}) /\ Len(<<x, y>>) = 2
  OBVIOUS
<1> QED BY <1>1, <1>2, <1>3, <1>4, <1>5, <1>6, <1>7 DEF IsTable

\* The model's scripts are the plans above: the verifier's,
LEMMA VerifierScript ==
  ASSUME role = "verifier", protocol = "rv32im"
  PROVE  Len(Script) = 18 /\ \A j \in 1 .. 18 : Script[j] = VerifierPlan[j]
<1> DEFINE P == VerifierPlan
<1> DEFINE a == ReplayClaimPhase
<1> DEFINE b == << Check("logup") >>
<1> DEFINE c == StarkTail
<1> DEFINE d == << Check("masks"), Check("oods") >>
<1> DEFINE e == Openings
<1>1. Along(a, P, 0, 10)
  <2>1. IsTable(a) /\ Len(a) = 10
    BY Parts
  <2>2. \A j \in 1 .. 10 : a[j] = P[0 + j]
    BY DEF ReplayClaimPhase, VerifierPlan
  <2> QED BY <2>1, <2>2 DEF Along
<1>2. Along(b, P, 10, 1)
  <2>1. IsTable(b) /\ Len(b) = 1
    BY Parts
  <2>2. \A j \in 1 .. 1 : b[j] = P[10 + j]
    BY DEF VerifierPlan
  <2> QED BY <2>1, <2>2 DEF Along
<1>3. Along(c, P, 11, 3)
  <2>1. IsTable(c) /\ Len(c) = 3
    BY Parts
  <2>2. \A j \in 1 .. 3 : c[j] = P[11 + j]
    BY DEF StarkTail, VerifierPlan
  <2> QED BY <2>1, <2>2 DEF Along
<1>4. Along(d, P, 14, 2)
  <2>1. IsTable(d) /\ Len(d) = 2
    BY Parts
  <2>2. \A j \in 1 .. 2 : d[j] = P[14 + j]
    BY DEF VerifierPlan
  <2> QED BY <2>1, <2>2 DEF Along
<1>5. Along(e, P, 16, 2)
  <2>1. IsTable(e) /\ Len(e) = 2
    BY Parts
  <2>2. \A j \in 1 .. 2 : e[j] = P[16 + j]
    BY DEF Openings, VerifierPlan
  <2> QED BY <2>1, <2>2 DEF Along
<1>6. Script = Join(Join(Join(Join(a, b), c), d), e)
  BY DEF Script, Join
<1> HIDE DEF P, a, b, c, d, e
<1>7. Along(Join(a, b), P, 0, 10 + 1)
  BY <1>1, <1>2, AlongJoined
<1>8. Along(Join(a, b), P, 0, 11)
  BY <1>7
<1>9. Along(Join(Join(a, b), c), P, 0, 11 + 3)
  BY <1>8, <1>3, AlongJoined
<1>10. Along(Join(Join(a, b), c), P, 0, 14)
  BY <1>9
<1>11. Along(Join(Join(Join(a, b), c), d), P, 0, 14 + 2)
  BY <1>10, <1>4, AlongJoined
<1>12. Along(Join(Join(Join(a, b), c), d), P, 0, 16)
  BY <1>11
<1>13. Along(Join(Join(Join(Join(a, b), c), d), e), P, 0, 16 + 2)
  BY <1>12, <1>5, AlongJoined
<1>14. Along(Join(Join(Join(Join(a, b), c), d), e), P, 0, 18)
  BY <1>13
<1> QED BY <1>6, <1>14 DEF P, Along

\* the replay's,
LEMMA ReplayScript ==
  ASSUME role = "replay"
  PROVE  Len(Script) = 15 /\ \A j \in 1 .. 15 : Script[j] = ReplayPlan[j]
<1> DEFINE P == ReplayPlan
<1> DEFINE a == ReplayClaimPhase
<1> DEFINE b == TranscriptTail
<1>1. Along(a, P, 0, 10)
  <2>1. IsTable(a) /\ Len(a) = 10
    BY Parts
  <2>2. \A j \in 1 .. 10 : a[j] = P[0 + j]
    BY DEF ReplayClaimPhase, ReplayPlan
  <2> QED BY <2>1, <2>2 DEF Along
<1>2. Along(b, P, 10, 5)
  <2>1. IsTable(b) /\ Len(b) = 5
    BY Parts
  <2>2. \A j \in 1 .. 5 : b[j] = P[10 + j]
    BY DEF TranscriptTail, ReplayPlan
  <2> QED BY <2>1, <2>2 DEF Along
<1>3. Script = Join(a, b)
  BY DEF Script, Join
<1> HIDE DEF P, a, b
<1>4. Along(Join(a, b), P, 0, 10 + 5)
  BY <1>1, <1>2, AlongJoined
<1>5. Along(Join(a, b), P, 0, 15)
  BY <1>4
<1> QED BY <1>3, <1>5 DEF P, Along

\* and the prover's.
LEMMA ProverScript ==
  ASSUME role = "prover", protocol = "rv32im"
  PROVE  Len(Script) = 13 /\ \A j \in 1 .. 13 : Script[j] = ProverPlan[j]
<1> DEFINE P == ProverPlan
<1> DEFINE a == ProveRv32im
<1> DEFINE b == StarkTail
<1> DEFINE c == << Mix("sampled") >>
<1>1. Along(a, P, 0, 9)
  <2>1. IsTable(a) /\ Len(a) = 9
    BY Parts
  <2>2. \A j \in 1 .. 9 : a[j] = P[0 + j]
    BY DEF ProveRv32im, ProverPlan
  <2> QED BY <2>1, <2>2 DEF Along
<1>2. Along(b, P, 9, 3)
  <2>1. IsTable(b) /\ Len(b) = 3
    BY Parts
  <2>2. \A j \in 1 .. 3 : b[j] = P[9 + j]
    BY DEF StarkTail, ProverPlan
  <2> QED BY <2>1, <2>2 DEF Along
<1>3. Along(c, P, 12, 1)
  <2>1. IsTable(c) /\ Len(c) = 1
    BY Parts
  <2>2. \A j \in 1 .. 1 : c[j] = P[12 + j]
    BY DEF ProverPlan
  <2> QED BY <2>1, <2>2 DEF Along
<1>4. Script = Join(Join(a, b), c)
  BY DEF Script, Join
<1> HIDE DEF P, a, b, c
<1>5. Along(Join(a, b), P, 0, 9 + 3)
  BY <1>1, <1>2, AlongJoined
<1>6. Along(Join(a, b), P, 0, 12)
  BY <1>5
<1>7. Along(Join(Join(a, b), c), P, 0, 12 + 1)
  BY <1>6, <1>3, AlongJoined
<1>8. Along(Join(Join(a, b), c), P, 0, 13)
  BY <1>7
<1> QED BY <1>4, <1>8 DEF P, Along

-----------------------------------------------------------------------------
(* What a reader has done when it is about to take step k of its plan.       *)

Readers == {"verifier", "replay"}
DrawNames == {"relations", "random_coeff", "oods"}

Plan(r) == IF r = "verifier" THEN VerifierPlan ELSE ReplayPlan
PlanLength(r) == IF r = "verifier" THEN 18 ELSE 15

\* How many pieces are mixed before step k, and before a draw.
Mixed(r) == IF r = "verifier" THEN <<0, 1, 2, 3, 4, 4, 5, 5, 6, 7, 8, 8, 8, 9, 9, 9, 9, 10, 10>>
            ELSE <<0, 1, 2, 3, 4, 4, 5, 5, 6, 7, 8, 8, 9, 9, 9, 9>>
MixedBefore(name) == IF name = "relations" THEN 5 ELSE IF name = "random_coeff" THEN 8 ELSE 9
DrawAt(r, name) == IF name = "relations" THEN 7
                   ELSE IF name = "random_coeff" THEN (IF r = "verifier" THEN 12 ELSE 11)
                   ELSE (IF r = "verifier" THEN 14 ELSE 13)

\* The steps before which no draw was taken since the last mix.
Undrawn(r) == IF r = "verifier" THEN {7, 10, 11, 12, 14} ELSE {7, 10, 11, 13}

Drew(t, pf, dr) ==
  \A name \in DOMAIN dr : name \in DrawNames /\ \E e : dr[name] = <<e, 0>> /\ Reached(t, pf, MixedBefore(name), e)

Reading(r, t, pf, k, d, n, dr) ==
  /\ k \in 1 .. PlanLength(r) + 1
  /\ Reached(t, pf, Mixed(r)[k], d)
  /\ k \in Undrawn(r) => n = 0
  /\ Drew(t, pf, dr)
  /\ \A name \in DrawNames : DrawAt(r, name) < k => name \in DOMAIN dr

PlanFact(r, k) ==
  LET step == Plan(r)[k]
  IN  /\ step.do \in {"mix", "draw", "check"}
      /\ Mixed(r)[k] \in 0 .. 10
      /\ step.do = "mix" => /\ Mixed(r)[k] \in 0 .. 9 /\ step.what = Pieces[Mixed(r)[k] + 1]
                            /\ Mixed(r)[k + 1] = Mixed(r)[k] + 1
      /\ step.do # "mix" => Mixed(r)[k + 1] = Mixed(r)[k]
      /\ step.do = "draw" => /\ step.what \in DrawNames /\ MixedBefore(step.what) = Mixed(r)[k]
                             /\ k = DrawAt(r, step.what) /\ k \in Undrawn(r)
      /\ \A name \in DrawNames : DrawAt(r, name) = k => step.do = "draw" /\ step.what = name
      /\ k + 1 \in Undrawn(r) => step.do = "mix" \/ (k \in Undrawn(r) /\ step.do = "check")
      /\ step.do = "mix" /\ step.what = "interaction" => k \in Undrawn(r)

\* Every step of the two plans is as PlanFact says.
LEMMA VerifierFacts ==
  ASSUME NEW k \in 1 .. 18
  PROVE  PlanFact("verifier", k)
<1> USE DEF PlanFact, Plan, VerifierPlan, Mix, Draw, Check, Mixed, MixedBefore, DrawAt, DrawNames, Undrawn, Pieces
<1>1. CASE k = 1
  BY <1>1
<1>2. CASE k = 2
  BY <1>2
<1>3. CASE k = 3
  BY <1>3
<1>4. CASE k = 4
  BY <1>4
<1>5. CASE k = 5
  BY <1>5
<1>6. CASE k = 6
  BY <1>6
<1>7. CASE k = 7
  BY <1>7
<1>8. CASE k = 8
  BY <1>8
<1>9. CASE k = 9
  BY <1>9
<1>10. CASE k = 10
  BY <1>10
<1>11. CASE k = 11
  BY <1>11
<1>12. CASE k = 12
  BY <1>12
<1>13. CASE k = 13
  BY <1>13
<1>14. CASE k = 14
  BY <1>14
<1>15. CASE k = 15
  BY <1>15
<1>16. CASE k = 16
  BY <1>16
<1>17. CASE k = 17
  BY <1>17
<1>18. CASE k = 18
  BY <1>18
<1> HIDE DEF PlanFact, Plan, VerifierPlan, Mix, Draw, Check, Mixed, MixedBefore, DrawAt, DrawNames, Undrawn, Pieces
<1> QED BY <1>1, <1>2, <1>3, <1>4, <1>5, <1>6, <1>7, <1>8, <1>9, <1>10, <1>11, <1>12, <1>13, <1>14, <1>15, <1>16, <1>17, <1>18

LEMMA ReplayFacts ==
  ASSUME NEW k \in 1 .. 15
  PROVE  PlanFact("replay", k)
<1> USE DEF PlanFact, Plan, ReplayPlan, Mix, Draw, Check, Mixed, MixedBefore, DrawAt, DrawNames, Undrawn, Pieces
<1>1. CASE k = 1
  BY <1>1
<1>2. CASE k = 2
  BY <1>2
<1>3. CASE k = 3
  BY <1>3
<1>4. CASE k = 4
  BY <1>4
<1>5. CASE k = 5
  BY <1>5
<1>6. CASE k = 6
  BY <1>6
<1>7. CASE k = 7
  BY <1>7
<1>8. CASE k = 8
  BY <1>8
<1>9. CASE k = 9
  BY <1>9
<1>10. CASE k = 10
  BY <1>10
<1>11. CASE k = 11
  BY <1>11
<1>12. CASE k = 12
  BY <1>12
<1>13. CASE k = 13
  BY <1>13
<1>14. CASE k = 14
  BY <1>14
<1>15. CASE k = 15
  BY <1>15
<1> HIDE DEF PlanFact, Plan, ReplayPlan, Mix, Draw, Check, Mixed, MixedBefore, DrawAt, DrawNames, Undrawn, Pieces
<1> QED BY <1>1, <1>2, <1>3, <1>4, <1>5, <1>6, <1>7, <1>8, <1>9, <1>10, <1>11, <1>12, <1>13, <1>14, <1>15

-----------------------------------------------------------------------------
(* A step of a reader of an rv32im proof.                                    *)

IsMap(f) == f = [x \in DOMAIN f |-> f[x]]

\* Replacing one piece of a proof leaves the others; putting a piece back changes nothing.
LEMMA PutIn ==
  ASSUME NEW f, NEW p, NEW v
  PROVE  /\ IsMap(Put(f, p, v))
         /\ DOMAIN Put(f, p, v) = DOMAIN f \cup {p}
         /\ Put(f, p, v)[p] = v
         /\ \A x \in DOMAIN f \ {p} : Put(f, p, v)[x] = f[x]
  BY DEF IsMap, Put

LEMMA PutBack ==
  ASSUME NEW f, IsMap(f), NEW p \in DOMAIN f
  PROVE  Put(f, p, f[p]) = f
<1>1. \A x \in DOMAIN f \cup {p} : (IF x = p THEN f[p] ELSE f[x]) = f[x]
  OBVIOUS
<1> QED BY <1>1 DEF Put, IsMap

Full(pf) == \A i \in 1 .. 10 : Pieces[i] \in DOMAIN pf \/ Missing(pf, Pieces[i])

\* A proof with all its pieces is mixed by finitely many calls.
LEMMA FullSized ==
  ASSUME NEW pf, Lists(pf), Full(pf)
  PROVE  Sized(pf)
  BY CallsSized DEF Full, Sized

\* Both readers follow their plan.
LEMMA ReaderScript ==
  ASSUME role \in Readers, protocol = "rv32im"
  PROVE  Len(Script) = PlanLength(role) /\ \A j \in 1 .. PlanLength(role) : Script[j] = Plan(role)[j] /\ PlanFact(role, j)
<1>1. CASE role = "verifier"
  BY <1>1, VerifierScript, VerifierFacts DEF PlanLength, Plan
<1>2. CASE role = "replay"
  BY <1>2, ReplayScript, ReplayFacts DEF PlanLength, Plan
<1> QED BY <1>1, <1>2 DEF Readers

\* What holds while an rv32im proof is read.
Reader ==
  /\ role \in Readers /\ protocol = "rv32im"
  /\ IsTable(mixes) /\ IsMap(proof) /\ Lists(proof) /\ Full(proof)
  /\ Reading(role, mixes, proof, pc, digest, n_draws, drawn)

\* What was drawn stays justified as the table grows.
LEMMA DrewKept ==
  ASSUME NEW t, IsTable(t), NEW u, IsTable(u), Extends(u, t), NEW pf, NEW dr, Drew(t, pf, dr)
  PROVE  Drew(u, pf, dr)
<1>1. \A name \in DOMAIN dr : MixedBefore(name) \in Nat
  BY DEF MixedBefore
<1> QED BY <1>1, ReachedKept DEF Drew

\* A mix takes a reader over one more piece.
LEMMA ReaderMixes ==
  ASSUME Reader, MixStep
  PROVE  /\ proof' = proof /\ pc' = pc + 1 /\ drawn' = drawn
         /\ pc \in 1 .. PlanLength(role) /\ Plan(role)[pc].do = "mix"
         /\ IsTable(mixes') /\ Extends(mixes', mixes)
         /\ mixes' = MixAll(Channel, CallsOf(Plan(role)[pc].what, proof[Plan(role)[pc].what])).table
         /\ digest' = MixAll(Channel, CallsOf(Plan(role)[pc].what, proof[Plan(role)[pc].what])).digest
         /\ Reading(role, mixes', proof, pc', digest', n_draws', drawn')
<1> DEFINE step == Plan(role)[pc]
<1> DEFINE p == step.what
<1> DEFINE c == CallsOf(p, proof[p])
<1> DEFINE after == MixAll(Channel, c)
<1>1. pc \in 1 .. PlanLength(role) /\ Script[pc] = step /\ PlanFact(role, pc) /\ step.do = "mix"
  <2>1. pc \in 1 .. PlanLength(role) + 1 /\ PlanLength(role) \in Nat
    BY DEF Reader, Reading, PlanLength
  <2>2. pc <= Len(Script) /\ Script[pc].do = "mix"
    BY DEF MixStep, Doing, Step
  <2>3. Len(Script) = PlanLength(role) /\ \A j \in 1 .. PlanLength(role) : Script[j] = Plan(role)[j] /\ PlanFact(role, j)
    BY ReaderScript DEF Reader
  <2> QED BY <2>1, <2>2, <2>3
<1>2. Mixed(role)[pc] \in 0 .. 9 /\ p = Pieces[Mixed(role)[pc] + 1] /\ Mixed(role)[pc + 1] = Mixed(role)[pc] + 1
  BY <1>1 DEF PlanFact
<1>3. ~ Missing(proof, p)
  BY <1>1, AbsentIs DEF MixStep, Reader, Step
<1>4. p \in DOMAIN proof
  BY <1>2, <1>3 DEF Reader, Full
<1>5. Len(c) \in Nat
  BY <1>2, <1>4, CallsSized DEF Reader
<1>6. MixesOf(p, proof[p]) = c
  BY <1>2, MixesAre DEF Reader
<1>7. ~ Producing
  BY DEF Producing, Reader, Readers
<1>8. /\ proof' = Put(proof, p, proof[p])
      /\ mixes' = after.table /\ digest' = after.digest /\ n_draws' = 0
      /\ pc' = pc + 1 /\ drawn' = drawn
  BY <1>1, <1>6, <1>7 DEF MixStep, Step
<1>9. proof' = proof
  BY <1>4, <1>8, PutBack DEF Reader
<1>10. Channel.table = mixes /\ Channel.digest = digest
  BY DEF Channel
<1>11. IsTable(mixes)
  BY DEF Reader
<1> HIDE DEF c, after
<1>12. /\ IsTable(after.table) /\ Extends(after.table, mixes)
       /\ Leads(after.table, digest, c, after.digest)
  BY <1>5, <1>10, <1>11, MixAllLeads DEF after
<1>13. Reached(mixes', proof, Mixed(role)[pc], digest)
  BY <1>2, <1>8, <1>11, <1>12, ReachedKept DEF Reader, Reading
<1>14. Link(mixes', proof, Mixed(role)[pc] + 1, digest, digest')
  BY <1>2, <1>3, <1>8, <1>12 DEF Link, c
<1>15. Reached(mixes', proof, Mixed(role)[pc + 1], digest')
  BY <1>2, <1>13, <1>14, ReachedNext
<1>16. Drew(mixes', proof, drawn)
  BY <1>8, <1>11, <1>12, DrewKept DEF Reader, Reading
<1>17. \A name \in DrawNames : DrawAt(role, name) < pc + 1 => name \in DOMAIN drawn
  <2> TAKE name \in DrawNames
  <2>1. DrawAt(role, name) \in Nat
    BY DEF DrawAt
  <2>2. DrawAt(role, name) # pc
    BY <1>1 DEF PlanFact
  <2> QED BY <1>1, <2>1, <2>2 DEF Reader, Reading
<1>18. PlanLength(role) \in Nat
  BY DEF PlanLength
<1>19. Reading(role, mixes', proof, pc + 1, digest', 0, drawn)
  BY <1>1, <1>15, <1>16, <1>17, <1>18 DEF Reading
<1>20. Reading(role, mixes', proof, pc', digest', n_draws', drawn')
  BY <1>8, <1>19
<1> QED BY <1>1, <1>8, <1>9, <1>12, <1>20 DEF c, after

\* The step a reader is about to take.
LEMMA ReaderAt ==
  ASSUME Reader, pc <= Len(Script)
  PROVE  /\ pc \in 1 .. PlanLength(role) /\ PlanLength(role) \in Nat
         /\ Step = Plan(role)[pc] /\ PlanFact(role, pc)
<1>1. pc \in 1 .. PlanLength(role) + 1 /\ PlanLength(role) \in Nat
  BY DEF Reader, Reading, PlanLength
<1>2. Len(Script) = PlanLength(role) /\ \A j \in 1 .. PlanLength(role) : Script[j] = Plan(role)[j] /\ PlanFact(role, j)
  BY ReaderScript DEF Reader
<1> QED BY <1>1, <1>2 DEF Step

\* A step that mixes nothing and draws nothing.
LEMMA ReaderPasses ==
  ASSUME Reader, pc <= Len(Script), Step.do # "draw", pc' = pc + 1,
         UNCHANGED <<role, mixes, proof, digest, n_draws, drawn>>,
         Step.do = "mix" => Missing(proof, Step.what)
  PROVE  Reading(role, mixes', proof, pc', digest', n_draws', drawn')
<1>1. /\ pc \in 1 .. PlanLength(role) /\ PlanLength(role) \in Nat
      /\ Step = Plan(role)[pc] /\ PlanFact(role, pc)
  BY ReaderAt
<1>2. Reached(mixes, proof, Mixed(role)[pc + 1], digest)
  <2>1. CASE Step.do = "mix"
    <3>1. /\ Mixed(role)[pc] \in 0 .. 9 /\ Step.what = Pieces[Mixed(role)[pc] + 1]
          /\ Mixed(role)[pc + 1] = Mixed(role)[pc] + 1
      BY <1>1, <2>1 DEF PlanFact
    <3>2. Link(mixes, proof, Mixed(role)[pc] + 1, digest, digest)
      BY <2>1, <3>1 DEF Link
    <3>3. Reached(mixes, proof, Mixed(role)[pc], digest)
      BY DEF Reader, Reading
    <3> DEFINE k == Mixed(role)[pc]
    <3>4. k \in Nat /\ Reached(mixes, proof, k, digest) /\ Link(mixes, proof, k + 1, digest, digest)
      BY <3>1, <3>2, <3>3
    <3> HIDE DEF k
    <3>5. Reached(mixes, proof, k + 1, digest)
      BY <3>4, ReachedNext
    <3> QED BY <3>1, <3>5 DEF k
  <2>2. CASE Step.do # "mix"
    BY <1>1, <2>2 DEF PlanFact, Reader, Reading
  <2> QED BY <2>1, <2>2
<1>3. \A name \in DrawNames : DrawAt(role, name) < pc + 1 => name \in DOMAIN drawn
  <2> TAKE name \in DrawNames
  <2>1. DrawAt(role, name) \in Nat
    BY DEF DrawAt
  <2>2. DrawAt(role, name) # pc
    BY <1>1 DEF PlanFact
  <2> QED BY <1>1, <2>1, <2>2 DEF Reader, Reading
<1>4. pc + 1 \in Undrawn(role) => n_draws = 0
  <2>1. Step.do = "mix" => Step.what = "interaction"
    BY DEF Missing
  <2>2. pc + 1 \in Undrawn(role) => pc \in Undrawn(role)
    BY <1>1, <2>1 DEF PlanFact
  <2> QED BY <2>2 DEF Reader, Reading
<1>5. Drew(mixes, proof, drawn)
  BY DEF Reader, Reading
<1>6. Reading(role, mixes, proof, pc + 1, digest, n_draws, drawn)
  BY <1>1, <1>2, <1>3, <1>4, <1>5 DEF Reading
<1> QED BY <1>6

\* Skipping a missing tree, a check that holds and a draw keep Reading.
LEMMA ReaderSkips ==
  ASSUME Reader, SkipTree
  PROVE  Reading(role, mixes', proof, pc', digest', n_draws', drawn')
<1>1. pc <= Len(Script) /\ Step.do = "mix" /\ Absent(Step.what) /\ pc' = pc + 1
      /\ UNCHANGED <<role, mixes, proof, digest, n_draws, drawn>>
  BY DEF SkipTree, Doing
<1>2. Missing(proof, Step.what)
  BY <1>1, AbsentIs DEF Reader
<1> QED BY <1>1, <1>2, ReaderPasses

LEMMA ReaderChecks ==
  ASSUME Reader, CheckStep
  PROVE  Reading(role, mixes', proof, pc', digest', n_draws', drawn')
<1>1. pc <= Len(Script) /\ Step.do = "check" /\ pc' = pc + 1
      /\ UNCHANGED <<role, mixes, proof, digest, n_draws, drawn>>
  BY DEF CheckStep, Doing
<1> QED BY <1>1, ReaderPasses

LEMMA ReaderDraws ==
  ASSUME Reader, DrawStep
  PROVE  Reading(role, mixes', proof, pc', digest', n_draws', drawn')
<1> DEFINE name == Step.what
<1>1. /\ pc <= Len(Script) /\ Step.do = "draw" /\ pc' = pc + 1
      /\ drawn' = Put(drawn, name, <<digest, n_draws>>)
      /\ UNCHANGED <<role, mixes, proof, digest>>
  BY DEF DrawStep, Doing
<1>2. /\ pc \in 1 .. PlanLength(role) /\ PlanLength(role) \in Nat
      /\ Step = Plan(role)[pc] /\ PlanFact(role, pc)
  BY <1>1, ReaderAt
<1>3. /\ name \in DrawNames /\ MixedBefore(name) = Mixed(role)[pc] /\ Mixed(role)[pc + 1] = Mixed(role)[pc]
      /\ pc = DrawAt(role, name) /\ pc \in Undrawn(role) /\ pc + 1 \notin Undrawn(role)
      /\ \A other \in DrawNames : DrawAt(role, other) = pc => other = name
  BY <1>1, <1>2 DEF PlanFact
<1>4. n_draws = 0 /\ Reached(mixes, proof, MixedBefore(name), digest)
  BY <1>3 DEF Reader, Reading
<1>5. /\ DOMAIN drawn' = DOMAIN drawn \cup {name} /\ drawn'[name] = <<digest, 0>>
      /\ \A x \in DOMAIN drawn \ {name} : drawn'[x] = drawn[x]
  <2>1. drawn' = Put(drawn, name, <<digest, 0>>)
    BY <1>1, <1>4
  <2> HIDE DEF name
  <2> QED BY <2>1 DEF Put
<1>6. Drew(mixes, proof, drawn')
  <2>1. Drew(mixes, proof, drawn)
    BY DEF Reader, Reading
  <2> QED BY <1>3, <1>4, <1>5, <2>1 DEF Drew
<1>7. \A other \in DrawNames : DrawAt(role, other) < pc + 1 => other \in DOMAIN drawn'
  <2> TAKE other \in DrawNames
  <2>1. DrawAt(role, other) \in Nat
    BY DEF DrawAt
  <2>2. CASE DrawAt(role, other) = pc
    BY <1>3, <1>5, <2>2
  <2>3. CASE DrawAt(role, other) # pc
    BY <1>2, <1>5, <2>1, <2>3 DEF Reader, Reading
  <2> QED BY <2>2, <2>3
<1>8. Reached(mixes, proof, Mixed(role)[pc + 1], digest)
  BY <1>3, <1>4
<1>9. Reading(role, mixes, proof, pc + 1, digest, n_draws', drawn')
  BY <1>2, <1>3, <1>6, <1>7, <1>8 DEF Reading
<1> QED BY <1>1, <1>9

-----------------------------------------------------------------------------
(* The checks.  The replay meets the digests its verifier met, so the checks *)
(* it repeats hold when the verifier's held.                                 *)

Tables == TraceComponents \o LookupComponents
MainWidthOf == [c \in ToSet(Tables) |-> IF Contains(LookupComponents, c) THEN 1 ELSE Width[c]]
InteractionWidthOf == [c \in ToSet(Tables) |-> 4 * Fractions[c]]

\* Holds("oods") of an rv32im proof pf under the draws dr.
OodsOn(pf, dr) ==
  /\ pf["sampled"].after = <<dr["random_coeff"], dr["oods"]>>
  /\ pf["interaction"].after = <<dr["relations"]>>
  /\ \A c \in Range(Tables) :
       /\ Span(Tables, pf["main"].columns, MainWidthOf, c)
            = Copies(<<c, pf["claim"][PlaceIn(Tables, c)]>>, MainWidthOf[c])
       /\ Span(Tables, pf["interaction"].columns, InteractionWidthOf, c)
            = Copies(<<c, pf["claim"][PlaceIn(Tables, c)]>>, InteractionWidthOf[c])
       /\ pf["sums"][PlaceIn(Tables, c)] = SumOf(c, <<dr["relations"]>>, pf["sums"][PlaceIn(Tables, c)].over)

GoodNonce(t, d, nonce) == Hashed([table |-> t, digest |-> d], U64(nonce)).digest % 2 = 0
GroundWell(t, pf) == \E e : Reached(t, pf, 5, e) /\ e % 2 = 0

\* What a verifier has checked before step k.
Passed(k, t, pf, d, dr) ==
  /\ k = 6 => GoodNonce(t, d, pf["pow"])
  /\ k >= 7 => GroundWell(t, pf)
  /\ k >= 16 => pf["sampled"].masks = Masks
  /\ k >= 17 => OodsOn(pf, dr)

Accepted(t, pf, dr) ==
  /\ DrawNames \subseteq DOMAIN dr
  /\ GroundWell(t, pf) /\ pf["sampled"].masks = Masks /\ OodsOn(pf, dr)

\* The three checks that both readers make.
LEMMA HoldsPow ==
  Holds("pow") <=> GoodNonce(mixes, digest, proof["pow"])
  BY DEF Holds, PowOk, GoodNonce, Channel

LEMMA HoldsMasks ==
  Holds("masks") <=> proof["sampled"].masks = Masks
  BY DEF Holds

LEMMA HoldsOods ==
  ASSUME protocol = "rv32im"
  PROVE  Holds("oods") <=> OodsOn(proof, drawn)
<1>1. Order = Tables
  BY DEF Order, Tables
<1>2. MainWidth = MainWidthOf /\ InteractionWidth = InteractionWidthOf
  BY <1>1 DEF MainWidth, MainWidthOf, InteractionWidth, InteractionWidthOf, IsLookup
<1>3. Relations = <<drawn["relations"]>> /\ Challenges = <<drawn["random_coeff"], drawn["oods"]>>
  BY DEF Relations, Challenges
<1>4. \A c : HasSum(c) /\ Position(c) = PlaceIn(Tables, c) /\ SumOfTable(c) = proof["sums"][PlaceIn(Tables, c)]
  BY <1>1 DEF HasSum, Position, SumOfTable
<1>5. \A c : SpansMatch(c) <=>
         /\ Span(Tables, proof["main"].columns, MainWidthOf, c)
              = Copies(<<c, proof["claim"][PlaceIn(Tables, c)]>>, MainWidthOf[c])
         /\ Span(Tables, proof["interaction"].columns, InteractionWidthOf, c)
              = Copies(<<c, proof["claim"][PlaceIn(Tables, c)]>>, InteractionWidthOf[c])
  BY <1>1, <1>2, <1>4 DEF SpansMatch, ClaimLog
<1>6. Holds("oods") <=>
         /\ proof["sampled"].after = Challenges
         /\ proof["interaction"].after = Relations
         /\ \A c \in Range(Order) : SpansMatch(c)
              /\ (HasSum(c) => SumOfTable(c) = SumOf(c, Relations, SumOfTable(c).over))
  BY DEF Holds
<1> QED BY <1>1, <1>3, <1>4, <1>5, <1>6 DEF OodsOn

\* A piece of one call.
LEMMA MixOne ==
  ASSUME NEW s, NEW words
  PROVE  MixAll(s, <<words>>) = Hashed(s, words)
<1>1. Len(<<words>>) = 1 /\ <<words>>[1] = words
  OBVIOUS
<1> DEFINE c == <<words>>
<1> HIDE DEF c
<1>2. Len(c) = 1 /\ c[1] = words
  BY <1>1 DEF c
<1>3. MixedAfter(s, c)[0] = s /\ MixedAfter(s, c)[1] = Hashed(MixedAfter(s, c)[0], c[1])
  BY <1>2, MixedLoop
<1>4. MixAll(s, c) = Hashed(s, words)
  BY <1>2, <1>3 DEF MixAll
<1> QED BY <1>4 DEF c

\* A good nonce stays good: its pair is in the table already.
LEMMA GroundWellKept ==
  ASSUME NEW t, IsTable(t), NEW u, IsTable(u), Extends(u, t), NEW pf, GroundWell(t, pf)
  PROVE  GroundWell(u, pf)
  BY ReachedKept DEF GroundWell

\* Where the plan of the verifier checks.
LEMMA VerifierChecksAt ==
  ASSUME NEW k \in 1 .. 18
  PROVE  /\ VerifierPlan[k].do = "check" <=> k \in {5, 11, 15, 16, 18}
         /\ VerifierPlan[k].do = "draw" <=> k \in {7, 12, 14}
         /\ VerifierPlan[5].what = "pow" /\ VerifierPlan[6].what = "pow"
         /\ VerifierPlan[15].what = "masks" /\ VerifierPlan[16].what = "oods"
         /\ VerifierPlan[k].do = "check" => VerifierPlan[k].what # "accepted"
<1>1. CASE k = 1
  BY <1>1 DEF VerifierPlan, Mix, Draw, Check
<1>2. CASE k = 2
  BY <1>2 DEF VerifierPlan, Mix, Draw, Check
<1>3. CASE k = 3
  BY <1>3 DEF VerifierPlan, Mix, Draw, Check
<1>4. CASE k = 4
  BY <1>4 DEF VerifierPlan, Mix, Draw, Check
<1>5. CASE k = 5
  BY <1>5 DEF VerifierPlan, Mix, Draw, Check
<1>6. CASE k = 6
  BY <1>6 DEF VerifierPlan, Mix, Draw, Check
<1>7. CASE k = 7
  BY <1>7 DEF VerifierPlan, Mix, Draw, Check
<1>8. CASE k = 8
  BY <1>8 DEF VerifierPlan, Mix, Draw, Check
<1>9. CASE k = 9
  BY <1>9 DEF VerifierPlan, Mix, Draw, Check
<1>10. CASE k = 10
  BY <1>10 DEF VerifierPlan, Mix, Draw, Check
<1>11. CASE k = 11
  BY <1>11 DEF VerifierPlan, Mix, Draw, Check
<1>12. CASE k = 12
  BY <1>12 DEF VerifierPlan, Mix, Draw, Check
<1>13. CASE k = 13
  BY <1>13 DEF VerifierPlan, Mix, Draw, Check
<1>14. CASE k = 14
  BY <1>14 DEF VerifierPlan, Mix, Draw, Check
<1>15. CASE k = 15
  BY <1>15 DEF VerifierPlan, Mix, Draw, Check
<1>16. CASE k = 16
  BY <1>16 DEF VerifierPlan, Mix, Draw, Check
<1>17. CASE k = 17
  BY <1>17 DEF VerifierPlan, Mix, Draw, Check
<1>18. CASE k = 18
  BY <1>18 DEF VerifierPlan, Mix, Draw, Check
<1> QED BY <1>1, <1>2, <1>3, <1>4, <1>5, <1>6, <1>7, <1>8, <1>9, <1>10, <1>11, <1>12, <1>13, <1>14, <1>15, <1>16, <1>17, <1>18

\* The replay's checks: the nonce, the number of claimed sums and the composition.
LEMMA ReplayChecksAt ==
  ASSUME NEW k \in 1 .. 15
  PROVE  /\ ReplayPlan[k].do = "check" => k \in {5, 14, 15}
         /\ ReplayPlan[5].what = "pow" /\ ReplayPlan[14].what = "masks" /\ ReplayPlan[15].what = "oods"
<1>1. CASE k = 1
  BY <1>1 DEF ReplayPlan, Mix, Draw, Check
<1>2. CASE k = 2
  BY <1>2 DEF ReplayPlan, Mix, Draw, Check
<1>3. CASE k = 3
  BY <1>3 DEF ReplayPlan, Mix, Draw, Check
<1>4. CASE k = 4
  BY <1>4 DEF ReplayPlan, Mix, Draw, Check
<1>5. CASE k = 5
  BY <1>5 DEF ReplayPlan, Mix, Draw, Check
<1>6. CASE k = 6
  BY <1>6 DEF ReplayPlan, Mix, Draw, Check
<1>7. CASE k = 7
  BY <1>7 DEF ReplayPlan, Mix, Draw, Check
<1>8. CASE k = 8
  BY <1>8 DEF ReplayPlan, Mix, Draw, Check
<1>9. CASE k = 9
  BY <1>9 DEF ReplayPlan, Mix, Draw, Check
<1>10. CASE k = 10
  BY <1>10 DEF ReplayPlan, Mix, Draw, Check
<1>11. CASE k = 11
  BY <1>11 DEF ReplayPlan, Mix, Draw, Check
<1>12. CASE k = 12
  BY <1>12 DEF ReplayPlan, Mix, Draw, Check
<1>13. CASE k = 13
  BY <1>13 DEF ReplayPlan, Mix, Draw, Check
<1>14. CASE k = 14
  BY <1>14 DEF ReplayPlan, Mix, Draw, Check
<1>15. CASE k = 15
  BY <1>15 DEF ReplayPlan, Mix, Draw, Check
<1> QED BY <1>1, <1>2, <1>3, <1>4, <1>5, <1>6, <1>7, <1>8, <1>9, <1>10, <1>11, <1>12, <1>13, <1>14, <1>15

\* A step of the verifier keeps what it has passed: a mix,
LEMMA VerifierMixes ==
  ASSUME Reader, role = "verifier", MixStep, Passed(pc, mixes, proof, digest, drawn)
  PROVE  Passed(pc', mixes', proof, digest', drawn')
<1>1. /\ proof' = proof /\ pc' = pc + 1 /\ drawn' = drawn
      /\ pc \in 1 .. 18 /\ VerifierPlan[pc].do = "mix"
      /\ IsTable(mixes') /\ Extends(mixes', mixes) /\ IsTable(mixes)
      /\ digest' = MixAll(Channel, CallsOf(VerifierPlan[pc].what, proof[VerifierPlan[pc].what])).digest
      /\ Reading(role, mixes', proof, pc', digest', n_draws', drawn')
  BY ReaderMixes DEF Plan, PlanLength, Reader
<1>2. pc \notin {5, 15, 16}
  BY <1>1, VerifierChecksAt
<1>3. CASE pc = 6
  <2>1. digest' = Hashed(Channel, U64(proof["pow"])).digest
    <3>1. VerifierPlan[pc].what = "pow"
      BY <1>3, VerifierChecksAt
    <3>2. CallsOf("pow", proof["pow"]) = << U64(proof["pow"]) >>
      BY DEF CallsOf
    <3>3. digest' = MixAll(Channel, << U64(proof["pow"]) >>).digest
      BY <1>1, <3>1, <3>2
    <3> QED BY <3>3, MixOne
  <2>2. Channel = [table |-> mixes, digest |-> digest]
    BY DEF Channel
  <2>3. digest' % 2 = 0
    BY <1>3, <2>1, <2>2 DEF Passed, GoodNonce
  <2>4. Mixed("verifier")[7] = 5
    BY DEF Mixed
  <2>5. Reached(mixes', proof, 5, digest')
    BY <1>1, <1>3, <2>4 DEF Reading
  <2>6. GroundWell(mixes', proof)
    BY <2>3, <2>5 DEF GroundWell
  <2> QED BY <1>1, <1>3, <2>6 DEF Passed
<1>4. CASE pc > 6
  <2>1. GroundWell(mixes', proof)
    BY <1>1, <1>4, GroundWellKept DEF Passed
  <2> QED BY <1>1, <1>2, <1>4, <2>1 DEF Passed
<1>5. CASE pc < 5
  BY <1>1, <1>5 DEF Passed
<1> QED BY <1>1, <1>2, <1>3, <1>4, <1>5

\* and any other step, which adds to it.
LEMMA VerifierPasses ==
  ASSUME Reader, role = "verifier", CheckStep \/ SkipTree \/ DrawStep, Passed(pc, mixes, proof, digest, drawn)
  PROVE  Passed(pc', mixes', proof, digest', drawn')
<1>1. pc <= Len(Script) /\ pc' = pc + 1 /\ UNCHANGED <<mixes, proof, digest>>
  BY DEF CheckStep, SkipTree, DrawStep, Doing
<1>2. pc \in 1 .. 18 /\ Step = VerifierPlan[pc] /\ pc + 1 \in Nat
  BY <1>1, ReaderAt DEF Plan, PlanLength
<1>3. CASE CheckStep
  <2>1. Step.do = "check" /\ Holds(Step.what) /\ drawn' = drawn
    BY <1>3 DEF CheckStep, Doing
  <2>2. pc \in {5, 11, 15, 16, 18}
    BY <1>2, <2>1, VerifierChecksAt
  <2>3. CASE pc = 5
    <3>1. GoodNonce(mixes, digest, proof["pow"])
      BY <1>2, <2>1, <2>3, VerifierChecksAt, HoldsPow
    <3> QED BY <1>1, <2>3, <3>1 DEF Passed
  <2>4. CASE pc = 11
    BY <1>1, <2>4 DEF Passed
  <2>5. CASE pc = 15
    <3>1. proof["sampled"].masks = Masks
      BY <1>2, <2>1, <2>5, VerifierChecksAt, HoldsMasks
    <3> QED BY <1>1, <2>5, <3>1 DEF Passed
  <2>6. CASE pc = 16
    <3>1. OodsOn(proof, drawn)
      BY <1>2, <2>1, <2>6, VerifierChecksAt, HoldsOods DEF Reader
    <3> QED BY <1>1, <2>1, <2>6, <3>1 DEF Passed
  <2>7. CASE pc = 18
    BY <1>1, <2>1, <2>7 DEF Passed
  <2> QED BY <2>2, <2>3, <2>4, <2>5, <2>6, <2>7
<1>4. CASE SkipTree
  <2>1. Step.do = "mix" /\ Absent(Step.what) /\ drawn' = drawn
    BY <1>4 DEF SkipTree, Doing
  <2>2. Step.what = "interaction"
    BY <2>1 DEF Absent
  <2>3. pc \notin {5, 6, 15, 16}
    BY <1>2, <2>1, <2>2, VerifierChecksAt
  <2> QED BY <1>1, <1>2, <2>1, <2>3 DEF Passed
<1>5. CASE DrawStep
  <2>1. Step.do = "draw"
    BY <1>5 DEF DrawStep, Doing
  <2>2. pc \in {7, 12, 14}
    BY <1>2, <2>1, VerifierChecksAt
  <2> QED BY <1>1, <2>2 DEF Passed
<1> QED BY <1>3, <1>4, <1>5

\* Two readers of one proof draw the same.
LEMMA DrawsAgree ==
  ASSUME NEW t, NEW pf, Sized(pf), NEW a, NEW b, Drew(t, pf, a), Drew(t, pf, b), NEW name \in DOMAIN a \cap DOMAIN b
  PROVE  a[name] = b[name]
<1>1. PICK e : a[name] = <<e, 0>> /\ Reached(t, pf, MixedBefore(name), e)
  BY DEF Drew
<1>2. PICK f : b[name] = <<f, 0>> /\ Reached(t, pf, MixedBefore(name), f)
  BY DEF Drew
<1>3. MixedBefore(name) \in 0 .. 10
  BY DEF MixedBefore
<1> QED BY <1>1, <1>2, <1>3, ReachedOnce

\* Whatever the replay checks holds of a proof the verifier has accepted.
LEMMA ReplayHolds ==
  ASSUME Reader, role = "replay", pc <= Len(Script), Step.do = "check",
         NEW dr, Drew(mixes, proof, dr), Accepted(mixes, proof, dr)
  PROVE  Holds(Step.what)
<1>1. pc \in 1 .. 15 /\ Step = ReplayPlan[pc]
  BY ReaderAt DEF Plan, PlanLength
<1>2. pc \in {5, 14, 15}
  BY <1>1, ReplayChecksAt
<1>3. Sized(proof)
  BY FullSized DEF Reader
<1>4. CASE pc = 5
  <2>1. PICK e : Reached(mixes, proof, 5, e) /\ e % 2 = 0
    BY DEF Accepted, GroundWell
  <2>2. PICK d : Reached(mixes, proof, 4, d) /\ Link(mixes, proof, 5, d, e)
    <3>1. 4 \in Nat /\ Reached(mixes, proof, 4 + 1, e)
      BY <2>1
    <3>2. \E d : Reached(mixes, proof, 4, d) /\ Link(mixes, proof, 4 + 1, d, e)
      BY <3>1, ReachedBack
    <3> QED BY <3>2
  <2>3. Reached(mixes, proof, 4, digest)
    BY <1>4 DEF Reader, Reading, Mixed
  <2>4. d = digest
    BY <1>3, <2>2, <2>3, ReachedOnce
  <2>5. Pieces[5] = "pow"
    BY DEF Pieces
  <2>6. Leads(mixes, digest, << U64(proof["pow"]) >>, e)
    BY <2>2, <2>4, <2>5 DEF Link, Missing, CallsOf
  <2>7. PICK w : Walk(mixes, digest, << U64(proof["pow"]) >>, e, w)
    BY <2>6 DEF Leads
  <2>8. Known(mixes, <<digest, U64(proof["pow"])>>) /\ e = IdOf(mixes, <<digest, U64(proof["pow"])>>)
    <3>1. Len(<< U64(proof["pow"]) >>) = 1 /\ << U64(proof["pow"]) >>[1] = U64(proof["pow"]) /\ 1 - 1 = 0
      OBVIOUS
    <3> QED BY <2>7, <3>1 DEF Walk
  <2>9. Hashed([table |-> mixes, digest |-> digest], U64(proof["pow"])).digest = e
    BY <2>8 DEF Hashed
  <2>10. Holds("pow")
    BY <2>1, <2>9, HoldsPow DEF GoodNonce
  <2> QED BY <1>1, <1>4, <2>10, ReplayChecksAt
<1>5. CASE pc = 14
  BY <1>1, <1>5, HoldsMasks, ReplayChecksAt DEF Accepted
<1>6. CASE pc = 15
  <2>1. DrawNames \subseteq DOMAIN drawn /\ Drew(mixes, proof, drawn)
    BY <1>6 DEF Reader, Reading, DrawAt, DrawNames
  <2>2. \A name \in DrawNames : drawn[name] = dr[name]
    BY <1>3, <2>1, DrawsAgree DEF Accepted
  <2>3. OodsOn(proof, drawn)
    BY <2>2 DEF Accepted, OodsOn, DrawNames
  <2>4. Holds("oods")
    BY <2>3, HoldsOods DEF Reader
  <2> QED BY <1>1, <1>6, <2>4, ReplayChecksAt
<1> QED BY <1>2, <1>4, <1>5, <1>6

-----------------------------------------------------------------------------
(* The prover leaves a whole proof behind it.                                *)

Made == <<0, 1, 2, 3, 4, 5, 5, 6, 7, 8, 8, 9, 9, 10>>
MadeSoFar(pf, k) == \A i \in 1 .. Made[k] : Pieces[i] \in DOMAIN pf \/ Missing(pf, Pieces[i])

\* Every step of the prover's plan, with how many pieces are made before it.
LEMMA ProverFacts ==
  ASSUME NEW k \in 1 .. 13
  PROVE  LET step == ProverPlan[k]
         IN  /\ step.do \in {"mix", "pow", "draw"} /\ Made[k] \in 0 .. 10
             /\ step.do = "mix" => Made[k] \in 0 .. 9 /\ step.what = Pieces[Made[k] + 1] /\ Made[k + 1] = Made[k] + 1
             /\ step.do = "pow" => Made[k] = 4 /\ Made[k + 1] = 5
             /\ step.do = "draw" => Made[k + 1] = Made[k]
<1>1. CASE k = 1
  BY <1>1 DEF ProverPlan, Mix, Draw, Pow, Made, Pieces
<1>2. CASE k = 2
  BY <1>2 DEF ProverPlan, Mix, Draw, Pow, Made, Pieces
<1>3. CASE k = 3
  BY <1>3 DEF ProverPlan, Mix, Draw, Pow, Made, Pieces
<1>4. CASE k = 4
  BY <1>4 DEF ProverPlan, Mix, Draw, Pow, Made, Pieces
<1>5. CASE k = 5
  BY <1>5 DEF ProverPlan, Mix, Draw, Pow, Made, Pieces
<1>6. CASE k = 6
  BY <1>6 DEF ProverPlan, Mix, Draw, Pow, Made, Pieces
<1>7. CASE k = 7
  BY <1>7 DEF ProverPlan, Mix, Draw, Pow, Made, Pieces
<1>8. CASE k = 8
  BY <1>8 DEF ProverPlan, Mix, Draw, Pow, Made, Pieces
<1>9. CASE k = 9
  BY <1>9 DEF ProverPlan, Mix, Draw, Pow, Made, Pieces
<1>10. CASE k = 10
  BY <1>10 DEF ProverPlan, Mix, Draw, Pow, Made, Pieces
<1>11. CASE k = 11
  BY <1>11 DEF ProverPlan, Mix, Draw, Pow, Made, Pieces
<1>12. CASE k = 12
  BY <1>12 DEF ProverPlan, Mix, Draw, Pow, Made, Pieces
<1>13. CASE k = 13
  BY <1>13 DEF ProverPlan, Mix, Draw, Pow, Made, Pieces
<1> QED BY <1>1, <1>2, <1>3, <1>4, <1>5, <1>6, <1>7, <1>8, <1>9, <1>10, <1>11, <1>12, <1>13

\* ... makes a list.
LEMMA Flat ==
  ASSUME NEW ss, Len(ss) \in Nat, \A i \in 1 .. Len(ss) : IsTable(ss[i]), IsTable(ss)
  PROVE  IsTable(FlattenSeq(ss))
<1>1. CASE Len(ss) = 0
  BY <1>1 DEF FlattenSeq
<1>2. CASE Len(ss) # 0
  <2>1. PICK f : /\ FlattenSeq(ss) = f[Len(ss)]
                 /\ \A i \in 1 .. Len(ss) : f[i] = IF i = 1 THEN ss[i] ELSE Join(f[i - 1], ss[i])
    BY <1>2, FlatLoop
  <2> DEFINE T == {i \in 0 .. Len(ss) : i = 0 \/ IsTable(f[i])}
  <2>2. 0 \in T
    OBVIOUS
  <2>3. \A i \in 0 .. Len(ss) - 1 : i \in T => i + 1 \in T
    <3> TAKE i \in 0 .. Len(ss) - 1
    <3> HAVE i \in T
    <3>1. i + 1 \in 1 .. Len(ss) /\ (i + 1) - 1 = i /\ i + 1 \in 0 .. Len(ss)
      OBVIOUS
    <3>2. IsTable(ss[i + 1])
      BY <3>1
    <3>3. CASE i = 0
      BY <3>1, <3>2, <3>3, <2>1
    <3>4. CASE i # 0
      <4>1. IsTable(f[i])
        BY <3>4
      <4>2. IsTable(Join(f[i], ss[i + 1]))
        BY <3>2, <4>1, Joined
      <4>3. f[i + 1] = Join(f[i], ss[i + 1])
        BY <3>1, <3>4, <2>1
      <4> QED BY <3>1, <4>2, <4>3
    <3> QED BY <3>3, <3>4
  <2>4. 0 .. Len(ss) \subseteq T
    <3> HIDE DEF T
    <3> QED BY <2>2, <2>3, InductionTo
  <2>5. Len(ss) \in T
    BY <2>4
  <2> QED BY <1>2, <2>1, <2>5
<1> QED BY <1>1, <1>2

\* The lists a prover derives from the component table.
LEMMA TablesList ==
  Tables \in Seq(DOMAIN Width) /\ Len(Tables) \in Nat /\ \A i \in 1 .. Len(Tables) : Tables[i] \in DOMAIN Width
<1>1. Tables \in Seq(DOMAIN Width)
  BY TablesAre, Concatenated DEF Tables
<1> HIDE DEF Tables
<1> QED BY <1>1

\* The interaction columns of a proof.
LEMMA ColumnsList ==
  ASSUME protocol = "rv32im", NEW log
  PROVE  IsTable(InteractionColumns(log))
<1> DEFINE column(c) == Copies(<<c, log[Position(c)]>>, InteractionWidth[c])
<1> DEFINE ss == [i \in 1 .. Len(Tables) |-> column(Tables[i])]
<1>1. Order = Tables /\ InteractionOrder = Tables
  BY DEF Order, InteractionOrder, Tables
<1>2. InteractionColumns(log) = FlattenSeq(ss)
  BY <1>1 DEF InteractionColumns, Columns
<1>3. ASSUME NEW i \in 1 .. Len(Tables) PROVE IsTable(ss[i])
  <2>1. Tables[i] \in DOMAIN Width /\ Tables[i] \in ToSet(Tables)
    BY TablesList DEF ToSet
  <2>2. 4 * Fractions[Tables[i]] \in Nat
    BY <2>1, TablesAre
  <2>3. InteractionWidth[Tables[i]] = 4 * Fractions[Tables[i]]
    BY <1>1, <2>1 DEF InteractionWidth
  <2>4. IsTable(column(Tables[i]))
    BY <2>2, <2>3, TableOf DEF Copies
  <2> HIDE DEF column
  <2> QED BY <2>4
<1>4. IsTable(ss) /\ Len(ss) = Len(Tables)
  BY TablesList, TableOf
<1> HIDE DEF ss
<1> QED BY <1>2, <1>3, <1>4, TablesList, Flat

\* What holds while an rv32im proof is made.
Proving ==
  /\ role = "prover" /\ protocol = "rv32im"
  /\ run \in [statement : Statements["rv32im"], log : LogSizes["rv32im"]]
  /\ IsTable(mixes) /\ IsMap(proof) /\ Lists(proof)
  /\ pc \in 1 .. 14 /\ MadeSoFar(proof, pc)

\* The prover follows its plan.
LEMMA ProverAt ==
  ASSUME Proving, pc <= Len(Script)
  PROVE  pc \in 1 .. 13 /\ Step = ProverPlan[pc] /\ pc + 1 \in 1 .. 14
<1>1. Len(Script) = 13 /\ \A j \in 1 .. 13 : Script[j] = ProverPlan[j]
  BY ProverScript DEF Proving
<1>2. pc \in 1 .. 13
  BY <1>1 DEF Proving
<1> QED BY <1>1, <1>2 DEF Step

\* Every piece the prover makes is a list where it has to be one.
LEMMA ProducedLists ==
  ASSUME Proving, NEW p
  PROVE  /\ p = "public_data" => Len(Produce(p).output_words) \in Nat
         /\ p = "claim" => Len(Produce(p)) \in Nat
         /\ p = "sums" => IsTable(Produce(p))
         /\ p = "interaction_log_sizes" => IsTable(Produce(p))
<1>1. run.statement \in Statements["rv32im"] /\ run.log \in LogSizes["rv32im"]
  BY DEF Proving
<1>2. CASE p = "public_data"
  <2>1. Produce(p) = run.statement
    BY <1>2 DEF Produce
  <2>2. run.statement.output_words \in Seq(Seq(Nat))
    BY <1>1, StatementsAre DEF PublicData
  <2> QED BY <1>2, <2>1, <2>2
<1>3. CASE p = "claim"
  <2>1. Produce(p) = run.log
    BY <1>3 DEF Produce
  <2>2. run.log \in Seq(Nat)
    BY <1>1, StatementsAre
  <2> QED BY <1>3, <2>1, <2>2
<1>4. CASE p = "sums"
  <2>1. Order = Tables
    BY DEF Order, Tables, Proving
  <2>2. Produce(p) = [i \in 1 .. Len(Tables) |-> SumOf(Tables[i], Relations, LogupPart(Statement))]
    BY <1>4, <2>1 DEF Produce, Proving
  <2>3. IsTable([i \in 1 .. Len(Tables) |-> SumOf(Tables[i], Relations, LogupPart(Statement))])
    BY TablesList, TableOf
  <2> QED BY <1>4, <2>2, <2>3
<1>5. CASE p = "interaction_log_sizes"
  <2> DEFINE c == InteractionColumns(run.log)
  <2>1. Produce(p) = [i \in 1 .. Len(c) |-> c[i][2]]
    BY <1>5 DEF Produce, Sizes
  <2>2. Len(c) \in Nat
    BY ColumnsList, TableLength DEF Proving
  <2> HIDE DEF c
  <2>3. IsTable([i \in 1 .. Len(c) |-> c[i][2]])
    BY <2>2, TableOf
  <2> QED BY <1>5, <2>1, <2>3
<1> QED BY <1>2, <1>3, <1>4, <1>5

\* A piece that is added keeps the lists lists, and what was made made.
LEMMA ListsPut ==
  ASSUME NEW pf, Lists(pf), NEW p, NEW v,
         p = "public_data" => Len(v.output_words) \in Nat,
         p = "claim" => Len(v) \in Nat,
         p = "sums" => IsTable(v),
         p = "interaction_log_sizes" => IsTable(v)
  PROVE  Lists(Put(pf, p, v))
<1> DEFINE f == Put(pf, p, v)
<1>1. DOMAIN f = DOMAIN pf \cup {p} /\ f[p] = v /\ \A x \in DOMAIN pf \ {p} : f[x] = pf[x]
  BY DEF Put
<1> HIDE DEF f
<1>2. Lists(f)
  BY <1>1 DEF Lists
<1> QED BY <1>2 DEF f

\* Adding the next piece.
LEMMA MadeNext ==
  ASSUME NEW pf, NEW k \in 0 .. 9, \A i \in 1 .. k : Pieces[i] \in DOMAIN pf \/ Missing(pf, Pieces[i]),
         NEW v
  PROVE  \A i \in 1 .. k + 1 : \/ Pieces[i] \in DOMAIN Put(pf, Pieces[k + 1], v)
                              \/ Missing(Put(pf, Pieces[k + 1], v), Pieces[i])
<1> DEFINE p == Pieces[k + 1]
<1> DEFINE f == Put(pf, p, v)
<1>1. DOMAIN f = DOMAIN pf \cup {p} /\ \A x \in DOMAIN pf \ {p} : f[x] = pf[x]
  BY DEF Put
<1> HIDE DEF f
<1>2. ASSUME NEW i \in 1 .. k + 1 PROVE Pieces[i] \in DOMAIN f \/ Missing(f, Pieces[i])
  <2>1. CASE i = k + 1
    BY <1>1, <2>1
  <2>2. CASE i # k + 1 /\ Pieces[i] \in DOMAIN pf
    BY <1>1, <2>2
  <2>3. CASE i # k + 1 /\ Missing(pf, Pieces[i])
    <3>1. i = 8
      BY <2>3 DEF Missing, Pieces
    <3>2. 7 \in 1 .. k /\ k + 1 # 7
      BY <2>3, <3>1
    <3>3. Pieces[7] = "interaction_log_sizes" /\ p # "interaction_log_sizes"
      BY <3>2 DEF Pieces
    <3>4. "interaction_log_sizes" \in DOMAIN pf
      BY <3>2, <3>3 DEF Missing
    <3>5. f["interaction_log_sizes"] = pf["interaction_log_sizes"]
      BY <1>1, <3>3, <3>4
    <3> QED BY <2>3, <3>5 DEF Missing
  <2> QED BY <1>2, <2>1, <2>2, <2>3
<1> QED BY <1>2 DEF f

\* The prover's steps: it mixes the piece it makes,
LEMMA ProverMixes ==
  ASSUME Proving, MixStep
  PROVE  /\ pc' = pc + 1 /\ pc' \in 1 .. 14
         /\ IsTable(mixes') /\ IsMap(proof') /\ Lists(proof') /\ MadeSoFar(proof', pc')
<1> DEFINE p == Step.what
<1> DEFINE piece == IF Producing THEN Produce(p) ELSE proof[p]
<1> DEFINE c == CallsOf(p, piece)
<1>1. pc \in 1 .. 13 /\ Step = ProverPlan[pc] /\ pc + 1 \in 1 .. 14 /\ Step.do = "mix"
  BY ProverAt DEF MixStep, Doing
<1>2. Made[pc] \in 0 .. 9 /\ p = Pieces[Made[pc] + 1] /\ Made[pc + 1] = Made[pc] + 1
  BY <1>1, ProverFacts
<1>3. /\ proof' = Put(proof, p, piece) /\ mixes' = MixAll(Channel, MixesOf(p, piece)).table
      /\ pc' = pc + 1
  BY DEF MixStep
<1>4. MixesOf(p, piece) = c
  <2> HIDE DEF piece
  <2> QED BY <1>2, MixesAre DEF Proving
<1>5. Lists(proof')
  <2>1. CASE Producing
    <3>1. piece = Produce(p)
      BY <2>1
    <3> HIDE DEF p, piece
    <3>2. Lists(Put(proof, p, piece))
      BY <3>1, ProducedLists, ListsPut DEF Proving
    <3> QED BY <1>3, <3>2
  <2>2. CASE ~ Producing
    <3>1. p \in DOMAIN proof /\ piece = proof[p]
      BY <2>2 DEF Producing, Proving
    <3>2. Put(proof, p, piece) = proof
      BY <3>1, PutBack DEF Proving
    <3> QED BY <1>3, <3>2 DEF Proving
  <2> QED BY <2>1, <2>2
<1> HIDE DEF piece
<1>6. p \in DOMAIN proof' /\ proof'[p] = piece /\ IsMap(proof')
  BY <1>3 DEF Put, IsMap
<1>7. Len(c) \in Nat
  <2>1. \A pf : Lists(pf) /\ p \in DOMAIN pf => Len(CallsOf(p, pf[p])) \in Nat
    BY <1>2, CallsSized
  <2> QED BY <1>5, <1>6, <2>1
<1>8. IsTable(mixes')
  <2>1. IsTable(Channel.table)
    BY DEF Channel, Proving
  <2> HIDE DEF c
  <2>2. IsTable(MixAll(Channel, c).table)
    BY <1>7, <2>1, MixAllLeads
  <2> QED BY <1>3, <1>4, <2>2
<1>9. MadeSoFar(proof', pc')
  <2>1. \A i \in 1 .. Made[pc] : Pieces[i] \in DOMAIN proof \/ Missing(proof, Pieces[i])
    BY DEF Proving, MadeSoFar
  <2>2. \A i \in 1 .. Made[pc] + 1 : \/ Pieces[i] \in DOMAIN Put(proof, Pieces[Made[pc] + 1], piece)
                                  \/ Missing(Put(proof, Pieces[Made[pc] + 1], piece), Pieces[i])
    BY <1>2, <2>1, MadeNext
  <2> QED BY <1>2, <1>3, <2>2 DEF MadeSoFar
<1> QED BY <1>1, <1>3, <1>5, <1>6, <1>8, <1>9

\* grinds a nonce,
LEMMA ProverGrinds ==
  ASSUME Proving, Grind
  PROVE  /\ pc' = pc + 1 /\ pc' \in 1 .. 14
         /\ IsTable(mixes') /\ IsMap(proof') /\ Lists(proof') /\ MadeSoFar(proof', pc')
<1>1. pc \in 1 .. 13 /\ Step = ProverPlan[pc] /\ pc + 1 \in 1 .. 14 /\ Step.do = "pow"
  BY ProverAt DEF Grind, Doing
<1>2. Made[pc] = 4 /\ Made[pc + 1] = 5
  BY <1>1, ProverFacts
<1>3. PICK nonce \in 0 .. NonceBound - 1 :
         mixes' = mixes \o Ground(nonce + 1) /\ proof' = Put(proof, "pow", nonce)
  BY DEF Grind
<1>4. pc' = pc + 1
  BY DEF Grind
<1>5. nonce + 1 \in Nat
  BY NumbersAre
<1>6. IsTable(Ground(nonce + 1))
  BY <1>5, TableOf DEF Ground
<1>7. IsTable(Join(mixes, Ground(nonce + 1)))
  BY <1>6, Joined DEF Proving
<1>8. IsTable(mixes')
  BY <1>3, <1>7 DEF Join
<1>9. Lists(Put(proof, "pow", nonce))
  BY ListsPut DEF Proving
<1>10. IsMap(proof')
  BY <1>3 DEF Put, IsMap
<1>11. Pieces[5] = "pow"
  BY DEF Pieces
<1>12. \A i \in 1 .. 4 : Pieces[i] \in DOMAIN proof \/ Missing(proof, Pieces[i])
  BY <1>2 DEF Proving, MadeSoFar
<1>13. \A i \in 1 .. 4 + 1 : \/ Pieces[i] \in DOMAIN Put(proof, Pieces[4 + 1], nonce)
                            \/ Missing(Put(proof, Pieces[4 + 1], nonce), Pieces[i])
  BY <1>12, MadeNext
<1>14. MadeSoFar(proof', pc')
  BY <1>2, <1>3, <1>4, <1>11, <1>13 DEF MadeSoFar
<1> QED BY <1>1, <1>3, <1>4, <1>8, <1>9, <1>10, <1>14

\* draws, or has no interaction tree.
LEMMA ProverMoves ==
  ASSUME Proving, SkipTree \/ DrawStep
  PROVE  pc' = pc + 1 /\ pc' \in 1 .. 14 /\ MadeSoFar(proof, pc')
<1>1. pc \in 1 .. 13 /\ Step = ProverPlan[pc] /\ pc + 1 \in 1 .. 14 /\ pc' = pc + 1
  BY ProverAt DEF SkipTree, DrawStep, Doing
<1>2. \A i \in 1 .. Made[pc] : Pieces[i] \in DOMAIN proof \/ Missing(proof, Pieces[i])
  BY DEF Proving, MadeSoFar
<1>3. CASE SkipTree
  <2>1. Step.do = "mix" /\ Missing(proof, Step.what)
    BY <1>3, AbsentIs DEF SkipTree, Doing, Proving
  <2>2. Made[pc] \in 0 .. 9 /\ Step.what = Pieces[Made[pc] + 1] /\ Made[pc + 1] = Made[pc] + 1
    BY <1>1, <2>1, ProverFacts
  <2>3. ASSUME NEW i \in 1 .. Made[pc] + 1 PROVE Pieces[i] \in DOMAIN proof \/ Missing(proof, Pieces[i])
    BY <1>2, <2>1, <2>2
  <2> QED BY <1>1, <2>2, <2>3 DEF MadeSoFar
<1>4. CASE DrawStep
  <2>1. Step.do = "draw"
    BY <1>4 DEF DrawStep, Doing
  <2>2. Made[pc + 1] = Made[pc]
    BY <1>1, <2>1, ProverFacts
  <2> QED BY <1>1, <1>2, <2>2 DEF MadeSoFar
<1> QED BY <1>1, <1>3, <1>4

\* An altered proof still has all its pieces.
LEMMA FullPut ==
  ASSUME NEW pf, Full(pf), NEW p, NEW v,
         p = "interaction_log_sizes" /\ v # <<>> => pf["interaction_log_sizes"] # <<>>
  PROVE  Full(Put(pf, p, v))
<1> DEFINE f == Put(pf, p, v)
<1>1. DOMAIN f = DOMAIN pf \cup {p} /\ f[p] = v /\ \A x \in DOMAIN pf \ {p} : f[x] = pf[x]
  BY DEF Put
<1> HIDE DEF f
<1>2. ASSUME NEW i \in 1 .. 10 PROVE Pieces[i] \in DOMAIN f \/ Missing(f, Pieces[i])
  <2>1. CASE Pieces[i] \in DOMAIN pf
    BY <1>1, <2>1
  <2>2. CASE Missing(pf, Pieces[i])
    <3>1. pf["interaction_log_sizes"] = <<>> /\ Pieces[i] = "interaction"
      BY <2>2 DEF Missing
    <3>2. Pieces[7] = "interaction_log_sizes" /\ ~ Missing(pf, Pieces[7])
      BY DEF Pieces, Missing
    <3>3. "interaction_log_sizes" \in DOMAIN pf
      BY <3>2 DEF Full
    <3>4. f["interaction_log_sizes"] = <<>>
      BY <1>1, <3>1, <3>3
    <3> QED BY <3>1, <3>4 DEF Missing
  <2> QED BY <2>1, <2>2 DEF Full
<1>3. Full(f)
  BY <1>2 DEF Full
<1> QED BY <1>3 DEF f

\* An altered list is a list.
LEMMA TableExcept ==
  ASSUME NEW s, IsTable(s), NEW i \in DOMAIN s, NEW v
  PROVE  IsTable([s EXCEPT ![i] = v])
<1>1. PICK S : s \in Seq(S)
  BY DEF IsTable
<1>2. [s EXCEPT ![i] = v] \in Seq(S \cup {v})
  BY <1>1
<1> QED BY <1>2 DEF IsTable

\* Lists that are shortened, changed in one place or empty are lists.
LEMMA TableFront ==
  ASSUME NEW s, IsTable(s)
  PROVE  IsTable(SubSeq(s, 1, Len(s) - 1)) /\ (s = <<>> => SubSeq(s, 1, Len(s) - 1) = <<>>)
<1>1. PICK S : s \in Seq(S)
  BY DEF IsTable
<1>2. SubSeq(s, 1, Len(s) - 1) \in Seq(S)
  BY <1>1
<1>3. s = <<>> => SubSeq(s, 1, Len(s) - 1) = <<>>
  BY <1>1
<1> QED BY <1>2, <1>3 DEF IsTable

\* Whatever its readers get is a whole proof, one piece of it altered at most.
LEMMA Published ==
  ASSUME Proving, Publish
  PROVE  IsMap(proof') /\ Lists(proof') /\ Full(proof')
<1> DEFINE made == Put(proof, "opening", digest)
<1>1. pc = 14
  <2>1. Len(Script) = 13 /\ pc > Len(Script)
    BY ProverScript DEF Proving, Publish
  <2> QED BY <2>1 DEF Proving
<1>2. Full(proof)
  <2>1. Made[14] = 10
    BY DEF Made
  <2> QED BY <1>1, <2>1 DEF Proving, MadeSoFar, Full
<1>3. Lists(proof)
  BY DEF Proving
<1>4. IsMap(made) /\ Lists(made) /\ Full(made)
  <2>1. Lists(made)
    BY <1>3, ListsPut
  <2>2. Full(made)
    BY <1>2, FullPut
  <2> QED BY <2>1, <2>2, PutIn
<1>5. \A x \in DOMAIN proof \ {"opening"} : made[x] = proof[x]
  BY DEF Put
<1>6. CASE proof' = made
  BY <1>4, <1>6
<1>7. CASE proof' = Put(made, "opening", 0)
  <2>1. Lists(Put(made, "opening", 0))
    BY <1>4, ListsPut
  <2>2. Full(Put(made, "opening", 0))
    BY <1>4, FullPut
  <2> QED BY <1>7, <2>1, <2>2, PutIn
<1>8. ASSUME NEW p \in DOMAIN proof, NEW v \in Variants(p) \ {proof[p]}, proof' = Put(made, p, v)
      PROVE  IsMap(proof') /\ Lists(proof') /\ Full(proof')
  <2>1. p = "public_data" => Len(v.output_words) \in Nat
    <3> SUFFICES ASSUME p = "public_data" PROVE Len(v.output_words) \in Nat
      OBVIOUS
    <3>1. v \in {r.statement : r \in [statement : Statements["rv32im"]]}
      BY DEF Variants
    <3>2. v \in Statements["rv32im"]
      BY <3>1
    <3>3. v.output_words \in Seq(Seq(Nat))
      BY <3>2, StatementsAre DEF PublicData
    <3> QED BY <3>3
  <2>2. p = "claim" => Len(v) \in Nat
    <3> SUFFICES ASSUME p = "claim" PROVE Len(v) \in Nat
      OBVIOUS
    <3>1. v \in LogSizes["rv32im"]
      BY DEF Variants, Proving
    <3>2. v \in Seq(Nat)
      BY <3>1, StatementsAre
    <3> QED BY <3>2
  <2>3. p = "sums" => IsTable(v)
    <3> SUFFICES ASSUME p = "sums" PROVE IsTable(v)
      OBVIOUS
    <3>1. v \in {[proof["sums"] EXCEPT ![i] = NoSum] : i \in DOMAIN proof["sums"]}
      BY DEF Variants
    <3>2. PICK i \in DOMAIN proof["sums"] : v = [proof["sums"] EXCEPT ![i] = NoSum]
      BY <3>1
    <3>3. IsTable(proof["sums"])
      BY <1>3 DEF Lists
    <3> QED BY <3>2, <3>3, TableExcept
  <2>4. p = "interaction_log_sizes" => IsTable(v) /\ (v # <<>> => proof["interaction_log_sizes"] # <<>>)
    <3> SUFFICES ASSUME p = "interaction_log_sizes"
                 PROVE  IsTable(v) /\ (v # <<>> => proof["interaction_log_sizes"] # <<>>)
      OBVIOUS
    <3> DEFINE s == proof["interaction_log_sizes"]
    <3>1. v \in {<<>>, SubSeq(s, 1, Len(s) - 1)}
      BY DEF Variants
    <3>2. IsTable(s)
      BY <1>3 DEF Lists
    <3> HIDE DEF s
    <3>3. IsTable(v) /\ (v # <<>> => s # <<>>)
      BY <3>1, <3>2, TableFront, EmptyTable
    <3> QED BY <3>3 DEF s
  <2>5. p = "interaction_log_sizes" => made[p] = proof[p]
    BY <1>5
  <2> HIDE DEF made
  <2>6. Lists(Put(made, p, v))
    BY <1>4, <2>1, <2>2, <2>3, <2>4, ListsPut
  <2>7. Full(Put(made, p, v))
    BY <1>4, <2>4, <2>5, FullPut
  <2> QED BY <1>8, <2>6, <2>7, PutIn
<1> QED BY <1>6, <1>7, <1>8 DEF Publish

-----------------------------------------------------------------------------
(* The invariant.                                                            *)

TInv ==
  /\ protocol \in {"rv32im", "recursion"}
  /\ protocol = "recursion" => role # "replay" /\ "replay" \notin DOMAIN draws
  /\ protocol = "rv32im" =>
       /\ role \in {"prover", "verifier", "replay", "done"}
       /\ DOMAIN verdict = {"prover", "verifier", "replay"}
       /\ role = "prover" => Proving /\ draws = <<>>
       /\ role # "prover" => IsTable(mixes) /\ IsMap(proof) /\ Lists(proof) /\ Full(proof)
       /\ role \in Readers => Reader
       /\ \A r \in DOMAIN draws \cap Readers : Drew(mixes, proof, draws[r])
       /\ role = "verifier" => Passed(pc, mixes, proof, digest, drawn)
       /\ role = "replay" /\ verdict["verifier"] = "accepted" =>
            "verifier" \in DOMAIN draws /\ Accepted(mixes, proof, draws["verifier"])
       /\ role = "done" /\ verdict["verifier"] = "accepted" => verdict["replay"] = "accepted"

\* TInv holds initially, implies the property, and is kept by every action.
LEMMA TInvInit == Init => TInv
<1> SUFFICES ASSUME Init PROVE TInv
  OBVIOUS
<1>1. protocol \in {"rv32im", "recursion"} /\ role = "prover" /\ DOMAIN draws = {}
  BY TranscriptAssumption DEF Init
<1>2. ASSUME protocol = "rv32im" PROVE Proving
  <2>1. IsTable(mixes)
    BY EmptyTable DEF Init
  <2>2. DOMAIN proof = {} /\ IsMap(proof)
    BY DEF Init, IsMap
  <2>3. Lists(proof)
    BY <2>2 DEF Lists
  <2>4. MadeSoFar(proof, 1)
    BY DEF MadeSoFar, Made
  <2> QED BY <1>1, <1>2, <2>1, <2>2, <2>3, <2>4 DEF Init, Proving
<1> QED BY <1>1, <1>2 DEF Init, TInv, Readers

LEMMA TInvImplies == TInv => ReplayAgrees
<1> SUFFICES ASSUME TInv PROVE ReplayAgrees
  OBVIOUS
<1>1. ASSUME {"verifier", "replay"} \subseteq DOMAIN draws,
             NEW name \in DOMAIN draws["verifier"] \cap DOMAIN draws["replay"]
      PROVE  draws["verifier"][name] = draws["replay"][name]
  <2>1. protocol = "rv32im" /\ role # "prover"
    BY <1>1 DEF TInv
  <2>2. Sized(proof)
    BY <2>1, FullSized DEF TInv
  <2>3. Drew(mixes, proof, draws["verifier"]) /\ Drew(mixes, proof, draws["replay"])
    BY <1>1, <2>1 DEF TInv, Readers
  <2> QED BY <1>1, <2>2, <2>3, DrawsAgree
<1> QED BY <1>1 DEF TInv, ReplayAgrees

\* The recursion's own proofs have no replay.
LEMMA RecursionNext ==
  ASSUME TInv, protocol = "recursion", Next
  PROVE  TInv'
<1>1. role # "replay" /\ "replay" \notin DOMAIN draws
  BY DEF TInv
<1>2. protocol' = protocol
  BY DEF Next, MixStep, SkipTree, Grind, DrawStep, CheckStep, CheckFails, Finish, Publish, Leave
<1>3. /\ role' # "replay"
      /\ draws' = draws \/ draws' = Put(draws, role, drawn)
  BY <1>1 DEF Next, MixStep, SkipTree, Grind, DrawStep, CheckStep, CheckFails, Finish, Publish, Leave, After
<1>4. "replay" \notin DOMAIN draws'
  BY <1>1, <1>3 DEF Put
<1> QED BY <1>2, <1>3, <1>4 DEF TInv

\* A reader starts on a channel of its own.
LEMMA Starts ==
  ASSUME NEW r \in Readers, NEW t, NEW pf
  PROVE  Reading(r, t, pf, 1, 0, 0, <<>>)
<1>1. Mixed(r)[1] = 0 /\ PlanLength(r) \in Nat /\ PlanLength(r) >= 0
  BY DEF Mixed, PlanLength
<1>2. \A name : DrawAt(r, name) >= 7 /\ DrawAt(r, name) \in Nat
  BY DEF DrawAt
<1>3. Reached(t, pf, 0, 0)
  BY ReachedStart
<1>4. Drew(t, pf, <<>>)
  BY DEF Drew
<1> QED BY <1>1, <1>2, <1>3, <1>4 DEF Reading

\* A step while the prover of an rv32im proof is at work.
LEMMA ProverNext ==
  ASSUME TInv, protocol = "rv32im", role = "prover", Next
  PROVE  TInv'
<1>1. Proving /\ draws = <<>> /\ DOMAIN draws = {} /\ DOMAIN verdict = {"prover", "verifier", "replay"}
  BY DEF TInv
<1>2. protocol' = protocol /\ run' = run
  BY DEF Next, MixStep, SkipTree, Grind, DrawStep, CheckStep, CheckFails, Finish, Publish, Leave
<1>3. CASE MixStep \/ Grind \/ SkipTree \/ DrawStep
  <2>1. UNCHANGED <<role, draws, verdict>>
    BY <1>3 DEF MixStep, Grind, SkipTree, DrawStep
  <2>2. /\ pc' \in 1 .. 14
        /\ IsTable(mixes') /\ IsMap(proof') /\ Lists(proof') /\ MadeSoFar(proof', pc')
    <3>1. CASE MixStep
      BY <1>1, <3>1, ProverMixes
    <3>2. CASE Grind
      BY <1>1, <3>2, ProverGrinds
    <3>3. CASE SkipTree \/ DrawStep
      <4>1. pc' \in 1 .. 14 /\ MadeSoFar(proof, pc')
        BY <1>1, <3>3, ProverMoves
      <4>2. proof' = proof /\ mixes' = mixes
        BY <3>3 DEF SkipTree, DrawStep
      <4> QED BY <1>1, <4>1, <4>2 DEF Proving
    <3> QED BY <1>3, <3>1, <3>2, <3>3
  <2>3. Proving'
    BY <1>1, <1>2, <2>1, <2>2 DEF Proving
  <2> QED BY <1>1, <1>2, <2>1, <2>3 DEF TInv, Readers
<1>4. CASE CheckStep \/ CheckFails
  <2>1. pc <= Len(Script) /\ Step.do = "check"
    BY <1>4 DEF CheckStep, CheckFails, Doing
  <2>2. FALSE
    BY <1>1, <2>1, ProverAt, ProverFacts
  <2> QED BY <2>2
<1>5. CASE Publish
  <2>1. IsMap(proof') /\ Lists(proof') /\ Full(proof')
    BY <1>1, <1>5, Published
  <2>2. /\ role' = "verifier" /\ pc' = 1 /\ digest' = 0 /\ n_draws' = 0 /\ drawn' = <<>> /\ mixes' = mixes
        /\ draws' = Put(draws, "prover", drawn) /\ verdict' = [verdict EXCEPT !["prover"] = "accepted"]
    BY <1>5 DEF Publish, Leave
  <2>3. DOMAIN draws' = {"prover"}
    BY <1>1, <2>2 DEF Put
  <2>4. IsTable(mixes')
    BY <1>1, <2>2 DEF Proving
  <2>5. Reading("verifier", mixes', proof', 1, 0, 0, <<>>)
    BY Starts DEF Readers
  <2>6. Reader'
    BY <1>2, <2>1, <2>2, <2>4, <2>5 DEF Reader, Readers
  <2>7. Passed(pc', mixes', proof', digest', drawn')
    BY <2>2 DEF Passed
  <2> QED BY <1>1, <1>2, <2>1, <2>2, <2>3, <2>4, <2>6, <2>7 DEF TInv, Readers
<1>6. CASE Finish
  BY <1>6 DEF Finish
<1> QED BY <1>3, <1>4, <1>5, <1>6 DEF Next

\* A reader of an rv32im proof goes on.
LEMMA ReaderGoesOn ==
  ASSUME TInv, protocol = "rv32im", role \in Readers, MixStep \/ SkipTree \/ DrawStep \/ CheckStep
  PROVE  TInv'
<1>1. /\ Reader /\ DOMAIN verdict = {"prover", "verifier", "replay"}
      /\ \A r \in DOMAIN draws \cap Readers : Drew(mixes, proof, draws[r])
  BY DEF TInv
<1>2. UNCHANGED <<protocol, role, draws, verdict>>
  BY DEF MixStep, SkipTree, DrawStep, CheckStep
<1>3. /\ proof' = proof /\ IsTable(mixes') /\ Extends(mixes', mixes)
      /\ Reading(role, mixes', proof, pc', digest', n_draws', drawn')
  <2>1. CASE MixStep
    BY <1>1, <2>1, ReaderMixes
  <2>2. CASE SkipTree \/ DrawStep \/ CheckStep
    <3>1. proof' = proof /\ mixes' = mixes
      BY <2>2 DEF SkipTree, DrawStep, CheckStep
    <3>2. IsTable(mixes)
      BY <1>1 DEF Reader
    <3>3. Extends(mixes', mixes)
      BY <3>1, <3>2, ExtendsSelf
    <3>4. Reading(role, mixes', proof, pc', digest', n_draws', drawn')
      BY <1>1, <2>2, ReaderSkips, ReaderDraws, ReaderChecks
    <3> QED BY <3>1, <3>2, <3>3, <3>4
  <2> QED BY <2>1, <2>2
<1>4. IsTable(mixes) /\ IsMap(proof) /\ Lists(proof) /\ Full(proof)
  BY <1>1 DEF Reader
<1>5. Reader'
  BY <1>1, <1>2, <1>3, <1>4 DEF Reader
<1>6. \A r \in DOMAIN draws \cap Readers : Drew(mixes', proof, draws[r])
  BY <1>1, <1>3, <1>4, DrewKept
<1>7. role = "verifier" => Passed(pc', mixes', proof, digest', drawn')
  <2> SUFFICES ASSUME role = "verifier" PROVE Passed(pc', mixes', proof, digest', drawn')
    OBVIOUS
  <2>1. Passed(pc, mixes, proof, digest, drawn)
    BY DEF TInv
  <2> QED BY <1>1, <2>1, VerifierMixes, VerifierPasses
<1>8. role = "replay" /\ verdict["verifier"] = "accepted" =>
        "verifier" \in DOMAIN draws /\ Accepted(mixes', proof, draws["verifier"])
  <2> SUFFICES ASSUME role = "replay", verdict["verifier"] = "accepted"
               PROVE  "verifier" \in DOMAIN draws /\ Accepted(mixes', proof, draws["verifier"])
    OBVIOUS
  <2>1. "verifier" \in DOMAIN draws /\ Accepted(mixes, proof, draws["verifier"])
    BY DEF TInv
  <2>2. GroundWell(mixes', proof)
    BY <1>3, <1>4, <2>1, GroundWellKept DEF Accepted
  <2> QED BY <2>1, <2>2 DEF Accepted
<1>9. role \notin {"prover", "done"}
  BY DEF Readers
<1>10. role' \in {"prover", "verifier", "replay", "done"} /\ role' \notin {"prover", "done"}
  BY <1>2, <1>9 DEF Readers
<1>11. \A r \in DOMAIN draws' \cap Readers : Drew(mixes', proof', draws'[r])
  BY <1>2, <1>3, <1>6
<1>12. role' = "verifier" => Passed(pc', mixes', proof', digest', drawn')
  BY <1>2, <1>3, <1>7
<1>13. role' = "replay" /\ verdict'["verifier"] = "accepted" =>
        "verifier" \in DOMAIN draws' /\ Accepted(mixes', proof', draws'["verifier"])
  BY <1>2, <1>3, <1>8
<1>14. IsTable(mixes') /\ IsMap(proof') /\ Lists(proof') /\ Full(proof')
  BY <1>3, <1>4
<1> QED BY <1>1, <1>2, <1>5, <1>10, <1>11, <1>12, <1>13, <1>14 DEF TInv

\* The verifier ends: its replay starts, and finds what the verifier accepted.
LEMMA VerifierEnds ==
  ASSUME TInv, protocol = "rv32im", role = "verifier", CheckFails \/ Finish
  PROVE  TInv'
<1>1. /\ Reader /\ DOMAIN verdict = {"prover", "verifier", "replay"}
      /\ \A r \in DOMAIN draws \cap Readers : Drew(mixes, proof, draws[r])
      /\ Passed(pc, mixes, proof, digest, drawn)
  BY DEF TInv, Readers
<1>2. /\ role' = "replay" /\ pc' = 1 /\ digest' = 0 /\ n_draws' = 0 /\ drawn' = <<>>
      /\ UNCHANGED <<protocol, mixes, proof>>
      /\ draws' = Put(draws, "verifier", drawn)
  BY DEF CheckFails, Finish, Leave, After
<1>3. IsTable(mixes) /\ IsMap(proof) /\ Lists(proof) /\ Full(proof) /\ Drew(mixes, proof, drawn)
  BY <1>1 DEF Reader, Reading
<1>4. Reader'
  <2>1. Reading("replay", mixes, proof, 1, 0, 0, <<>>)
    BY Starts DEF Readers
  <2> QED BY <1>2, <1>3, <2>1 DEF Reader, Readers
<1>5. \A r \in DOMAIN draws' \cap Readers : Drew(mixes', proof', draws'[r])
  BY <1>1, <1>2, <1>3 DEF Put
<1>6. "verifier" \in DOMAIN draws' /\ draws'["verifier"] = drawn
  BY <1>2 DEF Put
<1>7. DOMAIN verdict' = {"prover", "verifier", "replay"}
  BY <1>1 DEF CheckFails, Finish, Leave
<1>8. verdict'["verifier"] = "accepted" => Accepted(mixes', proof', draws'["verifier"])
  <2>1. CASE CheckFails
    <3>1. pc <= Len(Script) /\ Step.do = "check" /\ verdict' = [verdict EXCEPT !["verifier"] = Step.what]
      BY <2>1 DEF CheckFails, Doing, Leave
    <3>2. pc \in 1 .. 18 /\ Step = VerifierPlan[pc]
      BY <1>1, <3>1, ReaderAt DEF Plan, PlanLength
    <3>3. Step.what # "accepted"
      BY <3>1, <3>2, VerifierChecksAt
    <3> QED BY <1>1, <3>1, <3>3
  <2>2. CASE Finish
    <3>1. Len(Script) = 18 /\ pc > Len(Script)
      BY <2>2, VerifierScript DEF Finish
    <3>2. pc = 19
      BY <1>1, <3>1 DEF Reader, Reading, PlanLength
    <3>3. DrawNames \subseteq DOMAIN drawn
      BY <1>1, <3>2 DEF Reader, Reading, DrawAt, DrawNames
    <3>4. Accepted(mixes, proof, drawn)
      BY <1>1, <3>2, <3>3 DEF Passed, Accepted
    <3> QED BY <1>2, <1>6, <3>4
  <2> QED BY <2>1, <2>2
<1> QED BY <1>2, <1>3, <1>4, <1>5, <1>6, <1>7, <1>8 DEF TInv, Readers

\* The replay ends: no check of it failed, if its verifier accepted.
LEMMA ReplayEnds ==
  ASSUME TInv, protocol = "rv32im", role = "replay", CheckFails \/ Finish
  PROVE  TInv'
<1>1. /\ Reader /\ DOMAIN verdict = {"prover", "verifier", "replay"}
      /\ \A r \in DOMAIN draws \cap Readers : Drew(mixes, proof, draws[r])
  BY DEF TInv, Readers
<1>2. /\ role' = "done" /\ UNCHANGED <<protocol, mixes, proof>>
      /\ draws' = Put(draws, "replay", drawn)
  BY DEF CheckFails, Finish, Leave, After
<1>3. IsTable(mixes) /\ IsMap(proof) /\ Lists(proof) /\ Full(proof) /\ Drew(mixes, proof, drawn)
  BY <1>1 DEF Reader, Reading
<1>4. \A r \in DOMAIN draws' \cap Readers : Drew(mixes', proof', draws'[r])
  BY <1>1, <1>2, <1>3 DEF Put
<1>5. DOMAIN verdict' = {"prover", "verifier", "replay"} /\ verdict'["verifier"] = verdict["verifier"]
  BY <1>1 DEF CheckFails, Finish, Leave
<1>6. verdict["verifier"] = "accepted" => verdict'["replay"] = "accepted"
  <2> SUFFICES ASSUME verdict["verifier"] = "accepted" PROVE verdict'["replay"] = "accepted"
    OBVIOUS
  <2>1. "verifier" \in DOMAIN draws /\ Accepted(mixes, proof, draws["verifier"])
    BY DEF TInv
  <2>2. Drew(mixes, proof, draws["verifier"])
    BY <1>1, <2>1 DEF Readers
  <2>3. ~ CheckFails
    <3> SUFFICES ASSUME CheckFails PROVE FALSE
      OBVIOUS
    <3>1. pc <= Len(Script) /\ Step.do = "check" /\ ~ Holds(Step.what)
      BY DEF CheckFails, Doing
    <3> QED BY <1>1, <2>1, <2>2, <3>1, ReplayHolds
  <2> QED BY <1>1, <2>3 DEF Finish, Leave
<1> QED BY <1>2, <1>3, <1>4, <1>5, <1>6 DEF TInv, Readers

\* Every step keeps TInv.
LEMMA TInvNext == TInv /\ [Next]_vars => TInv'
<1> SUFFICES ASSUME TInv, [Next]_vars PROVE TInv'
  OBVIOUS
<1>1. CASE UNCHANGED vars
  BY <1>1 DEF vars, TInv, Proving, Reader
<1>2. CASE Next /\ protocol = "recursion"
  BY <1>2, RecursionNext
<1>3. CASE Next /\ protocol = "rv32im"
  <2>1. role \in {"prover", "verifier", "replay", "done"}
    BY <1>3 DEF TInv
  <2>2. CASE role = "prover"
    BY <1>3, <2>2, ProverNext
  <2>3. CASE role \in Readers
    <3>1. ~ Publish
      BY <2>3 DEF Publish, Readers
    <3>2. ~ Grind
      <4> SUFFICES ASSUME Grind PROVE FALSE
        OBVIOUS
      <4>1. pc <= Len(Script) /\ Step.do = "pow"
        BY DEF Grind, Doing
      <4>2. Reader
        BY <1>3, <2>3 DEF TInv
      <4> QED BY <4>1, <4>2, ReaderAt DEF PlanFact
    <3>3. CASE MixStep \/ SkipTree \/ DrawStep \/ CheckStep
      BY <1>3, <2>3, <3>3, ReaderGoesOn
    <3>4. CASE CheckFails \/ Finish
      BY <1>3, <2>3, <3>4, VerifierEnds, ReplayEnds DEF Readers
    <3> QED BY <1>3, <3>1, <3>2, <3>3, <3>4 DEF Next
  <2>4. CASE role = "done"
    BY <1>3, <2>4 DEF Next, MixStep, SkipTree, Grind, DrawStep, CheckStep, CheckFails, Finish, Publish, Doing
  <2> QED BY <2>1, <2>2, <2>3, <2>4 DEF Readers
<1> QED BY <1>1, <1>2, <1>3 DEF TInv

\* The recursion's replay of an rv32im proof (transcript.rs) draws what the verifier
\* (verifier.rs) draws, on every proof a prover publishes and every alteration of one of its
\* pieces that the model has, and accepts whatever the verifier accepts: for every component
\* table, every statement, every log sizes and every nonce bound.
THEOREM ReplayAgreesAlways == Spec => []ReplayAgrees
<1>1. Init => TInv
  BY TInvInit
<1>2. TInv /\ [Next]_vars => TInv'
  BY TInvNext
<1>3. TInv => ReplayAgrees
  BY TInvImplies
<1> QED BY <1>1, <1>2, <1>3, PTL DEF Spec

=============================================================================
