---------------------------- MODULE SpongeProofs ----------------------------
(***************************************************************************)
(* Proofs about Sponge.                                                    *)
(***************************************************************************)
EXTENDS Sponge, WellFoundedInduction, FiniteSetTheorems, TLAPS

\* Induction over the naturals, with the property as the set of numbers that have it: the
\* least number outside of it would follow one inside.
LEMMA Induction ==
  ASSUME NEW S, 0 \in S, \A n \in Nat : n \in S => n + 1 \in S
  PROVE  Nat \subseteq S
<1> DEFINE Less == {ss \in Nat \X Nat : ss[1] < ss[2]}
<1> DEFINE T == Nat \ S
<1> SUFFICES ASSUME T # {} PROVE FALSE
  OBVIOUS
<1>1. IsWellFoundedOn(Less, Nat)
  BY NatLessThanWellFounded DEF OpToRel
<1>2. PICK x \in T : \A y \in T : ~ (<<y, x>> \in Less)
  <2> HIDE DEF Less
  <2> QED BY <1>1, WFMin
<1>3. x # 0 /\ x - 1 \in Nat /\ x - 1 < x
  OBVIOUS
<1>4. x - 1 \notin T
  BY <1>2, <1>3
<1> QED BY <1>3, <1>4

\* The same over 0 .. n.
LEMMA InductionTo ==
  ASSUME NEW S, NEW n \in Nat, 0 \in S, \A i \in 0 .. n - 1 : i \in S => i + 1 \in S
  PROVE  0 .. n \subseteq S
<1> DEFINE T == {i \in Nat : i <= n => i \in S}
<1>1. 0 \in T
  OBVIOUS
<1>2. \A i \in Nat : i \in T => i + 1 \in T
  OBVIOUS
<1>3. Nat \subseteq T
  <2> HIDE DEF T
  <2> QED BY <1>1, <1>2, Induction
<1> QED BY <1>3

-----------------------------------------------------------------------------
\* What the three loops compute: hash_words, replay_digest and check_links.  A loop's values
\* exist for every number of rounds, by induction.
LEMMA AbsorbedLoop ==
  ASSUME NEW words, Len(words) \in Nat
  PROVE  /\ Absorbed(words)[0] = [state |-> ZeroState, slots |-> ZeroBlock, filled |-> 0]
         /\ \A i \in 1 .. Len(words) : Absorbed(words)[i] = AbsorbWord(Absorbed(words)[i - 1], words[i])
<1> DEFINE base == [state |-> ZeroState, slots |-> ZeroBlock, filled |-> 0]
<1> DEFINE Loop(h, n) ==
      h = [i \in 0 .. n |-> IF i = 0 THEN base ELSE AbsorbWord(h[i - 1], words[i])]
<1> DEFINE S == {n \in Nat : \E h : Loop(h, n)}
<1>1. 0 \in S
  <2>1. Loop([i \in 0 .. 0 |-> base], 0)
    OBVIOUS
  <2> HIDE DEF Loop
  <2> QED BY <2>1
<1>2. ASSUME NEW n \in Nat, n \in S PROVE n + 1 \in S
  <2>1. PICK g : Loop(g, n)
    BY <1>2
  <2> DEFINE h == [i \in 0 .. n + 1 |-> IF i = n + 1 THEN AbsorbWord(g[n], words[n + 1]) ELSE g[i]]
  <2>2. \A i \in 0 .. n : g[i] = IF i = 0 THEN base ELSE AbsorbWord(g[i - 1], words[i])
    BY <2>1
  <2>3. \A i \in 0 .. n : h[i] = g[i]
    OBVIOUS
  <2>4. h[n + 1] = AbsorbWord(g[n], words[n + 1])
    OBVIOUS
  <2>5. \A i \in 0 .. n + 1 : h[i] = IF i = 0 THEN base ELSE AbsorbWord(h[i - 1], words[i])
    <3> HIDE DEF base, h
    <3> TAKE i \in 0 .. n + 1
    <3>1. CASE i = n + 1
      BY <3>1, <2>3, <2>4
    <3>2. CASE i # n + 1
      <4>1. i \in 0 .. n /\ (i # 0 => i - 1 \in 0 .. n)
        BY <3>2
      <4> QED BY <4>1, <2>2, <2>3
    <3> QED BY <3>1, <3>2
  <2>6. Loop(h, n + 1)
    BY <2>5
  <2> HIDE DEF Loop
  <2> QED BY <2>6
<1>3. Len(words) \in S
  <2> HIDE DEF S
  <2> QED BY <1>1, <1>2, Induction
<1>4. \E h : Loop(h, Len(words))
  BY <1>3
<1>5. Absorbed(words) = CHOOSE h : Loop(h, Len(words))
  BY DEF Absorbed
<1>6. Loop(Absorbed(words), Len(words))
  <2> HIDE DEF Loop
  <2> QED BY <1>4, <1>5
<1> QED BY <1>6

\* replay_digest.
LEMMA ReplayedLoop ==
  ASSUME NEW chunks, Len(chunks) \in Nat
  PROVE  /\ ReplayStates(chunks)[0] = ZeroState
         /\ \A i \in 1 .. Len(chunks) : ReplayStates(chunks)[i] = Permuted(ReplayStates(chunks)[i - 1], chunks[i])
<1> DEFINE base == ZeroState
<1> DEFINE Loop(h, n) ==
      h = [i \in 0 .. n |-> IF i = 0 THEN base ELSE Permuted(h[i - 1], chunks[i])]
<1> DEFINE S == {n \in Nat : \E h : Loop(h, n)}
<1>1. 0 \in S
  <2>1. Loop([i \in 0 .. 0 |-> base], 0)
    OBVIOUS
  <2> HIDE DEF Loop
  <2> QED BY <2>1
<1>2. ASSUME NEW n \in Nat, n \in S PROVE n + 1 \in S
  <2>1. PICK g : Loop(g, n)
    BY <1>2
  <2> DEFINE h == [i \in 0 .. n + 1 |-> IF i = n + 1 THEN Permuted(g[n], chunks[n + 1]) ELSE g[i]]
  <2>2. \A i \in 0 .. n : g[i] = IF i = 0 THEN base ELSE Permuted(g[i - 1], chunks[i])
    BY <2>1
  <2>3. \A i \in 0 .. n : h[i] = g[i]
    OBVIOUS
  <2>4. h[n + 1] = Permuted(g[n], chunks[n + 1])
    OBVIOUS
  <2>5. \A i \in 0 .. n + 1 : h[i] = IF i = 0 THEN base ELSE Permuted(h[i - 1], chunks[i])
    <3> HIDE DEF base, h
    <3> TAKE i \in 0 .. n + 1
    <3>1. CASE i = n + 1
      BY <3>1, <2>3, <2>4
    <3>2. CASE i # n + 1
      <4>1. i \in 0 .. n /\ (i # 0 => i - 1 \in 0 .. n)
        BY <3>2
      <4> QED BY <4>1, <2>2, <2>3
    <3> QED BY <3>1, <3>2
  <2>6. Loop(h, n + 1)
    BY <2>5
  <2> HIDE DEF Loop
  <2> QED BY <2>6
<1>3. Len(chunks) \in S
  <2> HIDE DEF S
  <2> QED BY <1>1, <1>2, Induction
<1>4. \E h : Loop(h, Len(chunks))
  BY <1>3
<1>5. ReplayStates(chunks) = CHOOSE h : Loop(h, Len(chunks))
  BY DEF ReplayStates
<1>6. Loop(ReplayStates(chunks), Len(chunks))
  <2> HIDE DEF Loop
  <2> QED BY <1>4, <1>5
<1> QED BY <1>6

\* check_links.
LEMMA LinkedLoop ==
  ASSUME NEW claims, NEW outputs, Len(claims) \in Nat
  PROVE  /\ Linked(claims, outputs)[0] = [digest |-> ZeroBlock, index |-> 0]
         /\ \A i \in 1 .. Len(claims) : Linked(claims, outputs)[i] = LinkStep(Linked(claims, outputs)[i - 1], claims[i], outputs)
<1> DEFINE base == [digest |-> ZeroBlock, index |-> 0]
<1> DEFINE Loop(h, n) ==
      h = [i \in 0 .. n |-> IF i = 0 THEN base ELSE LinkStep(h[i - 1], claims[i], outputs)]
<1> DEFINE S == {n \in Nat : \E h : Loop(h, n)}
<1>1. 0 \in S
  <2>1. Loop([i \in 0 .. 0 |-> base], 0)
    OBVIOUS
  <2> HIDE DEF Loop
  <2> QED BY <2>1
<1>2. ASSUME NEW n \in Nat, n \in S PROVE n + 1 \in S
  <2>1. PICK g : Loop(g, n)
    BY <1>2
  <2> DEFINE h == [i \in 0 .. n + 1 |-> IF i = n + 1 THEN LinkStep(g[n], claims[n + 1], outputs) ELSE g[i]]
  <2>2. \A i \in 0 .. n : g[i] = IF i = 0 THEN base ELSE LinkStep(g[i - 1], claims[i], outputs)
    BY <2>1
  <2>3. \A i \in 0 .. n : h[i] = g[i]
    OBVIOUS
  <2>4. h[n + 1] = LinkStep(g[n], claims[n + 1], outputs)
    OBVIOUS
  <2>5. \A i \in 0 .. n + 1 : h[i] = IF i = 0 THEN base ELSE LinkStep(h[i - 1], claims[i], outputs)
    <3> HIDE DEF base, h
    <3> TAKE i \in 0 .. n + 1
    <3>1. CASE i = n + 1
      BY <3>1, <2>3, <2>4
    <3>2. CASE i # n + 1
      <4>1. i \in 0 .. n /\ (i # 0 => i - 1 \in 0 .. n)
        BY <3>2
      <4> QED BY <4>1, <2>2, <2>3
    <3> QED BY <3>1, <3>2
  <2>6. Loop(h, n + 1)
    BY <2>5
  <2> HIDE DEF Loop
  <2> QED BY <2>6
<1>3. Len(claims) \in S
  <2> HIDE DEF S
  <2> QED BY <1>1, <1>2, Induction
<1>4. \E h : Loop(h, Len(claims))
  BY <1>3
<1>5. Linked(claims, outputs) = CHOOSE h : Loop(h, Len(claims))
  BY DEF Linked
<1>6. Loop(Linked(claims, outputs), Len(claims))
  <2> HIDE DEF Loop
  <2> QED BY <1>4, <1>5
<1> QED BY <1>6

-----------------------------------------------------------------------------
LEMMA RateIs == Rate \in Nat /\ Rate > 2
  BY SpongeAssumption

\* The number of whole chunks in so many words.
LEMMA Quotient ==
  ASSUME NEW q \in Nat, NEW r \in 0 .. Rate - 1
  PROVE  (q * Rate + r) \div Rate = q
<1> DEFINE x == q * Rate + r
<1> DEFINE k == x \div Rate
<1> DEFINE t == x % Rate
<1>1. x \in Nat
  BY RateIs, SMT
<1>2. t \in 0 .. Rate - 1 /\ k \in Nat /\ x = Rate * k + t
  BY <1>1, RateIs, SMT
<1>3. x = q * Rate + r
  OBVIOUS
<1> HIDE DEF x, k, t
<1>4. ASSUME q >= k + 1 PROVE FALSE
  <2>1. q - (k + 1) \in Nat
    BY <1>2, <1>4, SMT
  <2>2. Rate * (q - (k + 1)) \in Nat
    BY <2>1, RateIs, SMT
  <2>3. q * Rate = Rate * (q - (k + 1)) + Rate * k + Rate
    BY <1>2, <2>1, RateIs, SMT
  <2> QED BY <1>1, <1>2, <1>3, <2>2, <2>3, RateIs, SMT
<1>5. ASSUME k >= q + 1 PROVE FALSE
  <2>1. k - (q + 1) \in Nat
    BY <1>2, <1>5, SMT
  <2>2. Rate * (k - (q + 1)) \in Nat
    BY <2>1, RateIs, SMT
  <2>3. Rate * k = Rate * (k - (q + 1)) + q * Rate + Rate
    BY <1>2, <2>1, RateIs, SMT
  <2> QED BY <1>1, <1>2, <1>3, <2>2, <2>3, RateIs, SMT
<1>6. k = q
  BY <1>2, <1>4, <1>5, SMT
<1> QED BY <1>6 DEF k, x

\* The first n named chunks, and one more.
Names(c, n) == [k \in 1 .. n |-> Named(c[k])]

LEMMA NamesAppend ==
  ASSUME NEW c, NEW n \in Nat
  PROVE  Names(c, n + 1) = Append(Names(c, n), Named(c[n + 1]))
<1> DEFINE N == {Named(c[k]) : k \in 1 .. n}
<1>1. Names(c, n) \in Seq(N) /\ Len(Names(c, n)) = n
  BY DEF Names
<1>2. \A k \in 1 .. n : Names(c, n)[k] = Named(c[k])
  BY DEF Names
<1>3. /\ Names(c, n + 1) = [k \in 1 .. n + 1 |-> Named(c[k])]
  BY DEF Names
<1> DEFINE s == Names(c, n)
<1> DEFINE x == Named(c[n + 1])
<1>4. Append(s, x) = [k \in 1 .. n + 1 |-> IF k = n + 1 THEN x ELSE s[k]]
  BY <1>1
<1>5. \A k \in 1 .. n + 1 : (IF k = n + 1 THEN x ELSE s[k]) = Named(c[k])
  BY <1>2
<1> HIDE DEF s, x
<1>6. Append(s, x) = [k \in 1 .. n + 1 |-> Named(c[k])]
  BY <1>4, <1>5
<1> QED BY <1>3, <1>6 DEF s, x

\* replay_digest: the permuted state is the sequence of the chunks' names.
LEMMA ReplayIsNames ==
  ASSUME NEW c, Len(c) \in Nat
  PROVE  ReplayDigest(c) = Names(c, Len(c))
<1> DEFINE S == {n \in Nat : n <= Len(c) => ReplayStates(c)[n] = Names(c, n)}
<1>1. 0 \in S
  BY ReplayedLoop DEF Names, ZeroState
<1>2. ASSUME NEW n \in Nat, n \in S PROVE n + 1 \in S
  <2> SUFFICES ASSUME n + 1 <= Len(c) PROVE ReplayStates(c)[n + 1] = Names(c, n + 1)
    OBVIOUS
  <2>1. ReplayStates(c)[n + 1] = Permuted(ReplayStates(c)[n], c[n + 1])
    BY ReplayedLoop
  <2>2. ReplayStates(c)[n] = Names(c, n)
    BY <1>2
  <2>3. Permuted(Names(c, n), c[n + 1]) = Names(c, n + 1)
    BY NamesAppend DEF Permuted
  <2> QED BY <2>1, <2>2, <2>3
<1>3. Len(c) \in S
  <2> HIDE DEF S
  <2> QED BY <1>1, <1>2, Induction
<1> QED BY <1>3 DEF ReplayDigest

\* hash_words once q chunks are permuted and r words wait in the rate.
AbsorbState(w, q, r) ==
  [state |-> Names([k \in 1 .. q |-> Chunk(w, k)], q),
   slots |-> [j \in 1 .. Rate |-> IF j <= r THEN w[q * Rate + j] ELSE W(0)],
   filled |-> r]

LEMMA AbsorbedChunks ==
  ASSUME NEW S, NEW w \in Seq(S), NEW i \in 0 .. Len(w)
  PROVE  \E q \in Nat, r \in 0 .. Rate - 1 :
           i = q * Rate + r /\ Absorbed(w)[i] = AbsorbState(w, q, r)
<1> DEFINE T == {n \in Nat : n <= Len(w) =>
      \E q \in Nat, r \in 0 .. Rate - 1 : n = q * Rate + r /\ Absorbed(w)[n] = AbsorbState(w, q, r)}
<1>1. 0 \in T
  <2>1. 0 = 0 * Rate + 0 /\ 0 \in 0 .. Rate - 1
    BY RateIs
  <2>2. Absorbed(w)[0] = AbsorbState(w, 0, 0)
    <3>1. Absorbed(w)[0] = [state |-> ZeroState, slots |-> ZeroBlock, filled |-> 0]
      BY AbsorbedLoop
    <3>2. Names([k \in 1 .. 0 |-> Chunk(w, k)], 0) = <<>>
      BY DEF Names
    <3>3. ZeroBlock = [j \in 1 .. Rate |-> IF j <= 0 THEN w[0 * Rate + j] ELSE W(0)]
      BY RateIs DEF ZeroBlock
    <3> QED BY <3>1, <3>2, <3>3 DEF ZeroState, AbsorbState
  <2> QED BY <2>1, <2>2
<1>2. ASSUME NEW n \in Nat, n \in T PROVE n + 1 \in T
  <2> SUFFICES ASSUME n + 1 <= Len(w)
               PROVE  \E q \in Nat, r \in 0 .. Rate - 1 :
                        n + 1 = q * Rate + r /\ Absorbed(w)[n + 1] = AbsorbState(w, q, r)
    OBVIOUS
  <2>1. PICK q \in Nat, r \in 0 .. Rate - 1 : n = q * Rate + r /\ Absorbed(w)[n] = AbsorbState(w, q, r)
    BY <1>2
  <2> DEFINE h == Absorbed(w)[n]
  <2> DEFINE slots == [h.slots EXCEPT ![h.filled + 1] = w[n + 1]]
  <2>2. Absorbed(w)[n + 1] = AbsorbWord(h, w[n + 1])
    BY AbsorbedLoop
  <2>3. /\ h.filled = r
        /\ h.state = Names([k \in 1 .. q |-> Chunk(w, k)], q)
        /\ h.slots = [j \in 1 .. Rate |-> IF j <= r THEN w[q * Rate + j] ELSE W(0)]
    BY <2>1 DEF AbsorbState
  <2>4. slots = [j \in 1 .. Rate |-> IF j <= r + 1 THEN w[q * Rate + j] ELSE W(0)]
    <3>1. r + 1 \in 1 .. Rate /\ n + 1 = q * Rate + (r + 1)
      BY <2>1, RateIs
    <3>2. slots = [h.slots EXCEPT ![r + 1] = w[n + 1]]
      BY <2>3
    <3> HIDE DEF slots, h
    <3>3. \A j \in 1 .. Rate : slots[j] = IF j <= r + 1 THEN w[q * Rate + j] ELSE W(0)
      BY <3>1, <3>2, <2>3, RateIs
    <3>4. slots = [j \in 1 .. Rate |-> slots[j]]
      BY <3>2, <2>3
    <3> QED BY <3>3, <3>4
  <2> HIDE DEF h, slots
  <2>5. CASE r + 1 < Rate
    <3>1. n + 1 = q * Rate + (r + 1) /\ r + 1 \in 0 .. Rate - 1
      BY <2>1, <2>5, RateIs
    <3>2. AbsorbWord(h, w[n + 1]) = [h EXCEPT !.slots = slots, !.filled = r + 1]
      BY <2>3, <2>5, RateIs DEF AbsorbWord, slots
    <3>3. AbsorbWord(h, w[n + 1]) = AbsorbState(w, q, r + 1)
      <4>1. h = [state |-> h.state, slots |-> h.slots, filled |-> h.filled]
        BY <2>1 DEF h, AbsorbState
      <4> QED BY <4>1, <3>2, <2>3, <2>4 DEF AbsorbState
    <3> QED BY <3>1, <3>3, <2>2
  <2>6. CASE r + 1 = Rate
    <3>1. n + 1 = (q + 1) * Rate + 0 /\ 0 \in 0 .. Rate - 1 /\ q + 1 \in Nat
      BY <2>1, <2>6, RateIs
    <3>2. AbsorbWord(h, w[n + 1]) = [state |-> Permuted(h.state, slots), slots |-> ZeroBlock, filled |-> 0]
      BY <2>3, <2>6 DEF AbsorbWord, slots
    <3>3. slots = Chunk(w, q + 1)
      <4>1. \A j \in 1 .. Rate : j <= r + 1 /\ (q + 1 - 1) * Rate + j = q * Rate + j
                                 /\ q * Rate + j <= Len(w)
        BY <2>1, <2>6, RateIs
      <4>2. Chunk(w, q + 1) = [j \in 1 .. Rate |-> w[q * Rate + j]]
        BY <4>1 DEF Chunk
      <4> QED BY <2>4, <4>1, <4>2
    <3>4. Permuted(h.state, slots) = Names([k \in 1 .. q + 1 |-> Chunk(w, k)], q + 1)
      <4> DEFINE c == [k \in 1 .. q + 1 |-> Chunk(w, k)]
      <4>1. Names(c, q) = Names([k \in 1 .. q |-> Chunk(w, k)], q)
        BY DEF Names
      <4>2. c[q + 1] = Chunk(w, q + 1)
        OBVIOUS
      <4> HIDE DEF c
      <4>3. Names(c, q + 1) = Append(Names(c, q), Named(c[q + 1]))
        BY NamesAppend
      <4> QED BY <4>1, <4>2, <4>3, <2>3, <3>3 DEF Permuted, c
    <3>5. ZeroBlock = [j \in 1 .. Rate |-> IF j <= 0 THEN w[(q + 1) * Rate + j] ELSE W(0)]
      BY RateIs DEF ZeroBlock
    <3>6. AbsorbWord(h, w[n + 1]) = AbsorbState(w, q + 1, 0)
      BY <3>2, <3>4, <3>5 DEF AbsorbState
    <3> QED BY <3>1, <3>6, <2>2
  <2> QED BY <2>5, <2>6, RateIs
<1>3. i \in T
  <2> HIDE DEF T
  <2> QED BY <1>1, <1>2, Induction
<1> QED BY <1>3

\* Absorbing word by word is replaying the chunks.
LEMMA HashIsReplay ==
  ASSUME NEW S, NEW words \in Seq(S)
  PROVE  HashWords(words) = OutRate(ChunkStream(words))
<1> DEFINE w == Append(words, W(1))
<1> DEFINE c == ChunkStream(words)
<1>1. w \in Seq(S \cup {W(1)}) /\ Len(w) = Len(words) + 1 /\ Len(w) \in Nat
  OBVIOUS
<1>2. c = [k \in 1 .. (Len(w) + Rate - 1) \div Rate |-> Chunk(w, k)]
  BY DEF ChunkStream
<1>3. HashWords(words) =
        LET h == Absorbed(w)[Len(w)]
        IN  RateOf(IF h.filled # 0 THEN Permuted(h.state, h.slots) ELSE h.state)
  BY <1>1 DEF HashWords
<1> HIDE DEF w, c
<1>4. PICK q \in Nat, r \in 0 .. Rate - 1 :
        Len(w) = q * Rate + r /\ Absorbed(w)[Len(w)] = AbsorbState(w, q, r)
  BY <1>1, AbsorbedChunks
<1>5. CASE r = 0
  <2>1. Len(w) + Rate - 1 = q * Rate + (Rate - 1) /\ Rate - 1 \in 0 .. Rate - 1
    BY <1>4, <1>5, RateIs
  <2>2. (Len(w) + Rate - 1) \div Rate = q
    BY <2>1, Quotient
  <2>3. c = [k \in 1 .. q |-> Chunk(w, k)] /\ Len(c) = q
    BY <1>2, <2>2
  <2>4. ReplayDigest(c) = Names(c, q)
    BY <2>3, ReplayIsNames
  <2> QED BY <1>3, <1>4, <1>5, <2>3, <2>4 DEF c, AbsorbState, OutRate
<1>6. CASE r # 0
  <2>1. Len(w) + Rate - 1 = (q + 1) * Rate + (r - 1) /\ r - 1 \in 0 .. Rate - 1 /\ q + 1 \in Nat
    BY <1>4, <1>6, RateIs
  <2>2. (Len(w) + Rate - 1) \div Rate = q + 1
    BY <2>1, Quotient
  <2>3. c = [k \in 1 .. q + 1 |-> Chunk(w, k)] /\ Len(c) = q + 1
    BY <1>2, <2>2
  <2>4. ReplayDigest(c) = Append(Names(c, q), Named(c[q + 1]))
    <3>1. ReplayDigest(c) = Names(c, q + 1)
      BY <2>3, ReplayIsNames
    <3> QED BY <3>1, NamesAppend
  <2>5. Names(c, q) = Names([k \in 1 .. q |-> Chunk(w, k)], q)
    BY <2>3 DEF Names
  <2>6. c[q + 1] = [j \in 1 .. Rate |-> IF j <= r THEN w[q * Rate + j] ELSE W(0)]
    <3>1. c[q + 1] = Chunk(w, q + 1)
      BY <2>3
    <3>2. \A j \in 1 .. Rate : /\ (q + 1 - 1) * Rate + j = q * Rate + j
                               /\ q * Rate + j <= Len(w) <=> j <= r
      BY <1>4, RateIs
    <3> QED BY <3>1, <3>2 DEF Chunk
  <2> QED BY <1>3, <1>4, <1>6, <2>4, <2>5, <2>6 DEF c, Permuted, AbsorbState, OutRate
<1> QED BY <1>5, <1>6

-----------------------------------------------------------------------------
\* A digest: the default one, or the rate of a permuted state.
Block(d) == d = ZeroBlock \/ \E s : d = RateOf(s)

\* The permutation is injective.
LEMMA RateOfInjective ==
  ASSUME NEW s, NEW t, RateOf(s) = RateOf(t)
  PROVE  s = t
<1>1. RateOf(s)[1] = <<s, 1>> /\ RateOf(t)[1] = <<t, 1>>
  BY RateIs DEF RateOf
<1> QED BY <1>1

LEMMA RateIsNotZero ==
  ASSUME NEW s
  PROVE  RateOf(s) # ZeroBlock
<1>1. RateOf(s)[1] = <<s, 1>> /\ ZeroBlock[1] = <<0>>
  BY RateIs DEF RateOf, ZeroBlock, W
<1>2. <<s, 1>> # <<0>>
  OBVIOUS
<1> QED BY <1>1, <1>2

\* The names of digests are as different as they are.
LEMMA NamedRate ==
  ASSUME NEW s
  PROVE  Named(RateOf(s)) = <<s>>
<1>1. RateOf(s)[1] = <<s, 1>>
  BY RateIs DEF RateOf
<1>2. RateOf(s)[1][1] = s /\ Len(RateOf(s)[1]) = 2
  BY <1>1
<1> QED BY <1>2 DEF Named

LEMMA NamedWord ==
  ASSUME NEW chunk, NEW n, chunk[1] = W(n)
  PROVE  Named(chunk) = chunk
<1>1. Len(chunk[1]) = 1
  BY DEF W
<1> QED BY <1>1 DEF Named

LEMMA NamedInjective ==
  ASSUME NEW d, NEW e, Block(d), Block(e), Named(d) = Named(e)
  PROVE  d = e
<1>1. Named(ZeroBlock) = ZeroBlock
  <2>1. ZeroBlock[1] = W(0)
    BY RateIs DEF ZeroBlock
  <2> QED BY <2>1, NamedWord
<1>2. \A s : ZeroBlock # <<s>>
  <2> TAKE s
  <2>1. DOMAIN ZeroBlock = 1 .. Rate /\ DOMAIN <<s>> = 1 .. 1
    BY DEF ZeroBlock
  <2>2. 2 \in 1 .. Rate /\ 2 \notin 1 .. 1
    BY RateIs
  <2> QED BY <2>1, <2>2
<1>3. CASE d = ZeroBlock /\ e = ZeroBlock
  BY <1>3
<1>4. ASSUME NEW s, NEW t, d = RateOf(s), e = RateOf(t) PROVE d = e
  <2>1. <<s>> = <<t>>
    BY <1>4, NamedRate
  <2>2. s = t
    BY <2>1
  <2> QED BY <2>2, <1>4
<1>5. \A s : Named(RateOf(s)) # Named(ZeroBlock)
  BY NamedRate, <1>1, <1>2
<1>6. d = ZeroBlock \/ \E s : d = RateOf(s)
  BY DEF Block
<1>7. e = ZeroBlock \/ \E s : e = RateOf(s)
  BY DEF Block
<1>8. CASE d = ZeroBlock
  <2>1. CASE e = ZeroBlock
    BY <1>3, <1>8, <2>1
  <2>2. ASSUME NEW s, e = RateOf(s) PROVE FALSE
    BY <1>5, <1>8, <2>2
  <2> QED BY <1>7, <2>1, <2>2
<1>9. ASSUME NEW s, d = RateOf(s) PROVE d = e
  <2>1. e # ZeroBlock
    BY <1>5, <1>9
  <2>2. PICK t : e = RateOf(t)
    BY <1>7, <2>1
  <2> QED BY <1>4, <1>9, <2>2
<1> QED BY <1>6, <1>8, <1>9

LEMMA Concatenated ==
  ASSUME NEW S, NEW s \in Seq(S), NEW t \in Seq(S)
  PROVE  /\ s \o t \in Seq(S) /\ Len(s \o t) = Len(s) + Len(t)
         /\ \A j \in 1 .. Len(s) : (s \o t)[j] = s[j]
         /\ \A j \in 1 .. Len(t) : (s \o t)[Len(s) + j] = t[j]
  OBVIOUS

\* One run of the sponge: a digest, then words.
Run(d, ws) == ChunkStream(d \o Words(ws))

LEMMA RunWords ==
  ASSUME NEW d, Block(d), NEW ws \in Seq(Nat)
  PROVE  /\ \E S : d \o Words(ws) \in Seq(S)
         /\ LET w == Append(d \o Words(ws), W(1))
            IN  /\ Len(w) = Rate + Len(ws) + 1
                /\ \A j \in 1 .. Rate : w[j] = d[j]
                /\ \A j \in 1 .. Len(ws) : w[Rate + j] = W(ws[j])
                /\ w[Rate + Len(ws) + 1] = W(1)
<1> DEFINE S == {d[j] : j \in 1 .. Rate} \cup {W(ws[j]) : j \in 1 .. Len(ws)}
<1>1. d \in Seq(S) /\ Len(d) = Rate
  <2>1. d = [j \in 1 .. Rate |-> d[j]]
    BY DEF Block, ZeroBlock, RateOf
  <2>2. [j \in 1 .. Rate |-> d[j]] \in Seq(S) /\ Len([j \in 1 .. Rate |-> d[j]]) = Rate
    BY RateIs
  <2> QED BY <2>1, <2>2
<1>2. /\ Words(ws) \in Seq(S) /\ Len(Words(ws)) = Len(ws)
      /\ \A j \in 1 .. Len(ws) : Words(ws)[j] = W(ws[j])
  BY DEF Words
<1>7. PICK T, v : d \in Seq(T) /\ v = Words(ws) /\ v \in Seq(T)
  BY <1>1, <1>2
<1> HIDE DEF S
<1>3. /\ d \o v \in Seq(T) /\ Len(d \o v) = Len(d) + Len(v)
      /\ \A j \in 1 .. Len(d) : (d \o v)[j] = d[j]
      /\ \A j \in 1 .. Len(v) : (d \o v)[Len(d) + j] = v[j]
  BY <1>7, Concatenated
<1> DEFINE w == Append(d \o v, W(1))
<1>4. /\ Len(w) = Len(d) + Len(v) + 1
      /\ \A j \in 1 .. Len(d) + Len(v) : w[j] = (d \o v)[j]
      /\ w[Len(d) + Len(v) + 1] = W(1)
  BY <1>3
<1>5. \A j \in 1 .. Len(v) : Rate + j \in 1 .. Rate + Len(v)
  BY RateIs, <1>2, <1>7
<1>6. 1 .. Rate \subseteq 1 .. Rate + Len(v)
  BY RateIs, <1>2, <1>7
<1> QED BY <1>1, <1>2, <1>7, <1>3, <1>4, <1>5, <1>6

\* A run's first chunk is the digest; every later one begins with a word; and check_links
\* takes it for a draw when its second word is the tag and no third chunk is needed.
Shape(d, ws, c) ==
  /\ Len(c) \in Nat /\ Len(c) >= 2 /\ c = [k \in 1 .. Len(c) |-> c[k]]
  /\ c[1] = d
  /\ \A k \in 2 .. Len(c) : /\ c[k] = [j \in 1 .. Rate |-> c[k][j]]
                            /\ \E n \in Nat : c[k][1] = W(n)
  /\ Len(c) = 2 /\ c[2][2] = W(DrawTag) <=> Len(ws) \in 2 .. Rate - 1 /\ ws[2] = DrawTag

LEMMA RunShape ==
  ASSUME NEW d, Block(d), NEW ws \in Seq(Nat), NEW c, c = Run(d, ws)
  PROVE  Shape(d, ws, c)
<1> DEFINE w == Append(d \o Words(ws), W(1))
<1>1. /\ Len(w) = Rate + Len(ws) + 1
      /\ \A j \in 1 .. Rate : w[j] = d[j]
      /\ \A j \in 1 .. Len(ws) : w[Rate + j] = W(ws[j])
      /\ w[Rate + Len(ws) + 1] = W(1)
  BY RunWords
<1>2. c = [k \in 1 .. (Len(w) + Rate - 1) \div Rate |-> Chunk(w, k)]
  BY DEF Run, ChunkStream
<1> HIDE DEF w
<1>3. PICK q \in Nat, r \in 0 .. Rate - 1 : Len(ws) = q * Rate + r
  <2>1. Len(ws) \in Nat
    OBVIOUS
  <2>2. PICK n \in Nat : n = Len(ws)
    BY <2>1
  <2>3. n \div Rate \in Nat /\ n % Rate \in 0 .. Rate - 1 /\ n = Rate * (n \div Rate) + (n % Rate)
    BY RateIs, SMT
  <2>4. n = (n \div Rate) * Rate + (n % Rate)
    BY <2>3, RateIs, SMT
  <2> QED BY <2>2, <2>3, <2>4
<1>4. (Len(w) + Rate - 1) \div Rate = q + 2
  <2>1. Len(w) + Rate - 1 = (q + 2) * Rate + r /\ q + 2 \in Nat
    BY <1>1, <1>3, RateIs
  <2> QED BY <2>1, Quotient
<1>5. Len(c) = q + 2 /\ c = [k \in 1 .. q + 2 |-> Chunk(w, k)]
  BY <1>2, <1>4
<1>6. c[1] = d
  <2>1. c[1] = Chunk(w, 1)
    BY <1>5
  <2>2. \A j \in 1 .. Rate : (1 - 1) * Rate + j = j /\ j <= Len(w)
    BY <1>1, RateIs
  <2>3. Chunk(w, 1) = [j \in 1 .. Rate |-> d[j]]
    BY <2>2, <1>1 DEF Chunk
  <2>4. d = [j \in 1 .. Rate |-> d[j]]
    BY DEF Block, ZeroBlock, RateOf
  <2> QED BY <2>1, <2>3, <2>4
<1>7. ASSUME NEW k \in 2 .. Len(c)
      PROVE  c[k] = [j \in 1 .. Rate |-> c[k][j]] /\ \E n \in Nat : c[k][1] = W(n)
  <2>1. c[k] = Chunk(w, k)
    BY <1>5
  <2>2. PICK p \in Nat : k = p + 2 /\ p <= q
    <3>1. k - 2 \in Nat /\ k = (k - 2) + 2 /\ k - 2 <= q
      BY <1>5
    <3> QED BY <3>1
  <2>3. p * Rate \in Nat /\ p * Rate <= q * Rate
    <3>1. q - p \in Nat
      BY <2>2
    <3>2. (q - p) * Rate \in Nat
      BY <3>1, RateIs, SMT
    <3>3. q * Rate = (q - p) * Rate + p * Rate
      BY <3>1, <2>2, RateIs, SMT
    <3>4. p * Rate \in Nat
      BY RateIs, SMT
    <3> QED BY <3>2, <3>3, <3>4
  <2>4. (k - 1) * Rate + 1 = Rate + (p * Rate + 1)
    BY <2>2, RateIs, SMT
  <2>5. p * Rate + 1 <= Len(ws) + 1
    BY <2>3, <1>3, RateIs
  <2>6. c[k][1] = w[Rate + (p * Rate + 1)]
    <3>1. (k - 1) * Rate + 1 <= Len(w)
      <4> DEFINE x == (k - 1) * Rate + 1
      <4> DEFINE y == p * Rate
      <4>1. x = Rate + (y + 1) /\ y \in Nat /\ y + 1 <= Len(ws) + 1
        BY <2>3, <2>4, <2>5
      <4> HIDE DEF x, y
      <4>2. PICK n \in Nat : n = Len(ws) /\ Len(w) = Rate + n + 1
        BY <1>1
      <4>3. x <= Len(w)
        BY <4>1, <4>2, RateIs
      <4> QED BY <4>3 DEF x
    <3>2. Chunk(w, k)[1] = w[(k - 1) * Rate + 1]
      BY <3>1, RateIs DEF Chunk
    <3> QED BY <2>1, <2>4, <3>2
  <2>7. CASE p * Rate + 1 <= Len(ws)
    <3>1. p * Rate + 1 \in 1 .. Len(ws)
      BY <2>7, <2>3
    <3>2. ws[p * Rate + 1] \in Nat
      BY <3>1
    <3> QED BY <2>1, <2>6, <3>1, <3>2, <1>1 DEF Chunk
  <2>8. CASE p * Rate + 1 = Len(ws) + 1
    <3>1. Rate + (p * Rate + 1) = Rate + Len(ws) + 1
      BY <2>8, RateIs
    <3> QED BY <2>1, <2>6, <3>1, <1>1 DEF Chunk
  <2> QED BY <2>5, <2>7, <2>8, <2>3
<1>8. Len(c) = 2 <=> Len(ws) <= Rate - 1
  <2>1. q = 0 => Len(ws) <= Rate - 1
    BY <1>3, RateIs
  <2>2. ASSUME q # 0 PROVE Len(ws) >= Rate
    <3>1. q - 1 \in Nat
      BY <2>2
    <3>2. (q - 1) * Rate \in Nat /\ q * Rate = (q - 1) * Rate + Rate
      BY <3>1, RateIs, SMT
    <3> QED BY <3>2, <1>3, RateIs
  <2> QED BY <2>1, <2>2, <1>5, RateIs
<1>9. ASSUME Len(c) = 2 PROVE c[2][2] = W(DrawTag) <=> Len(ws) >= 2 /\ ws[2] = DrawTag
  <2>1. c[2] = Chunk(w, 2) /\ 2 \in 1 .. Rate
    BY <1>5, <1>9, RateIs
  <2>2. (2 - 1) * Rate + 2 = Rate + 2
    BY RateIs
  <2>3. c[2][2] = IF Rate + 2 <= Len(w) THEN w[Rate + 2] ELSE W(0)
    BY <2>1, <2>2 DEF Chunk
  <2>4. DrawTag \notin {0, 1}
    BY SpongeAssumption
  <2>5. CASE Len(ws) = 0
    BY <2>3, <2>4, <2>5, <1>1, RateIs DEF W
  <2>6. CASE Len(ws) = 1
    <3>1. c[2][2] = W(1)
      BY <2>3, <2>6, <1>1, RateIs
    <3> QED BY <3>1, <2>4, <2>6 DEF W
  <2>7. CASE Len(ws) >= 2
    <3>1. c[2][2] = W(ws[2])
      BY <2>3, <2>7, <1>1, RateIs
    <3> QED BY <3>1, <2>7 DEF W
  <2>8. Len(ws) \in Nat
    OBVIOUS
  <2>9. Len(ws) = 0 \/ Len(ws) = 1 \/ Len(ws) >= 2
    <3>1. PICK n \in Nat : n = Len(ws)
      BY <2>8
    <3>2. n = 0 \/ n = 1 \/ n >= 2
      OBVIOUS
    <3> QED BY <3>1, <3>2
  <2> QED BY <2>5, <2>6, <2>7, <2>9
<1>10. Len(ws) \in Nat
  OBVIOUS
<1>11. Len(c) = 2 /\ c[2][2] = W(DrawTag) <=> Len(ws) \in 2 .. Rate - 1 /\ ws[2] = DrawTag
  BY <1>8, <1>9, <1>10, RateIs
<1>12. Len(c) \in Nat /\ Len(c) >= 2 /\ c = [k \in 1 .. Len(c) |-> c[k]]
  BY <1>5
<1> QED BY <1>6, <1>7, <1>11, <1>12 DEF Shape

\* Runs with the same output began with the same digest.
LEMMA OutNamesFirst ==
  ASSUME NEW d, Block(d), NEW e, Block(e), NEW ws \in Seq(Nat), NEW vs \in Seq(Nat),
         OutRate(Run(d, ws)) = OutRate(Run(e, vs))
  PROVE  d = e
<1> DEFINE c == Run(d, ws)
<1> DEFINE b == Run(e, vs)
<1>1. Len(c) \in Nat /\ Len(c) >= 2 /\ c[1] = d
  BY RunShape DEF Shape
<1>2. Len(b) \in Nat /\ Len(b) >= 2 /\ b[1] = e
  BY RunShape DEF Shape
<1>3. ReplayDigest(c) = ReplayDigest(b)
  BY RateOfInjective DEF OutRate
<1> HIDE DEF c, b
<1>4. Names(c, Len(c)) = Names(b, Len(b))
  BY <1>1, <1>2, <1>3, ReplayIsNames
<1>5. Names(c, Len(c))[1] = Named(d) /\ Names(b, Len(b))[1] = Named(e)
  BY <1>1, <1>2 DEF Names
<1> QED BY <1>4, <1>5, NamedInjective

\* A run with a foreign word where a later chunk begins has another output.
LEMMA ForeignOut ==
  ASSUME NEW d, Block(d), NEW ws \in Seq(Nat), NEW c, c = Run(d, ws), NEW k \in 2 .. Len(c)
  PROVE  OutRate([c EXCEPT ![k][1] = Foreign]) # OutRate(c)
<1> DEFINE b == [c EXCEPT ![k][1] = Foreign]
<1>0. Shape(d, ws, c)
  BY RunShape
<1>1. /\ Len(c) \in Nat /\ c = [i \in 1 .. Len(c) |-> c[i]]
      /\ c[k] = [j \in 1 .. Rate |-> c[k][j]]
  BY <1>0 DEF Shape
<1>2. PICK n \in Nat : c[k][1] = W(n)
  BY <1>0 DEF Shape
<1>3. b = [i \in 1 .. Len(c) |-> IF i = k THEN [c[k] EXCEPT ![1] = Foreign] ELSE c[i]]
  BY <1>1
<1>4. Len(b) = Len(c) /\ b[k] = [c[k] EXCEPT ![1] = Foreign]
  <2> DEFINE f == [i \in 1 .. Len(c) |-> IF i = k THEN [c[k] EXCEPT ![1] = Foreign] ELSE c[i]]
  <2>1. k \in 1 .. Len(c)
    BY <1>1
  <2>2. Len(f) = Len(c)
    BY <1>1
  <2>3. f[k] = [c[k] EXCEPT ![1] = Foreign]
    BY <2>1
  <2>4. b = f
    BY <1>3
  <2> HIDE DEF f, b
  <2> QED BY <2>2, <2>3, <2>4
<1>5. b[k][1] = Foreign
  BY <1>1, <1>4, RateIs
<1> HIDE DEF b
<1>6. Named(b[k]) = b[k] /\ Named(c[k]) = c[k]
  BY <1>2, <1>5, NamedWord DEF Foreign
<1>7. Foreign # W(n)
  BY DEF Foreign, W
<1>8. SUFFICES ASSUME OutRate(b) = OutRate(c) PROVE FALSE
  BY DEF b
<1>9. Names(b, Len(c)) = Names(c, Len(c))
  BY <1>1, <1>4, <1>8, RateOfInjective, ReplayIsNames DEF OutRate
<1>10. Names(b, Len(c))[k] = b[k] /\ Names(c, Len(c))[k] = c[k]
  BY <1>1, <1>6 DEF Names
<1> QED BY <1>2, <1>5, <1>7, <1>9, <1>10

-----------------------------------------------------------------------------
(***************************************************************************)
(* check_links.                                                            *)
(***************************************************************************)
\* What a run does to the digest and to the number of claimed draws.
LEMMA LinkCases ==
  ASSUME NEW acc, NEW d, NEW x \in Nat, acc = [digest |-> d, index |-> x],
         NEW claim, NEW outputs
  PROVE  LinkStep(acc, claim, outputs) =
           [digest |-> IF Breaks(acc, claim, outputs) THEN Broken
                       ELSE IF IsDraw(claim) THEN d ELSE OutRate(claim.chunks),
            index |-> IF ~Breaks(acc, claim, outputs) /\ IsDraw(claim) THEN x + 1 ELSE x]
<1>1. /\ [acc EXCEPT !.digest = Broken] = [digest |-> Broken, index |-> x]
      /\ [acc EXCEPT !.digest = OutRate(claim.chunks)]
           = [digest |-> OutRate(claim.chunks), index |-> x]
      /\ [acc EXCEPT !.index = @ + 1] = [digest |-> d, index |-> x + 1]
  OBVIOUS
<1> QED BY <1>1 DEF LinkStep

DigestAt(c, outputs, i) == Linked(c, outputs)[i].digest
IndexAt(c, outputs, i) == Linked(c, outputs)[i].index
BreaksAt(c, outputs, i) == Breaks(Linked(c, outputs)[i - 1], c[i], outputs)

\* The record check_links carries from run to run.
LinkState(acc) == \E d : \E x \in Nat : acc = [digest |-> d, index |-> x]

LEMMA LinkStateStep ==
  ASSUME NEW acc, LinkState(acc), NEW claim, NEW outputs
  PROVE  LET new == LinkStep(acc, claim, outputs)
             breaks == Breaks(acc, claim, outputs)
         IN  /\ LinkState(new)
             /\ new.digest = IF breaks THEN Broken
                             ELSE IF IsDraw(claim) THEN acc.digest ELSE OutRate(claim.chunks)
             /\ new.index = IF ~breaks /\ IsDraw(claim) THEN acc.index + 1 ELSE acc.index
<1>1. PICK d, x : x \in Nat /\ acc = [digest |-> d, index |-> x]
  BY DEF LinkState
<1> DEFINE nd == IF Breaks(acc, claim, outputs) THEN Broken
                 ELSE IF IsDraw(claim) THEN d ELSE OutRate(claim.chunks)
<1> DEFINE nx == IF ~Breaks(acc, claim, outputs) /\ IsDraw(claim) THEN x + 1 ELSE x
<1>2. LinkStep(acc, claim, outputs) = [digest |-> nd, index |-> nx]
  BY <1>1, LinkCases
<1>3. nx \in Nat
  BY <1>1
<1>4. acc.digest = d /\ acc.index = x
  BY <1>1
<1>5. LinkState([digest |-> nd, index |-> nx])
  <2> HIDE DEF nd, nx
  <2> QED BY <1>3 DEF LinkState
<1> QED BY <1>2, <1>4, <1>5

\* The digest and the count after every run.
LEMMA LinkedIs ==
  ASSUME NEW c, NEW outputs, Len(c) \in Nat
  PROVE  /\ DigestAt(c, outputs, 0) = ZeroBlock /\ IndexAt(c, outputs, 0) = 0
         /\ \A i \in 0 .. Len(c) : IndexAt(c, outputs, i) \in Nat
         /\ \A i \in 1 .. Len(c) :
              /\ DigestAt(c, outputs, i) =
                   IF BreaksAt(c, outputs, i) THEN Broken
                   ELSE IF IsDraw(c[i]) THEN DigestAt(c, outputs, i - 1) ELSE OutRate(c[i].chunks)
              /\ IndexAt(c, outputs, i) =
                   IF ~BreaksAt(c, outputs, i) /\ IsDraw(c[i]) THEN IndexAt(c, outputs, i - 1) + 1
                   ELSE IndexAt(c, outputs, i - 1)
<1> DEFINE L == Linked(c, outputs)
<1> DEFINE S == {n \in 0 .. Len(c) : LinkState(L[n])}
<1>1. L[0] = [digest |-> ZeroBlock, index |-> 0]
      /\ \A i \in 1 .. Len(c) : L[i] = LinkStep(L[i - 1], c[i], outputs)
  BY LinkedLoop
<1> HIDE DEF L
<1>2. 0 \in S
  <2>1. LinkState([digest |-> ZeroBlock, index |-> 0])
    BY DEF LinkState
  <2> QED BY <1>1, <2>1
<1>3. ASSUME NEW n \in 0 .. Len(c) - 1, n \in S PROVE n + 1 \in S
  <2>1. n + 1 \in 1 .. Len(c) /\ n + 1 - 1 = n /\ LinkState(L[n])
    BY <1>3
  <2>2. L[n + 1] = LinkStep(L[n], c[n + 1], outputs)
    BY <1>1, <2>1
  <2> QED BY <2>1, <2>2, LinkStateStep
<1>4. \A i \in 0 .. Len(c) : LinkState(L[i])
  <2>1. 0 .. Len(c) \subseteq S
    <3> HIDE DEF S
    <3> QED BY <1>2, <1>3, InductionTo
  <2> QED BY <2>1
<1>5. ASSUME NEW i \in 1 .. Len(c)
      PROVE  /\ L[i].digest = IF BreaksAt(c, outputs, i) THEN Broken
                              ELSE IF IsDraw(c[i]) THEN L[i - 1].digest ELSE OutRate(c[i].chunks)
             /\ L[i].index = IF ~BreaksAt(c, outputs, i) /\ IsDraw(c[i])
                               THEN L[i - 1].index + 1 ELSE L[i - 1].index
  <2>1. LinkState(L[i - 1])
    BY <1>4
  <2>2. L[i] = LinkStep(L[i - 1], c[i], outputs)
    BY <1>1
  <2> QED BY <2>1, <2>2, LinkStateStep DEF BreaksAt, L
<1>6. L[0].digest = ZeroBlock /\ L[0].index = 0
  BY <1>1
<1>7. \A i \in 0 .. Len(c) : L[i].index \in Nat
  <2> TAKE i \in 0 .. Len(c)
  <2>1. PICK d, x : x \in Nat /\ L[i] = [digest |-> d, index |-> x]
    BY <1>4 DEF LinkState
  <2> QED BY <2>1
<1> QED BY <1>5, <1>6, <1>7 DEF DigestAt, IndexAt, L

\* An error ends the check.
LEMMA BrokenStays ==
  ASSUME NEW c, NEW outputs, Len(c) \in Nat,
         NEW i \in 0 .. Len(c), DigestAt(c, outputs, i) = Broken
  PROVE  \A j \in i .. Len(c) : DigestAt(c, outputs, j) = Broken
<1> DEFINE S == {n \in 0 .. Len(c) : n >= i => DigestAt(c, outputs, n) = Broken}
<1>1. 0 \in S
  OBVIOUS
<1>2. ASSUME NEW n \in 0 .. Len(c) - 1, n \in S PROVE n + 1 \in S
  <2>1. n + 1 \in 0 .. Len(c) /\ n + 1 \in 1 .. Len(c) /\ n + 1 - 1 = n
    OBVIOUS
  <2>2. CASE n >= i
    <3>1. DigestAt(c, outputs, n) = Broken
      BY <1>2, <2>2
    <3>2. BreaksAt(c, outputs, n + 1)
      BY <2>1, <3>1 DEF BreaksAt, Breaks, DigestAt
    <3>3. DigestAt(c, outputs, n + 1) = Broken
      BY <2>1, <3>2, LinkedIs
    <3> QED BY <2>1, <3>3
  <2>3. CASE n < i
    <3>1. n + 1 >= i => n + 1 = i
      BY <2>3
    <3> QED BY <2>1, <3>1
  <2> QED BY <2>2, <2>3
<1>3. 0 .. Len(c) \subseteq S
  <2> HIDE DEF S
  <2> QED BY <1>1, <1>2, InductionTo
<1> QED BY <1>3

\* Sequences of runs that begin alike, and whose ends are alike, s places apart.
BeginAlike(b, c, n) == \A k \in 1 .. n : b[k] = c[k]
EndAlike(b, c, n, s) == \A k \in n + 1 .. Len(b) : b[k] = c[k + s]

\* Sequences of runs that begin alike are checked alike so far.
LEMMA SamePrefix ==
  ASSUME NEW c, NEW b, NEW outputs, Len(c) \in Nat, Len(b) \in Nat,
         NEW n \in Nat, n <= Len(c), n <= Len(b), BeginAlike(b, c, n)
  PROVE  Linked(b, outputs)[n] = Linked(c, outputs)[n]
<1> DEFINE S == {j \in 0 .. n : Linked(b, outputs)[j] = Linked(c, outputs)[j]}
<1>1. 0 \in S
  BY LinkedLoop
<1>2. ASSUME NEW j \in 0 .. n - 1, j \in S PROVE j + 1 \in S
  <2>1. j + 1 \in 1 .. n /\ j + 1 \in 1 .. Len(c) /\ j + 1 \in 1 .. Len(b) /\ j + 1 - 1 = j
    OBVIOUS
  <2>2. Linked(b, outputs)[j + 1] = LinkStep(Linked(b, outputs)[j], b[j + 1], outputs)
    BY <2>1, LinkedLoop
  <2>3. Linked(c, outputs)[j + 1] = LinkStep(Linked(c, outputs)[j], c[j + 1], outputs)
    BY <2>1, LinkedLoop
  <2>4. Linked(b, outputs)[j] = Linked(c, outputs)[j] /\ b[j + 1] = c[j + 1]
    BY <1>2, <2>1 DEF BeginAlike
  <2>5. j + 1 \in 0 .. n
    OBVIOUS
  <2> QED BY <2>2, <2>3, <2>4, <2>5
<1>3. 0 .. n \subseteq S
  <2> HIDE DEF S
  <2> QED BY <1>1, <1>2, InductionTo
<1> QED BY <1>3

\* Links that hold: every run begins with the digest so far, and a draw with its output.
LEMMA LinksHold ==
  ASSUME NEW c, NEW outputs, Len(c) \in Nat, CheckLinks(c, outputs) # Broken
  PROVE  /\ CheckLinks(c, outputs) = DigestAt(c, outputs, Len(c))
         /\ IndexAt(c, outputs, Len(c)) = Len(outputs)
         /\ \A i \in 1 .. Len(c) :
              /\ ~BreaksAt(c, outputs, i)
              /\ DigestAt(c, outputs, i - 1) = c[i].chunks[1]
              /\ DigestAt(c, outputs, i) = IF IsDraw(c[i]) THEN c[i].chunks[1] ELSE OutRate(c[i].chunks)
<1>1. /\ IndexAt(c, outputs, Len(c)) = Len(outputs)
      /\ CheckLinks(c, outputs) = DigestAt(c, outputs, Len(c))
  BY DEF CheckLinks, IndexAt, DigestAt
<1>2. ASSUME NEW i \in 1 .. Len(c) PROVE ~BreaksAt(c, outputs, i)
  <2> SUFFICES ASSUME BreaksAt(c, outputs, i) PROVE FALSE
    OBVIOUS
  <2>1. DigestAt(c, outputs, i) = Broken
    BY LinkedIs
  <2>2. i \in 0 .. Len(c) /\ Len(c) \in i .. Len(c)
    OBVIOUS
  <2>3. DigestAt(c, outputs, Len(c)) = Broken
    BY <2>1, <2>2, BrokenStays
  <2> QED BY <1>1, <2>3
<1>3. \A i \in 1 .. Len(c) : DigestAt(c, outputs, i - 1) = c[i].chunks[1]
  BY <1>2 DEF BreaksAt, Breaks, DigestAt
<1>4. \A i \in 1 .. Len(c) :
        DigestAt(c, outputs, i) = IF IsDraw(c[i]) THEN c[i].chunks[1] ELSE OutRate(c[i].chunks)
  BY <1>2, <1>3, LinkedIs
<1> QED BY <1>1, <1>2, <1>3, <1>4

\* Links that break somewhere do not hold.
LEMMA LinksBreak ==
  ASSUME NEW c, NEW outputs, Len(c) \in Nat, NEW i \in 1 .. Len(c), BreaksAt(c, outputs, i)
  PROVE  CheckLinks(c, outputs) = Broken
  BY LinksHold

\* Where links hold, the count of draws is the number of outputs; checked against other
\* outputs, or with one run less before, the count keeps its distance.
LEMMA SameCount ==
  ASSUME NEW c, NEW outputs, Len(c) \in Nat, CheckLinks(c, outputs) # Broken,
         NEW b, NEW others, Len(b) \in Nat, CheckLinks(b, others) # Broken,
         NEW n \in 0 .. Len(b), NEW s \in Nat, Len(c) = Len(b) + s,
         EndAlike(b, c, n, s)
  PROVE  IndexAt(b, others, Len(b)) - IndexAt(b, others, n)
           = IndexAt(c, outputs, Len(c)) - IndexAt(c, outputs, n + s)
<1>1. PICK f : f = [j \in 0 .. Len(b) |-> IndexAt(b, others, j)]
  OBVIOUS
<1>2. PICK g : g = [j \in 0 .. Len(b) |-> IndexAt(c, outputs, j + s)]
  OBVIOUS
<1>3. f \in [0 .. Len(b) -> Nat] /\ g \in [0 .. Len(b) -> Nat]
  <2>1. \A j \in 0 .. Len(b) : j + s \in 0 .. Len(c)
    OBVIOUS
  <2>2. \A j \in 0 .. Len(b) : IndexAt(b, others, j) \in Nat /\ IndexAt(c, outputs, j + s) \in Nat
    BY <2>1, LinkedIs
  <2> QED BY <1>1, <1>2, <2>2
<1>4. \A j \in 1 .. Len(b) : f[j] = IF IsDraw(b[j]) THEN f[j - 1] + 1 ELSE f[j - 1]
  <2> TAKE j \in 1 .. Len(b)
  <2>1. j \in 0 .. Len(b) /\ j - 1 \in 0 .. Len(b)
    OBVIOUS
  <2> QED BY <1>1, <2>1, LinkedIs, LinksHold
<1>5. \A j \in n + 1 .. Len(b) : g[j] = IF IsDraw(b[j]) THEN g[j - 1] + 1 ELSE g[j - 1]
  <2> TAKE j \in n + 1 .. Len(b)
  <2>1. /\ j \in 0 .. Len(b) /\ j - 1 \in 0 .. Len(b) /\ j + s \in 1 .. Len(c)
        /\ (j + s) - 1 = (j - 1) + s
    OBVIOUS
  <2>2. IndexAt(c, outputs, j + s) =
          IF IsDraw(c[j + s]) THEN IndexAt(c, outputs, (j + s) - 1) + 1
          ELSE IndexAt(c, outputs, (j + s) - 1)
    BY <2>1, LinkedIs, LinksHold
  <2>3. b[j] = c[j + s]
    BY DEF EndAlike
  <2> QED BY <1>2, <2>1, <2>2, <2>3
<1> DEFINE S == {j \in 0 .. Len(b) : j >= n => f[j] - f[n] = g[j] - g[n]}
<1>6. 0 \in S
  <2>1. 0 >= n => n = 0
    OBVIOUS
  <2> QED BY <2>1, <1>3
<1>7. ASSUME NEW j \in 0 .. Len(b) - 1, j \in S PROVE j + 1 \in S
  <2>1. j + 1 \in 1 .. Len(b) /\ j + 1 - 1 = j /\ j + 1 \in 0 .. Len(b) /\ j \in 0 .. Len(b)
    OBVIOUS
  <2>2. PICK x \in Nat, y \in Nat, u \in Nat, v \in Nat :
          x = f[j] /\ y = g[j] /\ u = f[n] /\ v = g[n]
    <3> HIDE DEF S
    <3> QED BY <1>3, <2>1
  <2>3. CASE j < n
    <3>1. j + 1 >= n => j + 1 = n
      BY <2>3
    <3>2. f[n] - f[n] = g[n] - g[n]
      BY <2>2
    <3> QED BY <2>1, <3>1, <3>2
  <2>4. CASE j >= n
    <3>1. x - u = y - v
      BY <1>7, <2>2, <2>4
    <3>2. f[j + 1] = IF IsDraw(b[j + 1]) THEN x + 1 ELSE x
      BY <1>4, <2>1, <2>2
    <3>3. j + 1 \in n + 1 .. Len(b)
      BY <2>4
    <3>4. g[j + 1] = IF IsDraw(b[j + 1]) THEN y + 1 ELSE y
      BY <1>5, <2>1, <2>2, <3>3
    <3>5. f[j + 1] - u = g[j + 1] - v
      <4>1. CASE IsDraw(b[j + 1])
        <5>1. f[j + 1] = x + 1 /\ g[j + 1] = y + 1
          BY <3>2, <3>4, <4>1
        <5>2. (x + 1) - u = (y + 1) - v
          BY <3>1
        <5> QED BY <5>1, <5>2
      <4>2. CASE ~IsDraw(b[j + 1])
        <5>1. f[j + 1] = x /\ g[j + 1] = y
          BY <3>2, <3>4, <4>2
        <5> QED BY <5>1, <3>1
      <4> QED BY <4>1, <4>2
    <3> QED BY <2>1, <2>2, <3>5
  <2> QED BY <2>3, <2>4
<1>8. 0 .. Len(b) \subseteq S
  <2> HIDE DEF S
  <2> QED BY <1>6, <1>7, InductionTo
<1>9. Len(b) \in S /\ Len(b) >= n
  BY <1>8
<1>10. f[Len(b)] - f[n] = g[Len(b)] - g[n]
  BY <1>9
<1> QED BY <1>1, <1>2, <1>10

-----------------------------------------------------------------------------
(***************************************************************************)
(* A session: D[i] is the digest before operation i, X[i] the draws before *)
(* it, both also defined after the last one.                               *)
(***************************************************************************)
Op == [draw : BOOLEAN, words : Seq(Nat)]

\* A claim is the run of its operation: the digest, then the operation's words.
RunOf(op, claim, d, ws) ==
  /\ ws \in Seq(Nat)
  /\ claim = [channel_id |-> claim.channel_id, chunks |-> Run(d, ws)]
  /\ op.draw => Len(ws) = 2 /\ ws[2] = DrawTag
  /\ ~op.draw => ws = op.words

Typed(os, c, out, D, X) ==
  /\ os \in Seq(Op)
  /\ \E C : c \in Seq(C)
  /\ Len(c) = Len(os)
  /\ \E B : out \in Seq(B)
  /\ \A i \in 1 .. Len(os) + 1 : Block(D[i]) /\ X[i] \in Nat
  /\ D[1] = ZeroBlock /\ X[1] = 0 /\ X[Len(os) + 1] = Len(out)

\* Operation i takes D[i] and X[i] to the next ones.
Steps(os, c, out, D, X) ==
  \A i \in 1 .. Len(os) :
    /\ \E ws : RunOf(os[i], c[i], D[i], ws)
    /\ os[i].draw => /\ D[i + 1] = D[i] /\ X[i + 1] = X[i] + 1
                     /\ out[X[i] + 1] = OutRate(c[i].chunks)
    /\ ~os[i].draw => D[i + 1] = OutRate(c[i].chunks) /\ X[i + 1] = X[i]

\* A digest is the default one or the output of an earlier mix; it is not met again after
\* a mix; and every output is of a draw.
Origin(os, c, D) ==
  \A i \in 1 .. Len(os) + 1 :
    D[i] = ZeroBlock \/ \E k \in 1 .. Len(os) : k < i /\ ~os[k].draw /\ D[i] = OutRate(c[k].chunks)
Fresh(os, D) ==
  \A i, j \in 1 .. Len(os) + 1 : D[i] = D[j] => \A k \in 1 .. Len(os) : i <= k /\ k < j => os[k].draw
Counted(os, out, X) ==
  /\ \A i, j \in 1 .. Len(os) + 1 : i <= j => X[i] <= X[j]
  /\ \A p \in 1 .. Len(out) : \E i \in 1 .. Len(os) : os[i].draw /\ X[i] + 1 = p

Session(os, c, out, D, X) ==
  /\ Typed(os, c, out, D, X)
  /\ Steps(os, c, out, D, X)
  /\ Origin(os, c, D)
  /\ Fresh(os, D)
  /\ Counted(os, out, X)

LEMMA Appended ==
  ASSUME NEW S, NEW s \in Seq(S), NEW x
  PROVE  /\ Append(s, x) \in Seq(S \cup {x})
         /\ Len(Append(s, x)) = Len(s) + 1
         /\ \A i \in 1 .. Len(s) : Append(s, x)[i] = s[i]
         /\ Append(s, x)[Len(s) + 1] = x
  OBVIOUS

\* An output of a run is a block, and not the default one.
LEMMA OutIsBlock ==
  ASSUME NEW chunks
  PROVE  Block(OutRate(chunks)) /\ OutRate(chunks) # ZeroBlock
  BY RateIsNotZero DEF Block, OutRate

\* A session one operation longer.
Longer(f, n, y) == [i \in 1 .. n + 2 |-> IF i = n + 2 THEN y ELSE f[i]]

LEMMA SessionStep ==
  ASSUME NEW os, NEW c, NEW out, NEW D, NEW X, Session(os, c, out, D, X),
         NEW op \in Op, NEW claim, NEW ws, RunOf(op, claim, D[Len(os) + 1], ws)
  PROVE  LET o == OutRate(claim.chunks)
             n == Len(os)
         IN  Session(Append(os, op), Append(c, claim), IF op.draw THEN Append(out, o) ELSE out,
                     Longer(D, n, IF op.draw THEN D[n + 1] ELSE o),
                     Longer(X, n, IF op.draw THEN X[n + 1] + 1 ELSE X[n + 1]))
<1>0. PICK n \in Nat : n = Len(os)
  BY DEF Session, Typed
<1>1. PICK os2, c2, out2, D2, X2, o, C, B :
        /\ n = Len(os) /\ os2 = Append(os, op) /\ c2 = Append(c, claim)
        /\ o = OutRate(claim.chunks) /\ out2 = (IF op.draw THEN Append(out, o) ELSE out)
        /\ D2 = Longer(D, n, IF op.draw THEN D[n + 1] ELSE o)
        /\ X2 = Longer(X, n, IF op.draw THEN X[n + 1] + 1 ELSE X[n + 1])
        /\ c \in Seq(C) /\ out \in Seq(B)
  <2>1. PICK C, B : c \in Seq(C) /\ out \in Seq(B)
    BY DEF Session, Typed
  <2> QED BY <1>0, <2>1
<1>2. /\ os \in Seq(Op) /\ Len(os) = n /\ Len(c) = n
      /\ \A i \in 1 .. n + 1 : Block(D[i]) /\ X[i] \in Nat
      /\ D[1] = ZeroBlock /\ X[1] = 0 /\ X[n + 1] = Len(out)
  BY <1>1 DEF Session, Typed
<1>3. /\ os2 \in Seq(Op) /\ Len(os2) = n + 1
      /\ \A i \in 1 .. n : os2[i] = os[i]
      /\ os2[n + 1] = op
  <2>1. Op \cup {op} = Op
    OBVIOUS
  <2> QED BY <1>1, <1>2, <2>1, Appended
<1>4. /\ c2 \in Seq(C \cup {claim}) /\ Len(c2) = n + 1
      /\ \A i \in 1 .. n : c2[i] = c[i]
      /\ c2[n + 1] = claim
  BY <1>1, <1>2, Appended
<1>5. /\ \E T : out2 \in Seq(T)
      /\ Len(out) \in Nat
      /\ Len(out2) = IF op.draw THEN Len(out) + 1 ELSE Len(out)
      /\ \A i \in 1 .. Len(out) : out2[i] = out[i]
      /\ op.draw => out2[Len(out) + 1] = o
  <2>1. CASE op.draw
    <3>1. out2 = Append(out, o)
      BY <1>1, <2>1
    <3>2. /\ Append(out, o) \in Seq(B \cup {o})
          /\ Len(Append(out, o)) = Len(out) + 1
          /\ \A i \in 1 .. Len(out) : Append(out, o)[i] = out[i]
          /\ Append(out, o)[Len(out) + 1] = o
      BY <1>1, Appended
    <3>3. Len(out) \in Nat
      BY <1>1
    <3> QED BY <2>1, <3>1, <3>2, <3>3
  <2>2. CASE ~op.draw
    BY <1>1, <2>2
  <2> QED BY <2>1, <2>2
<1>6. /\ \A i \in 1 .. n + 1 : D2[i] = D[i] /\ X2[i] = X[i]
      /\ D2[n + 2] = IF op.draw THEN D[n + 1] ELSE o
      /\ X2[n + 2] = IF op.draw THEN X[n + 1] + 1 ELSE X[n + 1]
  BY <1>1 DEF Longer
<1>7. Block(o) /\ o # ZeroBlock
  BY <1>1, OutIsBlock
<1>8. n + 1 \in 1 .. n + 1 /\ 1 \in 1 .. n + 1
  OBVIOUS
<1>9. Typed(os2, c2, out2, D2, X2)
  <2>1. \A i \in 1 .. n + 2 : Block(D2[i]) /\ X2[i] \in Nat
    <3> TAKE i \in 1 .. n + 2
    <3>1. CASE i \in 1 .. n + 1
      BY <3>1, <1>2, <1>6
    <3>2. CASE i = n + 2
      BY <3>2, <1>2, <1>6, <1>7, <1>8
    <3> QED BY <3>1, <3>2
  <2>2. X2[n + 2] = Len(out2)
    BY <1>2, <1>5, <1>6
  <2>3. D2[1] = ZeroBlock /\ X2[1] = 0
    BY <1>2, <1>6, <1>8
  <2>4. n + 1 + 1 = n + 2
    OBVIOUS
  <2> QED BY <1>3, <1>4, <1>5, <2>1, <2>2, <2>3, <2>4 DEF Typed
<1>10. Counted(os, out, X) /\ Fresh(os, D) /\ Origin(os, c, D) /\ Steps(os, c, out, D, X)
  BY DEF Session
<1>11. Steps(os2, c2, out2, D2, X2)
  <2> SUFFICES ASSUME NEW i \in 1 .. n + 1
               PROVE  /\ \E v : RunOf(os2[i], c2[i], D2[i], v)
                      /\ os2[i].draw => /\ D2[i + 1] = D2[i] /\ X2[i + 1] = X2[i] + 1
                                        /\ out2[X2[i] + 1] = OutRate(c2[i].chunks)
                      /\ ~os2[i].draw => D2[i + 1] = OutRate(c2[i].chunks) /\ X2[i + 1] = X2[i]
    BY <1>3 DEF Steps
  <2>1. CASE i \in 1 .. n
    <3>1. /\ \E v : RunOf(os[i], c[i], D[i], v)
          /\ os[i].draw => /\ D[i + 1] = D[i] /\ X[i + 1] = X[i] + 1
                           /\ out[X[i] + 1] = OutRate(c[i].chunks)
          /\ ~os[i].draw => D[i + 1] = OutRate(c[i].chunks) /\ X[i + 1] = X[i]
      BY <2>1, <1>2, <1>10 DEF Steps
    <3>2. /\ os2[i] = os[i] /\ c2[i] = c[i] /\ i \in 1 .. n + 1 /\ i + 1 \in 1 .. n + 1
      BY <2>1, <1>3, <1>4
    <3>3. D2[i] = D[i] /\ X2[i] = X[i] /\ D2[i + 1] = D[i + 1] /\ X2[i + 1] = X[i + 1]
      BY <3>2, <1>6
    <3>4. os[i].draw => out2[X[i] + 1] = out[X[i] + 1]
      <4> SUFFICES ASSUME os[i].draw PROVE X[i] + 1 \in 1 .. Len(out)
        BY <1>5
      <4>1. X[i + 1] = X[i] + 1 /\ X[i] \in Nat
        BY <3>1, <3>2, <1>2
      <4>2. X[i + 1] <= X[n + 1]
        BY <3>2, <1>2, <1>8, <1>10 DEF Counted
      <4> QED BY <4>1, <4>2, <1>2, <1>5
    <3> QED BY <3>1, <3>2, <3>3, <3>4
  <2>2. CASE i = n + 1
    <3>1. os2[i] = op /\ c2[i] = claim /\ D2[i] = D[n + 1] /\ X2[i] = X[n + 1]
      BY <2>2, <1>3, <1>4, <1>6, <1>8
    <3>2. i + 1 = n + 2
      BY <2>2
    <3>3. RunOf(op, claim, D[n + 1], ws)
      BY <1>2
    <3>4. op.draw => out2[X[n + 1] + 1] = OutRate(claim.chunks)
      BY <1>1, <1>2, <1>5
    <3> QED BY <3>1, <3>2, <3>3, <3>4, <1>1, <1>6
  <2> QED BY <2>1, <2>2
<1>12. Origin(os2, c2, D2)
  <2> SUFFICES ASSUME NEW i \in 1 .. n + 2, D2[i] # ZeroBlock
               PROVE  \E k \in 1 .. n + 1 : k < i /\ ~os2[k].draw /\ D2[i] = OutRate(c2[k].chunks)
    BY <1>3 DEF Origin
  <2>1. ASSUME NEW j \in 1 .. n + 1, j <= i, D2[i] = D[j]
        PROVE  \E k \in 1 .. n + 1 : k < i /\ ~os2[k].draw /\ D2[i] = OutRate(c2[k].chunks)
    <3>1. PICK k \in 1 .. n : k < j /\ ~os[k].draw /\ D[j] = OutRate(c[k].chunks)
      BY <2>1, <1>2, <1>10 DEF Origin
    <3>2. k \in 1 .. n + 1 /\ k < i /\ os2[k] = os[k] /\ c2[k] = c[k]
      BY <2>1, <3>1, <1>3, <1>4
    <3> QED BY <2>1, <3>1, <3>2
  <2>2. CASE i \in 1 .. n + 1
    BY <2>1, <2>2, <1>6
  <2>3. CASE i = n + 2 /\ op.draw
    <3>1. n + 1 <= i /\ D2[i] = D[n + 1]
      BY <2>3, <1>6
    <3> QED BY <2>1, <3>1, <1>8
  <2>4. CASE i = n + 2 /\ ~op.draw
    <3>1. n + 1 < i /\ D2[i] = o /\ os2[n + 1] = op /\ c2[n + 1] = claim
      BY <2>4, <1>3, <1>4, <1>6
    <3> QED BY <2>4, <3>1, <1>1, <1>8
  <2> QED BY <2>2, <2>3, <2>4
<1>13. Fresh(os2, D2)
  <2> SUFFICES ASSUME NEW i \in 1 .. n + 2, NEW j \in 1 .. n + 2, D2[i] = D2[j],
                      NEW k \in 1 .. n + 1, i <= k, k < j
               PROVE  os2[k].draw
    BY <1>3 DEF Fresh
  <2>1. i \in 1 .. n + 1 /\ D2[i] = D[i]
    BY <1>6
  <2>2. ASSUME NEW m \in 1 .. n + 1, D[i] = D[m], k < m PROVE os2[k].draw
    <3>1. k \in 1 .. n
      BY <2>2
    <3> QED BY <2>1, <2>2, <3>1, <1>2, <1>3, <1>10 DEF Fresh
  <2>3. CASE j \in 1 .. n + 1
    BY <2>2, <2>3, <2>1, <1>6
  <2>4. CASE j = n + 2 /\ op.draw
    <3>1. D[i] = D[n + 1]
      BY <2>1, <2>4, <1>6
    <3>2. CASE k = n + 1
      BY <3>2, <2>4, <1>3
    <3>3. CASE k < n + 1
      BY <3>1, <3>3, <2>2, <1>8
    <3> QED BY <3>2, <3>3
  <2>5. CASE j = n + 2 /\ ~op.draw
    <3>1. D[i] = o /\ D[i] # ZeroBlock
      BY <2>1, <2>5, <1>6, <1>7
    <3>2. PICK m \in 1 .. n : m < i /\ ~os[m].draw /\ D[i] = OutRate(c[m].chunks)
      BY <2>1, <3>1, <1>2, <1>10 DEF Origin
    <3>3. PICK v : RunOf(os[m], c[m], D[m], v)
      BY <1>2, <1>10 DEF Steps
    <3>4. OutRate(Run(D[m], v)) = OutRate(Run(D[n + 1], ws)) /\ v \in Seq(Nat) /\ ws \in Seq(Nat)
      <4>1. c[m].chunks = Run(D[m], v) /\ v \in Seq(Nat)
        BY <3>3 DEF RunOf
      <4>2. claim.chunks = Run(D[n + 1], ws) /\ ws \in Seq(Nat)
        BY <1>2 DEF RunOf
      <4> QED BY <4>1, <4>2, <3>1, <3>2, <1>1
    <3>5. Block(D[m]) /\ Block(D[n + 1]) /\ m \in 1 .. n + 1
      BY <1>2, <1>8
    <3>6. D[m] = D[n + 1]
      BY <3>4, <3>5, OutNamesFirst
    <3>7. os[m].draw
      BY <3>5, <3>6, <1>2, <1>8, <1>10 DEF Fresh
    <3> QED BY <3>2, <3>7
  <2> QED BY <2>3, <2>4, <2>5
<1>14. Counted(os2, out2, X2)
  <2>1. ASSUME NEW i \in 1 .. n + 2, NEW j \in 1 .. n + 2, i <= j PROVE X2[i] <= X2[j]
    <3>1. CASE j \in 1 .. n + 1
      <4>1. i \in 1 .. n + 1
        BY <2>1, <3>1
      <4> QED BY <2>1, <3>1, <4>1, <1>2, <1>6, <1>10 DEF Counted
    <3>2. CASE i \in 1 .. n + 1 /\ j = n + 2
      <4>1. X[i] <= X[n + 1] /\ X[i] \in Nat /\ X[n + 1] \in Nat
        BY <3>2, <1>2, <1>8, <1>10 DEF Counted
      <4>2. X2[i] = X[i]
        BY <3>2, <1>6
      <4> QED BY <4>1, <4>2, <3>2, <1>6
    <3>3. CASE i = n + 2 /\ j = n + 2
      <4>1. X2[n + 2] \in Nat
        BY <1>2, <1>6, <1>8
      <4> QED BY <3>3, <4>1
    <3> QED BY <2>1, <3>1, <3>2, <3>3
  <2>2. ASSUME NEW p \in 1 .. Len(out2) PROVE \E i \in 1 .. n + 1 : os2[i].draw /\ X2[i] + 1 = p
    <3>1. CASE p \in 1 .. Len(out)
      <4>1. PICK i \in 1 .. n : os[i].draw /\ X[i] + 1 = p
        BY <3>1, <1>2, <1>10 DEF Counted
      <4>2. i \in 1 .. n + 1 /\ os2[i] = os[i] /\ X2[i] = X[i]
        BY <1>3, <1>6
      <4> QED BY <4>1, <4>2
    <3>2. CASE p \notin 1 .. Len(out)
      <4>1. op.draw /\ p = Len(out) + 1
        BY <3>2, <1>5
      <4>2. os2[n + 1] = op /\ X2[n + 1] = Len(out)
        BY <1>2, <1>3, <1>6, <1>8
      <4> QED BY <4>1, <4>2, <1>8
    <3> QED BY <3>1, <3>2
  <2>3. n + 1 + 1 = n + 2
    OBVIOUS
  <2> QED BY <2>1, <2>2, <2>3, <1>3 DEF Counted
<1>15. Session(os2, c2, out2, D2, X2)
  BY <1>9, <1>11, <1>12, <1>13, <1>14 DEF Session
<1> QED BY <1>1, <1>15

\* Where check_links takes the runs of a session for what they are.
Plain(os, n) == \A k \in 1 .. n : ~LooksLikeDraw(os[k])

LEMMA ClaimIsRun ==
  ASSUME NEW os, NEW c, NEW out, NEW D, NEW X, Session(os, c, out, D, X), NEW i \in 1 .. Len(os)
  PROVE  \E ws \in Seq(Nat) : c[i].chunks = Run(D[i], ws)
<1>1. PICK ws : RunOf(os[i], c[i], D[i], ws)
  BY DEF Session, Steps
<1>2. ws \in Seq(Nat) /\ c[i] = [channel_id |-> c[i].channel_id, chunks |-> Run(D[i], ws)]
  BY <1>1 DEF RunOf
<1>3. c[i].chunks = Run(D[i], ws)
  BY <1>2
<1> QED BY <1>2, <1>3

\* A run is taken for a draw when its operation is a draw or looks like one.
LEMMA TakenForDraw ==
  ASSUME NEW os, NEW c, NEW out, NEW D, NEW X, Session(os, c, out, D, X), NEW i \in 1 .. Len(os)
  PROVE  /\ \E ws \in Seq(Nat) : Shape(D[i], ws, c[i].chunks) /\ c[i].chunks = Run(D[i], ws)
         /\ c[i] = [channel_id |-> c[i].channel_id, chunks |-> c[i].chunks]
         /\ IsDraw(c[i]) <=> os[i].draw \/ LooksLikeDraw(os[i])
<1>1. PICK ws : RunOf(os[i], c[i], D[i], ws)
  BY DEF Session, Steps
<1>2. ws \in Seq(Nat) /\ c[i] = [channel_id |-> c[i].channel_id, chunks |-> Run(D[i], ws)]
  BY <1>1 DEF RunOf
<1>3. c[i].chunks = Run(D[i], ws)
  BY <1>2
<1>4. Block(D[i])
  <2>1. i \in 1 .. Len(os) + 1 /\ Len(os) \in Nat
    BY DEF Session, Typed
  <2> QED BY <2>1 DEF Session, Typed
<1>5. Shape(D[i], ws, c[i].chunks)
  BY <1>2, <1>3, <1>4, RunShape
<1>6. IsDraw(c[i]) <=> Len(ws) \in 2 .. Rate - 1 /\ ws[2] = DrawTag
  BY <1>5 DEF Shape, IsDraw
<1>7. os[i].draw => Len(ws) = 2 /\ ws[2] = DrawTag
  BY <1>1 DEF RunOf
<1>8. ~os[i].draw => ws = os[i].words
  BY <1>1 DEF RunOf
<1>9. CASE os[i].draw
  <2>1. 2 \in 2 .. Rate - 1 /\ Len(ws) = 2
    BY <1>7, <1>9, RateIs
  <2> QED BY <1>2, <1>3, <1>5, <1>6, <1>7, <1>9, <2>1
<1>10. CASE ~os[i].draw
  <2>1. LooksLikeDraw(os[i]) <=> Len(ws) \in 2 .. Rate - 1 /\ ws[2] = DrawTag
    BY <1>8, <1>10 DEF LooksLikeDraw
  <2> QED BY <1>2, <1>3, <1>5, <1>6, <1>10, <2>1
<1> QED BY <1>9, <1>10

\* A digest is not the error, nor has it a foreign word first.
LEMMA BlockIs ==
  ASSUME NEW d, Block(d)
  PROVE  d # Broken /\ d[1] # Foreign
<1>1. DOMAIN d = 1 .. Rate
  BY DEF Block, ZeroBlock, RateOf
<1>2. d # Broken
  <2>1. 1 \in DOMAIN d
    BY <1>1, RateIs
  <2> QED BY <2>1 DEF Broken
<1>3. ZeroBlock[1] # Foreign
  BY RateIs DEF ZeroBlock, Foreign, W
<1>4. \A s : RateOf(s)[1] # Foreign
  <2> TAKE s
  <2>1. RateOf(s)[1] = <<s, 1>>
    BY RateIs DEF RateOf
  <2>2. <<s, 1>> # <<-1>>
    OBVIOUS
  <2> QED BY <2>1, <2>2 DEF Foreign, W
<1> QED BY <1>2, <1>3, <1>4 DEF Block

\* As far as no mix looks like a draw, check_links follows the session.
LEMMA Follows ==
  ASSUME NEW os, NEW c, NEW out, NEW D, NEW X, Session(os, c, out, D, X),
         NEW n \in 0 .. Len(os), Plain(os, n)
  PROVE  \A i \in 0 .. n : DigestAt(c, out, i) = D[i + 1] /\ IndexAt(c, out, i) = X[i + 1]
<1> DEFINE S == {i \in 0 .. n : DigestAt(c, out, i) = D[i + 1] /\ IndexAt(c, out, i) = X[i + 1]}
<1>1. /\ Len(os) \in Nat /\ Len(c) = Len(os) /\ Len(out) \in Nat
      /\ D[1] = ZeroBlock /\ X[1] = 0 /\ X[Len(os) + 1] = Len(out)
      /\ \A i \in 1 .. Len(os) + 1 : Block(D[i]) /\ X[i] \in Nat
  BY DEF Session, Typed
<1>2. 0 \in S
  BY <1>1, LinkedIs
<1>3. ASSUME NEW i \in 0 .. n - 1, i \in S PROVE i + 1 \in S
  <2>1. PICK j : j = i + 1
    OBVIOUS
  <2>2. j \in 1 .. n /\ j \in 1 .. Len(os) /\ j \in 1 .. Len(c) /\ j - 1 = i
        /\ j \in 1 .. Len(os) + 1 /\ j + 1 \in 1 .. Len(os) + 1
    BY <2>1, <1>1
  <2>3. DigestAt(c, out, i) = D[j] /\ IndexAt(c, out, i) = X[j]
    BY <1>3, <2>1
  <2>4. PICK ws \in Seq(Nat) : Shape(D[j], ws, c[j].chunks)
    BY <2>2, TakenForDraw
  <2>5. IsDraw(c[j]) <=> os[j].draw
    BY <2>2, TakenForDraw DEF Plain
  <2>6. c[j].chunks # <<>> /\ c[j].chunks[1] = D[j]
    BY <2>4 DEF Shape
  <2>7. D[j] # Broken
    BY <1>1, <2>2, BlockIs
  <2>8. /\ os[j].draw => /\ D[j + 1] = D[j] /\ X[j + 1] = X[j] + 1
                         /\ out[X[j] + 1] = OutRate(c[j].chunks)
        /\ ~os[j].draw => D[j + 1] = OutRate(c[j].chunks) /\ X[j + 1] = X[j]
    BY <2>2 DEF Session, Steps
  <2>9. os[j].draw => X[j] < Len(out)
    <3>1. X[j + 1] <= X[Len(os) + 1]
      <4>1. Len(os) + 1 \in 1 .. Len(os) + 1 /\ j + 1 <= Len(os) + 1
        BY <1>1, <2>2
      <4> QED BY <2>2, <4>1 DEF Session, Counted
    <3>2. X[j] \in Nat
      BY <1>1, <2>2
    <3> QED BY <1>1, <2>8, <3>1, <3>2
  <2>10. ~BreaksAt(c, out, j)
    <3>1. /\ Linked(c, out)[j - 1].digest = D[j]
          /\ Linked(c, out)[j - 1].index = X[j]
      BY <2>2, <2>3 DEF DigestAt, IndexAt
    <3>2. X[j] \in Nat
      BY <1>1, <2>2
    <3>3. os[j].draw => ~(X[j] >= Len(out))
      BY <1>1, <2>9, <3>2
    <3> QED BY <2>5, <2>6, <2>7, <2>8, <3>1, <3>3 DEF BreaksAt, Breaks
  <2>11. /\ DigestAt(c, out, j) = IF os[j].draw THEN D[j] ELSE OutRate(c[j].chunks)
         /\ IndexAt(c, out, j) = IF os[j].draw THEN X[j] + 1 ELSE X[j]
    BY <1>1, <2>2, <2>3, <2>5, <2>10, LinkedIs
  <2>12. DigestAt(c, out, j) = D[j + 1] /\ IndexAt(c, out, j) = X[j + 1]
    BY <2>8, <2>11
  <2>13. j \in 0 .. n
    BY <2>2
  <2> QED BY <2>1, <2>12, <2>13
<1>4. 0 .. n \subseteq S
  <2> HIDE DEF S
  <2> QED BY <1>2, <1>3, InductionTo
<1> QED BY <1>4

\* The links of a session hold and lead to its digest when no mix looks like a draw.
LEMMA PlainLinks ==
  ASSUME NEW os, NEW c, NEW out, NEW D, NEW X, Session(os, c, out, D, X), Plain(os, Len(os))
  PROVE  CheckLinks(c, out) = D[Len(os) + 1] /\ D[Len(os) + 1] # Broken
<1>1. /\ Len(os) \in Nat /\ Len(c) = Len(os) /\ X[Len(os) + 1] = Len(out)
      /\ Block(D[Len(os) + 1])
  BY DEF Session, Typed
<1>2. DigestAt(c, out, Len(c)) = D[Len(os) + 1] /\ IndexAt(c, out, Len(c)) = Len(out)
  BY <1>1, Follows
<1> QED BY <1>1, <1>2, BlockIs DEF CheckLinks, DigestAt, IndexAt

\* The first mix that looks like a draw breaks them: the draw whose output it would claim
\* comes later, from another digest.
LEMMA LookAlikeBreaks ==
  ASSUME NEW os, NEW c, NEW out, NEW D, NEW X, Session(os, c, out, D, X),
         NEW i \in 1 .. Len(os), LooksLikeDraw(os[i])
  PROVE  CheckLinks(c, out) = Broken
<1> DEFINE S == {n \in 0 .. Len(os) : Plain(os, n)}
<1>1. /\ Len(os) \in Nat /\ Len(c) = Len(os) /\ Len(out) \in Nat
      /\ \A j \in 1 .. Len(os) + 1 : Block(D[j]) /\ X[j] \in Nat
  BY DEF Session, Typed
<1>2. PICK n \in 0 .. Len(os) - 1 : Plain(os, n) /\ LooksLikeDraw(os[n + 1])
  <2> SUFFICES ASSUME \A n \in 0 .. Len(os) - 1 : Plain(os, n) => ~LooksLikeDraw(os[n + 1])
               PROVE  FALSE
    OBVIOUS
  <2>1. 0 \in S
    BY <1>1 DEF Plain
  <2>2. ASSUME NEW n \in 0 .. Len(os) - 1, n \in S PROVE n + 1 \in S
    <3>1. \A k \in 1 .. n + 1 : k \in 1 .. n \/ k = n + 1
      OBVIOUS
    <3>2. Plain(os, n + 1)
      BY <2>2, <3>1 DEF Plain
    <3> QED BY <3>2
  <2>3. 0 .. Len(os) \subseteq S
    <3> HIDE DEF S
    <3> QED BY <1>1, <2>1, <2>2, InductionTo
  <2>4. Plain(os, Len(os))
    BY <1>1, <2>3
  <2> QED BY <2>4 DEF Plain
<1>3. PICK j : j = n + 1
  OBVIOUS
<1>4. j \in 1 .. Len(os) /\ j \in 1 .. Len(c) /\ j \in 1 .. Len(os) + 1 /\ j - 1 = n
      /\ n \in 0 .. Len(os)
  BY <1>1, <1>3
<1>5. DigestAt(c, out, n) = D[j] /\ IndexAt(c, out, n) = X[j]
  BY <1>2, <1>3, <1>4, Follows
<1>6. PICK ws \in Seq(Nat) : c[j].chunks = Run(D[j], ws)
  BY <1>4, ClaimIsRun
<1>7. IsDraw(c[j]) /\ ~os[j].draw
  BY <1>2, <1>3, <1>4, TakenForDraw DEF LooksLikeDraw
<1>8. ASSUME ~(X[j] >= Len(out)), out[X[j] + 1] = OutRate(c[j].chunks)
      PROVE  FALSE
  <2>1. X[j] + 1 \in 1 .. Len(out)
    BY <1>1, <1>4, <1>8
  <2>2. PICK k \in 1 .. Len(os) : os[k].draw /\ X[k] + 1 = X[j] + 1
    BY <2>1 DEF Session, Counted
  <2>3. k \in 1 .. Len(os) + 1 /\ k + 1 \in 1 .. Len(os) + 1
    BY <1>1
  <2>4. X[k] = X[j] /\ X[k + 1] = X[k] + 1 /\ out[X[k] + 1] = OutRate(c[k].chunks)
    <3>1. X[k + 1] = X[k] + 1 /\ out[X[k] + 1] = OutRate(c[k].chunks)
      BY <2>2 DEF Session, Steps
    <3>2. X[k] \in Nat /\ X[j] \in Nat
      BY <1>1, <1>4, <2>3
    <3> QED BY <2>2, <3>1, <3>2
  <2>5. PICK v \in Seq(Nat) : c[k].chunks = Run(D[k], v)
    BY ClaimIsRun
  <2>6. OutRate(Run(D[k], v)) = OutRate(Run(D[j], ws))
    BY <1>6, <1>8, <2>4, <2>5
  <2>7. Block(D[k]) /\ Block(D[j])
    BY <1>1, <1>4, <2>3
  <2>8. D[k] = D[j]
    BY <2>5, <2>6, <2>7, <1>6, OutNamesFirst
  <2>9. CASE k < j
    <3>1. k + 1 <= j
      BY <2>9, <1>4
    <3>2. X[k + 1] <= X[j]
      BY <1>4, <2>3, <3>1 DEF Session, Counted
    <3> QED BY <1>1, <1>4, <2>3, <2>4, <3>2
  <2>10. CASE k = j
    BY <2>2, <2>10, <1>7
  <2>11. CASE k > j
    <3>1. j <= j /\ j < k
      BY <2>11, <1>4
    <3> QED BY <1>4, <1>7, <2>3, <2>8, <3>1 DEF Session, Fresh
  <2> QED BY <2>9, <2>10, <2>11, <1>4
<1>9. BreaksAt(c, out, j)
  BY <1>4, <1>5, <1>7, <1>8 DEF BreaksAt, Breaks, DigestAt, IndexAt
<1> QED BY <1>1, <1>4, <1>9, LinksBreak

-----------------------------------------------------------------------------
\* A sequence with one element left out.
LEMMA Removed ==
  ASSUME NEW S, NEW s \in Seq(S), NEW i \in 1 .. Len(s)
  PROVE  /\ Len(RemoveAt(s, i)) = Len(s) - 1
         /\ \A k \in 1 .. i - 1 : RemoveAt(s, i)[k] = s[k]
         /\ \A k \in i .. Len(s) - 1 : RemoveAt(s, i)[k] = s[k + 1]
<1>1. PICK n \in Nat : n = Len(s)
  OBVIOUS
<1>2. PICK p, q : p = SubSeq(s, 1, i - 1) /\ q = SubSeq(s, i + 1, n)
  OBVIOUS
<1>3. p \in Seq(S) /\ Len(p) = i - 1 /\ \A k \in 1 .. i - 1 : p[k] = s[k]
  <2>1. i - 1 \in 0 .. n /\ 1 \in 1 .. n + 1
    BY <1>1
  <2> QED BY <1>1, <1>2, <2>1
<1>4. q \in Seq(S) /\ Len(q) = n - i /\ \A k \in 1 .. n - i : q[k] = s[i + k]
  <2>1. q = [k \in 1 .. n - i |-> s[i + k]]
    <3>1. \A k \in 1 .. n - i : i + 1 + k - 1 = i + k
      BY <1>1
    <3>2. n - (i + 1) + 1 = n - i
      BY <1>1
    <3> QED BY <1>1, <1>2, <3>1, <3>2
  <2>2. n - i \in Nat /\ \A k \in 1 .. n - i : i + k \in 1 .. n
    BY <1>1
  <2>3. \A k \in 1 .. n - i : s[i + k] \in S
    BY <1>1, <2>2
  <2> QED BY <2>1, <2>2, <2>3
<1>5. /\ Len(p \o q) = Len(p) + Len(q)
      /\ \A j \in 1 .. Len(p) : (p \o q)[j] = p[j]
      /\ \A j \in 1 .. Len(q) : (p \o q)[Len(p) + j] = q[j]
  <2>1. p \in Seq(S) /\ q \in Seq(S)
    BY <1>3, <1>4
  <2> QED BY <2>1, Concatenated
<1>6. RemoveAt(s, i) = p \o q
  BY <1>1, <1>2 DEF RemoveAt
<1>7. Len(p \o q) = n - 1
  BY <1>1, <1>3, <1>4, <1>5
<1>8. \A k \in 1 .. i - 1 : (p \o q)[k] = s[k]
  BY <1>3, <1>5
<1>9. ASSUME NEW k \in i .. n - 1 PROVE (p \o q)[k] = s[k + 1]
  <2>1. PICK j : j = k - i + 1
    OBVIOUS
  <2>2. j \in 1 .. n - i /\ (i - 1) + j = k /\ i + j = k + 1
    BY <1>1, <2>1
  <2> QED BY <1>3, <1>4, <1>5, <2>2
<1> QED BY <1>1, <1>6, <1>7, <1>8, <1>9

\* A mix leads to another digest.
LEMMA MixMoves ==
  ASSUME NEW os, NEW c, NEW out, NEW D, NEW X, Session(os, c, out, D, X),
         NEW i \in 1 .. Len(os), ~os[i].draw
  PROVE  D[i] # D[i + 1]
<1>1. i \in 1 .. Len(os) + 1 /\ i + 1 \in 1 .. Len(os) + 1 /\ i <= i /\ i < i + 1
  BY DEF Session, Typed
<1> QED BY <1>1 DEF Session, Fresh

\* Links that hold and end on the session's digest are on its way wherever the runs left to
\* check are the session's.
LEMMA LeadsOn ==
  ASSUME NEW os, NEW c, NEW out, NEW D, NEW X, Session(os, c, out, D, X),
         NEW b, NEW others, Len(b) \in Nat,
         CheckLinks(b, others) # Broken, CheckLinks(b, others) = D[Len(os) + 1],
         NEW n \in 0 .. Len(b), NEW s \in Nat, Len(os) = Len(b) + s,
         EndAlike(b, c, n, s)
  PROVE  DigestAt(b, others, n) = D[n + s + 1]
<1>1. CASE n = Len(b)
  BY <1>1, LinksHold
<1>2. CASE n < Len(b)
  <2>1. PICK j : j = n + 1
    OBVIOUS
  <2>2. j \in 1 .. Len(b) /\ j - 1 = n /\ j + s \in 1 .. Len(os) /\ j + s = n + s + 1
        /\ j \in n + 1 .. Len(b)
    BY <1>2, <2>1
  <2>3. DigestAt(b, others, n) = b[j].chunks[1]
    BY <2>2, LinksHold
  <2>4. PICK ws \in Seq(Nat) : Shape(D[j + s], ws, c[j + s].chunks)
    BY <2>2, TakenForDraw
  <2>5. c[j + s].chunks[1] = D[j + s]
    BY <2>4 DEF Shape
  <2>6. b[j] = c[j + s]
    BY <2>2 DEF EndAlike
  <2> QED BY <2>2, <2>3, <2>5, <2>6
<1> QED BY <1>1, <1>2

\* A claim left out.
LEMMA ClaimRemoved ==
  ASSUME NEW os, NEW c, NEW out, NEW D, NEW X, Session(os, c, out, D, X), Plain(os, Len(os)),
         NEW i \in 1 .. Len(os)
  PROVE  CheckLinks(RemoveAt(c, i), out) # CheckLinks(c, out)
<1> DEFINE N == Len(os)
<1>1. PICK b : b = RemoveAt(c, i)
  OBVIOUS
<1>2. /\ N \in Nat /\ Len(c) = N /\ N \in 1 .. N
      /\ i - 1 \in 0 .. N /\ i \in 0 .. N /\ i \in 1 .. N + 1 /\ i + 1 \in 1 .. N + 1
      /\ X[i] \in Nat
  BY DEF Session, Typed
<1>3. Len(b) = N - 1 /\ (\A k \in 1 .. i - 1 : b[k] = c[k]) /\ \A k \in i .. N - 1 : b[k] = c[k + 1]
  <2>1. PICK C : c \in Seq(C)
    BY DEF Session, Typed
  <2>2. i \in 1 .. Len(c)
    BY <1>2
  <2>3. /\ Len(RemoveAt(c, i)) = Len(c) - 1
        /\ \A k \in 1 .. i - 1 : RemoveAt(c, i)[k] = c[k]
        /\ \A k \in i .. Len(c) - 1 : RemoveAt(c, i)[k] = c[k + 1]
    BY <2>1, <2>2, Removed
  <2> QED BY <1>1, <1>2, <2>3
<1>4. CheckLinks(c, out) = D[N + 1] /\ D[N + 1] # Broken
  BY PlainLinks
<1>5. SUFFICES ASSUME CheckLinks(b, out) = D[N + 1] PROVE FALSE
  BY <1>1, <1>4
<1>6. PICK n \in Nat, s \in Nat : n = i - 1 /\ s = 1
  BY <1>2
<1>7. /\ Len(b) \in Nat /\ n \in 0 .. Len(b) /\ N = Len(b) + s
      /\ n <= N /\ n <= Len(b) /\ n + 1 = i /\ n + s = i /\ n + s + 1 = i + 1
  BY <1>2, <1>3, <1>6
<1>8. EndAlike(b, c, n, s)
  BY <1>3, <1>6, <1>7 DEF EndAlike
<1>9. Linked(b, out)[n] = Linked(c, out)[n]
  <2>1. BeginAlike(b, c, n)
    BY <1>3, <1>6 DEF BeginAlike
  <2>2. n \in 0 .. n /\ Len(c) \in Nat /\ n <= Len(c)
    BY <1>2, <1>7
  <2> QED BY <1>7, <2>1, <2>2, SamePrefix
<1>10. /\ DigestAt(c, out, n) = D[i] /\ IndexAt(c, out, n) = X[i]
       /\ IndexAt(c, out, i) = X[i + 1]
  <2>1. N \in 0 .. N /\ n \in 0 .. N
    BY <1>2, <1>7
  <2>2. \A j \in 0 .. N : DigestAt(c, out, j) = D[j + 1] /\ IndexAt(c, out, j) = X[j + 1]
    BY <2>1, Follows
  <2> QED BY <1>2, <1>7, <2>1, <2>2
<1>11. CheckLinks(c, out) # Broken /\ CheckLinks(b, out) # Broken
  BY <1>4, <1>5
<1>12. CASE ~os[i].draw
  <2>1. DigestAt(b, out, n) = D[n + s + 1]
    BY <1>5, <1>7, <1>8, <1>11, LeadsOn
  <2>2. DigestAt(b, out, n) = D[i]
    BY <1>9, <1>10 DEF DigestAt
  <2> QED BY <1>7, <1>12, <2>1, <2>2, MixMoves
<1>13. CASE os[i].draw
  <2>1. IndexAt(b, out, Len(b)) - IndexAt(b, out, n)
          = IndexAt(c, out, Len(c)) - IndexAt(c, out, n + s)
    <3>1. Len(c) = Len(b) + s /\ Len(c) \in Nat
      BY <1>2, <1>7
    <3> QED BY <1>7, <1>8, <1>11, <3>1, SameCount
  <2>2. IndexAt(b, out, Len(b)) = Len(out) /\ IndexAt(c, out, Len(c)) = Len(out)
    BY <1>2, <1>7, <1>11, LinksHold
  <2>3. IndexAt(b, out, n) = X[i]
    BY <1>9, <1>10 DEF IndexAt
  <2>4. X[i + 1] = X[i] + 1
    BY <1>13 DEF Session, Steps
  <2>5. PICK x \in Nat, y \in Nat : x = X[i] /\ y = Len(out)
    BY <1>2 DEF Session, Typed
  <2>6. y - x = y - (x + 1)
    BY <1>7, <1>10, <2>1, <2>2, <2>3, <2>4, <2>5
  <2> QED BY <2>6
<1> QED BY <1>12, <1>13

\* A chunk with a foreign first word.
LEMMA ChunkChanged ==
  ASSUME NEW os, NEW c, NEW out, NEW D, NEW X, Session(os, c, out, D, X), Plain(os, Len(os)),
         NEW i \in 1 .. Len(os), NEW k \in 1 .. Len(c[i].chunks)
  PROVE  CheckLinks(Other(c, i, [c[i] EXCEPT !.chunks[k][1] = Foreign]), out) # CheckLinks(c, out)
<1> DEFINE N == Len(os)
<1> DEFINE was == c[i].chunks
<1> DEFINE new == [was EXCEPT ![k][1] = Foreign]
<1>1. PICK b : b = Other(c, i, [c[i] EXCEPT !.chunks[k][1] = Foreign])
  OBVIOUS
<1>2. /\ N \in Nat /\ Len(c) = N /\ i - 1 \in 0 .. N /\ i \in 0 .. N /\ i \in 1 .. N + 1
      /\ Block(D[i]) /\ i - 1 + 1 = i /\ i - 1 \in Nat /\ i - 1 <= N
  BY DEF Session, Typed
<1>3. PICK ws \in Seq(Nat) : Shape(D[i], ws, was) /\ was = Run(D[i], ws)
  BY ClaimIsRun, <1>2, RunShape
<1>4. c[i] = [channel_id |-> c[i].channel_id, chunks |-> was]
  BY TakenForDraw
<1>5. /\ Len(b) = N /\ (\A j \in 1 .. N : j # i => b[j] = c[j])
      /\ b[i].chunks = new
  <2>1. PICK C : c \in Seq(C)
    BY DEF Session, Typed
  <2>2. c = [j \in 1 .. N |-> c[j]]
    BY <1>2, <2>1
  <2>3. PICK r, x, w : r = c[i] /\ x = c[i].channel_id /\ w = was
    OBVIOUS
  <2>4. PICK y : y = [r EXCEPT !.chunks[k][1] = Foreign]
    OBVIOUS
  <2>5. y.chunks = new
    <3>1. r = [channel_id |-> x, chunks |-> w]
      BY <1>4, <2>3
    <3>2. [r EXCEPT !.chunks[k][1] = Foreign].chunks = [w EXCEPT ![k][1] = Foreign]
      BY <3>1
    <3> HIDE DEF was
    <3> QED BY <2>3, <2>4, <3>2
  <2>6. b = [j \in 1 .. N |-> IF j = i THEN y ELSE c[j]]
    BY <1>1, <2>2, <2>3, <2>4 DEF Other
  <2>7. Len([j \in 1 .. N |-> IF j = i THEN y ELSE c[j]]) = N
    BY <1>2
  <2> QED BY <2>5, <2>6, <2>7
<1>6. /\ Len(was) \in Nat /\ Len(was) >= 2 /\ was = [j \in 1 .. Len(was) |-> was[j]]
      /\ was[1] = D[i]
  BY <1>3 DEF Shape
<1>7. /\ Len(new) = Len(was)
      /\ \A j \in 1 .. Len(was) : j # k => new[j] = was[j]
      /\ new[k] = [was[k] EXCEPT ![1] = Foreign]
  <2>1. PICK w : w = was
    OBVIOUS
  <2>2. /\ Len(w) \in Nat /\ w = [j \in 1 .. Len(w) |-> w[j]] /\ k \in 1 .. Len(w)
        /\ new = [w EXCEPT ![k] = [w[k] EXCEPT ![1] = Foreign]]
    BY <1>6, <2>1
  <2>3. new = [j \in 1 .. Len(w) |-> IF j = k THEN [w[k] EXCEPT ![1] = Foreign] ELSE w[j]]
    BY <2>2
  <2>4. Len([j \in 1 .. Len(w) |-> IF j = k THEN [w[k] EXCEPT ![1] = Foreign] ELSE w[j]]) = Len(w)
    BY <2>2
  <2> HIDE DEF new, was
  <2> QED BY <2>1, <2>2, <2>3, <2>4
<1>8. was[k] = [j \in 1 .. Rate |-> was[k][j]]
  <2>1. CASE k = 1
    BY <1>2, <1>6, <2>1 DEF Block, ZeroBlock, RateOf
  <2>2. CASE k \in 2 .. Len(was)
    BY <1>3, <2>2 DEF Shape
  <2> QED BY <1>6, <2>1, <2>2
<1>9. new[k][1] = Foreign /\ new[k][2] = was[k][2]
  BY <1>7, <1>8, RateIs
<1> HIDE DEF new, was
<1>10. CheckLinks(c, out) = D[N + 1] /\ D[N + 1] # Broken
  BY PlainLinks
<1>11. SUFFICES ASSUME CheckLinks(b, out) = D[N + 1] PROVE FALSE
  BY <1>1, <1>10
<1>12. DigestAt(b, out, i - 1) = D[i] /\ IndexAt(b, out, i - 1) = X[i]
  <2>1. N \in 0 .. N /\ Len(c) \in Nat /\ Len(b) \in Nat /\ i - 1 <= Len(c) /\ i - 1 <= Len(b)
    BY <1>2, <1>5
  <2>2. \A j \in 0 .. N : DigestAt(c, out, j) = D[j + 1] /\ IndexAt(c, out, j) = X[j + 1]
    BY <2>1, Follows
  <2>3. DigestAt(c, out, i - 1) = D[i] /\ IndexAt(c, out, i - 1) = X[i]
    BY <1>2, <2>2
  <2>4. PICK n \in Nat : n = i - 1
    BY <1>2
  <2>5. BeginAlike(b, c, n) /\ n <= Len(c) /\ n <= Len(b)
    BY <1>2, <1>5, <2>1, <2>4 DEF BeginAlike
  <2>6. Linked(b, out)[n] = Linked(c, out)[n]
    BY <2>1, <2>5, SamePrefix
  <2> QED BY <2>3, <2>4, <2>6 DEF DigestAt, IndexAt
<1>13. /\ ~BreaksAt(b, out, i) /\ D[i] = new[1]
       /\ DigestAt(b, out, i) = IF IsDraw(b[i]) THEN new[1] ELSE OutRate(new)
  <2>1. Len(b) \in Nat /\ i \in 1 .. Len(b) /\ CheckLinks(b, out) # Broken
    BY <1>2, <1>5, <1>10, <1>11
  <2>2. /\ ~BreaksAt(b, out, i)
        /\ DigestAt(b, out, i - 1) = b[i].chunks[1]
        /\ DigestAt(b, out, i) = IF IsDraw(b[i]) THEN b[i].chunks[1] ELSE OutRate(b[i].chunks)
    BY <2>1, LinksHold
  <2> QED BY <1>5, <1>12, <2>2
<1>14. k # 1
  <2>1. D[i][1] # Foreign
    BY <1>2, BlockIs
  <2> QED BY <1>9, <1>13, <2>1
<1>15. OutRate(new) # OutRate(was)
  <2>1. k \in 2 .. Len(was)
    BY <1>6, <1>14 DEF was
  <2> QED BY <1>2, <1>3, <2>1, ForeignOut DEF new
<1>16. IsDraw(b[i]) <=> os[i].draw
  <2>1. IsDraw(c[i]) <=> os[i].draw
    <3>1. ~LooksLikeDraw(os[i])
      BY DEF Plain
    <3> QED BY <3>1, TakenForDraw
  <2>2. 2 \in 1 .. Len(was)
    BY <1>6
  <2>3. new[2][2] = was[2][2]
    BY <1>7, <1>9, <2>2
  <2> QED BY <1>5, <1>7, <2>1, <2>3 DEF IsDraw, was
<1>17. CASE os[i].draw
  <2>1. out[X[i] + 1] = OutRate(was)
    BY <1>17 DEF Session, Steps, was
  <2>2. out[X[i] + 1] = OutRate(new)
    BY <1>5, <1>12, <1>13, <1>16, <1>17 DEF BreaksAt, Breaks, IndexAt
  <2> QED BY <1>15, <2>1, <2>2
<1>18. CASE ~os[i].draw
  <2>1. D[i + 1] = OutRate(was)
    BY <1>18 DEF Session, Steps, was
  <2>2. /\ Len(b) \in Nat /\ CheckLinks(b, out) # Broken /\ i \in 0 .. Len(b)
    BY <1>2, <1>5, <1>10, <1>11
  <2>3. PICK s \in Nat : s = 0
    OBVIOUS
  <2>4. N = Len(b) + s /\ i + s + 1 = i + 1 /\ EndAlike(b, c, i, s)
    <3>1. \A j \in i + 1 .. N : j \in 1 .. N /\ j # i /\ j + s = j
      BY <1>2, <2>3
    <3> QED BY <1>2, <1>5, <2>3, <3>1 DEF EndAlike
  <2>5. DigestAt(b, out, i) = OutRate(new)
    BY <1>13, <1>16, <1>18
  <2>6. DigestAt(b, out, i) = D[i + s + 1]
    BY <1>11, <2>2, <2>4, LeadsOn
  <2> QED BY <1>15, <2>1, <2>4, <2>5, <2>6
<1> QED BY <1>17, <1>18

\* The same runs checked against other outputs: the counts stay the same distance apart.
LEMMA OtherOutputs ==
  ASSUME NEW c, NEW outputs, Len(c) \in Nat, CheckLinks(c, outputs) # Broken,
         NEW others, CheckLinks(c, others) # Broken, NEW n \in 0 .. Len(c)
  PROVE  Len(others) - IndexAt(c, others, n) = Len(outputs) - IndexAt(c, outputs, n)
<1>1. PICK s \in Nat : s = 0
  OBVIOUS
<1>2. EndAlike(c, c, n, s) /\ Len(c) = Len(c) + s /\ n + s = n
  BY <1>1 DEF EndAlike
<1>3. IndexAt(c, others, Len(c)) - IndexAt(c, others, n)
        = IndexAt(c, outputs, Len(c)) - IndexAt(c, outputs, n + s)
  BY <1>2, SameCount
<1> QED BY <1>2, <1>3, LinksHold

\* An output left out.
LEMMA OutputRemoved ==
  ASSUME NEW c, NEW B, NEW out \in Seq(B), Len(c) \in Nat, CheckLinks(c, out) # Broken,
         NEW i \in 1 .. Len(out)
  PROVE  CheckLinks(c, RemoveAt(out, i)) # CheckLinks(c, out)
<1>1. PICK others : others = RemoveAt(out, i)
  OBVIOUS
<1>2. PICK n \in Nat : n = Len(out)
  OBVIOUS
<1>3. Len(others) = n - 1
  BY <1>1, <1>2, Removed
<1>4. SUFFICES ASSUME CheckLinks(c, others) # Broken PROVE FALSE
  BY <1>1
<1>5. IndexAt(c, others, 0) = 0 /\ IndexAt(c, out, 0) = 0 /\ 0 \in 0 .. Len(c)
  BY LinkedIs
<1>6. (n - 1) - 0 = n - 0
  <2>1. Len(others) - IndexAt(c, others, 0) = Len(out) - IndexAt(c, out, 0)
    BY <1>4, <1>5, OtherOutputs
  <2> QED BY <1>2, <1>3, <1>5, <2>1
<1> QED BY <1>6

\* An output replaced by the default digest.
LEMMA OutputZeroed ==
  ASSUME NEW os, NEW c, NEW out, NEW D, NEW X, Session(os, c, out, D, X), Plain(os, Len(os)),
         NEW p \in 1 .. Len(out)
  PROVE  CheckLinks(c, Other(out, p, ZeroBlock)) # CheckLinks(c, out)
<1>1. /\ Len(os) \in Nat /\ Len(c) = Len(os)
      /\ \A i \in 1 .. Len(os) + 1 : X[i] \in Nat
  BY DEF Session, Typed
<1>2. CheckLinks(c, out) # Broken
  BY PlainLinks
<1>3. PICK others : others = Other(out, p, ZeroBlock)
  OBVIOUS
<1>4. PICK n \in Nat : n = Len(out)
  BY DEF Session, Typed
<1>5. Len(others) = n /\ others[p] = ZeroBlock
  <2>1. PICK B : out \in Seq(B)
    BY DEF Session, Typed
  <2>2. others = [j \in 1 .. n |-> IF j = p THEN ZeroBlock ELSE out[j]]
    <3>1. out = [j \in 1 .. n |-> out[j]]
      BY <1>4, <2>1
    <3>2. PICK z : z = ZeroBlock
      OBVIOUS
    <3> QED BY <1>3, <3>1, <3>2 DEF Other
  <2>3. Len([j \in 1 .. n |-> IF j = p THEN ZeroBlock ELSE out[j]]) = n
    OBVIOUS
  <2> QED BY <1>4, <2>2, <2>3
<1>6. SUFFICES ASSUME CheckLinks(c, others) # Broken PROVE FALSE
  BY <1>2, <1>3
<1>7. PICK i \in 1 .. Len(os) : os[i].draw /\ X[i] + 1 = p
  BY DEF Session, Counted
<1>8. i - 1 \in 0 .. Len(os) /\ i \in 1 .. Len(os) + 1 /\ i - 1 + 1 = i /\ i \in 1 .. Len(c)
  BY <1>1
<1>9. IndexAt(c, out, i - 1) = X[i] /\ X[i] \in Nat
  <2>1. Len(os) \in 0 .. Len(os)
    BY <1>1
  <2>2. \A j \in 0 .. Len(os) : IndexAt(c, out, j) = X[j + 1]
    BY <2>1, Follows
  <2> QED BY <1>1, <1>8, <2>2
<1>10. IndexAt(c, others, i - 1) = X[i]
  <2>1. PICK j : j = i - 1
    OBVIOUS
  <2>2. j \in 0 .. Len(c) /\ IndexAt(c, others, j) \in Nat
    BY <1>1, <1>8, <2>1, LinkedIs
  <2>3. Len(others) - IndexAt(c, others, j) = Len(out) - IndexAt(c, out, j)
    BY <1>1, <1>2, <1>6, <2>2, OtherOutputs
  <2>4. PICK x \in Nat, y \in Nat : x = IndexAt(c, others, j) /\ y = IndexAt(c, out, j)
    BY <1>9, <2>1, <2>2
  <2>5. n - x = n - y
    BY <1>4, <1>5, <2>3, <2>4
  <2>6. x = y
    BY <2>5
  <2> QED BY <1>9, <2>1, <2>4, <2>6
<1>11. IsDraw(c[i])
  BY <1>7, TakenForDraw
<1>12. ~BreaksAt(c, others, i)
  BY <1>1, <1>6, <1>8, LinksHold
<1>13. others[p] = OutRate(c[i].chunks)
  BY <1>7, <1>10, <1>11, <1>12 DEF BreaksAt, Breaks, IndexAt
<1> QED BY <1>5, <1>13, OutIsBlock

-----------------------------------------------------------------------------
(***************************************************************************)
(* The channel and its replay.                                             *)
(***************************************************************************)
SInv ==
  /\ session = [digest |-> session.digest, n_draws |-> session.n_draws,
                claims |-> session.claims, draws |-> session.draws]
  /\ session.n_draws \in Nat
  /\ channel = [digest |-> session.digest, n_draws |-> session.n_draws]
  /\ squeezed = session.draws
  /\ \E D, X : /\ Session(ops, session.claims, session.draws, D, X)
               /\ D[Len(ops) + 1] = session.digest

LEMMA SInvInit == SpongeInit => SInv
<1> SUFFICES ASSUME SpongeInit PROVE SInv
  OBVIOUS
<1>1. PICK d : d = ZeroBlock
  OBVIOUS
<1>2. PICK s : s = [digest |-> d, n_draws |-> 0, claims |-> <<>>, draws |-> <<>>]
  OBVIOUS
<1>3. /\ s.digest = d /\ s.n_draws = 0 /\ s.claims = <<>> /\ s.draws = <<>>
      /\ s = [digest |-> s.digest, n_draws |-> s.n_draws, claims |-> s.claims, draws |-> s.draws]
  BY <1>2
<1>4. session = s /\ channel = [digest |-> d, n_draws |-> 0] /\ squeezed = <<>> /\ ops = <<>>
  BY <1>1, <1>2 DEF SpongeInit
<1>5. PICK D, X : D = [i \in 1 .. 1 |-> d] /\ X = [i \in 1 .. 1 |-> 0]
  OBVIOUS
<1>6. D[1] = ZeroBlock /\ X[1] = 0 /\ Block(D[1])
  BY <1>1, <1>5 DEF Block
<1>7. \A i \in 1 .. Len(<<>>) + 1 : i = 1
  OBVIOUS
<1>8. Len(<<>>) = 0 /\ 0 + 1 = 1 /\ (\A S : <<>> \in Seq(S)) /\ 1 .. 0 = {}
  OBVIOUS
<1>9. Typed(<<>>, <<>>, <<>>, D, X)
  BY <1>6, <1>7, <1>8 DEF Typed
<1>10. Steps(<<>>, <<>>, <<>>, D, X)
  BY <1>8 DEF Steps
<1>11. Origin(<<>>, <<>>, D)
  BY <1>6, <1>7 DEF Origin
<1>12. Fresh(<<>>, D)
  BY <1>8 DEF Fresh
<1>13. Counted(<<>>, <<>>, X)
  BY <1>6, <1>7, <1>8 DEF Counted
<1>14. Session(<<>>, <<>>, <<>>, D, X) /\ D[Len(<<>>) + 1] = d
  BY <1>1, <1>6, <1>8, <1>9, <1>10, <1>11, <1>12, <1>13 DEF Session
<1> QED BY <1>3, <1>4, <1>14 DEF SInv

LEMMA EncodedWords ==
  ASSUME NEW data \in Seq(Nat)
  PROVE  EncodeU32s(data) \in Seq(Nat)
<1>1. PICK n \in Nat : n = Len(data)
  OBVIOUS
<1>2. Base \in Nat \ {0}
  BY SpongeAssumption
<1>3. \A x \in Nat : x % Base \in Nat /\ x \div Base \in Nat
  BY <1>2
<1>4. \A i \in 1 .. 2 * n : /\ i % 2 = 1 => (i + 1) \div 2 \in 1 .. n
                            /\ i % 2 # 1 => i \div 2 \in 1 .. n
  OBVIOUS
<1>5. \A j \in 1 .. n : data[j] \in Nat
  BY <1>1
<1>6. \A i \in 1 .. 2 * n :
        (IF i % 2 = 1 THEN data[(i + 1) \div 2] % Base ELSE data[i \div 2] \div Base) \in Nat
  BY <1>3, <1>4, <1>5
<1>7. 2 * n \in Nat
  OBVIOUS
<1> QED BY <1>1, <1>6, <1>7 DEF EncodeU32s

\* What an operation adds to the session is what the channel does.
LEMMA ReplayKeeps ==
  ASSUME SInv, NEW op \in Op, Replayed(op),
         op.draw => squeezed' = Append(squeezed, DrawBlock(channel)) /\ channel' = DrawWords(channel),
         ~op.draw => squeezed' = squeezed /\ channel' = MixWords(channel, op.words)
  PROVE  SInv'
<1>1. PICK d, x, c, out :
        d = session.digest /\ x = session.n_draws /\ c = session.claims /\ out = session.draws
  OBVIOUS
<1>2. /\ session = [digest |-> d, n_draws |-> x, claims |-> c, draws |-> out] /\ x \in Nat
      /\ channel = [digest |-> d, n_draws |-> x] /\ squeezed = out
  BY <1>1 DEF SInv
<1>3. PICK D, X : Session(ops, c, out, D, X) /\ D[Len(ops) + 1] = d
  BY <1>1 DEF SInv
<1>4. Len(ops) \in Nat /\ Block(d)
  <2>1. Len(ops) + 1 \in 1 .. Len(ops) + 1 /\ Len(ops) \in Nat
    BY <1>3 DEF Session, Typed
  <2> QED BY <1>3, <2>1 DEF Session, Typed
<1>5. PICK ws : ws = IF op.draw THEN <<x, DrawTag>> ELSE op.words
  OBVIOUS
<1>6. /\ ws \in Seq(Nat)
      /\ op.draw => Len(ws) = 2 /\ ws[2] = DrawTag
      /\ ~op.draw => ws = op.words
  <2>1. DrawTag \in Nat
    BY SpongeAssumption
  <2>2. <<x, DrawTag>> \in Seq(Nat) /\ Len(<<x, DrawTag>>) = 2 /\ <<x, DrawTag>>[2] = DrawTag
    BY <1>2, <2>1
  <2>3. op.words \in Seq(Nat)
    BY DEF Op
  <2> QED BY <1>5, <2>2, <2>3
<1>7. PICK chunks, claim, o :
        /\ chunks = Run(d, ws) /\ claim = [channel_id |-> Len(c), chunks |-> chunks]
        /\ o = OutRate(chunks)
  OBVIOUS
<1>8. claim.chunks = chunks /\ RunOf(op, claim, d, ws)
  <2>1. claim.channel_id = Len(c) /\ claim.chunks = chunks
    BY <1>7
  <2> QED BY <1>6, <1>7, <2>1 DEF RunOf
<1>9. HashWords(d \o Words(ws)) = o
  <2>1. PICK S : d \o Words(ws) \in Seq(S)
    BY <1>4, <1>6, RunWords
  <2> QED BY <1>7, <2>1, HashIsReplay DEF Run
<1>10. PICK c2, out2, D2, X2 :
         /\ c2 = Append(c, claim) /\ out2 = (IF op.draw THEN Append(out, o) ELSE out)
         /\ D2 = Longer(D, Len(ops), IF op.draw THEN D[Len(ops) + 1] ELSE o)
         /\ X2 = Longer(X, Len(ops), IF op.draw THEN X[Len(ops) + 1] + 1 ELSE X[Len(ops) + 1])
  OBVIOUS
<1>11. ops' = Append(ops, op) /\ Len(ops') = Len(ops) + 1
  BY <1>3 DEF Replayed, Session, Typed
<1>12. /\ Session(ops', c2, out2, D2, X2)
       /\ D2[Len(ops') + 1] = IF op.draw THEN d ELSE o
  <2>1. Session(ops', c2, out2, D2, X2)
    BY <1>3, <1>7, <1>8, <1>10, <1>11, SessionStep
  <2>2. Len(ops') + 1 = Len(ops) + 2 /\ Len(ops) + 2 \in 1 .. Len(ops) + 2
    BY <1>4, <1>11
  <2> QED BY <1>3, <1>10, <2>1, <2>2 DEF Longer
<1>13. session' = [digest |-> IF op.draw THEN d ELSE o, n_draws |-> IF op.draw THEN x + 1 ELSE 0,
                   claims |-> c2, draws |-> out2]
  <2>1. session' = ReplayOp(session, op)
    BY DEF Replayed
  <2>2. PICK s : s = session
    OBVIOUS
  <2>3. s = [digest |-> d, n_draws |-> x, claims |-> c, draws |-> out]
    BY <1>2, <2>2
  <2>4. s.digest = d /\ s.n_draws = x /\ s.claims = c /\ s.draws = out
    BY <2>3
  <2>5. PICK t : t = [s EXCEPT !.claims = c2]
    OBVIOUS
  <2>6. t = [digest |-> d, n_draws |-> x, claims |-> c2, draws |-> out]
    BY <2>3, <2>5
  <2>7. ReplayOp(s, op) = IF op.draw THEN [t EXCEPT !.draws = Append(out, o), !.n_draws = x + 1]
                          ELSE [t EXCEPT !.digest = o, !.n_draws = 0]
    <3>1. ChunkStream(d \o Words(IF op.draw THEN <<x, DrawTag>> ELSE op.words)) = chunks
      BY <1>5, <1>7 DEF Run
    <3>2. t = [s EXCEPT !.claims = Append(@, [channel_id |-> Len(s.claims), chunks |-> chunks])]
      BY <2>4, <2>5, <1>7, <1>10
    <3>3. t.draws = out /\ t.n_draws = x
      BY <2>6
    <3> QED BY <2>4, <3>1, <3>2, <3>3, <1>7 DEF ReplayOp
  <2>8. [t EXCEPT !.draws = Append(out, o), !.n_draws = x + 1]
          = [digest |-> d, n_draws |-> x + 1, claims |-> c2, draws |-> Append(out, o)]
    <3>1. PICK v, y : v = Append(out, o) /\ y = x + 1
      OBVIOUS
    <3>2. [t EXCEPT !.draws = v, !.n_draws = y]
            = [digest |-> d, n_draws |-> y, claims |-> c2, draws |-> v]
      <4>1. PICK u : u = [t EXCEPT !.draws = v]
        OBVIOUS
      <4>2. u = [digest |-> d, n_draws |-> x, claims |-> c2, draws |-> v]
        BY <2>6, <4>1
      <4>3. [u EXCEPT !.n_draws = y] = [digest |-> d, n_draws |-> y, claims |-> c2, draws |-> v]
        BY <4>2
      <4>4. [t EXCEPT !.draws = v, !.n_draws = y] = [u EXCEPT !.n_draws = y]
        BY <4>1
      <4> QED BY <4>3, <4>4
    <3> QED BY <3>1, <3>2
  <2>9. [t EXCEPT !.digest = o, !.n_draws = 0]
          = [digest |-> o, n_draws |-> 0, claims |-> c2, draws |-> out]
    <3>1. PICK y : y = 0
      OBVIOUS
    <3>2. [t EXCEPT !.digest = o, !.n_draws = y]
            = [digest |-> o, n_draws |-> y, claims |-> c2, draws |-> out]
      <4>1. PICK u : u = [t EXCEPT !.digest = o]
        OBVIOUS
      <4>2. u = [digest |-> o, n_draws |-> x, claims |-> c2, draws |-> out]
        BY <2>6, <4>1
      <4>3. [u EXCEPT !.n_draws = y] = [digest |-> o, n_draws |-> y, claims |-> c2, draws |-> out]
        BY <4>2
      <4>4. [t EXCEPT !.digest = o, !.n_draws = y] = [u EXCEPT !.n_draws = y]
        BY <4>1
      <4> QED BY <4>3, <4>4
    <3> QED BY <3>1, <3>2
  <2>10. CASE op.draw
    BY <2>1, <2>2, <2>7, <2>8, <2>10, <1>10
  <2>11. CASE ~op.draw
    BY <2>1, <2>2, <2>7, <2>9, <2>11, <1>10
  <2> QED BY <2>10, <2>11
<1>14. /\ session'.digest = (IF op.draw THEN d ELSE o)
       /\ session'.n_draws = (IF op.draw THEN x + 1 ELSE 0)
       /\ session'.claims = c2 /\ session'.draws = out2
       /\ session' = [digest |-> session'.digest, n_draws |-> session'.n_draws,
                      claims |-> session'.claims, draws |-> session'.draws]
  BY <1>13
<1>15. session'.n_draws \in Nat
  BY <1>2, <1>14
<1>16. /\ channel' = [digest |-> session'.digest, n_draws |-> session'.n_draws]
       /\ squeezed' = session'.draws
  <2>1. channel.digest = d /\ channel.n_draws = x
    BY <1>2
  <2>2. CASE op.draw
    <3>1. DrawBlock(channel) = o
      BY <1>5, <1>9, <2>1, <2>2 DEF DrawBlock
    <3>2. DrawWords(channel) = [digest |-> d, n_draws |-> x + 1]
      BY <1>2 DEF DrawWords
    <3> QED BY <1>2, <1>10, <1>14, <2>2, <3>1, <3>2
  <2>3. CASE ~op.draw
    <3>1. MixWords(channel, op.words) = [digest |-> o, n_draws |-> 0]
      BY <1>5, <1>9, <2>1, <2>3 DEF MixWords
    <3> QED BY <1>2, <1>10, <1>14, <2>3, <3>1
  <2> QED BY <2>2, <2>3
<1>17. \E E, Y : /\ Session(ops', session'.claims, session'.draws, E, Y)
                 /\ E[Len(ops') + 1] = session'.digest
  BY <1>12, <1>14
<1> QED BY <1>14, <1>15, <1>16, <1>17 DEF SInv

LEMMA SInvNext == SInv /\ [SpongeNext]_spongeVars => SInv'
<1> SUFFICES ASSUME SInv, [SpongeNext]_spongeVars PROVE SInv'
  OBVIOUS
<1>1. \A words \in Seq(Nat) : /\ MixOp(words) \in Op /\ ~MixOp(words).draw
                              /\ MixOp(words).words = words
  BY DEF MixOp, Op
<1>2. DrawOp \in Op /\ DrawOp.draw
  BY DEF DrawOp, Op
<1>3. CASE MixU32s
  <2>1. PICK data \in MixedU32s : /\ channel' = MixWords(channel, EncodeU32s(data))
                                  /\ Replayed(MixOp(EncodeU32s(data)))
    BY <1>3 DEF MixU32s
  <2>2. EncodeU32s(data) \in Seq(Nat)
    BY SpongeAssumption, EncodedWords
  <2>3. PICK op : op = MixOp(EncodeU32s(data))
    OBVIOUS
  <2>4. op \in Op /\ ~op.draw /\ op.words = EncodeU32s(data)
    BY <1>1, <2>2, <2>3
  <2> QED BY <1>3, <2>1, <2>3, <2>4, ReplayKeeps DEF MixU32s
<1>4. CASE MixFelts
  <2>1. PICK words \in MixedFelts : channel' = MixWords(channel, words) /\ Replayed(MixOp(words))
    BY <1>4 DEF MixFelts
  <2>2. words \in Seq(Nat)
    BY SpongeAssumption
  <2>3. PICK op : op = MixOp(words)
    OBVIOUS
  <2>4. op \in Op /\ ~op.draw /\ op.words = words
    BY <1>1, <2>2, <2>3
  <2> QED BY <1>4, <2>1, <2>3, <2>4, ReplayKeeps DEF MixFelts
<1>5. CASE Squeeze
  BY <1>2, <1>5, ReplayKeeps DEF Squeeze
<1>6. CASE UNCHANGED spongeVars
  BY <1>6 DEF SInv, spongeVars
<1> QED BY <1>3, <1>4, <1>5, <1>6 DEF SpongeNext

LEMMA SInvImplies == SInv => SessionIsChannel
<1> SUFFICES ASSUME SInv PROVE SessionIsChannel
  OBVIOUS
<1>1. PICK d, c, out : d = session.digest /\ c = session.claims /\ out = session.draws
  OBVIOUS
<1>2. PICK D, X : Session(ops, c, out, D, X) /\ D[Len(ops) + 1] = d
  BY <1>1 DEF SInv
<1>3. d = channel.digest /\ out = squeezed /\ session.n_draws = channel.n_draws
  <2>1. PICK x : x = session.n_draws
    OBVIOUS
  <2>2. channel = [digest |-> d, n_draws |-> x]
    BY <1>1, <2>1 DEF SInv
  <2> QED BY <1>1, <2>1, <2>2 DEF SInv
<1>4. /\ Len(ops) \in Nat /\ Len(c) = Len(ops) /\ DOMAIN ops = 1 .. Len(ops)
      /\ DOMAIN c = 1 .. Len(ops) /\ DOMAIN out = 1 .. Len(out)
  <2>1. PICK C, B : c \in Seq(C) /\ out \in Seq(B)
    BY <1>2 DEF Session, Typed
  <2> QED BY <1>2, <2>1 DEF Session, Typed
<1>5. CASE Plain(ops, Len(ops))
  <2>1. CheckLinks(c, out) = d /\ d # Broken
    BY <1>2, <1>5, PlainLinks
  <2>2. ~ \E i \in DOMAIN ops : LooksLikeDraw(ops[i])
    BY <1>4, <1>5 DEF Plain
  <2>3. \A i \in DOMAIN c : CheckLinks(RemoveAt(c, i), out) # CheckLinks(c, out)
    BY <1>2, <1>4, <1>5, ClaimRemoved
  <2>4. \A i \in DOMAIN c : \A k \in DOMAIN c[i].chunks :
          CheckLinks(Other(c, i, [c[i] EXCEPT !.chunks[k][1] = Foreign]), out) # CheckLinks(c, out)
    <3> TAKE i \in DOMAIN c
    <3>1. DOMAIN c[i].chunks = 1 .. Len(c[i].chunks)
      <4>1. PICK ws \in Seq(Nat) : Shape(D[i], ws, c[i].chunks)
        BY <1>2, <1>4, TakenForDraw
      <4> QED BY <4>1 DEF Shape
    <3> QED BY <1>2, <1>4, <1>5, <3>1, ChunkChanged
  <2>5. \A i \in DOMAIN out : CheckLinks(c, RemoveAt(out, i)) # CheckLinks(c, out)
    <3>1. PICK B : out \in Seq(B)
      BY <1>2 DEF Session, Typed
    <3> QED BY <1>4, <2>1, <3>1, OutputRemoved
  <2>6. \A i \in DOMAIN out : CheckLinks(c, Other(out, i, ZeroBlock)) # CheckLinks(c, out)
    BY <1>2, <1>4, <1>5, OutputZeroed
  <2> QED BY <1>1, <1>3, <2>1, <2>2, <2>3, <2>4, <2>5, <2>6 DEF SessionIsChannel
<1>6. CASE ~Plain(ops, Len(ops))
  <2>1. PICK i \in 1 .. Len(ops) : LooksLikeDraw(ops[i])
    BY <1>6 DEF Plain
  <2>2. CheckLinks(c, out) = Broken
    BY <1>2, <2>1, LookAlikeBreaks
  <2>3. \E j \in DOMAIN ops : LooksLikeDraw(ops[j])
    BY <1>4, <2>1
  <2> QED BY <1>1, <1>3, <2>2, <2>3 DEF SessionIsChannel
<1> QED BY <1>5, <1>6

\* prover/src/poseidon2_channel.rs, recursion/src/channel_replay.rs: a replayed session is
\* the channel's, block for block, and its links hold for that session alone, whatever is
\* mixed and however long.
THEOREM SessionIsChannelAlways == SpongeSpec => []SessionIsChannel
<1>1. SpongeInit => SInv
  BY SInvInit
<1>2. SInv /\ [SpongeNext]_spongeVars => SInv'
  BY SInvNext
<1>3. SInv => SessionIsChannel
  BY SInvImplies
<1> QED BY <1>1, <1>2, <1>3, PTL DEF SpongeSpec

-----------------------------------------------------------------------------
(* Lists, and what lists laid end to end add up to.                           *)

IsTable(t) == \E S : t \in Seq(S)

\* A table has a length.
LEMMA TableLength ==
  ASSUME NEW t, IsTable(t)
  PROVE  Len(t) \in Nat
  BY DEF IsTable

\* A function on 1 .. n is a list.
LEMMA TableOf ==
  ASSUME NEW n \in Nat, NEW f, f = [i \in 1 .. n |-> f[i]]
  PROVE  IsTable(f) /\ Len(f) = n
<1>1. f \in Seq({f[i] : i \in 1 .. n}) /\ Len(f) = n
  OBVIOUS
<1> QED BY <1>1 DEF IsTable

Join(s, t) == s \o t

\* The concatenation of two lists.
LEMMA Joined ==
  ASSUME NEW s, IsTable(s), NEW t, IsTable(t)
  PROVE  /\ IsTable(Join(s, t)) /\ Len(Join(s, t)) = Len(s) + Len(t) /\ Len(s) \in Nat /\ Len(t) \in Nat
         /\ \A j \in 1 .. Len(s) + Len(t) : Join(s, t)[j] = IF j <= Len(s) THEN s[j] ELSE t[j - Len(s)]
<1>1. PICK S : s \in Seq(S)
  BY DEF IsTable
<1>2. PICK T : t \in Seq(T)
  BY DEF IsTable
<1>3. s \in Seq(S \cup T) /\ t \in Seq(S \cup T)
  BY <1>1, <1>2
<1>4. /\ s \o t \in Seq(S \cup T) /\ Len(s \o t) = Len(s) + Len(t)
      /\ \A j \in 1 .. Len(s) + Len(t) : (s \o t)[j] = IF j <= Len(s) THEN s[j] ELSE t[j - Len(s)]
  BY <1>3
<1> QED BY <1>3, <1>4 DEF IsTable, Join

LEMMA EmptyTable == IsTable(<<>>)
<1>1. <<>> \in Seq({})
  OBVIOUS
<1> QED BY <1>1 DEF IsTable

\* Two lists are one list if they agree everywhere.
LEMMA TableSame ==
  ASSUME NEW s, IsTable(s), NEW t, IsTable(t), Len(s) = Len(t), \A i \in 1 .. Len(s) : s[i] = t[i]
  PROVE  s = t
<1>1. PICK S : s \in Seq(S)
  BY DEF IsTable
<1>2. PICK T : t \in Seq(T)
  BY DEF IsTable
<1>3. s = [i \in 1 .. Len(s) |-> s[i]] /\ t = [i \in 1 .. Len(t) |-> t[i]]
  BY <1>1, <1>2
<1>4. [i \in 1 .. Len(s) |-> s[i]] = [i \in 1 .. Len(t) |-> t[i]]
  OBVIOUS
<1> QED BY <1>3, <1>4

LEMMA ListEmpty ==
  ASSUME NEW S, NEW s \in Seq(S), Len(s) = 0
  PROVE  s = <<>>
<1>1. IsTable(s) /\ IsTable(<<>>) /\ Len(<<>>) = 0
  BY EmptyTable DEF IsTable
<1> QED BY <1>1, TableSame

\* The loop that lays lists end to end ...
LEMMA FlatLoop ==
  ASSUME NEW ss, Len(ss) \in Nat, Len(ss) # 0
  PROVE  \E f : /\ FlattenSeq(ss) = f[Len(ss)]
                /\ \A i \in 1 .. Len(ss) : f[i] = IF i = 1 THEN ss[i] ELSE Join(f[i - 1], ss[i])
<1> DEFINE Loop(h, n) == h = [i \in 1 .. n |-> IF i = 1 THEN ss[i] ELSE h[i - 1] \o ss[i]]
<1> DEFINE S == {n \in Nat : \E h : Loop(h, n)}
<1>1. 0 \in S
  <2>1. Loop([i \in 1 .. 0 |-> ss[i]], 0)
    OBVIOUS
  <2> HIDE DEF Loop
  <2> QED BY <2>1
<1>2. \A n \in Nat : n \in S => n + 1 \in S
  <2> TAKE n \in Nat
  <2> HAVE n \in S
  <2>1. PICK g : Loop(g, n)
    OBVIOUS
  <2> DEFINE x == IF n = 0 THEN ss[1] ELSE g[n] \o ss[n + 1]
  <2> DEFINE h == [i \in 1 .. n + 1 |-> IF i = n + 1 THEN x ELSE g[i]]
  <2>2. (\A i \in 1 .. n : h[i] = g[i]) /\ h[n + 1] = x
    <3> HIDE DEF x
    <3> QED OBVIOUS
  <2>3. \A i \in 1 .. n : g[i] = IF i = 1 THEN ss[i] ELSE g[i - 1] \o ss[i]
    BY <2>1
  <2>4. h = [i \in 1 .. n + 1 |-> h[i]]
    OBVIOUS
  <2>5. x = IF n + 1 = 1 THEN ss[n + 1] ELSE g[n] \o ss[n + 1]
    OBVIOUS
  <2> HIDE DEF h, x
  <2>6. ASSUME NEW i \in 1 .. n + 1 PROVE h[i] = IF i = 1 THEN ss[i] ELSE h[i - 1] \o ss[i]
    <3>1. CASE i = n + 1
      <4>1. n # 0 => h[n] = g[n]
        BY <2>2
      <4> QED BY <3>1, <4>1, <2>2, <2>5
    <3>2. CASE i # n + 1
      <4>1. i \in 1 .. n /\ (i # 1 => i - 1 \in 1 .. n)
        BY <3>2
      <4>2. h[i] = g[i] /\ (i # 1 => h[i - 1] = g[i - 1])
        BY <4>1, <2>2
      <4> QED BY <4>1, <4>2, <2>3
    <3> QED BY <3>1, <3>2
  <2>7. Loop(h, n + 1)
    BY <2>4, <2>6
  <2> HIDE DEF Loop
  <2> QED BY <2>7
<1>3. Len(ss) \in S
  <2> HIDE DEF S
  <2> QED BY <1>1, <1>2, Induction
<1>4. \E h : Loop(h, Len(ss))
  BY <1>3
<1> DEFINE f == CHOOSE h : Loop(h, Len(ss))
<1>5. FlattenSeq(ss) = f[Len(ss)]
  BY DEF FlattenSeq
<1>6. Loop(f, Len(ss))
  <2> HIDE DEF Loop
  <2> QED BY <1>4
<1>7. \A i \in 1 .. Len(ss) : f[i] = IF i = 1 THEN ss[i] ELSE Join(f[i - 1], ss[i])
  BY <1>6 DEF Join
<1> HIDE DEF f
<1> QED BY <1>5, <1>7

-----------------------------------------------------------------------------
(* Sums over sets of a list's places.                                        *)

SumOn(es, S) == MapThenSumSet(LAMBDA i : es[i].n, S)

\* The fold takes the places one by one, in an order of its own.
Pick(s) == CHOOSE x \in s : TRUE
FoldStep(es, h, s) == IF s = {} THEN 0 ELSE es[Pick(s)].n + h[s \ {Pick(s)}]
Folds(es, h, S) == \A s \in SUBSET S : h[s] = FoldStep(es, h, s)
Below(S, n) == {s \in SUBSET S : Cardinality(s) <= n}

LEMMA PickIn == \A s : s # {} => Pick(s) \in s
  BY DEF Pick

LEMMA SumIs ==
  ASSUME NEW es, NEW S
  PROVE  SumOn(es, S) = (CHOOSE h : h = [s \in SUBSET S |-> FoldStep(es, h, s)])[S]
  BY DEF SumOn, MapThenSumSet, MapThenFoldSet, FoldStep, Pick

LEMMA Smaller ==
  ASSUME NEW S, IsFiniteSet(S), NEW s \in SUBSET S, NEW x \in s
  PROVE  /\ IsFiniteSet(s) /\ Cardinality(s) \in Nat \ {0} /\ s \ {x} \in SUBSET S
         /\ Cardinality(s \ {x}) = Cardinality(s) - 1
<1>1. IsFiniteSet(s)
  BY FS_Subset
<1>2. Cardinality(s) \in Nat /\ Cardinality(s \ {x}) = Cardinality(s) - 1 /\ Cardinality(s \ {x}) \in Nat
  BY <1>1, FS_RemoveElement, FS_CardinalityType
<1> QED BY <1>1, <1>2

\* The fold exists, by induction on the size of the sets.
LEMMA FoldLoop ==
  ASSUME NEW es, NEW S, IsFiniteSet(S)
  PROVE  \E h : SumOn(es, S) = h[S] /\ Folds(es, h, S)
<1> DEFINE Loop(h, n) == h = [s \in Below(S, n) |-> FoldStep(es, h, s)]
<1> DEFINE T == {n \in Nat : \E h : Loop(h, n)}
<1>0. \A s \in SUBSET S : Cardinality(s) \in Nat /\ (s # {} => Pick(s) \in s /\ s \ {Pick(s)} \in SUBSET S
                                                     /\ Cardinality(s \ {Pick(s)}) = Cardinality(s) - 1)
  <2> TAKE s \in SUBSET S
  <2>1. Cardinality(s) \in Nat
    BY FS_Subset, FS_CardinalityType
  <2>2. s # {} => Pick(s) \in s
    BY PickIn
  <2> QED BY <2>1, <2>2, Smaller
<1>1. 0 \in T
  <2> DEFINE h == [s \in Below(S, 0) |-> 0]
  <2>1. ASSUME NEW s \in Below(S, 0) PROVE s = {}
    <3>1. s \in SUBSET S /\ Cardinality(s) <= 0
      BY DEF Below
    <3>2. s # {} => Cardinality(s \ {Pick(s)}) \in Nat /\ Cardinality(s \ {Pick(s)}) = Cardinality(s) - 1
      BY <3>1, <1>0
    <3> QED BY <3>1, <3>2, <1>0
  <2>2. \A s \in Below(S, 0) : FoldStep(es, h, s) = 0
    BY <2>1 DEF FoldStep
  <2>3. Loop(h, 0)
    BY <2>2
  <2> HIDE DEF Loop, h
  <2> QED BY <2>3
<1>2. \A n \in Nat : n \in T => n + 1 \in T
  <2> TAKE n \in Nat
  <2> HAVE n \in T
  <2>1. PICK g : Loop(g, n)
    OBVIOUS
  <2> DEFINE h == [s \in Below(S, n + 1) |-> FoldStep(es, g, s)]
  <2>2. ASSUME NEW s \in Below(S, n + 1), s # {} PROVE s \ {Pick(s)} \in Below(S, n)
    <3>1. s \in SUBSET S /\ Cardinality(s) <= n + 1
      BY DEF Below
    <3> QED BY <3>1, <2>2, <1>0 DEF Below
  <2>3. \A s \in Below(S, n) : s \in Below(S, n + 1) /\ g[s] = FoldStep(es, g, s)
    <3>1. \A s \in Below(S, n) : g[s] = FoldStep(es, g, s)
      BY <2>1
    <3>2. \A s \in Below(S, n) : s \in Below(S, n + 1)
      <4> TAKE s \in Below(S, n)
      <4>1. s \in SUBSET S /\ Cardinality(s) <= n
        BY DEF Below
      <4>2. Cardinality(s) \in Nat
        BY <4>1, <1>0
      <4> QED BY <4>1, <4>2 DEF Below
    <3> QED BY <3>1, <3>2
  <2>4. \A s \in Below(S, n) : h[s] = g[s]
    BY <2>3
  <2>5. \A s \in Below(S, n + 1) : h[s] = FoldStep(es, g, s)
    OBVIOUS
  <2>6. h = [s \in Below(S, n + 1) |-> h[s]]
    OBVIOUS
  <2> HIDE DEF h
  <2>7. \A s \in Below(S, n + 1) : FoldStep(es, g, s) = FoldStep(es, h, s)
    BY <2>2, <2>4 DEF FoldStep
  <2>8. Loop(h, n + 1)
    BY <2>5, <2>6, <2>7
  <2> HIDE DEF Loop
  <2> QED BY <2>8
<1>3. Cardinality(S) \in T
  <2>1. Cardinality(S) \in Nat
    BY FS_CardinalityType
  <2> HIDE DEF T
  <2> QED BY <2>1, <1>1, <1>2, Induction
<1>4. Below(S, Cardinality(S)) = SUBSET S
  <2>1. \A s \in SUBSET S : Cardinality(s) <= Cardinality(S)
    BY FS_Subset
  <2> QED BY <2>1 DEF Below
<1> DEFINE Whole1(h) == h = [s \in SUBSET S |-> FoldStep(es, h, s)]
<1>5. \E h : Whole1(h)
  BY <1>3, <1>4
<1> DEFINE f == CHOOSE h : Whole1(h)
<1>6. Whole1(f)
  <2> HIDE DEF Whole1
  <2> QED BY <1>5
<1>7. SumOn(es, S) = f[S]
  BY SumIs
<1>8. \A s \in SUBSET S : f[s] = FoldStep(es, f, s)
  BY <1>6
<1> HIDE DEF f
<1>9. Folds(es, f, S)
  BY <1>8 DEF Folds
<1> QED BY <1>7, <1>9

\* Whatever the order, each place counts once.
LEMMA SumOnInsert ==
  ASSUME NEW es, NEW S, IsFiniteSet(S), \A i \in S : es[i].n \in Int, NEW x \in S
  PROVE  SumOn(es, S) \in Int /\ SumOn(es, S \ {x}) \in Int /\ SumOn(es, S) = es[x].n + SumOn(es, S \ {x})
<1>1. ASSUME NEW A \in SUBSET S PROVE \E h : SumOn(es, A) = h[A] /\ Folds(es, h, A)
  <2>1. IsFiniteSet(A)
    BY FS_Subset
  <2> QED BY <2>1, FoldLoop
<1> DEFINE Good(h, s) == h[s] \in Int /\ \A y \in s : h[s] = es[y].n + h[s \ {y}]
<1>2. ASSUME NEW A \in SUBSET S, NEW h, Folds(es, h, A) PROVE \A s \in SUBSET A : Good(h, s)
  <2>0. IsFiniteSet(A) /\ \A y \in A : es[y].n \in Int
    BY FS_Subset
  <2> DEFINE T == {n \in Nat : \A s \in SUBSET A : Cardinality(s) <= n => Good(h, s)}
  <2>1. Good(h, {})
    <3>1. {} \in SUBSET A
      OBVIOUS
    <3>2. h[{}] = 0
      BY <3>1, <1>2 DEF FoldStep, Folds
    <3> QED BY <3>2
  <2>2. 0 \in T
    <3>1. \A s \in SUBSET A : Cardinality(s) <= 0 => s = {}
      <4> TAKE s \in SUBSET A
      <4>1. IsFiniteSet(s) /\ Cardinality(s) \in Nat
        BY <2>0, FS_Subset, FS_CardinalityType
      <4> QED BY <4>1, FS_EmptySet
    <3> HIDE DEF Good
    <3> QED BY <3>1, <2>1
  <2>3. \A n \in Nat : n \in T => n + 1 \in T
    <3> TAKE n \in Nat
    <3> HAVE n \in T
    <3> SUFFICES ASSUME NEW s \in SUBSET A, Cardinality(s) <= n + 1, s # {} PROVE Good(h, s)
      <4> HIDE DEF Good
      <4> QED BY <2>1
    <3> DEFINE c == Pick(s)
    <3>1. c \in s
      BY PickIn
    <3>2. h[s] = es[c].n + h[s \ {c}]
      BY <1>2 DEF FoldStep, Folds
    <3> HIDE DEF c
    <3>3. ASSUME NEW y \in s PROVE s \ {y} \in SUBSET A /\ Good(h, s \ {y})
      <4>1. s \ {y} \in SUBSET A /\ Cardinality(s \ {y}) <= n
        BY <2>0, Smaller
      <4> HIDE DEF Good
      <4> QED BY <4>1
    <3>4. h[s] \in Int
      <4>1. h[s \ {c}] \in Int /\ es[c].n \in Int
        BY <3>1, <3>3, <2>0
      <4> QED BY <4>1, <3>2
    <3>5. ASSUME NEW y \in s PROVE h[s] = es[y].n + h[s \ {y}]
      <4>1. CASE y = c
        BY <4>1, <3>2
      <4>2. CASE y # c
        <5> DEFINE r == h[(s \ {y}) \ {c}]
        <5>1. y \in s \ {c} /\ c \in s \ {y} /\ (s \ {c}) \ {y} = (s \ {y}) \ {c}
          BY <4>2, <3>1
        <5>2. h[s \ {c}] = es[y].n + r
          BY <5>1, <3>1, <3>3
        <5>3. h[s \ {y}] = es[c].n + r
          BY <5>1, <3>3
        <5>4. es[c].n \in Int /\ es[y].n \in Int
          BY <3>1, <2>0
        <5>5. r \in Int
          <6>1. (s \ {y}) \ {c} \in SUBSET A /\ Cardinality((s \ {y}) \ {c}) <= n
            <7>1. s \ {y} \in SUBSET A /\ Cardinality(s \ {y}) <= n /\ Cardinality(s \ {y}) \in Nat
              BY <2>0, Smaller, FS_Subset, FS_CardinalityType
            <7>2. (s \ {y}) \ {c} \in SUBSET A /\ Cardinality((s \ {y}) \ {c}) = Cardinality(s \ {y}) - 1
              <8>1. c \in s \ {y}
                BY <5>1
              <8> QED BY <2>0, <7>1, <8>1, Smaller
            <7> QED BY <7>1, <7>2
          <6>2. Good(h, (s \ {y}) \ {c})
            <7> HIDE DEF Good
            <7> QED BY <6>1
          <6> QED BY <6>2
        <5> HIDE DEF r
        <5> QED BY <5>2, <5>3, <5>4, <5>5, <3>2
      <4> QED BY <4>1, <4>2
    <3> QED BY <3>4, <3>5
  <2>4. Cardinality(A) \in Nat
    BY <2>0, FS_CardinalityType
  <2>5. Cardinality(A) \in T
    <3> HIDE DEF T
    <3> QED BY <2>2, <2>3, <2>4, Induction
  <2>6. \A s \in SUBSET A : Cardinality(s) <= Cardinality(A)
    BY <2>0, FS_Subset
  <2> HIDE DEF Good
  <2> QED BY <2>5, <2>6
\* Two folds agree on the sets they share.
<1>3. ASSUME NEW A \in SUBSET S, NEW h, Folds(es, h, S), NEW g, Folds(es, g, A) PROVE h[A] = g[A]
  <2>0. IsFiniteSet(A)
    BY FS_Subset
  <2> DEFINE T == {n \in Nat : \A s \in SUBSET A : Cardinality(s) <= n => h[s] = g[s]}
  <2>1. h[{}] = g[{}]
    BY <1>3 DEF FoldStep, Folds
  <2>2. 0 \in T
    <3>1. \A s \in SUBSET A : Cardinality(s) <= 0 => s = {}
      <4> TAKE s \in SUBSET A
      <4>1. IsFiniteSet(s) /\ Cardinality(s) \in Nat
        BY <2>0, FS_Subset, FS_CardinalityType
      <4> QED BY <4>1, FS_EmptySet
    <3> QED BY <3>1, <2>1
  <2>3. \A n \in Nat : n \in T => n + 1 \in T
    <3> TAKE n \in Nat
    <3> HAVE n \in T
    <3> SUFFICES ASSUME NEW s \in SUBSET A, Cardinality(s) <= n + 1, s # {} PROVE h[s] = g[s]
      <4>1. \A s \in SUBSET A : s = {} => h[s] = g[s]
        BY <2>1
      <4> QED BY <4>1
    <3> DEFINE c == Pick(s)
    <3>1. c \in s
      BY PickIn
    <3>2. h[s] = es[c].n + h[s \ {c}] /\ g[s] = es[c].n + g[s \ {c}]
      BY <1>3 DEF FoldStep, Folds
    <3> HIDE DEF c
    <3>3. s \ {c} \in SUBSET A /\ Cardinality(s \ {c}) <= n
      BY <3>1, <2>0, Smaller
    <3> QED BY <3>2, <3>3
  <2>4. Cardinality(A) \in Nat
    BY <2>0, FS_CardinalityType
  <2>5. Cardinality(A) \in T
    <3> HIDE DEF T
    <3> QED BY <2>2, <2>3, <2>4, Induction
  <2> QED BY <2>5, <2>4
<1>4. PICK h : SumOn(es, S) = h[S] /\ Folds(es, h, S)
  <2>1. S \in SUBSET S
    OBVIOUS
  <2> QED BY <2>1, <1>1
<1>5. S \ {x} \in SUBSET S
  OBVIOUS
<1>6. PICK g : SumOn(es, S \ {x}) = g[S \ {x}] /\ Folds(es, g, S \ {x})
  BY <1>5, <1>1
<1>7. h[S \ {x}] = g[S \ {x}]
  <2> QED BY <1>3, <1>4, <1>5, <1>6
<1>8. Good(h, S) /\ Good(h, S \ {x})
  <2> HIDE DEF Good
  <2> QED BY <1>2, <1>4, <1>5
<1> QED BY <1>4, <1>6, <1>7, <1>8

LEMMA SumOnEmpty ==
  ASSUME NEW es
  PROVE  SumOn(es, {}) = 0
<1>1. IsFiniteSet({})
  BY FS_EmptySet
<1>2. PICK h : SumOn(es, {}) = h[{}] /\ Folds(es, h, {})
  BY <1>1, FoldLoop
<1> QED BY <1>2 DEF FoldStep, Folds

-----------------------------------------------------------------------------
(* What a list of entries adds up to at one tuple.                           *)

KeyOf(e) == <<e.rel, e.tuple>>
Part(e, t) == IF KeyOf(e) = t THEN e.n ELSE 0
KeyPlaces(es, n, t) == {i \in 1 .. n : <<es[i].rel, es[i].tuple>> = t}
Total(es, t) == SumOn(es, KeyPlaces(es, Len(es), t))
IsEntry(e) == e = Entry(e.rel, e.tuple, e.n) /\ e.n \in Int
Entries(es) == IsTable(es) /\ \A i \in 1 .. Len(es) : IsEntry(es[i])

\* Running sums f of x.
Adds(f, x, n) == f[0] = 0 /\ \A i \in 1 .. n : x[i] \in Int /\ f[i] = f[i - 1] + x[i]
EntryParts(es, t) == [i \in 1 .. Len(es) |-> Part(es[i], t)]

\* Running sums of integers are integers.
LEMMA AddsInt ==
  ASSUME NEW f, NEW x, NEW n \in Nat, Adds(f, x, n)
  PROVE  \A i \in 0 .. n : f[i] \in Int
<1> DEFINE T == {i \in 0 .. n : f[i] \in Int}
<1>1. 0 \in T
  BY DEF Adds
<1>2. \A i \in 0 .. n - 1 : i \in T => i + 1 \in T
  <2> TAKE i \in 0 .. n - 1
  <2> HAVE i \in T
  <2>1. i + 1 \in 1 .. n /\ (i + 1) - 1 = i /\ i + 1 \in 0 .. n
    OBVIOUS
  <2>2. x[i + 1] \in Int /\ f[i + 1] = f[i] + x[i + 1]
    BY <2>1 DEF Adds
  <2> QED BY <2>1, <2>2
<1>3. 0 .. n \subseteq T
  <2> HIDE DEF T
  <2> QED BY <1>1, <1>2, InductionTo
<1> QED BY <1>3

\* The running sums of a list and another one behind it.
LEMMA AddsJoin ==
  ASSUME NEW n \in Nat, NEW m \in Nat, NEW f, NEW g, NEW h, NEW x, NEW y, NEW z,
         Adds(f, x, n), Adds(g, y, m), Adds(h, z, n + m),
         \A i \in 1 .. n : z[i] = x[i], \A i \in 1 .. m : z[n + i] = y[i]
  PROVE  h[n + m] = f[n] + g[m] /\ h[n] = f[n]
<1>1. (\A i \in 0 .. n : f[i] \in Int) /\ (\A i \in 0 .. m : g[i] \in Int)
  BY AddsInt
<1> DEFINE T == {i \in 0 .. n : h[i] = f[i]}
<1>2. 0 \in T
  BY DEF Adds
<1>3. \A i \in 0 .. n - 1 : i \in T => i + 1 \in T
  <2> TAKE i \in 0 .. n - 1
  <2> HAVE i \in T
  <2>1. i + 1 \in 1 .. n /\ (i + 1) - 1 = i /\ i + 1 \in 0 .. n /\ i + 1 \in 1 .. n + m
    OBVIOUS
  <2>2. f[i + 1] = f[i] + x[i + 1]
    BY <2>1 DEF Adds
  <2>3. h[i + 1] = h[i] + z[i + 1]
    BY <2>1 DEF Adds
  <2>4. z[i + 1] = x[i + 1]
    BY <2>1
  <2> QED BY <2>1, <2>2, <2>3, <2>4
<1>4. 0 .. n \subseteq T
  <2> HIDE DEF T
  <2> QED BY <1>2, <1>3, InductionTo
<1>5. h[n] = f[n]
  BY <1>4
<1> HIDE DEF T
<1> DEFINE U == {i \in 0 .. m : h[n + i] = f[n] + g[i]}
<1>6. 0 \in U
  <2>1. g[0] = 0 /\ f[n] \in Int /\ n + 0 = n
    BY <1>1 DEF Adds
  <2> QED BY <2>1, <1>5
<1>7. \A i \in 0 .. m - 1 : i \in U => i + 1 \in U
  <2> TAKE i \in 0 .. m - 1
  <2> HAVE i \in U
  <2>1. i + 1 \in 1 .. m /\ (i + 1) - 1 = i /\ i + 1 \in 0 .. m /\ n + (i + 1) \in 1 .. n + m /\ (n + (i + 1)) - 1 = n + i
    OBVIOUS
  <2>2. g[i + 1] = g[i] + y[i + 1] /\ y[i + 1] \in Int
    BY <2>1 DEF Adds
  <2>3. h[n + (i + 1)] = h[n + i] + z[n + (i + 1)]
    BY <2>1 DEF Adds
  <2>4. z[n + (i + 1)] = y[i + 1]
    BY <2>1
  <2>5. f[n] \in Int /\ g[i] \in Int
    BY <1>1
  <2> QED BY <2>1, <2>2, <2>3, <2>4, <2>5
<1>8. 0 .. m \subseteq U
  <2> HIDE DEF U
  <2> QED BY <1>6, <1>7, InductionTo
<1>9. m \in U
  BY <1>8
<1> QED BY <1>5, <1>9

\* A total is the last of the running sums.
LEMMA TotalAdds ==
  ASSUME NEW es, Entries(es), NEW t
  PROVE  \E f : Adds(f, EntryParts(es, t), Len(es)) /\ Total(es, t) = f[Len(es)]
<1> DEFINE f == [i \in 0 .. Len(es) |-> SumOn(es, KeyPlaces(es, i, t))]
<1>0. Len(es) \in Nat
  BY TableLength DEF Entries
<1>1. f[0] = 0
  <2>1. KeyPlaces(es, 0, t) = {}
    BY DEF KeyPlaces
  <2>2. f[0] = SumOn(es, KeyPlaces(es, 0, t))
    BY <1>0
  <2> HIDE DEF f
  <2> QED BY <2>1, <2>2, SumOnEmpty
<1>2. ASSUME NEW i \in 1 .. Len(es)
      PROVE  Part(es[i], t) \in Int /\ f[i] = f[i - 1] + Part(es[i], t)
  <2> DEFINE A == KeyPlaces(es, i, t)
  <2> DEFINE B == KeyPlaces(es, i - 1, t)
  <2>1. i \in Nat /\ i \in Int /\ i \in 0 .. Len(es) /\ i - 1 \in 0 .. Len(es) /\ es[i].n \in Int
    BY <1>0 DEF Entries, IsEntry
  <2>2. f[i] = SumOn(es, A) /\ f[i - 1] = SumOn(es, B)
    BY <2>1
  <2>3. B = A \ {i}
    BY <2>1 DEF KeyPlaces
  <2>4. IsFiniteSet(A)
    <3>1. A \in SUBSET (1 .. i) /\ IsFiniteSet(1 .. i)
      BY <2>1, FS_Interval DEF KeyPlaces
    <3> QED BY <3>1, FS_Subset
  <2>5. \A j \in A : es[j].n \in Int
    BY <1>0 DEF KeyPlaces, Entries, IsEntry
  <2>6. i \in A <=> KeyOf(es[i]) = t
    BY <2>1 DEF KeyPlaces, KeyOf
  <2> HIDE DEF A, B, f
  <2>7. CASE i \in A
    <3>1. SumOn(es, A) = es[i].n + SumOn(es, A \ {i}) /\ SumOn(es, A \ {i}) \in Int
      BY <2>4, <2>5, <2>7, SumOnInsert
    <3> QED BY <3>1, <2>1, <2>2, <2>3, <2>6, <2>7 DEF Part
  <2>8. CASE i \notin A
    <3>1. B = A
      BY <2>3, <2>8
    <3>2. SumOn(es, A) \in Int
      <4>1. CASE A = {}
        BY <4>1, SumOnEmpty
      <4>2. CASE A # {}
        <5>1. PICK j : j \in A
          BY <4>2
        <5> QED BY <5>1, <2>4, <2>5, SumOnInsert
      <4> QED BY <4>1, <4>2
    <3> QED BY <3>1, <3>2, <2>2, <2>6, <2>8 DEF Part
  <2> QED BY <2>7, <2>8
<1>3. Total(es, t) = f[Len(es)]
  BY <1>0 DEF Total
<1> HIDE DEF f
<1>4. Adds(f, EntryParts(es, t), Len(es))
  BY <1>1, <1>2 DEF Adds, EntryParts
<1> QED BY <1>3, <1>4

LEMMA TotalInt ==
  ASSUME NEW es, Entries(es), NEW t
  PROVE  Total(es, t) \in Int
<1>1. PICK f : Adds(f, EntryParts(es, t), Len(es)) /\ Total(es, t) = f[Len(es)]
  BY TotalAdds
<1>2. Len(es) \in Nat
  BY TableLength DEF Entries
<1> QED BY <1>1, <1>2, AddsInt

\* Totals of two lists, one behind the other.
LEMMA TotalJoin ==
  ASSUME NEW es, Entries(es), NEW ds, Entries(ds), NEW t
  PROVE  Entries(Join(es, ds)) /\ Total(Join(es, ds), t) = Total(es, t) + Total(ds, t)
<1>1. PICK f : Adds(f, EntryParts(es, t), Len(es)) /\ Total(es, t) = f[Len(es)]
  BY TotalAdds
<1>2. PICK g : Adds(g, EntryParts(ds, t), Len(ds)) /\ Total(ds, t) = g[Len(ds)]
  BY TotalAdds
<1> DEFINE u == Join(es, ds)
<1>3. /\ IsTable(u) /\ Len(u) = Len(es) + Len(ds) /\ Len(es) \in Nat /\ Len(ds) \in Nat
      /\ \A j \in 1 .. Len(es) + Len(ds) : u[j] = IF j <= Len(es) THEN es[j] ELSE ds[j - Len(es)]
  BY Joined DEF Entries
<1> HIDE DEF u
<1>4. Entries(u)
  <2> SUFFICES ASSUME NEW i \in 1 .. Len(u) PROVE IsEntry(u[i])
    BY <1>3 DEF Entries
  <2>1. CASE i <= Len(es)
    <3>1. u[i] = es[i] /\ i \in 1 .. Len(es)
      BY <1>3, <2>1
    <3> QED BY <3>1 DEF Entries
  <2>2. CASE ~ (i <= Len(es))
    <3>1. u[i] = ds[i - Len(es)] /\ i - Len(es) \in 1 .. Len(ds)
      BY <1>3, <2>2
    <3> QED BY <3>1 DEF Entries
  <2> QED BY <2>1, <2>2
<1>5. PICK h : Adds(h, EntryParts(u, t), Len(u)) /\ Total(u, t) = h[Len(u)]
  BY <1>4, TotalAdds
<1>6. \A i \in 1 .. Len(es) : EntryParts(u, t)[i] = EntryParts(es, t)[i]
  <2> TAKE i \in 1 .. Len(es)
  <2>1. i \in 1 .. Len(u) /\ u[i] = es[i]
    BY <1>3
  <2> QED BY <2>1 DEF EntryParts
<1>7. \A i \in 1 .. Len(ds) : EntryParts(u, t)[Len(es) + i] = EntryParts(ds, t)[i]
  <2> TAKE i \in 1 .. Len(ds)
  <2>1. Len(es) + i \in 1 .. Len(u) /\ u[Len(es) + i] = ds[i]
    BY <1>3
  <2> QED BY <2>1 DEF EntryParts
<1>8. h[Len(es) + Len(ds)] = f[Len(es)] + g[Len(ds)]
  <2> DEFINE n == Len(es)
  <2> DEFINE m == Len(ds)
  <2> DEFINE x == EntryParts(es, t)
  <2> DEFINE y == EntryParts(ds, t)
  <2> DEFINE z == EntryParts(u, t)
  <2>1. n \in Nat /\ m \in Nat /\ Adds(f, x, n) /\ Adds(g, y, m) /\ Adds(h, z, n + m)
    BY <1>1, <1>2, <1>3, <1>5
  <2>2. (\A i \in 1 .. n : z[i] = x[i]) /\ (\A i \in 1 .. m : z[n + i] = y[i])
    BY <1>6, <1>7
  <2> HIDE DEF n, m, x, y, z
  <2>3. h[n + m] = f[n] + g[m]
    BY <2>1, <2>2, AddsJoin
  <2> QED BY <2>3 DEF n, m
<1> QED BY <1>1, <1>2, <1>3, <1>4, <1>5, <1>8 DEF u

\* Nothing is left over iff the total is zero at every tuple.
LEMMA ResidueIs ==
  ASSUME NEW es, Entries(es)
  PROVE  Residue(es) = {} <=> \A t : Total(es, t) = 0
<1>1. Len(es) \in Nat /\ DOMAIN es = 1 .. Len(es) /\ ToSet(es) = {es[i] : i \in 1 .. Len(es)}
  <2>1. PICK S : es \in Seq(S)
    BY DEF Entries, IsTable
  <2> QED BY <2>1 DEF ToSet
<1> DEFINE keys == {<<e.rel, e.tuple>> : e \in ToSet(es)}
<1>2. Residue(es) = {t \in keys : Total(es, t) # 0}
  BY <1>1 DEF Residue, Total, SumOn, KeyPlaces
<1>3. ASSUME NEW t, t \notin keys PROVE Total(es, t) = 0
  <2>1. KeyPlaces(es, Len(es), t) = {}
    <3> SUFFICES ASSUME NEW i \in 1 .. Len(es), <<es[i].rel, es[i].tuple>> = t PROVE FALSE
      BY DEF KeyPlaces
    <3>1. es[i] \in ToSet(es)
      BY <1>1
    <3> QED BY <3>1, <1>3
  <2> QED BY <2>1, SumOnEmpty DEF Total
<1> HIDE DEF keys
<1> QED BY <1>2, <1>3

LEMMA TotalEmpty ==
  ASSUME NEW t
  PROVE  Entries(<<>>) /\ Total(<<>>, t) = 0
<1>1. <<>> \in Seq({})
  OBVIOUS
<1>2. Entries(<<>>)
  BY <1>1 DEF Entries, IsTable
<1>3. KeyPlaces(<<>>, 0, t) = {}
  BY DEF KeyPlaces
<1> QED BY <1>2, <1>3, SumOnEmpty DEF Total

LEMMA TotalOne ==
  ASSUME NEW e, IsEntry(e), NEW t
  PROVE  Entries(<<e>>) /\ Total(<<e>>, t) = Part(e, t)
<1> DEFINE es == <<e>>
<1>1. es \in Seq({e}) /\ Len(es) = 1 /\ es[1] = e
  OBVIOUS
<1> HIDE DEF es
<1>2. Entries(es)
  BY <1>1 DEF Entries, IsTable
<1>3. PICK f : Adds(f, EntryParts(es, t), Len(es)) /\ Total(es, t) = f[Len(es)]
  BY <1>2, TotalAdds
<1>4. EntryParts(es, t)[1] = Part(e, t)
  BY <1>1 DEF EntryParts
<1>5. f[1] = Part(e, t)
  BY <1>1, <1>3, <1>4 DEF Adds
<1> QED BY <1>1, <1>2, <1>3, <1>5 DEF es

LEMMA TotalFour ==
  ASSUME NEW a, IsEntry(a), NEW b, IsEntry(b), NEW c, IsEntry(c), NEW d, IsEntry(d), NEW t
  PROVE  Entries(<<a, b, c, d>>) /\ Total(<<a, b, c, d>>, t) = Part(a, t) + Part(b, t) + Part(c, t) + Part(d, t)
<1> DEFINE es == <<a, b, c, d>>
<1>1. es \in Seq({a, b, c, d}) /\ Len(es) = 4 /\ es[1] = a /\ es[2] = b /\ es[3] = c /\ es[4] = d
  OBVIOUS
<1> HIDE DEF es
<1>2. Entries(es)
  <2>1. \A i \in 1 .. 4 : es[i] \in {a, b, c, d}
    BY <1>1
  <2> QED BY <1>1, <2>1 DEF Entries, IsTable
<1>3. PICK f : Adds(f, EntryParts(es, t), Len(es)) /\ Total(es, t) = f[Len(es)]
  BY <1>2, TotalAdds
<1>4. /\ EntryParts(es, t)[1] = Part(a, t) /\ EntryParts(es, t)[2] = Part(b, t)
      /\ EntryParts(es, t)[3] = Part(c, t) /\ EntryParts(es, t)[4] = Part(d, t)
  BY <1>1 DEF EntryParts
<1>5. /\ f[1] = f[0] + Part(a, t) /\ f[2] = f[1] + Part(b, t) /\ f[3] = f[2] + Part(c, t)
      /\ f[4] = f[3] + Part(d, t) /\ f[0] = 0
  BY <1>1, <1>3, <1>4 DEF Adds
<1>6. Part(a, t) \in Int /\ Part(b, t) \in Int /\ Part(c, t) \in Int /\ Part(d, t) \in Int
  BY DEF Part, IsEntry
<1>7. f[4] = Part(a, t) + Part(b, t) + Part(c, t) + Part(d, t)
  BY <1>5, <1>6
<1> QED BY <1>1, <1>2, <1>3, <1>7 DEF es

\* Entries with the opposite multiplicities.
Minus(es) == [i \in DOMAIN es |-> [es[i] EXCEPT !.n = -@]]

LEMMA TotalMinus ==
  ASSUME NEW es, Entries(es), NEW t
  PROVE  Entries(Minus(es)) /\ Total(Minus(es), t) = -Total(es, t)
<1> DEFINE ds == Minus(es)
<1>1. Len(es) \in Nat /\ DOMAIN es = 1 .. Len(es)
  <2>1. PICK S : es \in Seq(S)
    BY DEF Entries, IsTable
  <2> QED BY <2>1
<1>2. ds = [i \in 1 .. Len(es) |-> [es[i] EXCEPT !.n = -@]]
  BY <1>1 DEF Minus
<1>3. IsTable(ds) /\ Len(ds) = Len(es)
  <2> DEFINE D == {[es[i] EXCEPT !.n = -@] : i \in 1 .. Len(es)}
  <2>1. \A i \in 1 .. Len(es) : ds[i] \in D
    BY <1>2
  <2>2. ds = [i \in 1 .. Len(es) |-> ds[i]]
    BY <1>2
  <2> HIDE DEF ds, D
  <2>3. ds \in Seq(D) /\ Len(ds) = Len(es)
    BY <2>1, <2>2, <1>1
  <2> QED BY <2>3 DEF IsTable
<1>4. ASSUME NEW i \in 1 .. Len(es)
      PROVE  IsEntry(ds[i]) /\ ds[i].rel = es[i].rel /\ ds[i].tuple = es[i].tuple /\ ds[i].n = -es[i].n
  <2>1. ds[i] = [es[i] EXCEPT !.n = -@]
    BY <1>2
  <2>2. es[i] = Entry(es[i].rel, es[i].tuple, es[i].n) /\ es[i].n \in Int
    BY DEF Entries, IsEntry
  <2> DEFINE rel == es[i].rel
  <2> DEFINE tuple == es[i].tuple
  <2> DEFINE n == es[i].n
  <2>3. es[i] = [rel |-> rel, tuple |-> tuple, n |-> n] /\ n \in Int
    BY <2>2 DEF Entry
  <2> HIDE DEF rel, tuple, n, ds
  <2>4. ds[i] = [rel |-> rel, tuple |-> tuple, n |-> -n]
    BY <2>1, <2>3
  <2>5. -n \in Int
    BY <2>3
  <2>6. IsEntry(ds[i]) /\ ds[i].rel = rel /\ ds[i].tuple = tuple /\ ds[i].n = -n
    BY <2>4, <2>5 DEF IsEntry, Entry
  <2> QED BY <2>6 DEF rel, tuple, n
<1> HIDE DEF ds
<1>5. Entries(ds)
  BY <1>3, <1>4 DEF Entries
<1>6. PICK f : Adds(f, EntryParts(es, t), Len(es)) /\ Total(es, t) = f[Len(es)]
  BY TotalAdds
<1>7. PICK g : Adds(g, EntryParts(ds, t), Len(ds)) /\ Total(ds, t) = g[Len(ds)]
  BY <1>5, TotalAdds
<1>8. \A i \in 0 .. Len(es) : f[i] \in Int
  BY <1>1, <1>6, AddsInt
<1> DEFINE T == {i \in 0 .. Len(es) : g[i] = -f[i]}
<1>9. 0 \in T
  BY <1>1, <1>6, <1>7 DEF Adds
<1>10. \A i \in 0 .. Len(es) - 1 : i \in T => i + 1 \in T
  <2> TAKE i \in 0 .. Len(es) - 1
  <2> HAVE i \in T
  <2>1. i + 1 \in 1 .. Len(es) /\ (i + 1) - 1 = i /\ i + 1 \in 0 .. Len(es)
    BY <1>1
  <2>2. f[i + 1] = f[i] + Part(es[i + 1], t) /\ Part(es[i + 1], t) \in Int
    BY <2>1, <1>6 DEF Adds, EntryParts
  <2>3. g[i + 1] = g[i] + Part(ds[i + 1], t)
    BY <2>1, <1>3, <1>7 DEF Adds, EntryParts
  <2>4. Part(ds[i + 1], t) = -Part(es[i + 1], t)
    BY <2>1, <1>4 DEF Part, KeyOf
  <2>5. f[i] \in Int
    BY <1>8
  <2> QED BY <2>1, <2>2, <2>3, <2>4, <2>5
<1>11. 0 .. Len(es) \subseteq T
  <2> HIDE DEF T
  <2> QED BY <1>1, <1>9, <1>10, InductionTo
<1>12. g[Len(es)] = -f[Len(es)]
  BY <1>1, <1>11
<1> QED BY <1>3, <1>5, <1>6, <1>7, <1>12 DEF ds

\* One list can stand for another iff they add up to the same everywhere.
LEMMA CancelsIff ==
  ASSUME NEW es, Entries(es), NEW ds, Entries(ds)
  PROVE  StillCancels(es, ds) <=> \A t : Total(ds, t) = Total(es, t)
<1>1. Entries(Minus(es)) /\ \A t : Total(Minus(es), t) = -Total(es, t)
  BY TotalMinus
<1> DEFINE u == Join(ds, Minus(es))
<1>2. Entries(u) /\ \A t : Total(u, t) = Total(ds, t) + Total(Minus(es), t)
  BY <1>1, TotalJoin
<1>3. \A t : Total(es, t) \in Int /\ Total(ds, t) \in Int
  BY TotalInt
<1>4. StillCancels(es, ds) <=> Residue(u) = {}
  BY DEF StillCancels, Join, Minus
<1> HIDE DEF u
<1>5. Residue(u) = {} <=> \A t : Total(u, t) = 0
  BY <1>2, ResidueIs
<1>6. \A t : Total(u, t) = 0 <=> Total(ds, t) = Total(es, t)
  BY <1>1, <1>2, <1>3
<1> QED BY <1>4, <1>5, <1>6

\* What the lists of a list add up to, laid end to end.
EntryLists(ss) == IsTable(ss) /\ \A i \in 1 .. Len(ss) : Entries(ss[i])
Totals(ss, t) == [i \in 1 .. Len(ss) |-> Total(ss[i], t)]
Grand(ss, t) == Total(FlattenSeq(ss), t)

LEMMA GrandAdds ==
  ASSUME NEW ss, EntryLists(ss), NEW t
  PROVE  Entries(FlattenSeq(ss)) /\ \E g : Adds(g, Totals(ss, t), Len(ss)) /\ Grand(ss, t) = g[Len(ss)]
<1>0. Len(ss) \in Nat /\ IsTable(ss)
  BY TableLength DEF EntryLists
<1>1. CASE Len(ss) = 0
  <2>1. ss = <<>>
    <3>1. PICK S : ss \in Seq(S)
      BY <1>0 DEF IsTable
    <3> QED BY <3>1, <1>1, ListEmpty
  <2>2. FlattenSeq(ss) = <<>>
    BY <2>1, <1>1 DEF FlattenSeq
  <2>3. Entries(FlattenSeq(ss)) /\ Grand(ss, t) = 0
    BY <2>2, TotalEmpty DEF Grand
  <2> DEFINE g == [i \in {0} |-> 0]
  <2>4. Adds(g, Totals(ss, t), 0) /\ g[0] = 0
    BY DEF Adds
  <2> HIDE DEF g
  <2> QED BY <1>1, <2>3, <2>4
<1>2. CASE Len(ss) # 0
  <2>1. PICK f : /\ FlattenSeq(ss) = f[Len(ss)]
                 /\ \A i \in 1 .. Len(ss) : f[i] = IF i = 1 THEN ss[i] ELSE Join(f[i - 1], ss[i])
    BY <1>0, <1>2, FlatLoop
  <2> DEFINE g == [i \in 0 .. Len(ss) |-> IF i = 0 THEN 0 ELSE Total(f[i], t)]
  <2>2. g[0] = 0 /\ \A i \in 1 .. Len(ss) : g[i] = Total(f[i], t)
    BY <1>0
  <2> HIDE DEF g
  <2> DEFINE Good(i) == Entries(f[i]) /\ g[i] = g[i - 1] + Total(ss[i], t)
  <2> DEFINE T == {i \in 0 .. Len(ss) : i > 0 => Good(i)}
  <2>3. 0 \in T
    BY <1>0
  <2>4. \A i \in 0 .. Len(ss) - 1 : i \in T => i + 1 \in T
    <3> TAKE i \in 0 .. Len(ss) - 1
    <3> HAVE i \in T
    <3> DEFINE m == i + 1
    <3>1. m \in 1 .. Len(ss) /\ m - 1 = i /\ m \in 0 .. Len(ss) /\ i \in Nat
      BY <1>0
    <3>2. Entries(ss[m]) /\ Total(ss[m], t) \in Int
      BY <3>1, TotalInt DEF EntryLists
    <3> HIDE DEF m
    <3>3. CASE i = 0
      <4>1. f[m] = ss[m]
        BY <3>1, <3>3, <2>1
      <4> QED BY <4>1, <3>1, <3>2, <3>3, <2>2 DEF m
    <3>4. CASE i # 0
      <4>1. f[m] = Join(f[i], ss[m]) /\ i \in 1 .. Len(ss) /\ Entries(f[i])
        BY <3>1, <3>4, <2>1
      <4>2. Entries(f[m]) /\ Total(f[m], t) = Total(f[i], t) + Total(ss[m], t)
        BY <4>1, <3>2, TotalJoin
      <4>3. Good(m)
        BY <4>1, <4>2, <3>1, <2>2
      <4> QED BY <4>3, <3>1 DEF m
    <3> QED BY <3>3, <3>4
  <2>5. 0 .. Len(ss) \subseteq T
    <3> HIDE DEF T
    <3> QED BY <1>0, <2>3, <2>4, InductionTo
  <2>6. \A i \in 1 .. Len(ss) : Good(i)
    <3> HIDE DEF Good
    <3> QED BY <1>0, <2>5
  <2>7. Adds(g, Totals(ss, t), Len(ss))
    <3>1. \A i \in 1 .. Len(ss) : Total(ss[i], t) \in Int
      BY TotalInt DEF EntryLists
    <3> QED BY <3>1, <2>2, <2>6 DEF Adds, Totals
  <2>8. Entries(FlattenSeq(ss)) /\ Grand(ss, t) = g[Len(ss)]
    <3>1. Len(ss) \in 1 .. Len(ss)
      BY <1>0, <1>2
    <3> QED BY <3>1, <2>1, <2>2, <2>6 DEF Grand
  <2> QED BY <2>7, <2>8
<1> QED BY <1>1, <1>2

\* The same of two lists of lists.
LEMMA GrandJoin ==
  ASSUME NEW ss, EntryLists(ss), NEW rr, EntryLists(rr), NEW t
  PROVE  EntryLists(Join(ss, rr)) /\ Grand(Join(ss, rr), t) = Grand(ss, t) + Grand(rr, t)
<1> DEFINE u == Join(ss, rr)
<1> DEFINE n == Len(ss)
<1> DEFINE m == Len(rr)
<1>1. /\ IsTable(u) /\ Len(u) = n + m /\ n \in Nat /\ m \in Nat
      /\ \A j \in 1 .. n + m : u[j] = IF j <= n THEN ss[j] ELSE rr[j - n]
  BY Joined DEF EntryLists
<1> HIDE DEF u
<1>2. (\A i \in 1 .. n : u[i] = ss[i]) /\ (\A i \in 1 .. m : u[n + i] = rr[i])
  <2> HIDE DEF n, m
  <2>1. ASSUME NEW i \in 1 .. n PROVE u[i] = ss[i]
    <3>1. i \in 1 .. n + m /\ i <= n
      BY <1>1
    <3> QED BY <3>1, <1>1
  <2>2. ASSUME NEW i \in 1 .. m PROVE u[n + i] = rr[i]
    <3>1. n + i \in 1 .. n + m /\ ~ (n + i <= n) /\ (n + i) - n = i
      BY <1>1
    <3> QED BY <3>1, <1>1
  <2> QED BY <2>1, <2>2
<1>3. EntryLists(u)
  <2> SUFFICES ASSUME NEW i \in 1 .. Len(u) PROVE Entries(u[i])
    BY <1>1 DEF EntryLists
  <2>1. CASE i <= n
    <3>1. u[i] = ss[i] /\ i \in 1 .. n
      BY <1>1, <2>1
    <3> QED BY <3>1 DEF EntryLists
  <2>2. CASE ~ (i <= n)
    <3>1. u[i] = rr[i - n] /\ i - n \in 1 .. m
      BY <1>1, <2>2
    <3> QED BY <3>1 DEF EntryLists
  <2> QED BY <2>1, <2>2
<1>4. PICK f : Adds(f, Totals(ss, t), n) /\ Grand(ss, t) = f[n]
  BY GrandAdds
<1>5. PICK g : Adds(g, Totals(rr, t), m) /\ Grand(rr, t) = g[m]
  BY GrandAdds
<1>6. PICK h : Adds(h, Totals(u, t), Len(u)) /\ Grand(u, t) = h[Len(u)]
  BY <1>3, GrandAdds
<1> DEFINE x == Totals(ss, t)
<1> DEFINE y == Totals(rr, t)
<1> DEFINE z == Totals(u, t)
<1>7. \A i \in 1 .. n : z[i] = x[i]
  <2> TAKE i \in 1 .. n
  <2>1. i \in 1 .. Len(u) /\ u[i] = ss[i]
    BY <1>1, <1>2
  <2> QED BY <2>1 DEF Totals
<1>8. \A i \in 1 .. m : z[n + i] = y[i]
  <2> TAKE i \in 1 .. m
  <2>1. n + i \in 1 .. Len(u) /\ u[n + i] = rr[i]
    BY <1>1, <1>2
  <2> QED BY <2>1 DEF Totals
<1>9. n \in Nat /\ m \in Nat /\ Adds(f, x, n) /\ Adds(g, y, m) /\ Adds(h, z, n + m)
  BY <1>1, <1>4, <1>5, <1>6
<1> HIDE DEF n, m, x, y, z
<1>10. h[n + m] = f[n] + g[m]
  BY <1>7, <1>8, <1>9, AddsJoin
<1> QED BY <1>1, <1>3, <1>4, <1>5, <1>6, <1>10 DEF u

LEMMA GrandOne ==
  ASSUME NEW es, Entries(es), NEW t
  PROVE  EntryLists(<<es>>) /\ Grand(<<es>>, t) = Total(es, t)
<1> DEFINE ss == <<es>>
<1>1. ss \in Seq({es}) /\ Len(ss) = 1 /\ ss[1] = es
  OBVIOUS
<1> HIDE DEF ss
<1>2. EntryLists(ss)
  BY <1>1 DEF EntryLists, IsTable
<1>3. PICK f : Adds(f, Totals(ss, t), Len(ss)) /\ Grand(ss, t) = f[Len(ss)]
  BY <1>2, GrandAdds
<1>4. f[1] = f[0] + Total(es, t) /\ f[0] = 0 /\ Total(es, t) \in Int
  BY <1>1, <1>3 DEF Adds, Totals
<1> QED BY <1>1, <1>2, <1>3, <1>4 DEF ss

-----------------------------------------------------------------------------
(* The rows of a run and the terms of its claim.                             *)

ChunksOk(c) ==
  /\ Len(c) \in Nat /\ Len(c) >= 2 /\ c = [k \in 1 .. Len(c) |-> c[k]]
  /\ \A k \in 1 .. Len(c) : c[k] = [j \in 1 .. Rate |-> c[k][j]] /\ c[k][1] # Foreign
RowShape(r) ==
  /\ r = [channel_id |-> r.channel_id, step |-> r.step, prev |-> r.prev, chunk |-> r.chunk, out |-> r.out]
  /\ r.step \in Nat /\ r.chunk = [j \in 1 .. Rate |-> r.chunk[j]] /\ r.out = Permuted(r.prev, r.chunk)
RowSums(rs) == [i \in DOMAIN rs |-> RowSum(rs[i])]
ClaimSums(cs) == [i \in DOMAIN cs |-> ChannelTerms(cs[i])]

Hit(rel, tuple, t) == IF <<rel, tuple>> = t THEN 1 ELSE 0

\* A run is a list of whole chunks, none of which begins with the foreign word.
LEMMA RunOk ==
  ASSUME NEW d, Block(d), NEW ws \in Seq(Nat)
  PROVE  ChunksOk(Run(d, ws))
<1> DEFINE c == Run(d, ws)
<1>1. Shape(d, ws, c)
  BY RunShape
<1>2. Len(c) \in Nat /\ Len(c) >= 2 /\ c = [k \in 1 .. Len(c) |-> c[k]] /\ c[1] = d
  BY <1>1 DEF Shape
<1>3. 1 \in 1 .. Rate
  BY RateIs
<1>4. d = [j \in 1 .. Rate |-> d[j]] /\ d[1] # Foreign
  <2>1. CASE d = ZeroBlock
    <3>1. ZeroBlock[1] = W(0) /\ W(0) # Foreign
      BY <1>3 DEF ZeroBlock, W, Foreign
    <3>2. d = [j \in 1 .. Rate |-> d[j]]
      BY <2>1 DEF ZeroBlock
    <3> QED BY <2>1, <3>1, <3>2
  <2>2. ASSUME NEW s, d = RateOf(s) PROVE d = [j \in 1 .. Rate |-> d[j]] /\ d[1] # Foreign
    <3>1. RateOf(s)[1] = <<s, 1>> /\ <<s, 1>> # <<-1>>
      BY <1>3 DEF RateOf
    <3>2. d = [j \in 1 .. Rate |-> d[j]]
      BY <2>2 DEF RateOf
    <3> QED BY <2>2, <3>1, <3>2 DEF Foreign, W
  <2> QED BY <2>1, <2>2 DEF Block
<1>5. ASSUME NEW k \in 1 .. Len(c) PROVE c[k] = [j \in 1 .. Rate |-> c[k][j]] /\ c[k][1] # Foreign
  <2>1. CASE k = 1
    BY <2>1, <1>2, <1>4
  <2>2. CASE k # 1
    <3>1. k \in 2 .. Len(c)
      BY <2>2, <1>2
    <3>2. c[k] = [j \in 1 .. Rate |-> c[k][j]] /\ \E n \in Nat : c[k][1] = W(n)
      BY <3>1, <1>1 DEF Shape
    <3> QED BY <3>2 DEF Foreign, W
  <2> QED BY <2>1, <2>2
<1> HIDE DEF c
<1> QED BY <1>2, <1>5 DEF ChunksOk, c

\* The rows of a run: each takes the state the one before leaves.
LEMMA RunRowsAre ==
  ASSUME NEW id, NEW c, ChunksOk(c), NEW k \in 1 .. Len(c)
  PROVE  LET r == RunRows(id, c)[k]
         IN  /\ RowShape(r) /\ r.channel_id = id /\ r.step = k - 1 /\ r.chunk = c[k]
             /\ r.prev = Names(c, k - 1) /\ r.out = Names(c, k)
<1>1. Len(c) \in Nat /\ c = [i \in 1 .. Len(c) |-> c[i]] /\ DOMAIN c = 1 .. Len(c) /\ k - 1 \in Nat /\ k \in Nat
  BY DEF ChunksOk
<1> DEFINE head == SubSeq(c, 1, k - 1)
<1>2. ReplayDigest(head) = Names(c, k - 1)
  <2>1. Len(head) = k - 1 /\ \A i \in 1 .. k - 1 : head[i] = c[i]
    <3> DEFINE C == {c[i] : i \in 1 .. Len(c)}
    <3>1. c \in Seq(C)
      <4>1. \A i \in 1 .. Len(c) : c[i] \in C
        OBVIOUS
      <4> HIDE DEF C
      <4> QED BY <4>1, <1>1
    <3> HIDE DEF C
    <3>2. k - 1 \in 0 .. Len(c) /\ 1 \in 1 .. Len(c) + 1
      BY <1>1
    <3>3. head = [i \in 1 .. k - 1 |-> c[i]]
      BY <3>1, <3>2, <1>1
    <3> QED BY <3>3, <1>1
  <2> HIDE DEF head
  <2>2. ReplayDigest(head) = Names(head, k - 1)
    BY <2>1, <1>1, ReplayIsNames
  <2>3. Names(head, k - 1) = Names(c, k - 1)
    BY <2>1 DEF Names
  <2> QED BY <2>2, <2>3
<1>3. Permuted(Names(c, k - 1), c[k]) = Names(c, k)
  <2>1. Names(c, (k - 1) + 1) = Append(Names(c, k - 1), Named(c[(k - 1) + 1]))
    BY <1>1, NamesAppend
  <2>2. (k - 1) + 1 = k
    BY <1>1
  <2> QED BY <2>1, <2>2 DEF Permuted
<1> DEFINE p == Names(c, k - 1)
<1> DEFINE o == Names(c, k)
<1> DEFINE x == c[k]
<1>4. RunRows(id, c)[k] = [channel_id |-> id, step |-> k - 1, prev |-> p, chunk |-> x, out |-> o]
  BY <1>1, <1>2, <1>3 DEF RunRows
<1>5. x = [j \in 1 .. Rate |-> x[j]] /\ o = Permuted(p, x)
  BY <1>3 DEF ChunksOk
<1> HIDE DEF p, o, x
<1>6. PICK r : r = RunRows(id, c)[k]
  OBVIOUS
<1>7. /\ r.channel_id = id /\ r.step = k - 1 /\ r.prev = p /\ r.chunk = x /\ r.out = o
      /\ r = [channel_id |-> r.channel_id, step |-> r.step, prev |-> r.prev, chunk |-> r.chunk, out |-> r.out]
  BY <1>4, <1>6
<1> QED BY <1>1, <1>5, <1>6, <1>7 DEF RowShape, p, o, x

LEMMA EntryPart ==
  ASSUME NEW rel, NEW tuple, NEW n \in Int, NEW t
  PROVE  /\ IsEntry(Entry(rel, tuple, n)) /\ KeyOf(Entry(rel, tuple, n)) = <<rel, tuple>>
         /\ n = 1 => Part(Entry(rel, tuple, n), t) = Hit(rel, tuple, t)
         /\ n = -1 => Part(Entry(rel, tuple, n), t) = -Hit(rel, tuple, t)
<1> DEFINE e == Entry(rel, tuple, n)
<1>1. e.rel = rel /\ e.tuple = tuple /\ e.n = n
  BY DEF Entry
<1>2. e = Entry(e.rel, e.tuple, e.n)
  BY <1>1
<1> HIDE DEF e
<1>3. IsEntry(e) /\ KeyOf(e) = <<rel, tuple>>
  BY <1>1, <1>2 DEF IsEntry, KeyOf
<1>4. Part(e, t) = IF <<rel, tuple>> = t THEN n ELSE 0
  BY <1>1, <1>3 DEF Part
<1> QED BY <1>3, <1>4 DEF Hit, e

\* A row asks for its permutation, consumes a chunk and a state, and emits the next state.
LEMMA RowTotals ==
  ASSUME NEW r, NEW t
  PROVE  /\ Entries(RowEntries(r))
         /\ Total(RowEntries(r), t)
              = -Hit("poseidon2_io", <<r.prev, r.chunk, r.out>>, t) - Hit("sponge_data", <<r.channel_id, r.step, r.chunk>>, t)
                - Hit("sponge_step", <<r.channel_id, r.step, r.prev>>, t) + Hit("sponge_step", <<r.channel_id, r.step + 1, r.out>>, t)
<1> DEFINE a == Entry("poseidon2_io", <<r.prev, r.chunk, r.out>>, -1)
<1> DEFINE b == Entry("sponge_data", <<r.channel_id, r.step, r.chunk>>, -1)
<1> DEFINE c == Entry("sponge_step", <<r.channel_id, r.step, r.prev>>, -1)
<1> DEFINE d == Entry("sponge_step", <<r.channel_id, r.step + 1, r.out>>, 1)
<1>1. IsEntry(a) /\ Part(a, t) = -Hit("poseidon2_io", <<r.prev, r.chunk, r.out>>, t)
  BY EntryPart
<1>2. IsEntry(b) /\ Part(b, t) = -Hit("sponge_data", <<r.channel_id, r.step, r.chunk>>, t)
  BY EntryPart
<1>3. IsEntry(c) /\ Part(c, t) = -Hit("sponge_step", <<r.channel_id, r.step, r.prev>>, t)
  BY EntryPart
<1>4. IsEntry(d) /\ Part(d, t) = Hit("sponge_step", <<r.channel_id, r.step + 1, r.out>>, t)
  BY EntryPart
<1>5. RowEntries(r) = <<a, b, c, d>>
  BY DEF RowEntries
<1> HIDE DEF a, b, c, d
<1>6. Entries(<<a, b, c, d>>) /\ Total(<<a, b, c, d>>, t) = Part(a, t) + Part(b, t) + Part(c, t) + Part(d, t)
  BY <1>1, <1>2, <1>3, <1>4, TotalFour
<1>7. \A rel, tuple : Hit(rel, tuple, t) \in Int
  BY DEF Hit
<1> QED BY <1>1, <1>2, <1>3, <1>4, <1>5, <1>6, <1>7

LEMMA RowSumTotals ==
  ASSUME NEW r, NEW t
  PROVE  /\ Entries(RowSum(r))
         /\ Total(RowSum(r), t)
              = Total(RowEntries(r), t) + Hit("poseidon2_io", <<r.prev, r.chunk, Permuted(r.prev, r.chunk)>>, t)
<1> DEFINE e == Entry("poseidon2_io", <<r.prev, r.chunk, Permuted(r.prev, r.chunk)>>, 1)
<1>1. IsEntry(e) /\ Part(e, t) = Hit("poseidon2_io", <<r.prev, r.chunk, Permuted(r.prev, r.chunk)>>, t)
  BY EntryPart
<1>2. IoEntry(r) = e
  BY DEF IoEntry
<1> HIDE DEF e
<1>3. Entries(<<e>>) /\ Total(<<e>>, t) = Part(e, t)
  BY <1>1, TotalOne
<1>4. RowSum(r) = Join(RowEntries(r), <<e>>)
  BY <1>2 DEF RowSum, Join
<1>5. Entries(RowEntries(r))
  BY RowTotals
<1>6. Entries(RowSum(r)) /\ Total(RowSum(r), t) = Total(RowEntries(r), t) + Total(<<e>>, t)
  BY <1>3, <1>4, <1>5, TotalJoin
<1> QED BY <1>1, <1>3, <1>6

LEMMA RunRowTotal ==
  ASSUME NEW id, NEW c, ChunksOk(c), NEW k \in 1 .. Len(c), NEW t
  PROVE  /\ Entries(RowSum(RunRows(id, c)[k]))
         /\ Total(RowSum(RunRows(id, c)[k]), t)
              = -Hit("sponge_data", <<id, k - 1, c[k]>>, t) - Hit("sponge_step", <<id, k - 1, Names(c, k - 1)>>, t)
                + Hit("sponge_step", <<id, k, Names(c, k)>>, t)
<1>1. PICK r : r = RunRows(id, c)[k]
  OBVIOUS
<1>2. /\ RowShape(r) /\ r.channel_id = id /\ r.step = k - 1 /\ r.chunk = c[k]
      /\ r.prev = Names(c, k - 1) /\ r.out = Names(c, k)
  BY <1>1, RunRowsAre
<1>3. r.out = Permuted(r.prev, r.chunk)
  BY <1>2 DEF RowShape
<1>4. r.step + 1 = k
  BY <1>2
<1> DEFINE io == Hit("poseidon2_io", <<r.prev, r.chunk, r.out>>, t)
<1> DEFINE x == Hit("sponge_data", <<id, k - 1, c[k]>>, t)
<1> DEFINE y == Hit("sponge_step", <<id, k - 1, Names(c, k - 1)>>, t)
<1> DEFINE z == Hit("sponge_step", <<id, k, Names(c, k)>>, t)
<1>5. Total(RowEntries(r), t) = -io - x - y + z
  BY <1>2, <1>4, RowTotals
<1>6. Entries(RowSum(r)) /\ Total(RowSum(r), t) = Total(RowEntries(r), t) + io
  BY <1>3, RowSumTotals
<1>7. io \in Int /\ x \in Int /\ y \in Int /\ z \in Int
  BY DEF Hit
<1> HIDE DEF io, x, y, z
<1>8. Total(RowSum(r), t) = -x - y + z
  BY <1>5, <1>6, <1>7
<1> QED BY <1>1, <1>6, <1>8 DEF x, y, z

\* A claim provides its chunks.
DataTerms(id, c) == [k \in DOMAIN c |-> Entry("sponge_data", <<id, k - 1, c[k]>>, 1)]

LEMMA DataAdds ==
  ASSUME NEW id, NEW c, Len(c) \in Nat, c = [k \in 1 .. Len(c) |-> c[k]], NEW t
  PROVE  /\ Entries(DataTerms(id, c))
         /\ \E d : /\ Total(DataTerms(id, c), t) = d[Len(c)] /\ d[0] = 0 /\ \A k \in 0 .. Len(c) : d[k] \in Int
                   /\ \A k \in 1 .. Len(c) : d[k] = d[k - 1] + Hit("sponge_data", <<id, k - 1, c[k]>>, t)
<1> DEFINE n == Len(c)
<1> DEFINE es == DataTerms(id, c)
<1>1. es = [k \in 1 .. n |-> Entry("sponge_data", <<id, k - 1, c[k]>>, 1)]
  <2>1. DOMAIN c = 1 .. n
    OBVIOUS
  <2> QED BY <2>1 DEF DataTerms
<1>2. n \in Nat
  OBVIOUS
<1> HIDE DEF n, es
<1>3. IsTable(es) /\ Len(es) = n
  <2> DEFINE E == {Entry("sponge_data", <<id, k - 1, c[k]>>, 1) : k \in 1 .. n}
  <2>1. \A k \in 1 .. n : es[k] \in E
    BY <1>1
  <2>2. es = [k \in 1 .. n |-> es[k]]
    BY <1>1
  <2> HIDE DEF E
  <2>3. es \in Seq(E) /\ Len(es) = n
    BY <1>2, <2>1, <2>2
  <2> QED BY <2>3 DEF IsTable
<1>4. ASSUME NEW k \in 1 .. n
      PROVE  IsEntry(es[k]) /\ Part(es[k], t) = Hit("sponge_data", <<id, k - 1, c[k]>>, t)
  <2>1. es[k] = Entry("sponge_data", <<id, k - 1, c[k]>>, 1)
    BY <1>1
  <2> QED BY <2>1, EntryPart
<1>5. Entries(es)
  BY <1>3, <1>4 DEF Entries
<1>6. PICK d : Adds(d, EntryParts(es, t), Len(es)) /\ Total(es, t) = d[Len(es)]
  BY <1>5, TotalAdds
<1>7. \A k \in 0 .. n : d[k] \in Int
  BY <1>2, <1>3, <1>6, AddsInt
<1>8. d[0] = 0 /\ \A k \in 1 .. n : d[k] = d[k - 1] + Hit("sponge_data", <<id, k - 1, c[k]>>, t)
  BY <1>3, <1>4, <1>6 DEF Adds, EntryParts
<1> QED BY <1>3, <1>5, <1>6, <1>7, <1>8 DEF n, es

\* A claim: the first state, the chunks, less the last state.
LEMMA ClaimTotals ==
  ASSUME NEW claim, Len(claim.chunks) \in Nat,
         claim.chunks = [k \in 1 .. Len(claim.chunks) |-> claim.chunks[k]], NEW t
  PROVE  /\ Entries(ChannelTerms(claim))
         /\ Total(ChannelTerms(claim), t)
              = Hit("sponge_step", <<claim.channel_id, 0, ZeroState>>, t) + Total(DataTerms(claim.channel_id, claim.chunks), t)
                - Hit("sponge_step", <<claim.channel_id, Len(claim.chunks), Names(claim.chunks, Len(claim.chunks))>>, t)
<1>1. PICK id, c : id = claim.channel_id /\ c = claim.chunks
  OBVIOUS
<1>2. Len(c) \in Nat /\ c = [k \in 1 .. Len(c) |-> c[k]]
  BY <1>1
<1> DEFINE a == Entry("sponge_step", <<id, 0, ZeroState>>, 1)
<1> DEFINE m == DataTerms(id, c)
<1> DEFINE b == Entry("sponge_step", <<id, Len(c), Names(c, Len(c))>>, -1)
<1>3. IsEntry(a) /\ Part(a, t) = Hit("sponge_step", <<id, 0, ZeroState>>, t)
  BY EntryPart
<1>4. IsEntry(b) /\ Part(b, t) = -Hit("sponge_step", <<id, Len(c), Names(c, Len(c))>>, t)
  BY EntryPart
<1>5. Entries(m)
  BY <1>2, DataAdds
<1>6. ReplayDigest(c) = Names(c, Len(c))
  BY <1>2, ReplayIsNames
<1>7. ChannelTerms(claim) = Join(Join(<<a>>, m), <<b>>)
  BY <1>1, <1>6 DEF ChannelTerms, Join, DataTerms
<1> HIDE DEF a, m, b
<1>8. Entries(<<a>>) /\ Total(<<a>>, t) = Part(a, t) /\ Entries(<<b>>) /\ Total(<<b>>, t) = Part(b, t)
  BY <1>3, <1>4, TotalOne
<1>9. Entries(Join(<<a>>, m)) /\ Total(Join(<<a>>, m), t) = Total(<<a>>, t) + Total(m, t)
  BY <1>5, <1>8, TotalJoin
<1>10. /\ Entries(Join(Join(<<a>>, m), <<b>>))
       /\ Total(Join(Join(<<a>>, m), <<b>>), t) = Total(Join(<<a>>, m), t) + Total(<<b>>, t)
  BY <1>8, <1>9, TotalJoin
<1>11. Total(m, t) \in Int
  BY <1>5, TotalInt
<1> DEFINE x == Hit("sponge_step", <<id, 0, ZeroState>>, t)
<1> DEFINE y == Hit("sponge_step", <<id, Len(c), Names(c, Len(c))>>, t)
<1>12. x \in Int /\ y \in Int
  BY DEF Hit
<1> HIDE DEF x, y
<1>13. Part(a, t) = x /\ Part(b, t) = -y
  BY <1>3, <1>4 DEF x, y
<1>14. Total(ChannelTerms(claim), t) = x + Total(m, t) - y
  BY <1>7, <1>8, <1>9, <1>10, <1>11, <1>12, <1>13
<1> QED BY <1>1, <1>7, <1>10, <1>14 DEF x, y, m

\* Chained: what a row emits the next one consumes.
LEMMA RunCancels ==
  ASSUME NEW id, NEW c, ChunksOk(c), NEW claim, claim.channel_id = id, claim.chunks = c, NEW t
  PROVE  /\ EntryLists(RowSums(RunRows(id, c)))
         /\ Entries(ChannelTerms(claim))
         /\ Grand(RowSums(RunRows(id, c)), t) + Total(ChannelTerms(claim), t) = 0
<1> DEFINE n == Len(c)
<1> DEFINE ss == RowSums(RunRows(id, c))
<1> DEFINE S(k) == Hit("sponge_step", <<id, k, Names(c, k)>>, t)
<1> DEFINE D(k) == Hit("sponge_data", <<id, k - 1, c[k]>>, t)
<1>1. n \in Nat /\ c = [k \in 1 .. n |-> c[k]] /\ DOMAIN c = 1 .. n
  BY DEF ChunksOk
<1>2. ss = [k \in 1 .. n |-> RowSum(RunRows(id, c)[k])]
  <2>1. DOMAIN RunRows(id, c) = 1 .. n
    BY <1>1 DEF RunRows
  <2> QED BY <2>1 DEF RowSums
<1>3. \A k \in 1 .. n : Entries(ss[k]) /\ Total(ss[k], t) = -D(k) - S(k - 1) + S(k)
  <2> TAKE k \in 1 .. n
  <2>1. ss[k] = RowSum(RunRows(id, c)[k])
    BY <1>2
  <2> HIDE DEF ss
  <2> QED BY <2>1, RunRowTotal
<1>4. \A k : S(k) \in Int /\ D(k) \in Int
  BY DEF Hit
<1>5. EntryLists(ss) /\ Len(ss) = n
  <2> DEFINE E == {ss[k] : k \in 1 .. n}
  <2>1. \A k \in 1 .. n : ss[k] \in E
    OBVIOUS
  <2>2. ss = [k \in 1 .. n |-> ss[k]]
    BY <1>2
  <2> HIDE DEF E, ss, n
  <2>3. ss \in Seq(E) /\ Len(ss) = n
    BY <1>1, <2>1, <2>2
  <2> QED BY <2>3, <1>3 DEF EntryLists, IsTable
<1>6. PICK d : /\ Total(DataTerms(id, c), t) = d[n] /\ d[0] = 0 /\ \A k \in 0 .. n : d[k] \in Int
               /\ \A k \in 1 .. n : d[k] = d[k - 1] + D(k)
  BY <1>1, DataAdds
<1>7. Entries(ChannelTerms(claim)) /\ Total(ChannelTerms(claim), t) = S(0) + d[n] - S(n)
  <2>1. Names(c, 0) = ZeroState
    BY DEF Names, ZeroState
  <2> QED BY <1>1, <1>6, <2>1, ClaimTotals
<1> HIDE DEF n, ss, S, D
<1>8. PICK g : Adds(g, Totals(ss, t), Len(ss)) /\ Grand(ss, t) = g[Len(ss)]
  BY <1>5, GrandAdds
<1>9. \A k \in 0 .. n : g[k] \in Int
  BY <1>1, <1>5, <1>8, AddsInt
<1> DEFINE T == {k \in 0 .. n : g[k] + d[k] + S(0) - S(k) = 0}
<1>10. 0 \in T
  BY <1>1, <1>4, <1>6, <1>8 DEF Adds
<1>11. \A k \in 0 .. n - 1 : k \in T => k + 1 \in T
  <2> TAKE k \in 0 .. n - 1
  <2> HAVE k \in T
  <2> DEFINE m == k + 1
  <2>1. m \in 1 .. n /\ m - 1 = k /\ m \in 0 .. n /\ k \in 0 .. n
    BY <1>1
  <2> HIDE DEF m
  <2>2. g[m] = g[k] + Total(ss[m], t)
    BY <2>1, <1>5, <1>8 DEF Adds, Totals
  <2>3. Total(ss[m], t) = -D(m) - S(k) + S(m)
    BY <2>1, <1>3
  <2>4. d[m] = d[k] + D(m)
    BY <2>1, <1>6
  <2>5. g[k] \in Int /\ d[k] \in Int /\ D(m) \in Int /\ S(k) \in Int /\ S(m) \in Int /\ S(0) \in Int
    BY <2>1, <1>4, <1>6, <1>9
  <2>6. g[m] + d[m] + S(0) - S(m) = 0
    BY <2>2, <2>3, <2>4, <2>5
  <2> QED BY <2>1, <2>6 DEF m
<1>12. 0 .. n \subseteq T
  <2> HIDE DEF T
  <2> QED BY <1>1, <1>10, <1>11, InductionTo
<1>13. g[n] + d[n] + S(0) - S(n) = 0 /\ g[n] \in Int /\ d[n] \in Int
  BY <1>1, <1>6, <1>9, <1>12
<1>14. Grand(ss, t) + Total(ChannelTerms(claim), t) = 0
  <2>1. Grand(ss, t) = g[n] /\ Total(ChannelTerms(claim), t) = S(0) + d[n] - S(n)
    BY <1>5, <1>7, <1>8
  <2>2. PICK x \in Int, y \in Int, u \in Int, v \in Int : x = g[n] /\ y = d[n] /\ u = S(0) /\ v = S(n)
    BY <1>4, <1>13
  <2>3. x + y + u - v = 0
    BY <2>2, <1>13
  <2> QED BY <2>1, <2>2, <2>3
<1> QED BY <1>5, <1>7, <1>14 DEF ss

LEMMA TableDomain ==
  ASSUME NEW s, IsTable(s)
  PROVE  Len(s) \in Nat /\ DOMAIN s = 1 .. Len(s)
<1>1. PICK S : s \in Seq(S)
  BY DEF IsTable
<1> QED BY <1>1

LEMMA RowSumsAre ==
  ASSUME NEW rs, IsTable(rs)
  PROVE  /\ EntryLists(RowSums(rs)) /\ Len(RowSums(rs)) = Len(rs)
         /\ \A i \in 1 .. Len(rs) : RowSums(rs)[i] = RowSum(rs[i])
<1>1. Len(rs) \in Nat /\ DOMAIN rs = 1 .. Len(rs)
  BY TableDomain
<1> DEFINE u == RowSums(rs)
<1>2. u = [i \in 1 .. Len(rs) |-> RowSum(rs[i])]
  BY <1>1 DEF RowSums
<1> HIDE DEF u
<1>3. u = [i \in 1 .. Len(rs) |-> u[i]] /\ \A i \in 1 .. Len(rs) : u[i] = RowSum(rs[i])
  BY <1>2
<1>4. IsTable(u) /\ Len(u) = Len(rs)
  BY <1>1, <1>3, TableOf
<1>5. EntryLists(u)
  BY <1>3, <1>4, RowSumTotals DEF EntryLists
<1> QED BY <1>3, <1>4, <1>5 DEF u

LEMMA ClaimSumsAre ==
  ASSUME NEW cs, IsTable(cs), \A i \in 1 .. Len(cs) : ChunksOk(cs[i].chunks)
  PROVE  /\ EntryLists(ClaimSums(cs)) /\ Len(ClaimSums(cs)) = Len(cs)
         /\ \A i \in 1 .. Len(cs) : ClaimSums(cs)[i] = ChannelTerms(cs[i])
<1>1. Len(cs) \in Nat /\ DOMAIN cs = 1 .. Len(cs)
  BY TableDomain
<1> DEFINE u == ClaimSums(cs)
<1>2. u = [i \in 1 .. Len(cs) |-> ChannelTerms(cs[i])]
  BY <1>1 DEF ClaimSums
<1> HIDE DEF u
<1>3. u = [i \in 1 .. Len(cs) |-> u[i]] /\ \A i \in 1 .. Len(cs) : u[i] = ChannelTerms(cs[i])
  BY <1>2
<1>4. IsTable(u) /\ Len(u) = Len(cs)
  BY <1>1, <1>3, TableOf
<1>5. EntryLists(u)
  <2>1. ASSUME NEW i \in 1 .. Len(cs) PROVE Entries(ChannelTerms(cs[i]))
    <3>1. PICK claim : claim = cs[i]
      OBVIOUS
    <3>2. Len(claim.chunks) \in Nat /\ claim.chunks = [k \in 1 .. Len(claim.chunks) |-> claim.chunks[k]]
      BY <3>1 DEF ChunksOk
    <3> QED BY <3>1, <3>2, ClaimTotals
  <2> QED BY <1>3, <1>4, <2>1 DEF EntryLists
<1> QED BY <1>3, <1>4, <1>5 DEF u

LEMMA RowSumsJoin ==
  ASSUME NEW rs, IsTable(rs), NEW qs, IsTable(qs)
  PROVE  RowSums(Join(rs, qs)) = Join(RowSums(rs), RowSums(qs))
<1> DEFINE j == Join(rs, qs)
<1> DEFINE n == Len(rs)
<1> DEFINE m == Len(qs)
<1>1. /\ IsTable(j) /\ Len(j) = n + m /\ n \in Nat /\ m \in Nat
      /\ \A i \in 1 .. n + m : j[i] = IF i <= n THEN rs[i] ELSE qs[i - n]
  BY Joined
<1>2. /\ IsTable(RowSums(rs)) /\ Len(RowSums(rs)) = n /\ IsTable(RowSums(qs)) /\ Len(RowSums(qs)) = m
      /\ (\A i \in 1 .. n : RowSums(rs)[i] = RowSum(rs[i])) /\ (\A i \in 1 .. m : RowSums(qs)[i] = RowSum(qs[i]))
  BY RowSumsAre DEF EntryLists
<1> HIDE DEF j
<1>3. /\ IsTable(RowSums(j)) /\ Len(RowSums(j)) = n + m
      /\ \A i \in 1 .. n + m : RowSums(j)[i] = RowSum(j[i])
  BY <1>1, RowSumsAre DEF EntryLists
<1> DEFINE u == Join(RowSums(rs), RowSums(qs))
<1>4. /\ IsTable(u) /\ Len(u) = n + m
      /\ \A i \in 1 .. n + m : u[i] = IF i <= n THEN RowSums(rs)[i] ELSE RowSums(qs)[i - n]
  <2>1. PICK a, b : a = RowSums(rs) /\ b = RowSums(qs)
    OBVIOUS
  <2>2. /\ IsTable(Join(a, b)) /\ Len(Join(a, b)) = Len(a) + Len(b)
        /\ \A i \in 1 .. Len(a) + Len(b) : Join(a, b)[i] = IF i <= Len(a) THEN a[i] ELSE b[i - Len(a)]
    BY <1>2, <2>1, Joined
  <2>3. Len(a) = n /\ Len(b) = m
    BY <1>2, <2>1
  <2> HIDE DEF n, m
  <2> QED BY <2>1, <2>2, <2>3
<1> HIDE DEF u, n, m
<1>5. ASSUME NEW i \in 1 .. n + m PROVE RowSums(j)[i] = u[i]
  <2>1. CASE i <= n
    <3>1. i \in 1 .. n
      BY <1>1, <2>1
    <3> QED BY <3>1, <2>1, <1>1, <1>2, <1>3, <1>4
  <2>2. CASE ~ (i <= n)
    <3>1. i - n \in 1 .. m
      BY <1>1, <2>2
    <3> QED BY <3>1, <2>2, <1>1, <1>2, <1>3, <1>4
  <2> QED BY <2>1, <2>2
<1>6. RowSums(j) = u
  BY <1>3, <1>4, <1>5, TableSame
<1> QED BY <1>6 DEF j, u

LEMMA TableAppended ==
  ASSUME NEW s, IsTable(s), NEW x
  PROVE  /\ IsTable(Append(s, x)) /\ Len(Append(s, x)) = Len(s) + 1 /\ Len(s) \in Nat
         /\ \A i \in 1 .. Len(s) + 1 : Append(s, x)[i] = IF i <= Len(s) THEN s[i] ELSE x
<1>1. PICK S : s \in Seq(S)
  BY DEF IsTable
<1> DEFINE T == S \cup {x}
<1>2. s \in Seq(T) /\ x \in T
  BY <1>1
<1> HIDE DEF T
<1>3. Append(s, x) \in Seq(T) /\ Len(Append(s, x)) = Len(s) + 1 /\ Len(s) \in Nat
  BY <1>2
<1>4. \A i \in 1 .. Len(s) + 1 : Append(s, x)[i] = IF i <= Len(s) THEN s[i] ELSE x
  BY <1>2
<1> QED BY <1>3, <1>4 DEF IsTable

LEMMA ClaimSumsAppend ==
  ASSUME NEW cs, IsTable(cs), \A i \in 1 .. Len(cs) : ChunksOk(cs[i].chunks), NEW claim, ChunksOk(claim.chunks)
  PROVE  /\ IsTable(Append(cs, claim)) /\ Len(Append(cs, claim)) = Len(cs) + 1
         /\ \A i \in 1 .. Len(Append(cs, claim)) : ChunksOk(Append(cs, claim)[i].chunks)
         /\ ClaimSums(Append(cs, claim)) = Join(ClaimSums(cs), <<ChannelTerms(claim)>>)
<1> DEFINE j == Append(cs, claim)
<1> DEFINE n == Len(cs)
<1>1. /\ IsTable(j) /\ Len(j) = n + 1 /\ n \in Nat
      /\ \A i \in 1 .. n + 1 : j[i] = IF i <= n THEN cs[i] ELSE claim
  BY TableAppended
<1> HIDE DEF j
<1>2. \A i \in 1 .. Len(j) : ChunksOk(j[i].chunks)
  BY <1>1
<1>3. /\ IsTable(ClaimSums(j)) /\ Len(ClaimSums(j)) = n + 1
      /\ \A i \in 1 .. n + 1 : ClaimSums(j)[i] = ChannelTerms(j[i])
  BY <1>1, <1>2, ClaimSumsAre DEF EntryLists
<1>4. /\ IsTable(ClaimSums(cs)) /\ Len(ClaimSums(cs)) = n
      /\ \A i \in 1 .. n : ClaimSums(cs)[i] = ChannelTerms(cs[i])
  BY ClaimSumsAre DEF EntryLists
<1> DEFINE e == <<ChannelTerms(claim)>>
<1>5. IsTable(e) /\ Len(e) = 1 /\ e[1] = ChannelTerms(claim)
  <2>1. e \in Seq({ChannelTerms(claim)})
    OBVIOUS
  <2> QED BY <2>1 DEF IsTable
<1> HIDE DEF e
<1> DEFINE u == Join(ClaimSums(cs), e)
<1>6. /\ IsTable(u) /\ Len(u) = n + 1
      /\ \A i \in 1 .. n + 1 : u[i] = IF i <= n THEN ClaimSums(cs)[i] ELSE e[i - n]
  <2>1. PICK a : a = ClaimSums(cs)
    OBVIOUS
  <2>2. /\ IsTable(Join(a, e)) /\ Len(Join(a, e)) = Len(a) + Len(e)
        /\ \A i \in 1 .. Len(a) + Len(e) : Join(a, e)[i] = IF i <= Len(a) THEN a[i] ELSE e[i - Len(a)]
    BY <1>4, <1>5, <2>1, Joined
  <2>3. Len(a) = n /\ Len(e) = 1
    BY <1>4, <1>5, <2>1
  <2> HIDE DEF n
  <2> QED BY <2>1, <2>2, <2>3
<1> HIDE DEF u, n
<1>7. ASSUME NEW i \in 1 .. n + 1 PROVE ClaimSums(j)[i] = u[i]
  <2>1. CASE i <= n
    <3>1. i \in 1 .. n
      BY <1>1, <2>1
    <3> QED BY <3>1, <2>1, <1>1, <1>3, <1>4, <1>6
  <2>2. CASE ~ (i <= n)
    <3>1. i - n = 1
      BY <1>1, <2>2
    <3> QED BY <3>1, <2>2, <1>1, <1>3, <1>5, <1>6
  <2> QED BY <2>1, <2>2
<1>8. ClaimSums(j) = u
  BY <1>3, <1>6, <1>7, TableSame
<1> QED BY <1>1, <1>2, <1>8 DEF j, u, e, n

-----------------------------------------------------------------------------
(* What is added up so far cancels.                                          *)

XInv ==
  /\ IsTable(rows) /\ \A i \in 1 .. Len(rows) : RowShape(rows[i])
  /\ IsTable(session.claims) /\ \A i \in 1 .. Len(session.claims) : ChunksOk(session.claims[i].chunks)
  /\ \A t : Grand(RowSums(rows), t) + Grand(ClaimSums(session.claims), t) = 0

\* replay_session adds one claim, of the run it replays.
LEMMA ClaimAdded ==
  ASSUME NEW s, s = [digest |-> s.digest, n_draws |-> s.n_draws, claims |-> s.claims, draws |-> s.draws],
         NEW op, NEW ws, ws = IF op.draw THEN <<s.n_draws, DrawTag>> ELSE op.words
  PROVE  ReplayOp(s, op).claims = Append(s.claims, [channel_id |-> Len(s.claims), chunks |-> Run(s.digest, ws)])
<1>1. PICK d, x, c, out : d = s.digest /\ x = s.n_draws /\ c = s.claims /\ out = s.draws
  OBVIOUS
<1>2. s = [digest |-> d, n_draws |-> x, claims |-> c, draws |-> out]
  BY <1>1
<1>3. PICK c2 : c2 = Append(c, [channel_id |-> Len(c), chunks |-> Run(d, ws)])
  OBVIOUS
<1>4. PICK t : t = [s EXCEPT !.claims = c2]
  OBVIOUS
<1>5. t = [digest |-> d, n_draws |-> x, claims |-> c2, draws |-> out]
  BY <1>2, <1>4
<1>6. PICK o : o = OutRate(Run(d, ws))
  OBVIOUS
<1>7. ReplayOp(s, op) = IF op.draw THEN [t EXCEPT !.draws = Append(out, o), !.n_draws = x + 1]
                        ELSE [t EXCEPT !.digest = o, !.n_draws = 0]
  <2>1. ChunkStream(d \o Words(IF op.draw THEN <<x, DrawTag>> ELSE op.words)) = Run(d, ws)
    BY <1>1 DEF Run
  <2>2. t = [s EXCEPT !.claims = Append(@, [channel_id |-> Len(s.claims), chunks |-> Run(d, ws)])]
    BY <1>1, <1>3, <1>4
  <2>3. t.draws = out /\ t.n_draws = x
    BY <1>5
  <2> QED BY <1>1, <1>6, <2>1, <2>2, <2>3 DEF ReplayOp
<1>8. \A v, y : [t EXCEPT !.draws = v, !.n_draws = y].claims = c2 /\ [t EXCEPT !.digest = v, !.n_draws = y].claims = c2
  <2> TAKE v, y
  <2>1. PICK u : u = [t EXCEPT !.draws = v]
    OBVIOUS
  <2>2. PICK w : w = [t EXCEPT !.digest = v]
    OBVIOUS
  <2>3. /\ u = [digest |-> d, n_draws |-> x, claims |-> c2, draws |-> v]
        /\ w = [digest |-> v, n_draws |-> x, claims |-> c2, draws |-> out]
    BY <1>5, <2>1, <2>2
  <2>4. [u EXCEPT !.n_draws = y].claims = c2 /\ [w EXCEPT !.n_draws = y].claims = c2
    BY <2>3
  <2>5. [t EXCEPT !.draws = v, !.n_draws = y] = [u EXCEPT !.n_draws = y]
    BY <2>1
  <2>6. [t EXCEPT !.digest = v, !.n_draws = y] = [w EXCEPT !.n_draws = y]
    BY <2>2
  <2> QED BY <2>4, <2>5, <2>6
<1>9. ReplayOp(s, op).claims = c2
  BY <1>7, <1>8
<1> QED BY <1>1, <1>3, <1>9

\* An operation adds the rows of one run and its claim.
LEMMA ReplayCancels ==
  ASSUME SInv, XInv, NEW op \in Op, Replayed(op)
  PROVE  XInv'
<1>1. PICK d, x, c : d = session.digest /\ x = session.n_draws /\ c = session.claims
  OBVIOUS
<1>2. PICK ws : ws = IF op.draw THEN <<x, DrawTag>> ELSE op.words
  OBVIOUS
<1>3. ws \in Seq(Nat)
  <2>1. DrawTag \in Nat /\ x \in Nat
    BY <1>1, SpongeAssumption DEF SInv
  <2>2. <<x, DrawTag>> \in Seq(Nat) /\ op.words \in Seq(Nat)
    BY <2>1 DEF Op
  <2> QED BY <1>2, <2>2
<1>4. Block(d)
  <2>1. PICK D, X : Session(ops, session.claims, session.draws, D, X) /\ D[Len(ops) + 1] = session.digest
    BY DEF SInv
  <2>2. Len(ops) + 1 \in 1 .. Len(ops) + 1
    BY <2>1 DEF Session, Typed
  <2> QED BY <1>1, <2>1, <2>2 DEF Session, Typed
<1>5. PICK chunks, claim : chunks = Run(d, ws) /\ claim = [channel_id |-> Len(c), chunks |-> chunks]
  OBVIOUS
<1>6. ChunksOk(chunks) /\ claim.channel_id = Len(c) /\ claim.chunks = chunks
  BY <1>3, <1>4, <1>5, RunOk
<1>7. session'.claims = Append(c, claim)
  <2>1. session' = ReplayOp(session, op)
    BY DEF Replayed
  <2>2. PICK s : s = session
    OBVIOUS
  <2>3. s = [digest |-> s.digest, n_draws |-> s.n_draws, claims |-> s.claims, draws |-> s.draws]
    BY <2>2 DEF SInv
  <2>4. ReplayOp(s, op).claims = Append(s.claims, [channel_id |-> Len(s.claims), chunks |-> Run(s.digest, ws)])
    BY <1>1, <1>2, <2>2, <2>3, ClaimAdded
  <2> QED BY <1>1, <1>5, <2>1, <2>2, <2>4
<1>8. IsTable(c) /\ \A i \in 1 .. Len(c) : ChunksOk(c[i].chunks)
  BY <1>1 DEF XInv
<1>9. /\ IsTable(session'.claims) /\ \A i \in 1 .. Len(session'.claims) : ChunksOk(session'.claims[i].chunks)
      /\ ClaimSums(session'.claims) = Join(ClaimSums(c), <<ChannelTerms(claim)>>)
      /\ session'.claims[Len(c) + 1] = claim
  <2>1. /\ IsTable(Append(c, claim)) /\ \A i \in 1 .. Len(Append(c, claim)) : ChunksOk(Append(c, claim)[i].chunks)
        /\ ClaimSums(Append(c, claim)) = Join(ClaimSums(c), <<ChannelTerms(claim)>>)
    BY <1>6, <1>8, ClaimSumsAppend
  <2>2. Append(c, claim)[Len(c) + 1] = claim
    <3>1. Len(c) \in Nat /\ \A i \in 1 .. Len(c) + 1 : Append(c, claim)[i] = IF i <= Len(c) THEN c[i] ELSE claim
      BY <1>8, TableAppended
    <3>2. Len(c) + 1 \in 1 .. Len(c) + 1 /\ ~ (Len(c) + 1 <= Len(c))
      BY <3>1
    <3> QED BY <3>1, <3>2
  <2> QED BY <1>7, <2>1, <2>2
<1> DEFINE qs == RunRows(Len(c), chunks)
<1>10. rows' = Join(rows, qs)
  BY <1>1, <1>6, <1>9 DEF Replayed, Join
<1>11. IsTable(qs) /\ Len(qs) = Len(chunks) /\ \A k \in 1 .. Len(chunks) : RowShape(qs[k])
  <2>1. Len(chunks) \in Nat /\ DOMAIN chunks = 1 .. Len(chunks)
    BY <1>6 DEF ChunksOk
  <2>2. qs = [k \in 1 .. Len(chunks) |-> qs[k]]
    BY <2>1 DEF RunRows
  <2>3. \A k \in 1 .. Len(chunks) : RowShape(qs[k])
    BY <1>6, RunRowsAre
  <2> HIDE DEF qs
  <2> QED BY <2>1, <2>2, <2>3, TableOf
<1>12. \A t : /\ EntryLists(RowSums(qs)) /\ Entries(ChannelTerms(claim))
              /\ Grand(RowSums(qs), t) + Total(ChannelTerms(claim), t) = 0
  BY <1>6, RunCancels
<1> HIDE DEF qs
<1>13. /\ IsTable(rows') /\ \A i \in 1 .. Len(rows') : RowShape(rows'[i])
       /\ RowSums(rows') = Join(RowSums(rows), RowSums(qs))
  <2>1. PICK rs : rs = rows /\ IsTable(rs) /\ \A i \in 1 .. Len(rs) : RowShape(rs[i])
    BY DEF XInv
  <2> DEFINE j == Join(rs, qs)
  <2>2. /\ IsTable(j) /\ Len(j) = Len(rs) + Len(qs) /\ Len(rs) \in Nat /\ Len(qs) \in Nat
        /\ \A i \in 1 .. Len(rs) + Len(qs) : j[i] = IF i <= Len(rs) THEN rs[i] ELSE qs[i - Len(rs)]
    BY <2>1, <1>11, Joined
  <2>3. RowSums(j) = Join(RowSums(rs), RowSums(qs))
    BY <2>1, <1>11, RowSumsJoin
  <2>4. rows' = j
    BY <1>10, <2>1
  <2> HIDE DEF j
  <2>5. ASSUME NEW i \in 1 .. Len(j) PROVE RowShape(j[i])
    <3>1. CASE i <= Len(rs)
      <4>1. i \in 1 .. Len(rs) /\ j[i] = rs[i]
        BY <2>2, <3>1
      <4> QED BY <4>1, <2>1
    <3>2. CASE ~ (i <= Len(rs))
      <4>1. i - Len(rs) \in 1 .. Len(qs) /\ j[i] = qs[i - Len(rs)]
        BY <2>2, <3>2
      <4> QED BY <4>1, <1>11
    <3> QED BY <3>1, <3>2
  <2> QED BY <2>1, <2>2, <2>3, <2>4, <2>5
<1>14. ASSUME NEW t PROVE Grand(RowSums(rows'), t) + Grand(ClaimSums(session'.claims), t) = 0
  <2> DEFINE e == ChannelTerms(claim)
  <2>1. EntryLists(RowSums(rows)) /\ EntryLists(ClaimSums(c))
    BY <1>8, RowSumsAre, ClaimSumsAre DEF XInv
  <2>2. EntryLists(RowSums(qs)) /\ Entries(e) /\ Grand(RowSums(qs), t) + Total(e, t) = 0
    BY <1>12
  <2> HIDE DEF e
  <2>3. EntryLists(<<e>>) /\ Grand(<<e>>, t) = Total(e, t)
    BY <2>2, GrandOne
  <2>4. Grand(RowSums(rows'), t) = Grand(RowSums(rows), t) + Grand(RowSums(qs), t)
    BY <1>13, <2>1, <2>2, GrandJoin
  <2>5. Grand(ClaimSums(session'.claims), t) = Grand(ClaimSums(c), t) + Total(e, t)
    BY <1>9, <2>1, <2>3, GrandJoin DEF e
  <2>6. Grand(RowSums(rows), t) + Grand(ClaimSums(c), t) = 0
    BY <1>1 DEF XInv
  <2>7. \A ss : EntryLists(ss) => Grand(ss, t) \in Int
    BY GrandAdds, TotalInt DEF Grand
  <2>8. /\ Grand(RowSums(rows), t) \in Int /\ Grand(ClaimSums(c), t) \in Int
        /\ Grand(RowSums(qs), t) \in Int /\ Total(e, t) \in Int
    BY <2>1, <2>2, <2>7, TotalInt
  <2> QED BY <2>2, <2>4, <2>5, <2>6, <2>8
<1> QED BY <1>9, <1>13, <1>14 DEF XInv

LEMMA XInvInit == SpongeInit => XInv
<1> SUFFICES ASSUME SpongeInit PROVE XInv
  OBVIOUS
<1>1. rows = <<>> /\ session.claims = <<>>
  BY DEF SpongeInit
<1>2. IsTable(<<>>) /\ Len(<<>>) = 0
  BY EmptyTable
<1>3. RowSums(<<>>) = <<>> /\ ClaimSums(<<>>) = <<>>
  <2>1. Len(RowSums(<<>>)) = 0 /\ IsTable(RowSums(<<>>))
    BY <1>2, RowSumsAre DEF EntryLists
  <2>2. Len(ClaimSums(<<>>)) = 0 /\ IsTable(ClaimSums(<<>>))
    BY <1>2, ClaimSumsAre DEF EntryLists
  <2> QED BY <2>1, <2>2, ListEmpty DEF IsTable
<1>4. ASSUME NEW t PROVE Grand(<<>>, t) = 0
  <2>1. FlattenSeq(<<>>) = <<>>
    BY <1>2 DEF FlattenSeq
  <2> QED BY <2>1, TotalEmpty DEF Grand
<1> QED BY <1>1, <1>2, <1>3, <1>4 DEF XInv

LEMMA XInvNext == SInv /\ XInv /\ [SpongeNext]_spongeVars => XInv'
<1> SUFFICES ASSUME SInv, XInv, [SpongeNext]_spongeVars PROVE XInv'
  OBVIOUS
<1>1. \A words \in Seq(Nat) : MixOp(words) \in Op
  BY DEF MixOp, Op
<1>2. DrawOp \in Op
  BY DEF DrawOp, Op
<1>3. CASE MixU32s
  <2>1. PICK data \in MixedU32s : Replayed(MixOp(EncodeU32s(data)))
    BY <1>3 DEF MixU32s
  <2>2. EncodeU32s(data) \in Seq(Nat)
    BY SpongeAssumption, EncodedWords
  <2> QED BY <1>1, <2>1, <2>2, ReplayCancels
<1>4. CASE MixFelts
  <2>1. PICK words \in MixedFelts : Replayed(MixOp(words))
    BY <1>4 DEF MixFelts
  <2>2. words \in Seq(Nat)
    BY SpongeAssumption
  <2> QED BY <1>1, <2>1, <2>2, ReplayCancels
<1>5. CASE Squeeze
  BY <1>2, <1>5, ReplayCancels DEF Squeeze
<1>6. CASE UNCHANGED spongeVars
  BY <1>6 DEF XInv, spongeVars
<1> QED BY <1>3, <1>4, <1>5, <1>6 DEF SpongeNext

-----------------------------------------------------------------------------
(* What is altered no longer adds up to the same.                            *)

RowsDiffer(r, s) ==
  \/ r.channel_id # s.channel_id \/ r.step # s.step \/ r.prev # s.prev
  \/ r.chunk # s.chunk \/ r.out # s.out

LEMMA HitIs ==
  /\ \A rel, x : Hit(rel, x, <<rel, x>>) = 1
  /\ \A rel, x, y : x # y => Hit(rel, x, <<rel, y>>) = 0
  /\ \A rel, row, x, y : rel # row => Hit(rel, x, <<row, y>>) = 0
  BY DEF Hit

\* Rows that differ add up to something else at a tuple of their chunks or states.
LEMMA AlteredTotals ==
  ASSUME NEW r, NEW s, r.step \in Nat, s.step \in Nat, RowsDiffer(r, s)
  PROVE  ~StillCancels(RowEntries(r), RowEntries(s)) /\ ~StillCancels(RowSum(r), RowSum(s))
<1> SUFFICES \E t : /\ Total(RowEntries(r), t) # Total(RowEntries(s), t)
                    /\ \A x : Hit("poseidon2_io", x, t) = 0
  <2>1. PICK t : /\ Total(RowEntries(r), t) # Total(RowEntries(s), t)
                 /\ \A x : Hit("poseidon2_io", x, t) = 0
    OBVIOUS
  <2>2. /\ Entries(RowEntries(r)) /\ Entries(RowEntries(s)) /\ Entries(RowSum(r)) /\ Entries(RowSum(s))
        /\ Total(RowSum(r), t) = Total(RowEntries(r), t) + 0 /\ Total(RowSum(s), t) = Total(RowEntries(s), t) + 0
    <3>1. \A a : Hit("poseidon2_io", <<a.prev, a.chunk, Permuted(a.prev, a.chunk)>>, t) = 0
      BY <2>1
    <3>2. \A a : Total(RowSum(a), t) = Total(RowEntries(a), t) + Hit("poseidon2_io", <<a.prev, a.chunk, Permuted(a.prev, a.chunk)>>, t)
      BY RowSumTotals
    <3>3. \A a : Entries(RowEntries(a)) /\ Entries(RowSum(a))
      BY RowTotals, RowSumTotals
    <3> QED BY <3>1, <3>2, <3>3
  <2>3. Total(RowEntries(r), t) \in Int /\ Total(RowEntries(s), t) \in Int
    BY <2>2, TotalInt
  <2>4. Total(RowSum(r), t) # Total(RowSum(s), t)
    BY <2>1, <2>2, <2>3
  <2> QED BY <2>1, <2>2, <2>4, CancelsIff
<1>0. "poseidon2_io" # "sponge_data" /\ "poseidon2_io" # "sponge_step" /\ "sponge_step" # "sponge_data"
  OBVIOUS
<1> DEFINE Io(r_) == <<r_.prev, r_.chunk, r_.out>>
<1> DEFINE Data(r_) == <<r_.channel_id, r_.step, r_.chunk>>
<1> DEFINE Taken(r_) == <<r_.channel_id, r_.step, r_.prev>>
<1> DEFINE Emitted(r_) == <<r_.channel_id, r_.step + 1, r_.out>>
<1>1. ASSUME NEW x
      PROVE  \A y : /\ Hit("poseidon2_io", y, <<"sponge_data", x>>) = 0 /\ Hit("poseidon2_io", y, <<"sponge_step", x>>) = 0
                    /\ Hit("sponge_step", y, <<"sponge_data", x>>) = 0 /\ Hit("sponge_data", y, <<"sponge_step", x>>) = 0
  BY <1>0, HitIs
<1>2. ASSUME NEW a, NEW x
      PROVE  /\ Total(RowEntries(a), <<"sponge_data", x>>) = IF Data(a) = x THEN -1 ELSE 0
             /\ Total(RowEntries(a), <<"sponge_step", x>>)
                  = -Hit("sponge_step", Taken(a), <<"sponge_step", x>>) + Hit("sponge_step", Emitted(a), <<"sponge_step", x>>)
  <2>1. \A y : Hit("sponge_data", y, <<"sponge_data", x>>) = IF y = x THEN 1 ELSE 0
    BY HitIs
  <2>2. \A y : Hit("sponge_step", y, <<"sponge_step", x>>) \in Int
    BY DEF Hit
  <2>3. Total(RowEntries(a), <<"sponge_data", x>>) = -0 - Hit("sponge_data", Data(a), <<"sponge_data", x>>) - 0 + 0
    BY <1>1, RowTotals
  <2>4. Total(RowEntries(a), <<"sponge_step", x>>)
          = -0 - 0 - Hit("sponge_step", Taken(a), <<"sponge_step", x>>) + Hit("sponge_step", Emitted(a), <<"sponge_step", x>>)
    BY <1>1, RowTotals
  <2> HIDE DEF Data, Taken, Emitted
  <2> QED BY <2>1, <2>2, <2>3, <2>4
<1>3. CASE Data(r) # Data(s)
  <2> DEFINE t == <<"sponge_data", Data(r)>>
  <2>1. Total(RowEntries(r), t) = -1 /\ Total(RowEntries(s), t) = 0
    BY <1>2, <1>3
  <2>2. \A x : Hit("poseidon2_io", x, t) = 0
    BY <1>1
  <2> HIDE DEF t
  <2> QED BY <2>1, <2>2
<1>4. CASE Data(r) = Data(s)
  <2>1. r.channel_id = s.channel_id /\ r.step = s.step /\ r.chunk = s.chunk
    BY <1>4
  <2>2. r.step + 1 # r.step
    OBVIOUS
  <2>3. CASE r.prev # s.prev
    <3> DEFINE t == <<"sponge_step", Taken(r)>>
    <3>1. Taken(s) # Taken(r) /\ Emitted(r) # Taken(r) /\ Emitted(s) # Taken(r)
      BY <2>1, <2>2, <2>3
    <3>2. /\ Hit("sponge_step", Taken(r), t) = 1 /\ Hit("sponge_step", Emitted(r), t) = 0
          /\ Hit("sponge_step", Taken(s), t) = 0 /\ Hit("sponge_step", Emitted(s), t) = 0
      <4> HIDE DEF Taken, Emitted
      <4> QED BY <3>1, HitIs
    <3>3. Total(RowEntries(r), t) = -1 + 0 /\ Total(RowEntries(s), t) = -0 + 0
      <4> HIDE DEF Taken, Emitted
      <4> QED BY <3>2, <1>2
    <3>4. \A x : Hit("poseidon2_io", x, t) = 0
      BY <1>1
    <3> HIDE DEF t
    <3> QED BY <3>3, <3>4
  <2>4. CASE r.out # s.out
    <3> DEFINE t == <<"sponge_step", Emitted(r)>>
    <3>1. Emitted(s) # Emitted(r) /\ Taken(r) # Emitted(r) /\ Taken(s) # Emitted(r)
      BY <2>1, <2>2, <2>4
    <3>2. /\ Hit("sponge_step", Emitted(r), t) = 1 /\ Hit("sponge_step", Taken(r), t) = 0
          /\ Hit("sponge_step", Taken(s), t) = 0 /\ Hit("sponge_step", Emitted(s), t) = 0
      <4> HIDE DEF Taken, Emitted
      <4> QED BY <3>1, HitIs
    <3>3. Total(RowEntries(r), t) = -0 + 1 /\ Total(RowEntries(s), t) = -0 + 0
      <4> HIDE DEF Taken, Emitted
      <4> QED BY <3>2, <1>2
    <3>4. \A x : Hit("poseidon2_io", x, t) = 0
      BY <1>1
    <3> HIDE DEF t
    <3> QED BY <3>3, <3>4
  <2> QED BY <2>1, <2>3, <2>4 DEF RowsDiffer
<1> QED BY <1>3, <1>4

LEMMA AlteredRowDiffers ==
  ASSUME NEW r, RowShape(r), NEW s \in AlteredRows(r) \ {r}
  PROVE  s.step \in Nat /\ RowsDiffer(r, s)
<1>1. r = [channel_id |-> r.channel_id, step |-> r.step, prev |-> r.prev, chunk |-> r.chunk, out |-> r.out] /\ r.step \in Nat
  BY DEF RowShape
<1>2. PICK a, b, c, d, e : a = r.channel_id /\ b = r.step /\ c = r.prev /\ d = r.chunk /\ e = r.out
  OBVIOUS
<1>3. r = [channel_id |-> a, step |-> b, prev |-> c, chunk |-> d, out |-> e] /\ b \in Nat
  BY <1>1, <1>2
<1>4. \E x : \/ s = [r EXCEPT !.channel_id = x] \/ s = [r EXCEPT !.step = b + 1] \/ s = [r EXCEPT !.chunk = x]
             \/ s = [r EXCEPT !.prev = x] \/ s = [r EXCEPT !.out = x]
  <2>1. [r EXCEPT !.step = @ + 1] = [r EXCEPT !.step = b + 1]
    BY <1>3
  <2>2. \E x : [r EXCEPT !.chunk[1] = Foreign] = [r EXCEPT !.chunk = x]
    OBVIOUS
  <2>3. CASE s = [r EXCEPT !.channel_id = Len(session.claims)]
    BY <2>3
  <2>4. CASE s = [r EXCEPT !.step = @ + 1]
    BY <2>1, <2>4
  <2>5. CASE s = [r EXCEPT !.chunk[1] = Foreign]
    BY <2>2, <2>5
  <2>6. CASE \E other \in ToSet(rows) : s = [r EXCEPT !.prev = other.prev]
    BY <2>6
  <2>7. CASE \E other \in ToSet(rows) : s = [r EXCEPT !.out = other.out]
    BY <2>7
  <2> QED BY <2>3, <2>4, <2>5, <2>6, <2>7 DEF AlteredRows
<1>5. PICK a2, b2, c2, d2, e2 :
        s = [channel_id |-> a2, step |-> b2, prev |-> c2, chunk |-> d2, out |-> e2] /\ (b2 = b \/ b2 = b + 1)
  <2>1. PICK x : \/ s = [r EXCEPT !.channel_id = x] \/ s = [r EXCEPT !.step = b + 1] \/ s = [r EXCEPT !.chunk = x]
                 \/ s = [r EXCEPT !.prev = x] \/ s = [r EXCEPT !.out = x]
    BY <1>4
  <2>2. CASE s = [r EXCEPT !.channel_id = x]
    <3>1. s = [channel_id |-> x, step |-> b, prev |-> c, chunk |-> d, out |-> e]
      BY <1>3, <2>2
    <3> QED BY <3>1
  <2>3. CASE s = [r EXCEPT !.step = b + 1]
    <3>1. s = [channel_id |-> a, step |-> b + 1, prev |-> c, chunk |-> d, out |-> e]
      BY <1>3, <2>3
    <3> QED BY <3>1
  <2>4. CASE s = [r EXCEPT !.chunk = x]
    <3>1. s = [channel_id |-> a, step |-> b, prev |-> c, chunk |-> x, out |-> e]
      BY <1>3, <2>4
    <3> QED BY <3>1
  <2>5. CASE s = [r EXCEPT !.prev = x]
    <3>1. s = [channel_id |-> a, step |-> b, prev |-> x, chunk |-> d, out |-> e]
      BY <1>3, <2>5
    <3> QED BY <3>1
  <2>6. CASE s = [r EXCEPT !.out = x]
    <3>1. s = [channel_id |-> a, step |-> b, prev |-> c, chunk |-> d, out |-> x]
      BY <1>3, <2>6
    <3> QED BY <3>1
  <2> QED BY <2>1, <2>2, <2>3, <2>4, <2>5, <2>6
<1>6. s.channel_id = a2 /\ s.step = b2 /\ s.prev = c2 /\ s.chunk = d2 /\ s.out = e2
  BY <1>5
<1>7. s # r
  OBVIOUS
<1>8. ~ (a2 = a /\ b2 = b /\ c2 = c /\ d2 = d /\ e2 = e)
  BY <1>3, <1>5, <1>7
<1> QED BY <1>2, <1>3, <1>5, <1>6, <1>8 DEF RowsDiffer

\* A place of the transcript holds one chunk.
LEMMA DataAt ==
  ASSUME NEW id, NEW c, Len(c) \in Nat, c = [k \in 1 .. Len(c) |-> c[k]]
  PROVE  \A p \in 1 .. Len(c) : \A x :
           Total(DataTerms(id, c), <<"sponge_data", <<id, p - 1, x>>>>) = IF c[p] = x THEN 1 ELSE 0
<1>9. \A t : \E d : /\ Total(DataTerms(id, c), t) = d[Len(c)] /\ d[0] = 0
                    /\ \A k \in 1 .. Len(c) : d[k] = d[k - 1] + Hit("sponge_data", <<id, k - 1, c[k]>>, t)
  BY DataAdds
<1> TAKE p \in 1 .. Len(c)
<1> TAKE x
<1>0. PICK t, n : t = <<"sponge_data", <<id, p - 1, x>>>> /\ n = Len(c)
  OBVIOUS
<1>1. PICK d : /\ Total(DataTerms(id, c), t) = d[n] /\ d[0] = 0
               /\ \A k \in 1 .. n : d[k] = d[k - 1] + Hit("sponge_data", <<id, k - 1, c[k]>>, t)
  BY <1>0, <1>9
<1>2. \A k \in 1 .. n : Hit("sponge_data", <<id, k - 1, c[k]>>, t) = IF k = p /\ c[p] = x THEN 1 ELSE 0
  <2> TAKE k \in 1 .. n
  <2>1. k - 1 = p - 1 <=> k = p
    BY <1>0
  <2> QED BY <1>0, <2>1 DEF Hit
<1> DEFINE v == IF c[p] = x THEN 1 ELSE 0
<1>3. v \in Int /\ n \in Nat /\ p \in 1 .. n
  BY <1>0
<1>4. \A k \in 1 .. n : d[k] = d[k - 1] + IF k = p THEN v ELSE 0
  BY <1>1, <1>2
<1> HIDE DEF v
<1> DEFINE T == {k \in 0 .. n : d[k] = IF k < p THEN 0 ELSE v}
<1>5. 0 \in T
  BY <1>1, <1>3
<1>6. \A k \in 0 .. n - 1 : k \in T => k + 1 \in T
  <2> TAKE k \in 0 .. n - 1
  <2> HAVE k \in T
  <2>1. k + 1 \in 1 .. n /\ (k + 1) - 1 = k /\ k + 1 \in 0 .. n
    BY <1>3
  <2>2. d[k + 1] = d[k] + IF k + 1 = p THEN v ELSE 0
    BY <2>1, <1>4
  <2> QED BY <2>1, <2>2, <1>3
<1>7. 0 .. n \subseteq T
  <2> HIDE DEF T
  <2> QED BY <1>3, <1>5, <1>6, InductionTo
<1>8. d[n] = v
  BY <1>3, <1>7
<1> QED BY <1>0, <1>1, <1>8 DEF v

\* Chunks say nothing of states.
LEMMA DataNone ==
  ASSUME NEW id, NEW c, Len(c) \in Nat, c = [k \in 1 .. Len(c) |-> c[k]], NEW x
  PROVE  Total(DataTerms(id, c), <<"sponge_step", x>>) = 0
<1>0. PICK t : t = <<"sponge_step", x>>
  OBVIOUS
<1>1. PICK d : /\ Total(DataTerms(id, c), t) = d[Len(c)] /\ d[0] = 0
               /\ \A k \in 1 .. Len(c) : d[k] = d[k - 1] + Hit("sponge_data", <<id, k - 1, c[k]>>, t)
  BY DataAdds
<1>2. \A y : Hit("sponge_data", y, t) = 0
  <2>1. "sponge_data" # "sponge_step"
    OBVIOUS
  <2> QED BY <1>0, <2>1, HitIs
<1> DEFINE T == {k \in 0 .. Len(c) : d[k] = 0}
<1>3. 0 \in T
  BY <1>1
<1>4. \A k \in 0 .. Len(c) - 1 : k \in T => k + 1 \in T
  <2> TAKE k \in 0 .. Len(c) - 1
  <2> HAVE k \in T
  <2>1. k + 1 \in 1 .. Len(c) /\ (k + 1) - 1 = k /\ k + 1 \in 0 .. Len(c)
    OBVIOUS
  <2>2. d[k + 1] = d[k] + 0
    BY <2>1, <1>1, <1>2
  <2> QED BY <2>1, <2>2
<1>5. 0 .. Len(c) \subseteq T
  <2> HIDE DEF T
  <2> QED BY <1>3, <1>4, InductionTo
<1> QED BY <1>0, <1>1, <1>5

\* Without the claim the first state is missing.
LEMMA ClaimLeftOut ==
  ASSUME NEW claim, ChunksOk(claim.chunks)
  PROVE  ~StillCancels(ChannelTerms(claim), <<>>)
<1> DEFINE id == claim.channel_id
<1> DEFINE c == claim.chunks
<1> DEFINE x == <<id, 0, ZeroState>>
<1> DEFINE y == <<id, Len(c), Names(c, Len(c))>>
<1> DEFINE t == <<"sponge_step", x>>
<1>1. Len(c) \in Nat /\ c = [k \in 1 .. Len(c) |-> c[k]] /\ Len(c) # 0
  BY DEF ChunksOk
<1>2. Hit("sponge_step", x, t) = 1 /\ Hit("sponge_step", y, t) = 0
  <2>1. x # y
    BY <1>1
  <2> HIDE DEF x, y
  <2> QED BY <2>1, HitIs
<1>3. Total(DataTerms(id, c), t) = 0
  BY <1>1, DataNone
<1>4. Entries(ChannelTerms(claim)) /\ Total(ChannelTerms(claim), t) = 1 + 0 - 0
  BY <1>1, <1>2, <1>3, ClaimTotals
<1>5. Entries(<<>>) /\ Total(<<>>, t) = 0
  BY TotalEmpty
<1> HIDE DEF t
<1> QED BY <1>4, <1>5, CancelsIff

LEMMA ClaimAltered ==
  ASSUME NEW claim, ChunksOk(claim.chunks), NEW id, NEW c, claim = [channel_id |-> id, chunks |-> c],
         NEW p \in 1 .. Len(c)
  PROVE  ~StillCancels(ChannelTerms(claim), ChannelTerms([claim EXCEPT !.chunks[p][1] = Foreign]))
<1>1. claim.channel_id = id /\ claim.chunks = c
  OBVIOUS
<1>2. /\ Len(c) \in Nat /\ Len(c) >= 2 /\ c = [k \in 1 .. Len(c) |-> c[k]]
      /\ c[p] = [j \in 1 .. Rate |-> c[p][j]] /\ c[p][1] # Foreign
  BY <1>1 DEF ChunksOk
<1>3. PICK b : b = [c EXCEPT ![p][1] = Foreign]
  OBVIOUS
<1>4. PICK v : v = [c[p] EXCEPT ![1] = Foreign]
  OBVIOUS
<1>5. v[1] = Foreign
  BY <1>2, <1>4, RateIs
<1>6. b = [k \in 1 .. Len(c) |-> IF k = p THEN v ELSE c[k]]
  BY <1>2, <1>3, <1>4
<1>7. Len(b) = Len(c) /\ b = [k \in 1 .. Len(b) |-> b[k]] /\ b[p] = v
  <2>1. DOMAIN b = 1 .. Len(c) /\ b = [k \in 1 .. Len(c) |-> b[k]] /\ b[p] = v
    BY <1>6
  <2>2. IsTable(b) /\ Len(b) = Len(c)
    BY <1>2, <2>1, TableOf
  <2> QED BY <2>1, <2>2
<1>8. PICK other : other = [claim EXCEPT !.chunks[p][1] = Foreign]
  OBVIOUS
<1>9. other.channel_id = id /\ other.chunks = b
  BY <1>3, <1>8
<1>15. PICK z, t : z = c[p] /\ t = <<"sponge_data", <<id, p - 1, z>>>>
  OBVIOUS
<1>10. \A y : Hit("sponge_step", y, t) = 0
  <2>1. "sponge_data" # "sponge_step"
    OBVIOUS
  <2> QED BY <2>1, <1>15, HitIs
<1>11. Total(DataTerms(id, c), t) = 1
  <2>1. Total(DataTerms(id, c), <<"sponge_data", <<id, p - 1, z>>>>) = IF c[p] = z THEN 1 ELSE 0
    <3>1. Len(c) \in Nat /\ c = [k \in 1 .. Len(c) |-> c[k]]
      BY <1>2
    <3> QED BY <3>1, DataAt
  <2> QED BY <1>15, <2>1
<1>12. Total(DataTerms(id, b), t) = 0
  <2>1. b[p] # c[p]
    BY <1>2, <1>5, <1>7
  <2>2. p \in 1 .. Len(b) /\ Len(b) \in Nat
    BY <1>2, <1>7
  <2>3. Total(DataTerms(id, b), <<"sponge_data", <<id, p - 1, z>>>>) = IF b[p] = z THEN 1 ELSE 0
    BY <1>7, <2>2, DataAt
  <2> QED BY <1>15, <2>1, <2>3
<1>16. \A a : Len(a.chunks) \in Nat /\ a.chunks = [k \in 1 .. Len(a.chunks) |-> a.chunks[k]] =>
         /\ Entries(ChannelTerms(a))
         /\ Total(ChannelTerms(a), t) = 0 + Total(DataTerms(a.channel_id, a.chunks), t) - 0
  <2> TAKE a
  <2> HAVE Len(a.chunks) \in Nat /\ a.chunks = [k \in 1 .. Len(a.chunks) |-> a.chunks[k]]
  <2>1. /\ Entries(ChannelTerms(a))
        /\ Total(ChannelTerms(a), t)
              = Hit("sponge_step", <<a.channel_id, 0, ZeroState>>, t) + Total(DataTerms(a.channel_id, a.chunks), t)
                - Hit("sponge_step", <<a.channel_id, Len(a.chunks), Names(a.chunks, Len(a.chunks))>>, t)
    BY ClaimTotals
  <2> QED BY <1>10, <2>1
<1>13. Entries(ChannelTerms(claim)) /\ Total(ChannelTerms(claim), t) = 0 + 1 - 0
  BY <1>1, <1>2, <1>11, <1>16
<1>14. Entries(ChannelTerms(other)) /\ Total(ChannelTerms(other), t) = 0 + 0 - 0
  BY <1>2, <1>7, <1>9, <1>12, <1>16
<1> QED BY <1>8, <1>13, <1>14, CancelsIff

LEMMA XInvCancels ==
  ASSUME XInv
  PROVE  Residue(SpongeSum) = {}
<1> DEFINE rr == RowSums(rows)
<1> DEFINE cc == ClaimSums(session.claims)
<1>1. EntryLists(rr) /\ EntryLists(cc)
  BY RowSumsAre, ClaimSumsAre DEF XInv
<1>2. \A t : Grand(rr, t) + Grand(cc, t) = 0
  BY DEF XInv
<1>3. SpongeSum = FlattenSeq(Join(rr, cc))
  BY DEF SpongeSum, RowSums, ClaimSums, Join
<1> HIDE DEF rr, cc
<1>4. EntryLists(Join(rr, cc)) /\ \A t : Grand(Join(rr, cc), t) = 0
  BY <1>1, <1>2, GrandJoin
<1>5. Entries(SpongeSum) /\ \A t : Total(SpongeSum, t) = 0
  BY <1>3, <1>4, GrandAdds DEF Grand
<1> QED BY <1>5, ResidueIs

LEMMA ColumnsPair ==
  ASSUME NEW r
  PROVE  RowColumns(r) = <<SubSeq(RowEntries(r), 1, 2), SubSeq(RowEntries(r), 3, 4)>>
<1>1. PICK a, b, c, d :
        /\ a = Entry("poseidon2_io", <<r.prev, r.chunk, r.out>>, -1) /\ b = Entry("sponge_data", <<r.channel_id, r.step, r.chunk>>, -1)
        /\ c = Entry("sponge_step", <<r.channel_id, r.step, r.prev>>, -1) /\ d = Entry("sponge_step", <<r.channel_id, r.step + 1, r.out>>, 1)
  OBVIOUS
<1>2. RowEntries(r) = <<a, b, c, d>> /\ RowColumns(r) = << <<a, b>>, <<c, d>> >>
  BY <1>1 DEF RowEntries, RowColumns
<1>3. SubSeq(<<a, b, c, d>>, 1, 2) = <<a, b>> /\ SubSeq(<<a, b, c, d>>, 3, 4) = <<c, d>>
  <2>1. PICK s : s = <<a, b, c, d>>
    OBVIOUS
  <2>2. s \in Seq({a, b, c, d}) /\ Len(s) = 4 /\ s[1] = a /\ s[2] = b /\ s[3] = c /\ s[4] = d
    BY <2>1
  <2>3. PICK u, v : u = SubSeq(s, 1, 2) /\ v = SubSeq(s, 3, 4)
    OBVIOUS
  <2>4. u \in Seq({a, b, c, d}) /\ Len(u) = 2 /\ u[1] = a /\ u[2] = b
    BY <2>2, <2>3
  <2>5. v \in Seq({a, b, c, d}) /\ Len(v) = 2 /\ v[1] = c /\ v[2] = d
    BY <2>2, <2>3
  <2>6. \A x, y : <<x, y>> \in Seq({x, y}) /\ Len(<<x, y>>) = 2 /\ <<x, y>>[1] = x /\ <<x, y>>[2] = y
    OBVIOUS
  <2>7. \A w, x, y : IsTable(w) /\ Len(w) = 2 /\ w[1] = x /\ w[2] = y => w = <<x, y>>
    <3> SUFFICES ASSUME NEW w, NEW x, NEW y, IsTable(w), Len(w) = 2, w[1] = x, w[2] = y PROVE w = <<x, y>>
      OBVIOUS
    <3>1. PICK z : z = <<x, y>>
      OBVIOUS
    <3>2. IsTable(z) /\ Len(z) = 2 /\ z[1] = x /\ z[2] = y
      BY <2>6, <3>1 DEF IsTable
    <3>3. \A i \in 1 .. 2 : w[i] = z[i]
      <4>1. \A i \in 1 .. 2 : i = 1 \/ i = 2
        OBVIOUS
      <4> QED BY <3>2, <4>1
    <3>4. w = z
      BY <3>2, <3>3, TableSame
    <3> QED BY <3>1, <3>4
  <2>8. IsTable(u) /\ IsTable(v)
    BY <2>4, <2>5 DEF IsTable
  <2>9. u = <<a, b>>
    BY <2>4, <2>7, <2>8
  <2>10. v = <<c, d>>
    BY <2>5, <2>7, <2>8
  <2> QED BY <2>1, <2>3, <2>9, <2>10
<1> QED BY <1>2, <1>3

LEMMA XInvImplies == SInv /\ XInv => SpongeExact
<1> SUFFICES ASSUME SInv, XInv PROVE SpongeExact
  OBVIOUS
<1>1. Residue(SpongeSum) = {}
  BY XInvCancels
<1>2. \A r \in ToSet(rows) : RowColumns(r) = <<SubSeq(RowEntries(r), 1, 2), SubSeq(RowEntries(r), 3, 4)>>
  BY ColumnsPair
<1>3. ASSUME NEW i \in DOMAIN rows, NEW r \in AlteredRows(rows[i]) \ {rows[i]}
      PROVE  ~StillCancels(RowEntries(rows[i]), RowEntries(r)) /\ ~StillCancels(RowSum(rows[i]), RowSum(r))
  <2>1. PICK row : row = rows[i]
    OBVIOUS
  <2>2. RowShape(row)
    BY <2>1, TableDomain DEF XInv
  <2>3. r.step \in Nat /\ RowsDiffer(row, r)
    BY <2>1, <2>2, AlteredRowDiffers
  <2>4. row.step \in Nat
    BY <2>2 DEF RowShape
  <2> QED BY <2>1, <2>3, <2>4, AlteredTotals
<1>4. ASSUME NEW i \in DOMAIN session.claims
      PROVE  /\ ~StillCancels(ChannelTerms(session.claims[i]), <<>>)
             /\ \A k \in DOMAIN session.claims[i].chunks :
                  ~StillCancels(ChannelTerms(session.claims[i]), ChannelTerms([session.claims[i] EXCEPT !.chunks[k][1] = Foreign]))
  <2>1. PICK claim : claim = session.claims[i]
    OBVIOUS
  <2>2. ChunksOk(claim.chunks)
    BY <2>1, TableDomain DEF XInv
  <2>3. claim = [channel_id |-> claim.channel_id, chunks |-> claim.chunks]
    <3>1. PICK D, X : Session(ops, session.claims, session.draws, D, X)
      BY DEF SInv
    <3>2. DOMAIN session.claims = 1 .. Len(ops)
      <4>1. PICK C : session.claims \in Seq(C)
        BY <3>1 DEF Session, Typed
      <4>2. Len(session.claims) = Len(ops)
        BY <3>1 DEF Session, Typed
      <4> QED BY <4>1, <4>2
    <3> QED BY <2>1, <3>1, <3>2, TakenForDraw
  <2>4. PICK id, c : id = claim.channel_id /\ c = claim.chunks
    OBVIOUS
  <2>5. DOMAIN c = 1 .. Len(c) /\ claim = [channel_id |-> id, chunks |-> c]
    BY <2>2, <2>3, <2>4 DEF ChunksOk
  <2>6. \A k \in DOMAIN c : ~StillCancels(ChannelTerms(claim), ChannelTerms([claim EXCEPT !.chunks[k][1] = Foreign]))
    BY <2>2, <2>5, ClaimAltered
  <2>7. ~StillCancels(ChannelTerms(claim), <<>>)
    BY <2>2, ClaimLeftOut
  <2> QED BY <2>1, <2>4, <2>6, <2>7
<1> QED BY <1>1, <1>2, <1>3, <1>4 DEF SpongeExact

\* recursion/src/channel_replay.rs, recursion/src/prover.rs: the replay's rows cancel against
\* the public transcript and the permutations they ask for, in every session, and with any
\* one column of a row, word of the transcript or claim altered they no longer do.
THEOREM SpongeExactAlways == SpongeSpec => []SpongeExact
<1>1. SpongeInit => SInv /\ XInv
  BY SInvInit, XInvInit
<1>2. SInv /\ XInv /\ [SpongeNext]_spongeVars => (SInv /\ XInv)'
  BY SInvNext, XInvNext
<1>3. SInv /\ XInv => SpongeExact
  BY XInvImplies
<1> QED BY <1>1, <1>2, <1>3, PTL DEF SpongeSpec

=============================================================================
