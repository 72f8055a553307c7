---------------------------- MODULE SequenceFacts ----------------------------
(* Facts about sequences and intervals that several proofs cite.             *)
EXTENDS Naturals, Sequences, SequencesExt, FiniteSetsExt,
        SequenceTheorems, WellFoundedInduction, TLAPS

\* A nonempty set of positions has a last one.
LEMMA Largest ==
  ASSUME NEW n \in Nat, NEW T \in SUBSET (1 .. n), T # {}
  PROVE  Max(T) \in T /\ \A y \in T : Max(T) >= y
<1> DEFINE Less == {p \in Nat \X Nat : p[1] < p[2]}
           Rest == {n - x : x \in T}
<1>1. IsWellFoundedOn(Less, Nat)
  BY NatLessThanWellFounded, Zenon DEF OpToRel
<1>2. Rest \subseteq Nat /\ Rest # {}
  <2>1. PICK x \in T : TRUE
    OBVIOUS
  <2>2. n - x \in Rest
    OBVIOUS
  <2>3. ASSUME NEW y \in T PROVE n - y \in Nat
    OBVIOUS
  <2> QED BY <2>2, <2>3
<1>3. \A a, b \in Nat : a < b => <<a, b>> \in Less
  OBVIOUS
<1> HIDE DEF Less
<1>4. PICK r \in Rest : \A y \in Rest : <<y, r>> \notin Less
  <2> HIDE DEF Rest
  <2> QED BY <1>1, <1>2, WFMin
<1>5. PICK x \in T : r = n - x
  BY <1>4
<1>6. \A y \in T : x >= y
  <2> SUFFICES ASSUME NEW y \in T, ~(x >= y) PROVE FALSE
    OBVIOUS
  <2>1. n - y \in Rest /\ n - y < r /\ n - y \in Nat /\ r \in Nat
    BY <1>5
  <2> QED BY <2>1, <1>3, <1>4
<1> QED BY <1>5, <1>6 DEF Max

LEMMA IntervalEnd ==
  ASSUME NEW m \in Nat, NEW n \in Nat, 1 .. m = 1 .. n
  PROVE  m = n
<1>1. ASSUME m < n PROVE FALSE
  <2>1. n \in 1 .. n /\ n \notin 1 .. m
    BY <1>1
  <2> QED BY <2>1
<1>2. ASSUME n < m PROVE FALSE
  <2>1. m \in 1 .. m /\ m \notin 1 .. n
    BY <1>2
  <2> QED BY <2>1
<1> QED BY <1>1, <1>2

\* The first n elements of a sequence.
LEMMA PrefixOfSequence ==
  ASSUME NEW S, NEW s \in Seq(S), NEW n \in 0 .. Len(s)
  PROVE  /\ SubSeq(s, 1, n) \in Seq(S) /\ Len(SubSeq(s, 1, n)) = n
         /\ \A i \in 1 .. n : SubSeq(s, 1, n)[i] = s[i]
<1>1. Len(s) \in Nat /\ \A i \in 1 .. Len(s) : s[i] \in S
  BY LenProperties
<1>2. n \in Int /\ 0 <= n /\ 1 \in Int /\ \A i \in 1 .. n : s[i] \in S
  BY <1>1
<1>3. /\ SubSeq(s, 1, n) \in Seq(S)
      /\ Len(SubSeq(s, 1, n)) = IF 1 <= n THEN n - 1 + 1 ELSE 0
      /\ \A i \in 1 .. n - 1 + 1 : SubSeq(s, 1, n)[i] = s[1 + i - 1]
  BY <1>2, SubSeqProperties
<1> QED BY <1>2, <1>3

\* All but the last element, and the last.
LEMMA FrontOfSequence ==
  ASSUME NEW S, NEW s \in Seq(S), s # <<>>
  PROVE  /\ Len(s) \in Nat /\ Len(s) > 0
         /\ Front(s) \in Seq(S) /\ Len(Front(s)) = Len(s) - 1
         /\ \A i \in 1 .. Len(s) - 1 : Front(s)[i] = s[i]
         /\ Last(s) \in S /\ Last(s) = s[Len(s)]
<1>1. Len(s) \in Nat /\ Len(s) > 0 /\ \A i \in 1 .. Len(s) : s[i] \in S
  BY EmptySeq, LenProperties
<1>2. Last(s) \in S
  BY <1>1 DEF Last
<1>3. Len(s) - 1 \in 0 .. Len(s)
  BY <1>1
<1>4. Front(s) = SubSeq(s, 1, Len(s) - 1)
  BY DEF Front
<1> QED BY <1>1, <1>2, <1>3, <1>4, PrefixOfSequence DEF Last
\* Induction over the numbers, with a set for the property.
LEMMA AllNumbers ==
  ASSUME NEW T, 0 \in T, \A n \in Nat : n \in T => n + 1 \in T
  PROVE  Nat \subseteq T
<1> DEFINE Less == {p \in Nat \X Nat : p[1] < p[2]}
           Missing == Nat \ T
<1> SUFFICES ASSUME Missing # {} PROVE FALSE
  OBVIOUS
<1>1. IsWellFoundedOn(Less, Nat)
  BY NatLessThanWellFounded, Zenon DEF OpToRel
<1>2. Missing \subseteq Nat
  OBVIOUS
<1>3. \A a, b \in Nat : a < b => <<a, b>> \in Less
  OBVIOUS
<1> HIDE DEF Less
<1>4. PICK r \in Missing : \A y \in Missing : <<y, r>> \notin Less
  <2> HIDE DEF Missing
  <2> QED BY <1>1, <1>2, WFMin
<1>5. r \in Nat /\ r # 0 /\ r - 1 \in Nat /\ r - 1 < r /\ (r - 1) + 1 = r
  OBVIOUS
<1>6. r - 1 \notin Missing
  BY <1>3, <1>4, <1>5
<1> QED BY <1>5, <1>6

\* acc[k] is what the first k sequences of f make when put together.
Accumulates(acc, n, f, S) ==
  /\ acc \in [0 .. n -> Seq(S)] /\ acc[0] = << >>
  /\ \A i \in 1 .. n : acc[i] = acc[i - 1] \o f[i]

LEMMA FlattenIs ==
  ASSUME NEW S, NEW n \in Nat, NEW f \in [1 .. n -> Seq(S)], NEW acc, Accumulates(acc, n, f, S)
  PROVE  FlattenSeq(f) = acc[n]
<1> USE DEF Accumulates
<1>1. f \in Seq(Seq(S)) /\ Len(f) = n
  OBVIOUS
<1>2. CASE n = 0
  <2>1. f = << >>
    BY <1>1, <1>2, EmptySeq
  <2>2. Len(f) = 0
    BY <1>1, <1>2
  <2>3. FlattenSeq(f) = f
    BY <2>2 DEF FlattenSeq
  <2> QED BY <2>1, <2>3, <1>2
<1>3. CASE n # 0
  <2> DEFINE Step(g) == [i \in 1 .. Len(f) |-> IF i = 1 THEN f[i] ELSE g[i - 1] \o f[i]]
             flatten == CHOOSE g : g = Step(g)
             whole == [i \in 1 .. n |-> acc[i]]
             T == {k \in Nat : k \in 1 .. n => flatten[k] = acc[k]}
  <2>1. acc[1] = f[1]
    <3>1. 1 \in 1 .. n /\ 1 - 1 = 0
      BY <1>3
    <3>2. acc[1] = << >> \o f[1] /\ f[1] \in Seq(S)
      BY <3>1
    <3> QED BY <3>2, ConcatEmptySeq
  <2>2. whole = Step(whole)
    <3> SUFFICES ASSUME NEW i \in 1 .. n
                 PROVE  acc[i] = IF i = 1 THEN f[i] ELSE whole[i - 1] \o f[i]
      BY <1>1
    <3>1. CASE i = 1
      BY <2>1, <3>1
    <3>2. CASE i # 1
      <4>1. i - 1 \in 1 .. n
        BY <3>2
      <4>2. whole[i - 1] = acc[i - 1]
        BY <4>1
      <4> HIDE DEF whole
      <4> QED BY <3>2, <4>2
    <3> QED BY <3>1, <3>2
  <2> HIDE DEF whole
  <2>3. flatten = Step(flatten)
    <3> HIDE DEF Step
    <3> QED BY <2>2
  <2>4. \A i \in 1 .. n : flatten[i] = IF i = 1 THEN f[i] ELSE flatten[i - 1] \o f[i]
    <3> HIDE DEF flatten
    <3> QED BY <1>1, <2>3
  <2>5. FlattenSeq(f) = flatten[n]
    BY <1>1, <1>3, Zenon DEF FlattenSeq
  <2> HIDE DEF flatten, Step
  <2>6. 0 \in T
    OBVIOUS
  <2>7. ASSUME NEW k \in Nat, k \in T PROVE k + 1 \in T
    <3> SUFFICES ASSUME k + 1 \in 1 .. n PROVE flatten[k + 1] = acc[k + 1]
      OBVIOUS
    <3>1. CASE k = 0
      <4>1. k + 1 = 1 /\ 1 \in 1 .. n
        BY <3>1
      <4>2. flatten[1] = f[1]
        BY <2>4, <4>1
      <4> QED BY <2>1, <4>1, <4>2
    <3>2. CASE k # 0
      <4>1. k \in 1 .. n /\ (k + 1) - 1 = k /\ k + 1 # 1
        BY <3>2
      <4>2. flatten[k] = acc[k]
        BY <2>7, <4>1
      <4>3. flatten[k + 1] = flatten[k] \o f[k + 1] /\ acc[k + 1] = acc[k] \o f[k + 1]
        BY <2>4, <4>1
      <4> QED BY <4>2, <4>3
    <3> QED BY <3>1, <3>2
  <2> HIDE DEF T
  <2>8. n \in T
    BY <2>6, <2>7, AllNumbers
  <2>9. flatten[n] = acc[n]
    BY <2>8, <1>3 DEF T
  <2> QED BY <2>5, <2>9
<1> QED BY <1>2, <1>3

LEMMA Accumulated ==
  ASSUME NEW S, NEW n \in Nat, NEW f \in [1 .. n -> Seq(S)]
  PROVE  \E acc : Accumulates(acc, n, f, S)
<1> DEFINE Good(k, acc) == Accumulates(acc, k, f, S)
           T == {k \in Nat : k <= n => \E acc : Good(k, acc)}
<1>1. 0 \in T
  <2>1. Good(0, [i \in 0 .. 0 |-> << >>])
    BY EmptySeq DEF Accumulates
  <2> QED BY <2>1
<1>2. ASSUME NEW k \in Nat, k \in T PROVE k + 1 \in T
  <2> SUFFICES ASSUME k + 1 <= n PROVE \E acc : Good(k + 1, acc)
    <3> HIDE DEF Good
    <3> QED OBVIOUS
  <2>1. PICK acc : Good(k, acc)
    <3> HIDE DEF Good
    <3> QED BY <1>2
  <2> DEFINE next == [i \in 0 .. k + 1 |-> IF i <= k THEN acc[i] ELSE acc[k] \o f[k + 1]]
  <2>2. acc[k] \in Seq(S) /\ f[k + 1] \in Seq(S)
    BY <2>1 DEF Accumulates
  <2>3. acc[k] \o f[k + 1] \in Seq(S)
    BY <2>2, ConcatProperties
  <2>4. \A i \in 0 .. k : next[i] = acc[i] /\ acc[i] \in Seq(S)
    BY <2>1 DEF Accumulates
  <2>5. next[k + 1] = acc[k] \o f[k + 1]
    <3>1. k + 1 \in 0 .. k + 1 /\ ~(k + 1 <= k)
      OBVIOUS
    <3> QED BY <3>1
  <2>6. \A i \in 0 .. k + 1 : i \in 0 .. k \/ i = k + 1
    OBVIOUS
  <2>7. next = [i \in 0 .. k + 1 |-> next[i]]
    OBVIOUS
  <2> HIDE DEF next
  <2>8. next \in [0 .. k + 1 -> Seq(S)]
    <3>1. \A i \in 0 .. k + 1 : next[i] \in Seq(S)
      BY <2>3, <2>4, <2>5, <2>6
    <3> QED BY <3>1, <2>7
  <2>9. next[0] = << >>
    BY <2>1, <2>4 DEF Accumulates
  <2>10. ASSUME NEW i \in 1 .. k + 1 PROVE next[i] = next[i - 1] \o f[i]
    <3>1. CASE i \in 1 .. k
      <4>1. i \in 0 .. k /\ i - 1 \in 0 .. k
        BY <3>1
      <4>2. next[i] = acc[i] /\ next[i - 1] = acc[i - 1]
        BY <2>4, <4>1
      <4>3. acc[i] = acc[i - 1] \o f[i]
        BY <2>1, <3>1 DEF Accumulates
      <4> QED BY <4>2, <4>3
    <3>2. CASE i = k + 1
      <4>1. i - 1 = k /\ k \in 0 .. k
        BY <3>2
      <4>2. next[i - 1] = acc[k]
        BY <2>4, <4>1
      <4> QED BY <2>5, <3>2, <4>2
    <3>3. i \in 1 .. k \/ i = k + 1
      OBVIOUS
    <3> QED BY <3>1, <3>2, <3>3, Zenon
  <2>11. Good(k + 1, next)
    BY <2>8, <2>9, <2>10 DEF Accumulates
  <2> QED BY <2>11
<1> HIDE DEF T
<1>3. n \in T
  BY <1>1, <1>2, AllNumbers
<1>4. PICK acc : Good(n, acc)
  <2> HIDE DEF Good
  <2> QED BY <1>3 DEF T
<1> QED BY <1>4

\* What the first m sequences of f make.
Joined(f, m) == FlattenSeq([i \in 1 .. m |-> f[i]])

\* FlattenSeq, one sequence after another.
LEMMA FlattenNext ==
  ASSUME NEW S, NEW n \in Nat, NEW f \in [1 .. n -> Seq(S)], NEW k \in 0 .. n
  PROVE  /\ Joined(f, 0) = << >> /\ Joined(f, k) \in Seq(S)
         /\ k < n => Joined(f, k + 1) = Joined(f, k) \o f[k + 1]
<1>1. PICK acc : Accumulates(acc, n, f, S)
  BY Accumulated
<1> USE DEF Accumulates
<1>2. ASSUME NEW m \in 0 .. n PROVE Joined(f, m) = acc[m]
  <2> DEFINE g == [i \in 1 .. m |-> f[i]]
             a == [i \in 0 .. m |-> acc[i]]
  <2>1. m \in Nat /\ g \in [1 .. m -> Seq(S)] /\ a \in [0 .. m -> Seq(S)]
    <3>1. m \in Nat /\ \A i \in 1 .. m : i \in 1 .. n
      OBVIOUS
    <3>2. \A i \in 0 .. m : i \in 0 .. n
      OBVIOUS
    <3>3. \A i \in 1 .. m : f[i] \in Seq(S)
      BY <3>1
    <3>4. \A i \in 0 .. m : acc[i] \in Seq(S)
      BY <1>1, <3>2
    <3> QED BY <3>1, <3>3, <3>4
  <2>2. \A i \in 0 .. m : a[i] = acc[i]
    OBVIOUS
  <2>3. \A i \in 1 .. m : g[i] = f[i] /\ i \in 1 .. n /\ i \in 0 .. m /\ i - 1 \in 0 .. m
    OBVIOUS
  <2> HIDE DEF g, a
  <2>4. a[0] = << >>
    BY <1>1, <2>1, <2>2
  <2>5. ASSUME NEW i \in 1 .. m PROVE a[i] = a[i - 1] \o g[i]
    <3>1. acc[i] = acc[i - 1] \o f[i]
      BY <1>1, <2>3
    <3>2. a[i] = acc[i] /\ a[i - 1] = acc[i - 1] /\ g[i] = f[i]
      BY <2>2, <2>3
    <3> QED BY <3>1, <3>2
  <2>6. FlattenSeq(g) = a[m]
    <3>1. Accumulates(a, m, g, S)
      BY <2>1, <2>4, <2>5
    <3> QED BY <2>1, <3>1, FlattenIs
  <2>7. m \in 0 .. m
    BY <2>1
  <2> QED BY <2>2, <2>6, <2>7 DEF g, Joined
<1>3. Joined(f, 0) = << >> /\ Joined(f, k) \in Seq(S)
  <2>1. Joined(f, 0) = acc[0] /\ Joined(f, k) = acc[k]
    BY <1>2
  <2> QED BY <1>1, <2>1
<1>4. ASSUME k < n PROVE Joined(f, k + 1) = Joined(f, k) \o f[k + 1]
  <2>1. k + 1 \in 1 .. n /\ k + 1 \in 0 .. n /\ (k + 1) - 1 = k
    BY <1>4
  <2>2. acc[k + 1] = acc[k] \o f[k + 1]
    BY <1>1, <2>1
  <2>3. Joined(f, k + 1) = acc[k + 1] /\ Joined(f, k) = acc[k]
    BY <1>2, <2>1
  <2> QED BY <2>2, <2>3
<1> QED BY <1>3, <1>4, Zenon

\* What the first sequences make comes first in what they all make.
ComesFirst(f, j, k) ==
  /\ Len(Joined(f, j)) <= Len(Joined(f, k))
  /\ \A i \in 1 .. Len(Joined(f, j)) : Joined(f, k)[i] = Joined(f, j)[i]

LEMMA FlattenGrows ==
  ASSUME NEW S, NEW n \in Nat, NEW f \in [1 .. n -> Seq(S)], NEW j \in 0 .. n, NEW k \in j .. n
  PROVE  ComesFirst(f, j, k)
<1> DEFINE Comes(d) == /\ Len(Joined(f, j)) <= Len(Joined(f, j + d))
                       /\ \A i \in 1 .. Len(Joined(f, j)) : Joined(f, j + d)[i] = Joined(f, j)[i]
           T == {d \in Nat : j + d <= n => Comes(d)}
<1>1. \A m \in 0 .. n : Joined(f, m) \in Seq(S) /\ (m < n => Joined(f, m + 1) = Joined(f, m) \o f[m + 1])
  BY FlattenNext
<1>3. 0 \in T
  <2>1. Joined(f, j) \in Seq(S) /\ j + 0 = j
    BY <1>1
  <2>2. Len(Joined(f, j)) \in Nat
    BY <2>1
  <2> QED BY <2>1, <2>2
<1>4. ASSUME NEW d \in Nat, d \in T PROVE d + 1 \in T
  <2> SUFFICES ASSUME j + (d + 1) <= n PROVE Comes(d + 1)
    OBVIOUS
  <2> DEFINE m == j + d
  <2>1. m \in 0 .. n /\ m < n /\ m + 1 = j + (d + 1) /\ m <= n /\ m + 1 \in 1 .. n
    OBVIOUS
  <2>2. Comes(d)
    BY <1>4, <2>1
  <2>3. Joined(f, m) \in Seq(S) /\ f[m + 1] \in Seq(S) /\ Joined(f, j) \in Seq(S)
    BY <1>1, <2>1
  <2>4. Joined(f, m + 1) = Joined(f, m) \o f[m + 1]
    BY <1>1, <2>1
  <2>5. /\ Len(Joined(f, m)) \in Nat /\ Len(f[m + 1]) \in Nat /\ Len(Joined(f, j)) \in Nat
        /\ Len(Joined(f, m + 1)) = Len(Joined(f, m)) + Len(f[m + 1])
        /\ \A i \in 1 .. Len(Joined(f, m)) : Joined(f, m + 1)[i] = Joined(f, m)[i]
    <3>1. /\ Len(Joined(f, m) \o f[m + 1]) = Len(Joined(f, m)) + Len(f[m + 1])
          /\ \A i \in 1 .. Len(Joined(f, m)) + Len(f[m + 1]) :
                (Joined(f, m) \o f[m + 1])[i] = IF i <= Len(Joined(f, m)) THEN Joined(f, m)[i] ELSE f[m + 1][i - Len(Joined(f, m))]
      BY <2>3, ConcatProperties
    <3>2. Len(Joined(f, m)) \in Nat /\ Len(f[m + 1]) \in Nat /\ Len(Joined(f, j)) \in Nat
      BY <2>3, LenProperties
    <3>3. \A a, b \in Nat : \A i \in 1 .. a : i <= a /\ i \in 1 .. a + b
      OBVIOUS
    <3>4. \A i \in 1 .. Len(Joined(f, m)) :
            i <= Len(Joined(f, m)) /\ i \in 1 .. Len(Joined(f, m)) + Len(f[m + 1])
      BY <3>2, <3>3, Zenon
    <3> QED BY <2>4, <3>1, <3>2, <3>4, Zenon
  <2> HIDE DEF m
  <2>6. Len(Joined(f, j)) <= Len(Joined(f, m)) /\ \A i \in 1 .. Len(Joined(f, j)) : Joined(f, m)[i] = Joined(f, j)[i]
    BY <2>2 DEF m
  <2>7. Len(Joined(f, j)) <= Len(Joined(f, m + 1)) /\ \A i \in 1 .. Len(Joined(f, j)) : Joined(f, m + 1)[i] = Joined(f, j)[i]
    BY <2>5, <2>6
  <2> QED BY <2>1, <2>7
<1> HIDE DEF T
<1>5. Nat \subseteq T
  BY <1>3, <1>4, AllNumbers
<1>6. k - j \in Nat /\ j + (k - j) = k /\ k <= n
  OBVIOUS
<1>7. Comes(k - j)
  BY <1>5, <1>6 DEF T
<1>8. Len(Joined(f, j)) <= Len(Joined(f, k)) /\ \A i \in 1 .. Len(Joined(f, j)) : Joined(f, k)[i] = Joined(f, j)[i]
  BY <1>6, <1>7
<1> QED BY <1>8 DEF ComesFirst

\* s without the element at i, and with e before the element at i.
LEMMA RemovedAt ==
  ASSUME NEW S, NEW s \in Seq(S), NEW i \in 1 .. Len(s)
  PROVE  /\ RemoveAt(s, i) \in Seq(S) /\ Len(RemoveAt(s, i)) = Len(s) - 1
         /\ \A j \in 1 .. Len(s) - 1 : RemoveAt(s, i)[j] = IF j < i THEN s[j] ELSE s[j + 1]
<1> DEFINE u == SubSeq(s, 1, i - 1)
           v == SubSeq(s, i + 1, Len(s))
           m == Len(s)
<1>1. m \in Nat /\ \A j \in 1 .. m : s[j] \in S
  BY LenProperties
<1>2. i - 1 \in 0 .. Len(s)
  BY <1>1
<1>3. u \in Seq(S) /\ Len(u) = i - 1 /\ \A j \in 1 .. i - 1 : u[j] = s[j]
  BY <1>2, PrefixOfSequence
<1>4. v \in Seq(S) /\ Len(v) = m - i /\ \A j \in 1 .. m - i : v[j] = s[j + i]
  <2>1. i + 1 \in Int /\ m \in Int /\ \A j \in (i + 1) .. m : s[j] \in S
    BY <1>1
  <2>2. /\ SubSeq(s, i + 1, m) \in Seq(S)
        /\ Len(SubSeq(s, i + 1, m)) = IF i + 1 <= m THEN m - (i + 1) + 1 ELSE 0
        /\ \A j \in 1 .. m - (i + 1) + 1 : SubSeq(s, i + 1, m)[j] = s[i + 1 + j - 1]
    BY <2>1, SubSeqProperties
  <2>3. i \in 1 .. m
    OBVIOUS
  <2> HIDE DEF m
  <2>4. (IF i + 1 <= m THEN m - (i + 1) + 1 ELSE 0) = m - i /\ m - (i + 1) + 1 = m - i
    BY <1>1, <2>3
  <2>5. \A j \in 1 .. m - i : i + 1 + j - 1 = j + i
    BY <1>1, <2>3
  <2> QED BY <2>2, <2>4, <2>5 DEF m
<1>5. RemoveAt(s, i) = u \o v
  BY DEF RemoveAt
<1>6. i \in 1 .. m
  OBVIOUS
<1> HIDE DEF u, v, m
<1>7. /\ u \o v \in Seq(S) /\ Len(u \o v) = (i - 1) + (m - i)
      /\ \A j \in 1 .. (i - 1) + (m - i) : (u \o v)[j] = IF j <= i - 1 THEN u[j] ELSE v[j - (i - 1)]
  <2>1. /\ u \o v \in Seq(S) /\ Len(u \o v) = Len(u) + Len(v)
        /\ \A j \in 1 .. Len(u) + Len(v) : (u \o v)[j] = IF j <= Len(u) THEN u[j] ELSE v[j - Len(u)]
    BY <1>3, <1>4, ConcatProperties
  <2> QED BY <1>3, <1>4, <2>1, Zenon
<1>8. (i - 1) + (m - i) = m - 1
  BY <1>1, <1>6
<1>9. ASSUME NEW j \in 1 .. m - 1 PROVE (u \o v)[j] = IF j < i THEN s[j] ELSE s[j + 1]
  <2>1. (u \o v)[j] = IF j <= i - 1 THEN u[j] ELSE v[j - (i - 1)]
    BY <1>7, <1>8
  <2>2. CASE j < i
    <3>1. j <= i - 1 /\ j \in 1 .. i - 1
      BY <1>1, <1>6, <2>2
    <3> QED BY <1>3, <2>1, <2>2, <3>1
  <2>3. CASE ~(j < i)
    <3>1. ~(j <= i - 1) /\ j - (i - 1) \in 1 .. m - i /\ (j - (i - 1)) + i = j + 1
      BY <1>1, <1>6, <2>3
    <3>2. v[j - (i - 1)] = s[j + 1]
      BY <1>4, <3>1
    <3> QED BY <2>1, <2>3, <3>1, <3>2
  <2> QED BY <2>2, <2>3
<1>10. RemoveAt(s, i) \in Seq(S) /\ Len(RemoveAt(s, i)) = m - 1
  BY <1>5, <1>7, <1>8
<1> QED BY <1>5, <1>9, <1>10 DEF m

LEMMA InsertedAt ==
  ASSUME NEW S, NEW s \in Seq(S), NEW e \in S, NEW i \in 1 .. Len(s) + 1
  PROVE  /\ InsertAt(s, i, e) \in Seq(S) /\ Len(InsertAt(s, i, e)) = Len(s) + 1
         /\ \A j \in 1 .. Len(s) + 1 :
              InsertAt(s, i, e)[j] = IF j < i THEN s[j] ELSE IF j = i THEN e ELSE s[j - 1]
<1> DEFINE u == SubSeq(s, 1, i - 1)
           v == SubSeq(s, i, Len(s))
           w == u \o <<e>>
           m == Len(s)
<1>1. m \in Nat /\ \A j \in 1 .. m : s[j] \in S
  BY LenProperties
<1>2. i - 1 \in 0 .. Len(s)
  BY <1>1
<1>3. u \in Seq(S) /\ Len(u) = i - 1 /\ \A j \in 1 .. i - 1 : u[j] = s[j]
  BY <1>2, PrefixOfSequence
<1>6. i \in 1 .. m + 1
  OBVIOUS
<1>4. v \in Seq(S) /\ Len(v) = m - i + 1 /\ \A j \in 1 .. m - i + 1 : v[j] = s[i + j - 1]
  <2>1. i \in Int /\ m \in Int /\ \A j \in i .. m : s[j] \in S
    BY <1>1
  <2>2. /\ SubSeq(s, i, m) \in Seq(S)
        /\ Len(SubSeq(s, i, m)) = IF i <= m THEN m - i + 1 ELSE 0
        /\ \A j \in 1 .. m - i + 1 : SubSeq(s, i, m)[j] = s[i + j - 1]
    BY <2>1, SubSeqProperties
  <2> HIDE DEF m
  <2>3. (IF i <= m THEN m - i + 1 ELSE 0) = m - i + 1
    BY <1>1, <1>6
  <2> QED BY <2>2, <2>3 DEF m
<1>5. InsertAt(s, i, e) = w \o v
  BY DEF InsertAt
<1> HIDE DEF u, v, m
<1>7. w \in Seq(S) /\ Len(w) = i /\ w[i] = e /\ \A j \in 1 .. i - 1 : w[j] = s[j]
  <2>1. <<e>> \in Seq(S) /\ Len(<<e>>) = 1 /\ <<e>>[1] = e
    OBVIOUS
  <2>2. /\ u \o <<e>> \in Seq(S) /\ Len(u \o <<e>>) = (i - 1) + 1
        /\ \A j \in 1 .. (i - 1) + 1 : (u \o <<e>>)[j] = IF j <= i - 1 THEN u[j] ELSE <<e>>[j - (i - 1)]
    BY <1>3, <2>1, ConcatProperties
  <2>3. i \in 1 .. (i - 1) + 1 /\ (i - 1) + 1 = i /\ i - (i - 1) = 1 /\ ~(i <= i - 1)
    BY <1>1, <1>6
  <2>4. \A j \in 1 .. i - 1 : j <= i - 1 /\ j \in 1 .. (i - 1) + 1
    BY <1>1, <1>6
  <2> QED BY <1>3, <2>1, <2>2, <2>3, <2>4
<1> HIDE DEF w
<1>8. /\ w \o v \in Seq(S) /\ Len(w \o v) = i + (m - i + 1)
      /\ \A j \in 1 .. i + (m - i + 1) : (w \o v)[j] = IF j <= i THEN w[j] ELSE v[j - i]
  <2>1. /\ w \o v \in Seq(S) /\ Len(w \o v) = Len(w) + Len(v)
        /\ \A j \in 1 .. Len(w) + Len(v) : (w \o v)[j] = IF j <= Len(w) THEN w[j] ELSE v[j - Len(w)]
    BY <1>4, <1>7, ConcatProperties
  <2> QED BY <1>4, <1>7, <2>1, Zenon
<1>9. i + (m - i + 1) = m + 1
  BY <1>1, <1>6
<1>10. ASSUME NEW j \in 1 .. m + 1
       PROVE  (w \o v)[j] = IF j < i THEN s[j] ELSE IF j = i THEN e ELSE s[j - 1]
  <2>1. (w \o v)[j] = IF j <= i THEN w[j] ELSE v[j - i]
    BY <1>8, <1>9
  <2>2. CASE j < i
    <3>1. j <= i /\ j \in 1 .. i - 1
      BY <1>1, <1>6, <2>2
    <3> QED BY <1>7, <2>1, <2>2, <3>1
  <2>3. CASE j = i
    <3>1. j <= i /\ ~(j < i)
      BY <1>1, <1>6, <2>3
    <3> QED BY <1>7, <2>1, <2>3, <3>1
  <2>4. CASE ~(j < i) /\ j # i
    <3>1. ~(j <= i) /\ j - i \in 1 .. m - i + 1 /\ i + (j - i) - 1 = j - 1
      BY <1>1, <1>6, <2>4
    <3>2. v[j - i] = s[j - 1]
      BY <1>4, <3>1
    <3> QED BY <2>1, <2>4, <3>1, <3>2
  <2> QED BY <2>2, <2>3, <2>4
<1>11. InsertAt(s, i, e) \in Seq(S) /\ Len(InsertAt(s, i, e)) = m + 1
  BY <1>5, <1>8, <1>9
<1> QED BY <1>5, <1>10, <1>11 DEF m

LEMMA RemovedFirst ==
  ASSUME NEW s, NEW e
  PROVE  /\ (\A j \in 1 .. Len(s) : s[j] # e) => RemoveFirst(s, e) = s
         /\ \A i \in 1 .. Len(s) :
              s[i] = e /\ (\A j \in 1 .. Len(s) : s[j] = e => j = i) => RemoveFirst(s, e) = RemoveAt(s, i)
<1>1. ASSUME \A j \in 1 .. Len(s) : s[j] # e PROVE RemoveFirst(s, e) = s
  BY <1>1, Zenon DEF RemoveFirst
<1>2. ASSUME NEW i \in 1 .. Len(s), s[i] = e, \A j \in 1 .. Len(s) : s[j] = e => j = i
      PROVE  RemoveFirst(s, e) = RemoveAt(s, i)
  <2> DEFINE I == {j \in 1 .. Len(s) : s[j] = e}
  <2>1. I = {i}
    BY <1>2
  <2>2. Min(I) = i
    <3>1. Min({i}) = i
      BY DEF Min
    <3> QED BY <2>1, <3>1
  <2>3. RemoveFirst(s, e) = RemoveAt(s, IF I # {} THEN Min(I) ELSE 0)
    BY <1>2, Zenon DEF RemoveFirst, SelectInSeq
  <2>4. I # {}
    BY <2>1
  <2> QED BY <2>2, <2>3, <2>4, Zenon
<1> QED BY <1>1, <1>2, Zenon

\* G[m][f] is what a definition by recursion makes of f at m: it reads f only
\* where the measure mu is smaller.
Smaller(D, V, mu, G) ==
  \A m \in D : \A f, g \in [D -> V] :
    (\A x \in D : mu[x] < mu[m] => f[x] = g[x]) => G[m][f] = G[m][g]

Descending(D, V, mu, G) ==
  V # {} /\ mu \in [D -> Nat] /\ G \in [D -> [[D -> V] -> V]] /\ Smaller(D, V, mu, G)

Satisfies(f, D, V, G) == f \in [D -> V] /\ \A m \in D : f[m] = G[m][f]

\* Such a definition has a function that satisfies it.
LEMMA Recursion ==
  ASSUME NEW D, NEW V, NEW mu, NEW G, Descending(D, V, mu, G)
  PROVE  \E f : Satisfies(f, D, V, G)
<1>. /\ V # {} /\ mu \in [D -> Nat] /\ G \in [D -> [[D -> V] -> V]]
     /\ Smaller(D, V, mu, G)
  BY DEF Descending
<1> DEFINE Good(d, f) == \A m \in D : mu[m] < d => f[m] = G[m][f]
           T == {d \in Nat : \E f \in [D -> V] : Good(d, f)}
<1>0. ASSUME NEW m \in D PROVE mu[m] \in Nat /\ mu[m] + 1 \in Nat /\ \A f \in [D -> V] : G[m][f] \in V
  OBVIOUS
<1>1. 0 \in T
  <2>1. PICK v \in V : TRUE
    OBVIOUS
  <2>2. [m \in D |-> v] \in [D -> V] /\ Good(0, [m \in D |-> v])
    BY <1>0
  <2> HIDE DEF Good
  <2> QED BY <2>2
<1>2. ASSUME NEW d \in Nat, d \in T PROVE d + 1 \in T
  <2>1. PICK f \in [D -> V] : Good(d, f)
    BY <1>2
  <2> DEFINE g == [m \in D |-> IF mu[m] < d THEN f[m] ELSE G[m][f]]
  <2>2. g \in [D -> V] /\ \A m \in D : mu[m] < d => g[m] = f[m]
    BY <1>0
  <2>3. \A m \in D : g[m] = G[m][f]
    BY <2>1
  <2> HIDE DEF g
  <2>4. ASSUME NEW m \in D, mu[m] < d + 1 PROVE g[m] = G[m][g]
    <3>1. \A x \in D : mu[x] < mu[m] => mu[x] < d
      BY <1>0, <2>4
    <3>2. \A x \in D : mu[x] < mu[m] => f[x] = g[x]
      BY <2>2, <3>1
    <3>3. G[m][f] = G[m][g]
      BY <2>2, <3>2 DEF Smaller
    <3> QED BY <2>3, <3>3
  <2>5. Good(d + 1, g)
    BY <2>4
  <2> HIDE DEF Good
  <2> QED BY <2>2, <2>5
<1>3. Nat \subseteq T
  <2> HIDE DEF T
  <2> QED BY <1>1, <1>2, AllNumbers
<1>4. ASSUME NEW d \in Nat, NEW f \in [D -> V], NEW g \in [D -> V], Good(d, f), Good(d, g)
      PROVE  \A m \in D : mu[m] < d => f[m] = g[m]
  <2> DEFINE U == {e \in Nat : e <= d => \A m \in D : mu[m] < e => f[m] = g[m]}
  <2>1. 0 \in U
    BY <1>0
  <2>2. ASSUME NEW e \in Nat, e \in U PROVE e + 1 \in U
    <3> SUFFICES ASSUME e + 1 <= d, NEW m \in D, mu[m] < e + 1 PROVE f[m] = g[m]
      OBVIOUS
    <3>1. \A x \in D : mu[x] < mu[m] => mu[x] < e
      BY <1>0
    <3>2. \A x \in D : mu[x] < mu[m] => f[x] = g[x]
      BY <2>2, <3>1
    <3>3. G[m][f] = G[m][g]
      BY <3>2 DEF Smaller
    <3>4. f[m] = G[m][f] /\ g[m] = G[m][g]
      BY <1>0, <1>4
    <3> QED BY <3>3, <3>4
  <2>3. d \in U
    <3> HIDE DEF U
    <3> QED BY <2>1, <2>2, AllNumbers
  <2> QED BY <2>3
<1> DEFINE part(d) == CHOOSE f \in [D -> V] : Good(d, f)
           whole == [m \in D |-> part(mu[m] + 1)[m]]
<1>5. ASSUME NEW d \in Nat PROVE part(d) \in [D -> V] /\ Good(d, part(d))
  <2>1. \E f \in [D -> V] : Good(d, f)
    BY <1>3
  <2> HIDE DEF Good
  <2> QED BY <2>1, Zenon
<1> HIDE DEF part
<1>6. whole \in [D -> V] /\ \A m \in D : whole[m] = part(mu[m] + 1)[m]
  <2> HIDE DEF Good
  <2> QED BY <1>0, <1>5
<1> HIDE DEF whole
<1>7. ASSUME NEW m \in D PROVE whole[m] = G[m][whole]
  <2> DEFINE f == part(mu[m] + 1)
  <2>1. f \in [D -> V] /\ Good(mu[m] + 1, f)
    BY <1>0, <1>5
  <2>2. ASSUME NEW x \in D, mu[x] < mu[m] PROVE f[x] = whole[x]
    <3>1. part(mu[x] + 1) \in [D -> V] /\ Good(mu[x] + 1, part(mu[x] + 1))
      BY <1>0, <1>5
    <3>2. Good(mu[x] + 1, f)
      <4>1. \A y \in D : mu[y] < mu[x] + 1 => mu[y] < mu[m] + 1
        BY <1>0, <2>2
      <4> QED BY <2>1, <4>1
    <3>3. mu[x] + 1 \in Nat /\ mu[x] < mu[x] + 1
      BY <1>0
    <3> HIDE DEF f, Good
    <3>4. f[x] = part(mu[x] + 1)[x]
      BY <1>4, <2>1, <3>1, <3>2, <3>3
    <3> QED BY <1>6, <3>4
  <2>3. f[m] = G[m][f]
    BY <1>0, <2>1
  <2>4. G[m][f] = G[m][whole]
    <3> HIDE DEF f
    <3> QED BY <1>6, <2>1, <2>2 DEF Smaller
  <2> QED BY <1>6, <2>3, <2>4
<1> QED BY <1>6, <1>7 DEF Satisfies

\* What w makes of the elements of s, from each to the last, when it puts each
\* before what it makes of the next one.
LEMMA Traced ==
  ASSUME NEW S, NEW s \in Seq(S), NEW w,
         \A i \in 1 .. Len(s) : w[s[i]] = <<s[i]>> \o (IF i = Len(s) THEN << >> ELSE w[s[i + 1]])
  PROVE  \A i \in 1 .. Len(s) : w[s[i]] = SubSeq(s, i, Len(s))
<1> DEFINE n == Len(s)
           T == {d \in Nat : d < n => w[s[n - d]] = SubSeq(s, n - d, n)}
<1>1. n \in Nat
  OBVIOUS
<1>2. ASSUME NEW i \in 1 .. n PROVE SubSeq(s, i, n) = <<s[i]>> \o SubSeq(s, i + 1, n)
  <2>1. n \in i .. n
    BY <1>1
  <2> QED BY <2>1, SubSeqRecursiveFirst
<1>3. SubSeq(s, n + 1, n) = << >>
  <2>1. n + 1 \in Int /\ n \in Int /\ n < n + 1
    BY <1>1
  <2> QED BY <2>1, SubSeqEmpty
<1>4. \A i \in 1 .. n : w[s[i]] = <<s[i]>> \o (IF i = n THEN << >> ELSE w[s[i + 1]])
  OBVIOUS
<1> HIDE DEF n
<1>5. 0 \in T
  <2>1. ASSUME 0 < n PROVE w[s[n]] = SubSeq(s, n, n)
    <3>1. n \in 1 .. n
      BY <1>1, <2>1
    <3> QED BY <1>2, <1>3, <1>4, <3>1
  <2>2. n - 0 = n
    BY <1>1
  <2> QED BY <2>1, <2>2
<1>6. ASSUME NEW d \in Nat, d \in T PROVE d + 1 \in T
  <2> SUFFICES ASSUME d + 1 < n PROVE w[s[n - (d + 1)]] = SubSeq(s, n - (d + 1), n)
    OBVIOUS
  <2> DEFINE i == n - (d + 1)
  <2>1. i \in 1 .. n /\ i # n /\ i + 1 = n - d /\ d < n
    BY <1>1
  <2>2. w[s[i + 1]] = SubSeq(s, i + 1, n)
    BY <1>6, <2>1
  <2> HIDE DEF i
  <2>3. w[s[i]] = <<s[i]>> \o w[s[i + 1]]
    BY <1>4, <2>1
  <2>4. SubSeq(s, i, n) = <<s[i]>> \o SubSeq(s, i + 1, n)
    BY <1>2, <2>1
  <2>5. w[s[i]] = SubSeq(s, i, n)
    BY <2>2, <2>3, <2>4
  <2> QED BY <2>5 DEF i
<1> HIDE DEF T
<1>7. Nat \subseteq T
  BY <1>5, <1>6, AllNumbers
<1>8. ASSUME NEW i \in 1 .. n PROVE w[s[i]] = SubSeq(s, i, n)
  <2>1. n - i \in Nat /\ n - i < n /\ n - (n - i) = i
    BY <1>1
  <2> QED BY <1>7, <2>1 DEF T
<1> QED BY <1>8 DEF n
==============================================================================
