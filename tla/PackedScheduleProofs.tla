------------------------ MODULE PackedScheduleProofs ------------------------
(***************************************************************************)
(* The partition of a global batch order over the ranks, for every order   *)
(* and every number of ranks; that the global order lists every batch of   *)
(* every shard once and locate() finds it there; and what flattening a     *)
(* sequence of sequences keeps. Induction over a length takes a least      *)
(* counterexample.                                                         *)
(***************************************************************************)
EXTENDS PackedSchedule, SequenceTheorems, FiniteSetTheorems, TLAPS

-----------------------------------------------------------------------------
(* Shares of a sequence                                                     *)

\* Multiplication by a natural keeps the order.
LEMMA Monotone == \A a, b, n \in Nat : a <= b => a * n <= b * n
  OBVIOUS

\* Quotient and remainder.
LEMMA Division ==
  ASSUME NEW a \in Nat, NEW w \in Nat \ {0}
  PROVE  /\ a \div w \in Nat /\ a % w \in 0..(w - 1)
         /\ a = (a \div w) * w + (a % w)
  OBVIOUS

\* What is retained are whole shares.
LEMMA WholeShares ==
  ASSUME NEW S, NEW order \in Seq(S), NEW world \in Nat \ {0}
  PROVE  /\ PerRank(order, world) \in Nat
         /\ Retained(order, world) = world * PerRank(order, world)
         /\ Retained(order, world) \in 0..Len(order)
         /\ Len(order) < Retained(order, world) + world
<1> DEFINE L == Len(order)  q == L \div world
<1>1. L \in Nat
  BY LenProperties
<1>2. q \in Nat /\ L % world \in 0..(world - 1) /\ L = q * world + (L % world)
  BY <1>1, Division
<1>3. Retained(order, world) = q * world
  BY <1>1, <1>2 DEF Retained
<1>4. (q * world) \div world = q
  BY <1>2
<1>5. PerRank(order, world) = q
  BY <1>3, <1>4 DEF PerRank
<1> QED
  BY <1>1, <1>2, <1>3, <1>5

\* The share of a rank lies within what is retained.
LEMMA Within ==
  ASSUME NEW S, NEW order \in Seq(S), NEW world \in Nat \ {0},
         NEW rank \in 0..(world - 1)
  PROVE  /\ PerRank(order, world) \in Nat
         /\ rank * PerRank(order, world) \in Nat
         /\ rank * PerRank(order, world) + PerRank(order, world) <= Len(order)
<1> DEFINE n == PerRank(order, world)
<1>1. /\ n \in Nat /\ Retained(order, world) = world * n
      /\ Retained(order, world) \in 0..Len(order) /\ Len(order) \in Nat
  BY WholeShares, LenProperties
<1>2. (rank + 1) * n <= world * n
  BY <1>1, Monotone
<1>3. (rank + 1) * n = rank * n + n /\ rank * n \in Nat
  BY <1>1
<1>4. world * n <= Len(order)
  BY <1>1
<1> HIDE DEF n
<1>5. rank * n \in Nat /\ rank * n + n <= Len(order)
  BY <1>1, <1>2, <1>3, <1>4
<1> QED
  BY <1>1, <1>5 DEF n

\* The k-th batch of a rank, by its place in the global order.
LEMMA ShareItems ==
  ASSUME NEW S, NEW order \in Seq(S), NEW world \in Nat \ {0},
         NEW rank \in 0..(world - 1)
  PROVE  LET n == PerRank(order, world)
         IN /\ Len(RankBatches(order, world, rank)) = n
            /\ \A k \in 1..n :
                 RankBatches(order, world, rank)[k] = order[rank * n + k]
<1> DEFINE n == PerRank(order, world)
           b == rank * n
<1>1. n \in Nat /\ b \in Nat /\ b + n <= Len(order)
  BY Within
<1>2. RankBatches(order, world, rank) = SubSeq(order, b + 1, b + n)
  BY DEF RankBatches
<1> HIDE DEF n, b
<1>3. \A i \in (b + 1)..(b + n) : order[i] \in S
  BY <1>1, ElementOfSeq
<1>4. /\ Len(SubSeq(order, b + 1, b + n)) =
           IF b + 1 <= b + n THEN (b + n) - (b + 1) + 1 ELSE 0
      /\ \A k \in 1..((b + n) - (b + 1) + 1) :
           SubSeq(order, b + 1, b + n)[k] = order[(b + 1) + k - 1]
  <2>1. b + 1 \in Int /\ b + n \in Int
    BY <1>1
  <2> QED
    BY <1>3, <2>1, SubSeqProperties
<1>5. (b + n) - (b + 1) + 1 = n /\ (b + 1 <= b + n <=> n # 0)
  BY <1>1
<1>6. \A k \in 1..n : (b + 1) + k - 1 = b + k
  BY <1>1
<1>7. /\ Len(RankBatches(order, world, rank)) = n
      /\ \A k \in 1..n : RankBatches(order, world, rank)[k] = order[b + k]
  BY <1>1, <1>2, <1>4, <1>5, <1>6
<1> QED
  BY <1>7 DEF n, b

\* A share is a sequence of what the order lists.
LEMMA ShareSeq ==
  ASSUME NEW S, NEW order \in Seq(S), NEW world \in Nat \ {0},
         NEW rank \in 0..(world - 1)
  PROVE  RankBatches(order, world, rank) \in Seq(S)
<1> DEFINE n == PerRank(order, world)
           b == rank * n
<1>1. n \in Nat /\ b \in Nat /\ b + n <= Len(order) /\ Len(order) \in Nat
  BY Within, LenProperties
<1>2. RankBatches(order, world, rank) = SubSeq(order, b + 1, b + n)
  BY DEF RankBatches
<1> HIDE DEF n, b
<1>3. \A i \in (b + 1)..(b + n) : order[i] \in S
  BY <1>1, ElementOfSeq
<1>4. b + 1 \in Int /\ b + n \in Int
  BY <1>1
<1>5. SubSeq(order, b + 1, b + n) \in Seq(S)
  BY <1>3, <1>4, SubSeqProperties
<1> QED
  BY <1>2, <1>5

\* Every place below world * n is one of n places of some rank.
LEMMA PlaceOfRank ==
  ASSUME NEW n \in Nat \ {0}, NEW world \in Nat, NEW i \in Nat \ {0},
         i <= world * n
  PROVE  \E r \in 0..(world - 1) : \E k \in 1..n : r * n + k = i
<1>1. PICK r \in Nat, m \in 0..(n - 1) : i - 1 = r * n + m
  <2>1. i - 1 \in Nat
    OBVIOUS
  <2> QED
    BY <2>1, Division
<1>2. r < world
  <2>1. SUFFICES ASSUME world <= r PROVE FALSE
    BY <1>1
  <2>2. world * n <= r * n
    BY <1>1, <2>1, Monotone
  <2>3. r * n \in Nat /\ world * n \in Nat
    BY <1>1
  <2> QED
    BY <1>1, <2>2, <2>3
<1>3. r * n + (m + 1) = i /\ m + 1 \in 1..n
  <2>1. r * n \in Nat
    BY <1>1
  <2> QED
    BY <1>1, <2>1
<1> QED
  BY <1>1, <1>2, <1>3

\* All ranks own the same number of batches, so that none of them runs out of
\* data while its peers wait in a collective (plan_packed_batch_partition).
THEOREM EqualShares ==
  ASSUME NEW S, NEW order \in Seq(S), NEW world \in Nat \ {0},
         NEW r \in 0..(world - 1), NEW q \in 0..(world - 1)
  PROVE  Len(RankBatches(order, world, r)) = Len(RankBatches(order, world, q))
BY ShareItems

\* Two ranks never own the same place of the global order; when no batch comes
\* twice in it, they never read the same batch.
THEOREM DisjointShares ==
  ASSUME NEW S, NEW order \in Seq(S), NEW world \in Nat \ {0},
         \A i, j \in 1..Len(order) : i # j => order[i] # order[j],
         NEW r \in 0..(world - 1), NEW q \in 0..(world - 1), r < q
  PROVE  \A i \in 1..Len(RankBatches(order, world, r)) :
         \A j \in 1..Len(RankBatches(order, world, q)) :
           RankBatches(order, world, r)[i] # RankBatches(order, world, q)[j]
<1> DEFINE n == PerRank(order, world)
           a == r * n
           b == q * n
<1>1. n \in Nat /\ a \in Nat /\ b \in Nat /\ b + n <= Len(order)
  BY Within
<1>2. Len(order) \in Nat
  BY LenProperties
<1>3. a + n <= b
  <2>1. (r + 1) * n <= q * n
    BY <1>1, Monotone
  <2>2. (r + 1) * n = r * n + n
    BY <1>1
  <2> QED
    BY <2>1, <2>2
<1>4. /\ Len(RankBatches(order, world, r)) = n
      /\ Len(RankBatches(order, world, q)) = n
      /\ \A k \in 1..n : RankBatches(order, world, r)[k] = order[a + k]
      /\ \A k \in 1..n : RankBatches(order, world, q)[k] = order[b + k]
  BY ShareItems
<1> HIDE DEF n, a, b
<1>5. SUFFICES ASSUME NEW i \in 1..n, NEW j \in 1..n
               PROVE  order[a + i] # order[b + j]
  BY <1>4
<1>6. a + i \in 1..Len(order) /\ b + j \in 1..Len(order) /\ a + i # b + j
  BY <1>1, <1>2, <1>3
<1> QED
  BY <1>6

\* No batch is lost: each belongs to a rank, or to the remainder that the plan
\* lists as dropped, which is shorter than one batch per rank.
THEOREM CompleteShares ==
  ASSUME NEW S, NEW order \in Seq(S), NEW world \in Nat \ {0},
         NEW i \in 1..Len(order)
  PROVE  \/ \E r \in 0..(world - 1) :
              \E k \in 1..Len(RankBatches(order, world, r)) :
                RankBatches(order, world, r)[k] = order[i]
         \/ /\ i > Retained(order, world)
            /\ i - Retained(order, world) < world
<1> DEFINE n == PerRank(order, world)
           R == Retained(order, world)
<1>1. /\ n \in Nat /\ R = world * n /\ R \in 0..Len(order)
      /\ Len(order) < R + world /\ Len(order) \in Nat
  BY WholeShares, LenProperties
<1>2. CASE i > R
  BY <1>1, <1>2
<1>3. CASE i <= R
  <2>1. n # 0
    BY <1>1, <1>3
  <2>2. PICK r \in 0..(world - 1), k \in 1..n : r * n + k = i
    <3>1. /\ n \in Nat \ {0} /\ world \in Nat /\ i \in Nat \ {0}
          /\ i <= world * n
      BY <1>1, <1>3, <2>1
    <3> HIDE DEF n
    <3> QED
      BY <3>1, PlaceOfRank
  <2>3. /\ Len(RankBatches(order, world, r)) = n
        /\ RankBatches(order, world, r)[k] = order[i]
    BY <2>2, ShareItems
  <2> QED
    BY <2>2, <2>3
<1> QED
  BY <1>1, <1>2, <1>3

-----------------------------------------------------------------------------
(* What a flattened sequence is                                             *)

\* A non-empty set of numbers has a least one.
LEMMA LeastNumber ==
  ASSUME NEW S, S \subseteq Nat, S # {}
  PROVE  \E n \in S : \A m \in S : n <= m
<1> DEFINE R == {p \in Nat \X Nat : p[1] < p[2]}
<1>1. IsWellFoundedOn(R, Nat)
  BY NatLessThanWellFounded DEF OpToRel
<1>2. \E n \in S : \A m \in S : <<m, n>> \notin R
  <2> HIDE DEF R
  <2> QED
    BY <1>1, WFMin
<1>3. \A m, n \in Nat : <<m, n>> \notin R => n <= m
  OBVIOUS
<1> QED
  BY <1>2, <1>3

\* A set of numbers that holds 0 and with a number the next holds them all.
LEMMA AllNumbers ==
  ASSUME NEW S, 0 \in S, \A n \in S \cap Nat : n + 1 \in S
  PROVE  Nat \subseteq S
<1> SUFFICES ASSUME Nat \ S # {} PROVE FALSE
  OBVIOUS
<1>1. PICK n \in Nat \ S : \A m \in Nat \ S : n <= m
  BY LeastNumber
<1>2. n - 1 \in Nat /\ n - 1 + 1 = n /\ ~ n <= n - 1
  BY <1>1
<1>3. n - 1 \in S
  BY <1>1, <1>2
<1> QED
  BY <1>1, <1>2, <1>3

\* f flattens the first n sequences of s, one by one.
Flattens(f, s, n) ==
  f = [i \in 1..n |-> IF i = 1 THEN s[i] ELSE f[i - 1] \o s[i]]

\* The prefixes of a sequence of sequences can be joined one by one.
LEMMA FlattensExist ==
  ASSUME NEW s
  PROVE  \A n \in Nat : \E f : Flattens(f, s, n)
<1> DEFINE N == {n \in Nat : \E f : Flattens(f, s, n)}
<1>1. 0 \in N
  <2>1. Flattens([i \in 1..0 |-> 0], s, 0)
    BY DEF Flattens
  <2> QED
    BY <2>1
<1>2. ASSUME NEW n \in N PROVE n + 1 \in N
  <2>1. PICK f : Flattens(f, s, n)
    BY <1>2
  <2> DEFINE last == IF n = 0 THEN s[1] ELSE f[n] \o s[n + 1]
             g == [i \in 1..(n + 1) |-> IF i = n + 1 THEN last ELSE f[i]]
  <2>2. \A i \in 1..n : g[i] = f[i]
    OBVIOUS
  <2>3. g[n + 1] = last
    OBVIOUS
  <2>4. \A i \in 1..n : f[i] = IF i = 1 THEN s[i] ELSE f[i - 1] \o s[i]
    BY <2>1 DEF Flattens
  <2>5. \A i \in 1..(n + 1) :
          g[i] = IF i = 1 THEN s[i] ELSE g[i - 1] \o s[i]
    <3> TAKE i \in 1..(n + 1)
    <3>1. CASE i = n + 1
      BY <2>2, <2>3, <3>1
    <3>2. CASE i # n + 1
      <4>1. i \in 1..n /\ (i # 1 => i - 1 \in 1..n)
        BY <3>2
      <4> HIDE DEF g
      <4> QED
        BY <2>2, <2>4, <4>1
    <3> QED
      BY <3>1, <3>2
  <2>6. g = [i \in 1..(n + 1) |-> g[i]]
    OBVIOUS
  <2> HIDE DEF g
  <2>7. Flattens(g, s, n + 1)
    BY <2>5, <2>6 DEF Flattens
  <2> QED
    BY <2>7
<1>3. Nat \subseteq N
  <2> HIDE DEF N
  <2>1. \A n \in N \cap Nat : n + 1 \in N
    BY <1>2
  <2> QED
    BY <1>1, <2>1, AllNumbers
<1> QED
  BY <1>3

\* FlattenSeq is the last of those prefixes.
LEMMA FlattenedBy ==
  ASSUME NEW s, Len(s) \in Nat \ {0}
  PROVE  \E f : Flattens(f, s, Len(s)) /\ FlattenSeq(s) = f[Len(s)]
<1> DEFINE f == CHOOSE f : Flattens(f, s, Len(s))
<1>1. Flattens(f, s, Len(s))
  BY FlattensExist
<1>2. FlattenSeq(s) = f[Len(s)]
  BY DEF FlattenSeq, Flattens
<1> HIDE DEF f
<1> QED
  BY <1>1, <1>2

\* A prefix is the one before it with one more member joined to it.
LEMMA FlattenNext ==
  ASSUME NEW S, NEW s \in Seq(Seq(S)), NEW f, Flattens(f, s, Len(s)),
         NEW k \in 1..Len(s), k + 1 \in 1..Len(s), f[k] \in Seq(S)
  PROVE  /\ f[k + 1] = f[k] \o s[k + 1]
         /\ f[k + 1] \in Seq(S) /\ Len(f[k]) <= Len(f[k + 1])
<1>1. k + 1 # 1 /\ (k + 1) - 1 = k
  OBVIOUS
<1>2. f[k + 1] = f[(k + 1) - 1] \o s[k + 1]
  BY <1>1 DEF Flattens
<1>3. f[k + 1] = f[k] \o s[k + 1]
  BY <1>1, <1>2
<1>4. PICK u \in Seq(S), v \in Seq(S) : u = f[k] /\ v = s[k + 1]
  OBVIOUS
<1>5. /\ u \o v \in Seq(S) /\ Len(u \o v) = Len(u) + Len(v)
      /\ Len(u) \in Nat /\ Len(v) \in Nat
  OBVIOUS
<1>6. u \o v \in Seq(S) /\ Len(u) <= Len(u \o v)
  BY <1>5
<1> QED
  BY <1>3, <1>4, <1>6

\* Flattening sequences over S gives one, as long as the first at least.
LEMMA FlattenType ==
  ASSUME NEW S, NEW s \in Seq(Seq(S))
  PROVE  /\ FlattenSeq(s) \in Seq(S)
         /\ s # <<>> => Len(s[1]) <= Len(FlattenSeq(s))
<1>1. CASE s = <<>>
  BY <1>1 DEF FlattenSeq
<1>2. CASE s # <<>>
  <2>1. Len(s) \in Nat \ {0} /\ \A i \in 1..Len(s) : s[i] \in Seq(S)
    BY <1>2
  <2>2. PICK f : Flattens(f, s, Len(s)) /\ FlattenSeq(s) = f[Len(s)]
    BY <2>1, FlattenedBy
  <2>3. \A i \in 1..Len(s) :
          f[i] = IF i = 1 THEN s[i] ELSE f[i - 1] \o s[i]
    BY <2>2 DEF Flattens
  <2> DEFINE N == {n \in Nat : n + 1 \in 1..Len(s) =>
                     f[n + 1] \in Seq(S) /\ Len(s[1]) <= Len(f[n + 1])}
  <2>4. 0 \in N
    BY <2>1, <2>3
  <2>5. ASSUME NEW n \in N PROVE n + 1 \in N
    <3> DEFINE k == n + 1
    <3> SUFFICES ASSUME k + 1 \in 1..Len(s)
                 PROVE  f[k + 1] \in Seq(S) /\ Len(s[1]) <= Len(f[k + 1])
      BY <2>5
    <3>1. /\ k \in Nat /\ k \in 1..Len(s)
          /\ f[k] \in Seq(S) /\ Len(s[1]) <= Len(f[k])
      BY <2>1, <2>5
    <3> HIDE DEF N, k
    <3>2. f[k + 1] \in Seq(S) /\ Len(f[k]) <= Len(f[k + 1])
      BY <2>2, <3>1, FlattenNext
    <3>3. Len(s[1]) \in Nat /\ Len(f[k]) \in Nat /\ Len(f[k + 1]) \in Nat
      BY <2>1, <3>1, <3>2
    <3> QED
      BY <3>1, <3>2, <3>3
  <2>6. Nat \subseteq N
    <3> HIDE DEF N
    <3> QED
      BY <2>4, <2>5, AllNumbers
  <2>7. Len(s) - 1 \in Nat /\ Len(s) - 1 + 1 = Len(s) /\ Len(s) \in 1..Len(s)
    BY <2>1
  <2>8. f[Len(s)] \in Seq(S) /\ Len(s[1]) <= Len(f[Len(s)])
    BY <2>6, <2>7
  <2> QED
    BY <2>2, <2>8
<1> QED
  BY <1>1, <1>2

-----------------------------------------------------------------------------
(* Running totals                                                           *)

\* C is the running total of the first n numbers of c.
Sums(C, c, n) == C = [s \in 0..n |-> IF s = 0 THEN 0 ELSE C[s - 1] + c[s]]

\* A running total can be had step by step.
LEMMA SumsExist ==
  ASSUME NEW c
  PROVE  \A n \in Nat : \E C : Sums(C, c, n)
<1> DEFINE N == {n \in Nat : \E C : Sums(C, c, n)}
<1>1. 0 \in N
  <2>1. Sums([s \in 0..0 |-> 0], c, 0)
    BY DEF Sums
  <2> QED
    BY <2>1
<1>2. ASSUME NEW n \in N PROVE n + 1 \in N
  <2>1. PICK C : Sums(C, c, n)
    BY <1>2
  <2> DEFINE last == C[n] + c[n + 1]
             D == [s \in 0..(n + 1) |-> IF s = n + 1 THEN last ELSE C[s]]
  <2>2. \A s \in 0..n : D[s] = C[s]
    OBVIOUS
  <2>3. D[n + 1] = last
    OBVIOUS
  <2>4. \A s \in 0..n : C[s] = IF s = 0 THEN 0 ELSE C[s - 1] + c[s]
    BY <2>1 DEF Sums
  <2>5. D = [s \in 0..(n + 1) |-> D[s]]
    OBVIOUS
  <2>6. \A s \in 0..(n + 1) : D[s] = IF s = 0 THEN 0 ELSE D[s - 1] + c[s]
    <3> TAKE s \in 0..(n + 1)
    <3>1. CASE s = n + 1
      <4>1. s # 0 /\ s - 1 = n /\ n \in 0..n
        BY <1>2, <3>1
      <4> HIDE DEF D
      <4> QED
        BY <2>2, <2>3, <3>1, <4>1
    <3>2. CASE s # n + 1
      <4>1. s \in 0..n /\ (s # 0 => s - 1 \in 0..n)
        BY <1>2, <3>2
      <4> HIDE DEF D
      <4> QED
        BY <2>2, <2>4, <4>1
    <3> QED
      BY <3>1, <3>2
  <2> HIDE DEF D
  <2>7. Sums(D, c, n + 1)
    BY <2>5, <2>6 DEF Sums
  <2> QED
    BY <1>2, <2>7
<1>3. Nat \subseteq N
  <2> HIDE DEF N
  <2>1. \A n \in N \cap Nat : n + 1 \in N
    BY <1>2
  <2> QED
    BY <1>1, <2>1, AllNumbers
<1> QED
  BY <1>3

\* What _cumulative_batches computes: each total is the one before it and one
\* shard more.
LEMMA CumulativeIs ==
  ASSUME NEW c \in Seq(Nat)
  PROVE  LET C == Cumulative(c)
         IN /\ C[0] = 0
            /\ \A s \in 0..Len(c) : C[s] \in Nat
            /\ \A s \in 1..Len(c) : C[s] = C[s - 1] + c[s]
<1> DEFINE C == Cumulative(c)
           n == Len(c)
<1>1. n \in Nat /\ \A s \in 1..n : c[s] \in Nat
  BY LenProperties, ElementOfSeq
<1>2. Sums(C, c, n)
  <2>1. PICK D : Sums(D, c, n)
    BY <1>1, SumsExist
  <2> QED
    BY <2>1 DEF Cumulative, Sums
<1> HIDE DEF C
<1>3. \A s \in 0..n : C[s] = IF s = 0 THEN 0 ELSE C[s - 1] + c[s]
  BY <1>2 DEF Sums
<1>4. C[0] = 0 /\ \A s \in 1..n : C[s] = C[s - 1] + c[s]
  BY <1>1, <1>3
<1> DEFINE N == {s \in Nat : s \in 0..n => C[s] \in Nat}
<1>5. 0 \in N
  BY <1>4
<1>6. ASSUME NEW s \in N PROVE s + 1 \in N
  <2> SUFFICES ASSUME s + 1 \in 0..n PROVE C[s + 1] \in Nat
    BY <1>6
  <2>1. s \in 0..n /\ s + 1 \in 1..n /\ (s + 1) - 1 = s
    BY <1>1, <1>6
  <2>2. C[s + 1] = C[s] + c[s + 1]
    BY <1>4, <2>1
  <2> QED
    BY <1>1, <1>6, <2>1, <2>2
<1>7. Nat \subseteq N
  <2> HIDE DEF N
  <2> QED
    BY <1>5, <1>6, AllNumbers
<1> QED
  BY <1>1, <1>4, <1>7 DEF C

\* The total is a number.
LEMMA TotalType == \A c \in Seq(Nat) : Total(c) \in Nat
<1> TAKE c \in Seq(Nat)
<1>1. Len(c) \in 0..Len(c)
  BY LenProperties
<1> QED
  BY <1>1, CumulativeIs DEF Total

\* A running total does not fall.
LEMMA CumulativeGrows ==
  ASSUME NEW c \in Seq(Nat), NEW s \in 0..Len(c), NEW t \in 0..Len(c), s <= t
  PROVE  Cumulative(c)[s] <= Cumulative(c)[t]
<1> DEFINE C == Cumulative(c)
           n == Len(c)
           N == {k \in Nat : s + k \in 0..n => C[s] <= C[s + k]}
<1>1. n \in Nat /\ \A k \in 1..n : c[k] \in Nat
  BY LenProperties, ElementOfSeq
<1>2. /\ \A k \in 0..n : C[k] \in Nat
      /\ \A k \in 1..n : C[k] = C[k - 1] + c[k]
  BY CumulativeIs
<1> HIDE DEF C
<1>3. 0 \in N
  BY <1>1, <1>2
<1>4. ASSUME NEW k \in N PROVE k + 1 \in N
  <2> SUFFICES ASSUME s + (k + 1) \in 0..n PROVE C[s] <= C[s + (k + 1)]
    BY <1>4
  <2>1. PICK m \in 1..n : m = s + (k + 1) /\ m - 1 = s + k /\ m - 1 \in 0..n
    BY <1>1, <1>4
  <2>2. C[s] <= C[m - 1]
    BY <1>4, <2>1
  <2>3. C[m] = C[m - 1] + c[m] /\ c[m] \in Nat /\ C[m - 1] \in Nat
        /\ C[s] \in Nat
    BY <1>1, <1>2, <2>1
  <2> QED
    BY <2>1, <2>2, <2>3
<1>5. Nat \subseteq N
  <2> HIDE DEF N
  <2> QED
    BY <1>3, <1>4, AllNumbers
<1>6. t - s \in Nat /\ s + (t - s) = t
  BY <1>1
<1> QED
  BY <1>5, <1>6 DEF C

\* Every number up to the total lies in one part, and in one only.
LEMMA InOnePart ==
  ASSUME NEW c \in Seq(Nat), NEW i \in 1..Total(c)
  PROVE  \E a \in 1..Len(c) : \E b \in 1..c[a] :
           i = Cumulative(c)[a - 1] + b
<1> DEFINE C == Cumulative(c)
           n == Len(c)
           R == {s \in 0..n : i <= C[s]}
<1>1. n \in Nat /\ \A k \in 1..n : c[k] \in Nat
  BY LenProperties, ElementOfSeq
<1>2. /\ C[0] = 0 /\ \A k \in 0..n : C[k] \in Nat
      /\ \A k \in 1..n : C[k] = C[k - 1] + c[k]
  BY CumulativeIs
<1>3. i \in Nat \ {0} /\ i <= C[n]
  BY <1>1, <1>2 DEF Total
<1> HIDE DEF C
<1>4. n \in R /\ R \subseteq Nat /\ R # {}
  BY <1>1, <1>3
<1>5. PICK a \in R : \A s \in R : a <= s
  <2> HIDE DEF R
  <2> QED
    BY <1>4, LeastNumber
<1>6. a # 0 /\ a \in 1..n /\ a - 1 \in 0..n
  BY <1>1, <1>2, <1>3, <1>5
<1>7. a - 1 \notin R
  BY <1>1, <1>5, <1>6
<1>8. ~ i <= C[a - 1]
  BY <1>6, <1>7
<1>9. i <= C[a] /\ C[a] = C[a - 1] + c[a] /\ C[a - 1] \in Nat
      /\ c[a] \in Nat
  BY <1>1, <1>2, <1>5, <1>6
<1>10. i - C[a - 1] \in 1..c[a] /\ i = C[a - 1] + (i - C[a - 1])
  BY <1>3, <1>8, <1>9
<1> QED
  BY <1>6, <1>10 DEF C

\* The part a number lies in is the only one.
LEMMA InNoOther ==
  ASSUME NEW c \in Seq(Nat), NEW a \in 1..Len(c), NEW e \in 1..Len(c),
         NEW b \in 1..c[a], NEW d \in 1..c[e],
         Cumulative(c)[a - 1] + b = Cumulative(c)[e - 1] + d
  PROVE  a = e /\ b = d
<1> DEFINE C == Cumulative(c)
           n == Len(c)
<1>1. n \in Nat /\ c[a] \in Nat /\ c[e] \in Nat
  BY LenProperties, ElementOfSeq
<1>2. /\ \A k \in 0..n : C[k] \in Nat
      /\ \A k \in 1..n : C[k] = C[k - 1] + c[k]
  BY CumulativeIs
<1>3. a - 1 \in 0..n /\ e - 1 \in 0..n /\ a \in 0..n /\ e \in 0..n
  BY <1>1
<1>4. a < e => C[a] <= C[e - 1]
  BY <1>1, <1>3, CumulativeGrows
<1>5. e < a => C[e] <= C[a - 1]
  BY <1>1, <1>3, CumulativeGrows
<1>6. /\ C[a] = C[a - 1] + c[a] /\ C[e] = C[e - 1] + c[e]
      /\ C[a - 1] \in Nat /\ C[e - 1] \in Nat
      /\ C[a - 1] + b = C[e - 1] + d
  BY <1>2, <1>3
<1> HIDE DEF C
<1>7. ~ a < e /\ ~ e < a
  <2>1. \A x, y \in Nat : x + b = y + d => ~ x + c[a] <= y /\ ~ y + c[e] <= x
    BY <1>1
  <2> QED
    BY <1>4, <1>5, <1>6, <2>1
<1>8. a = e
  BY <1>1, <1>7
<1> QED
  BY <1>1, <1>6, <1>8

\* locate() finds the shard a batch is in, its number there and the place of
\* its first token.
THEOREM LocateIs ==
  ASSUME NEW c \in Seq(Nat), NEW size, NEW a \in 1..Len(c),
         NEW j \in 0..(c[a] - 1)
  PROVE  Locate(c, size, Cumulative(c)[a - 1] + j) =
           [shard |-> a, local |-> j, offset |-> j * size]
<1> DEFINE C == Cumulative(c)
           n == Len(c)
           batch == C[a - 1] + j
           Is(s) == C[s] > batch /\ \A t \in 1..(s - 1) : C[t] <= batch
           at == CHOOSE s \in 1..n : Is(s)
<1>1. n \in Nat /\ c[a] \in Nat
  BY LenProperties, ElementOfSeq
<1>2. /\ \A k \in 0..n : C[k] \in Nat
      /\ \A k \in 1..n : C[k] = C[k - 1] + c[k]
  BY CumulativeIs
<1>3. /\ \A t \in 1..(a - 1) : C[t] <= C[a - 1]
      /\ C[a] = C[a - 1] + c[a] /\ C[a - 1] \in Nat
  <2>1. a - 1 \in 0..n /\ 1..(a - 1) \subseteq 0..n
    BY <1>1
  <2> QED
    BY <1>2, <2>1, CumulativeGrows
<1> HIDE DEF C
<1>4. batch \in Nat /\ C[a - 1] <= batch /\ batch < C[a]
      /\ batch - C[a - 1] = j
  BY <1>1, <1>3
<1> HIDE DEF batch
<1>5. \A t \in 1..(a - 1) : C[t] <= batch
  <2>1. \A t \in 1..(a - 1) : C[t] \in Nat
    BY <1>1, <1>2
  <2> QED
    BY <1>3, <1>4, <2>1
<1>6. Is(a)
  BY <1>2, <1>4, <1>5
<1>7. ASSUME NEW s \in 1..n, Is(s) PROVE s = a
  <2>1. ~ s < a
    <3> SUFFICES ASSUME s < a PROVE FALSE
      OBVIOUS
    <3>1. s \in 1..(a - 1)
      BY <1>1
    <3>2. C[s] <= batch /\ C[s] > batch /\ C[s] \in Nat
      BY <1>1, <1>2, <1>5, <1>7, <3>1
    <3> QED
      BY <1>4, <3>2
  <2>2. ~ a < s
    <3> SUFFICES ASSUME a < s PROVE FALSE
      OBVIOUS
    <3>1. a \in 1..(s - 1)
      BY <1>1
    <3>2. C[a] <= batch /\ C[a] \in Nat
      BY <1>1, <1>2, <1>7, <3>1
    <3> QED
      BY <1>4, <3>2
  <2> QED
    BY <1>1, <2>1, <2>2
<1>8. at = a
  BY <1>6, <1>7
<1>9. Locate(c, size, batch) =
        [shard |-> at, local |-> batch - C[at - 1],
         offset |-> (batch - C[at - 1]) * size]
  BY DEF Locate, C
<1> HIDE DEF at, Is
<1>10. Locate(c, size, batch) = [shard |-> a, local |-> j, offset |-> j * size]
  BY <1>4, <1>8, <1>9
<1> QED
  BY <1>10 DEF batch, C

-----------------------------------------------------------------------------
(* The items of a flattened sequence                                        *)

\* The lengths of the sequences in s.
Lengths(s) == [k \in 1..Len(s) |-> Len(s[k])]

\* Lengths are numbers.
LEMMA LengthsType ==
  ASSUME NEW S, NEW s \in Seq(Seq(S))
  PROVE  /\ Lengths(s) \in Seq(Nat) /\ Len(Lengths(s)) = Len(s)
         /\ \A k \in 1..Len(s) : Lengths(s)[k] = Len(s[k])
<1>1. Len(s) \in Nat /\ \A k \in 1..Len(s) : s[k] \in Seq(S)
  BY LenProperties, ElementOfSeq
<1>2. \A k \in 1..Len(s) : Len(s[k]) \in Nat
  BY <1>1
<1> QED
  BY <1>1, <1>2 DEF Lengths

\* The b-th item of the a-th sequence of s stands behind all items of the
\* sequences before it.
LEMMA FlattenItems ==
  ASSUME NEW S, NEW s \in Seq(Seq(S))
  PROVE  LET C == Cumulative(Lengths(s))
         IN /\ Len(FlattenSeq(s)) = Total(Lengths(s))
            /\ \A a \in 1..Len(s) : \A b \in 1..Len(s[a]) :
                 FlattenSeq(s)[C[a - 1] + b] = s[a][b]
<1> DEFINE c == Lengths(s)
           C == Cumulative(c)
           n == Len(s)
<1>1. /\ n \in Nat /\ Len(c) = n /\ c \in Seq(Nat)
      /\ \A k \in 1..n : s[k] \in Seq(S) /\ Len(s[k]) \in Nat
      /\ \A k \in 1..n : c[k] = Len(s[k])
  <2>1. n \in Nat /\ \A k \in 1..n : s[k] \in Seq(S)
    BY LenProperties, ElementOfSeq
  <2> QED
    BY <2>1, LengthsType, LenProperties
<1> HIDE DEF c
<1>2. /\ C[0] = 0 /\ \A k \in 0..n : C[k] \in Nat
      /\ \A k \in 1..n : C[k] = C[k - 1] + Len(s[k])
  BY <1>1, CumulativeIs
<1>3. \A a, k \in 0..n : a <= k => C[a] <= C[k]
  BY <1>1, CumulativeGrows
<1>4. Total(c) = C[n]
  BY <1>1 DEF Total
<1> HIDE DEF C
<1>5. CASE s = <<>>
  BY <1>1, <1>2, <1>4, <1>5 DEF FlattenSeq, C, c
<1>6. CASE s # <<>>
  <2>1. n \in Nat \ {0}
    BY <1>1, <1>6
  <2>2. PICK f : Flattens(f, s, n) /\ FlattenSeq(s) = f[n]
    BY <2>1, FlattenedBy
  <2> DEFINE Laid(k) ==
        /\ f[k] \in Seq(S) /\ Len(f[k]) = C[k]
        /\ \A a \in 1..k : \A b \in 1..Len(s[a]) :
             f[k][C[a - 1] + b] = s[a][b]
      N == {m \in Nat : m + 1 \in 1..n => Laid(m + 1)}
  <2>3. 0 \in N
    <3>1. f[1] = s[1]
      BY <2>1, <2>2 DEF Flattens
    <3>2. C[1] = Len(s[1]) /\ C[1 - 1] = 0 /\ s[1] \in Seq(S)
      BY <1>1, <1>2, <2>1
    <3>3. \A a \in 1..1 : a = 1
      OBVIOUS
    <3>4. \A b \in 1..Len(s[1]) : C[1 - 1] + b = b
      BY <3>2
    <3>5. Laid(1)
      BY <3>1, <3>2, <3>3, <3>4
    <3> QED
      BY <3>5
  <2>4. ASSUME NEW m \in N PROVE m + 1 \in N
    <3> DEFINE k == m + 1
    <3> SUFFICES ASSUME k + 1 \in 1..n PROVE Laid(k + 1)
      BY <2>4
    <3>1. k \in Nat /\ k \in 1..n /\ k \in 0..n /\ k + 1 \in 0..n /\ Laid(k)
          /\ (k + 1) - 1 = k
      BY <1>1, <2>4
    <3> HIDE DEF N, k
    <3>2. f[k + 1] = f[k] \o s[k + 1]
      <4>1. k + 1 # 1 /\ k + 1 \in 1..n
        BY <3>1
      <4>2. f[k + 1] = f[(k + 1) - 1] \o s[k + 1]
        BY <2>2, <4>1 DEF Flattens
      <4> QED
        BY <3>1, <4>2
    <3>3. PICK u \in Seq(S), v \in Seq(S) : u = f[k] /\ v = s[k + 1]
      BY <1>1, <3>1
    <3>4. /\ u \o v \in Seq(S) /\ Len(u \o v) = Len(u) + Len(v)
          /\ Len(u) \in Nat /\ Len(v) \in Nat
          /\ \A i \in 1..Len(u) : (u \o v)[i] = u[i]
          /\ \A i \in 1..Len(v) : (u \o v)[Len(u) + i] = v[i]
      OBVIOUS
    <3>5. Len(u) = C[k] /\ C[k + 1] = C[k] + Len(v) /\ f[k + 1] = u \o v
      BY <1>2, <3>1, <3>2, <3>3
    <3>6. ASSUME NEW a \in 1..(k + 1), NEW b \in 1..Len(s[a])
          PROVE  f[k + 1][C[a - 1] + b] = s[a][b]
      <4>1. CASE a = k + 1
        <5>1. a - 1 = k /\ s[a] = v
          BY <3>1, <3>3, <4>1
        <5>2. b \in 1..Len(v) /\ C[a - 1] = Len(u)
          BY <3>5, <5>1
        <5>3. (u \o v)[Len(u) + b] = v[b]
          BY <3>4, <5>2
        <5> QED
          BY <3>5, <5>1, <5>2, <5>3
      <4>2. CASE a # k + 1
        <5>1. /\ a \in 1..k /\ a \in 1..n /\ a \in 0..n
              /\ a - 1 \in 0..n /\ a <= k
          BY <1>1, <3>1, <4>2
        <5>2. /\ C[a] <= C[k] /\ C[a] = C[a - 1] + Len(s[a])
              /\ C[a - 1] \in Nat /\ C[k] \in Nat /\ Len(s[a]) \in Nat
              /\ C[a] \in Nat
          BY <1>1, <1>2, <1>3, <3>1, <5>1
        <5>3. C[a - 1] + b \in 1..Len(u)
          <6>1. PICK x, y, z \in Nat :
                x = C[a - 1] /\ y = Len(s[a]) /\ z = C[k]
            BY <5>2
          <6>2. x + y <= z /\ b \in 1..y /\ Len(u) = z
            BY <3>5, <5>2, <6>1
          <6>3. x + b \in 1..z
            BY <6>2
          <6> QED
            BY <6>1, <6>2, <6>3
        <5>4. u[C[a - 1] + b] = s[a][b]
          BY <3>1, <3>3, <5>1
        <5> QED
          BY <3>4, <3>5, <5>3, <5>4
      <4> QED
        BY <4>1, <4>2
    <3> QED
      BY <3>4, <3>5, <3>6
  <2>5. Nat \subseteq N
    <3> HIDE DEF N
    <3> QED
      BY <2>3, <2>4, AllNumbers
  <2>6. n - 1 \in Nat /\ n - 1 + 1 = n /\ n \in 1..n
    BY <2>1
  <2>7. Laid(n)
    <3> HIDE DEF Laid
    <3>1. n - 1 \in N
      BY <2>5, <2>6
    <3> QED
      BY <2>6, <3>1
  <2> QED
    BY <1>4, <2>2, <2>7 DEF c, C
<1> QED
  BY <1>5, <1>6

-----------------------------------------------------------------------------
(* The global order                                                         *)

\* The numbers of a part are numbers up to the total.
LEMMA PartWithin ==
  ASSUME NEW c \in Seq(Nat), NEW a \in 1..Len(c), NEW b \in 1..c[a]
  PROVE  /\ Cumulative(c)[a - 1] \in Nat
         /\ Cumulative(c)[a - 1] + b \in 1..Total(c)
<1> DEFINE C == Cumulative(c)
           n == Len(c)
<1>1. n \in Nat /\ c[a] \in Nat
  BY LenProperties, ElementOfSeq
<1>2. /\ \A k \in 0..n : C[k] \in Nat
      /\ \A k \in 1..n : C[k] = C[k - 1] + c[k]
  BY CumulativeIs
<1>3. a - 1 \in 0..n /\ a \in 0..n /\ n \in 0..n /\ a <= n
  BY <1>1
<1>4. C[a] <= C[n]
  BY <1>3, CumulativeGrows
<1>5. Total(c) = C[n]
  BY DEF Total
<1> HIDE DEF C
<1>6. PICK x, y, z \in Nat : x = C[a - 1] /\ y = c[a] /\ z = C[n]
  BY <1>1, <1>2, <1>3
<1>7. x + y <= z /\ b \in 1..y
  BY <1>2, <1>4, <1>6
<1>8. x + b \in 1..z
  BY <1>7
<1> QED
  BY <1>5, <1>6, <1>8 DEF C

\* An order of the shards that lists none twice lists them all.
LEMMA Permutes ==
  ASSUME NEW n \in Nat, NEW f \in [1..n -> 1..n],
         \A i, j \in 1..n : i # j => f[i] # f[j]
  PROVE  \A y \in 1..n : \E x \in 1..n : f[x] = y
<1>1. f \in Injection(1..n, 1..n)
  BY DEF Injection, IsInjective
<1>2. IsFiniteSet(1..n)
  BY FS_Interval
<1>3. f \in Surjection(1..n, 1..n)
  BY <1>1, <1>2, FS_Injection
<1> QED
  BY <1>3 DEF Surjection

\* _global_batch_order lists every batch of every shard once.
THEOREM GlobalOrderIs ==
  ASSUME NEW counts \in Seq(Nat),
         NEW shards \in [1..Len(counts) -> 1..Len(counts)],
         \A s, t \in 1..Len(counts) : s # t => shards[s] # shards[t]
  PROVE  LET order == GlobalOrder(counts, shards)
         IN /\ order \in Seq(Nat)
            /\ \A i, j \in 1..Len(order) : i # j => order[i] # order[j]
            /\ {order[i] : i \in 1..Len(order)} = 0..(Total(counts) - 1)
<1> DEFINE n == Len(counts)
           C == Cumulative(counts)
           shard(k) == [j \in 1..counts[shards[k]] |-> C[shards[k] - 1] + j - 1]
           s == [k \in 1..n |-> shard(k)]
           c == Lengths(s)
           D == Cumulative(c)
           order == GlobalOrder(counts, shards)
<1>1. n \in Nat /\ (\A k \in 1..n : counts[k] \in Nat)
      /\ \A k \in 1..n : C[k - 1] \in Nat
  <2>1. n \in Nat /\ \A k \in 1..n : counts[k] \in Nat
    BY LenProperties, ElementOfSeq
  <2>2. \A k \in 1..n : k - 1 \in 0..n
    BY <2>1
  <2> QED
    BY <2>1, <2>2, CumulativeIs
<1>2. Len(shards) = n
  BY <1>1
<1>3. order = FlattenSeq(s)
  BY <1>2 DEF GlobalOrder
<1>4. ASSUME NEW k \in 1..n
      PROVE  /\ shard(k) \in Seq(Nat) /\ Len(shard(k)) = counts[shards[k]]
             /\ \A b \in 1..counts[shards[k]] :
                  shard(k)[b] = C[shards[k] - 1] + b - 1
  <2>1. PICK a \in 1..n : a = shards[k]
    OBVIOUS
  <2>2. PICK x \in Nat, m \in Nat : x = C[a - 1] /\ m = counts[a]
    BY <1>1
  <2>3. shard(k) = [j \in 1..m |-> x + j - 1]
    BY <2>1, <2>2
  <2>4. [j \in 1..m |-> x + j - 1] \in Seq(Nat)
        /\ Len([j \in 1..m |-> x + j - 1]) = m
    OBVIOUS
  <2> QED
    BY <2>1, <2>2, <2>3, <2>4
<1> HIDE DEF C, shard
<1>5. s \in Seq(Seq(Nat)) /\ Len(s) = n /\ \A k \in 1..n : s[k] = shard(k)
  BY <1>1, <1>4
<1> HIDE DEF s
<1>6. /\ c \in Seq(Nat) /\ Len(c) = n
      /\ \A k \in 1..n : c[k] = counts[shards[k]]
  BY <1>4, <1>5, LengthsType
<1>7. order \in Seq(Nat) /\ Len(order) = Total(c)
  BY <1>3, <1>5, FlattenItems, FlattenType
<1>8. ASSUME NEW k \in 1..n, NEW b \in 1..counts[shards[k]]
      PROVE  /\ D[k - 1] + b \in 1..Len(order)
             /\ order[D[k - 1] + b] = C[shards[k] - 1] + b - 1
  <2>1. b \in 1..c[k] /\ k \in 1..Len(c) /\ b \in 1..Len(s[k])
    BY <1>4, <1>5, <1>6
  <2>2. D[k - 1] + b \in 1..Len(order)
    BY <1>6, <1>7, <2>1, PartWithin
  <2>3. order[D[k - 1] + b] = s[k][b]
    BY <1>3, <1>5, <2>1, FlattenItems
  <2> QED
    BY <1>4, <1>5, <2>2, <2>3
<1>9. \A i \in 1..Len(order) : \E k \in 1..n : \E b \in 1..counts[shards[k]] :
        i = D[k - 1] + b
  <2> HIDE DEF c, order
  <2> TAKE i \in 1..Len(order)
  <2>1. i \in 1..Total(c)
    BY <1>7
  <2>2. PICK k \in 1..Len(c) : \E b \in 1..c[k] : i = D[k - 1] + b
    BY <1>6, <2>1, InOnePart
  <2>3. k \in 1..n /\ c[k] = counts[shards[k]]
    BY <1>6, <2>2
  <2> QED
    BY <2>2, <2>3
<1> HIDE DEF c, D, order
<1>10. ASSUME NEW i \in 1..Len(order), NEW j \in 1..Len(order),
              order[i] = order[j]
       PROVE  i = j
  <2>1. PICK k \in 1..n : \E b \in 1..counts[shards[k]] : i = D[k - 1] + b
    BY <1>9
  <2>2. PICK b \in 1..counts[shards[k]] : i = D[k - 1] + b
    BY <2>1
  <2>3. PICK l \in 1..n : \E d \in 1..counts[shards[l]] : j = D[l - 1] + d
    BY <1>9
  <2>4. PICK d \in 1..counts[shards[l]] : j = D[l - 1] + d
    BY <2>3
  <2>5. C[shards[k] - 1] + b - 1 = C[shards[l] - 1] + d - 1
    BY <1>8, <1>10, <2>2, <2>4
  <2>6. shards[k] \in 1..n /\ shards[l] \in 1..n
    OBVIOUS
  <2>7. C[shards[k] - 1] \in Nat /\ C[shards[l] - 1] \in Nat
    BY <1>1, <2>6
  <2>8. C[shards[k] - 1] + b = C[shards[l] - 1] + d
    <3>1. PICK x, y \in Nat : x = C[shards[k] - 1] /\ y = C[shards[l] - 1]
      BY <2>7
    <3>2. x + b - 1 = y + d - 1 /\ b \in Int /\ d \in Int
      BY <2>5, <3>1
    <3>3. x + b = y + d
      BY <3>2
    <3> QED
      BY <3>1, <3>3
  <2>9. shards[k] = shards[l] /\ b = d
    BY <2>6, <2>8, InNoOther DEF C
  <2>10. k = l
    BY <2>9
  <2> QED
    BY <2>2, <2>4, <2>9, <2>10
<1>11. ASSUME NEW i \in 1..Len(order) PROVE order[i] \in 0..(Total(counts) - 1)
  <2>1. PICK k \in 1..n : \E b \in 1..counts[shards[k]] : i = D[k - 1] + b
    BY <1>9
  <2>2. PICK b \in 1..counts[shards[k]] : i = D[k - 1] + b
    BY <2>1
  <2>3. shards[k] \in 1..n
    OBVIOUS
  <2>4. /\ C[shards[k] - 1] \in Nat
        /\ C[shards[k] - 1] + b \in 1..Total(counts)
    BY <2>3, PartWithin DEF C
  <2>5. order[i] = C[shards[k] - 1] + b - 1
    BY <1>8, <2>2
  <2>6. PICK x \in Nat : x = C[shards[k] - 1]
    BY <2>4
  <2>7. x + b \in 1..Total(counts) /\ order[i] = x + b - 1
    BY <2>4, <2>5, <2>6
  <2>8. PICK z \in Nat : z = Total(counts)
    BY TotalType
  <2>9. x + b \in 1..z /\ order[i] = x + b - 1
    BY <2>7, <2>8
  <2>10. order[i] \in 0..(z - 1)
    BY <2>9
  <2> QED
    BY <2>8, <2>10
<1>12. ASSUME NEW x \in 0..(Total(counts) - 1)
       PROVE  \E i \in 1..Len(order) : order[i] = x
  <2>1. x + 1 \in 1..Total(counts)
    <3>1. PICK z \in Nat : z = Total(counts)
      BY TotalType
    <3>2. x \in 0..(z - 1)
      BY <3>1
    <3>3. x + 1 \in 1..z
      BY <3>2
    <3> QED
      BY <3>1, <3>3
  <2>2. PICK a \in 1..n : \E b \in 1..counts[a] : x + 1 = C[a - 1] + b
    BY <2>1, InOnePart DEF C
  <2>3. PICK b \in 1..counts[a] : x + 1 = C[a - 1] + b
    BY <2>2
  <2>4. PICK k \in 1..n : shards[k] = a
    BY <1>1, Permutes
  <2>5. /\ D[k - 1] + b \in 1..Len(order)
        /\ order[D[k - 1] + b] = C[a - 1] + b - 1
    BY <1>8, <2>4
  <2>6. C[a - 1] \in Nat
    BY <1>1
  <2>7. C[a - 1] + b - 1 = x
    BY <2>3, <2>6
  <2> QED
    BY <2>5, <2>7
<1>13. {order[i] : i \in 1..Len(order)} = 0..(Total(counts) - 1)
  BY <1>11, <1>12
<1> QED
  BY <1>7, <1>10, <1>13 DEF order

\* What a sequence lists.
Items(s) == {s[i] : i \in 1..Len(s)}

\* The shares of the ranks and what is dropped are what the order lists.
LEMMA SharesCover ==
  ASSUME NEW S, NEW order \in Seq(S), NEW world \in Nat \ {0}
  PROVE  (UNION {Items(RankBatches(order, world, r)) : r \in 0..(world - 1)})
           \union Items(Dropped(order, world)) = Items(order)
<1> DEFINE R == Retained(order, world)
           n == PerRank(order, world)
           L == Len(order)
<1>1. n \in Nat /\ R \in Nat /\ L \in Nat /\ R <= L
  BY WholeShares, LenProperties
<1>2. ASSUME NEW r \in 0..(world - 1)
      PROVE  Items(RankBatches(order, world, r)) \subseteq Items(order)
  <2>1. PICK b \in Nat : b = r * n /\ b + n <= L
    BY Within
  <2>2. /\ Len(RankBatches(order, world, r)) = n
        /\ \A k \in 1..n : RankBatches(order, world, r)[k] = order[b + k]
    BY <2>1, ShareItems
  <2> HIDE DEF n, L
  <2>3. \A k \in 1..n : b + k \in 1..L
    BY <1>1, <2>1
  <2> QED
    BY <2>2, <2>3 DEF L, Items
<1>3. /\ Len(Dropped(order, world)) = L - R
      /\ \A k \in 1..(L - R) : Dropped(order, world)[k] = order[R + k]
  <2> HIDE DEF L, R
  <2>1. R + 1 \in Int /\ L \in Int
        /\ \A i \in (R + 1)..L : order[i] \in S
    <3>1. \A i \in (R + 1)..L : i \in 1..L
      BY <1>1
    <3> QED
      BY <1>1, <3>1, ElementOfSeq DEF L
  <2>2. Dropped(order, world) = SubSeq(order, R + 1, L)
    BY DEF Dropped, L, R
  <2>3. /\ Len(SubSeq(order, R + 1, L)) =
             IF R + 1 <= L THEN L - (R + 1) + 1 ELSE 0
        /\ \A k \in 1..(L - (R + 1) + 1) :
             SubSeq(order, R + 1, L)[k] = order[(R + 1) + k - 1]
    BY <2>1, SubSeqProperties
  <2>4. L - (R + 1) + 1 = L - R /\ (R + 1 <= L <=> L - R # 0)
    BY <1>1
  <2>5. \A k \in 1..(L - R) : (R + 1) + k - 1 = R + k
    BY <1>1
  <2> QED
    BY <2>2, <2>3, <2>4, <2>5
<1>4. Items(Dropped(order, world)) \subseteq Items(order)
  <2> HIDE DEF L, R
  <2>1. \A k \in 1..(L - R) : R + k \in 1..L
    BY <1>1
  <2> QED
    BY <1>3, <2>1 DEF L, Items
<1>5. ASSUME NEW i \in 1..L
      PROVE  \/ \E r \in 0..(world - 1) :
                  order[i] \in Items(RankBatches(order, world, r))
             \/ order[i] \in Items(Dropped(order, world))
  <2>1. CASE \E r \in 0..(world - 1) :
               \E k \in 1..Len(RankBatches(order, world, r)) :
                 RankBatches(order, world, r)[k] = order[i]
    BY <2>1 DEF Items
  <2>2. CASE i > R
    <3> HIDE DEF R, L
    <3>1. i - R \in 1..(L - R) /\ R + (i - R) = i
      BY <1>1, <2>2
    <3>2. Dropped(order, world)[i - R] = order[i]
      BY <1>3, <3>1
    <3> QED
      BY <1>3, <3>1, <3>2 DEF Items
  <2> QED
    BY <2>1, <2>2, CompleteShares
<1>6. \A x \in Items(order) :
        \/ \E r \in 0..(world - 1) : x \in Items(RankBatches(order, world, r))
        \/ x \in Items(Dropped(order, world))
  BY <1>5 DEF Items
<1>7. (UNION {Items(RankBatches(order, world, r)) : r \in 0..(world - 1)})
        \union Items(Dropped(order, world)) = Items(order)
  <2> DEFINE share(r) == Items(RankBatches(order, world, r))
  <2>1. \A r \in 0..(world - 1) : share(r) \subseteq Items(order)
    BY <1>2
  <2>2. \A x \in Items(order) :
          (\E r \in 0..(world - 1) : x \in share(r))
          \/ x \in Items(Dropped(order, world))
    BY <1>6
  <2> HIDE DEF share
  <2>3. (UNION {share(r) : r \in 0..(world - 1)})
          \union Items(Dropped(order, world)) = Items(order)
    BY <1>4, <2>1, <2>2
  <2> QED
    BY <2>3 DEF share
<1> QED
  BY <1>7

=============================================================================
