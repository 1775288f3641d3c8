---------------------------- MODULE DriftProofs -----------------------------
(***************************************************************************)
(* Prediction monitoring, for any caps, any bins and any frames: a large    *)
(* batch is sampled evenly, and what the status of a report says of the     *)
(* window and of the training frame is so.  The second rests on a bound: a  *)
(* stability index below 0.1 leaves no set of bins whose shares are 0.16    *)
(* apart, because every term of the index lies above each line that touches *)
(* a square of the gap, and the terms of lines sum to a line.               *)
(***************************************************************************)
EXTENDS Drift, FiniteSetTheorems, WellFoundedInduction, TLAPS

-----------------------------------------------------------------------------
(* The sample is even                                                       *)

LEMMA Quotient ==
  ASSUME NEW x \in Nat, NEW k \in Nat \ {0}
  PROVE  /\ x \div k \in Nat
         /\ k * (x \div k) <= x /\ x < k * (x \div k) + k
OBVIOUS

LEMMA Multiples ==
  ASSUME NEW x \in Int, NEW y \in Int, NEW k \in Nat \ {0}
  PROVE  /\ x <= y <=> x * k <= y * k
         /\ x < y => x * k + k <= y * k
OBVIOUS

\* How the positions that are picked lie: the i-th is where (i - 1) shares of
\* the batch end, rounded down, or one below if they end with a row.
Spaced(p, total) ==
  /\ p \in [1 .. LogCap -> 1 .. total]
  /\ \A i \in 1 .. LogCap : /\ (p[i] - 1) * LogCap <= (i - 1) * total
                            /\ (i - 1) * total <= p[i] * LogCap

LEMMA PickingsAreSpaced ==
  ASSUME LogCap \in Nat \ {0}, NEW total \in Nat, total > LogCap,
         NEW p \in Pickings(total)
  PROVE  Spaced(p, total)
<1> DEFINE whole == {i \in 2 .. LogCap : ((i - 1) * total) % LogCap = 0}
           Falling(short) ==
             [i \in 1 .. LogCap |-> ((i - 1) * total) \div LogCap
                                      + (IF i \in short THEN 0 ELSE 1)]
<1>1. PICK short \in SUBSET whole : p = Falling(short)
  <2>1. ~(total <= LogCap)
    OBVIOUS
  <2>2. Pickings(total) = {Falling(short) : short \in SUBSET whole}
    BY ONLY <2>1 DEF Pickings
  <2> HIDE DEF Falling, whole
  <2> QED
    BY <2>2
<1>2. ASSUME NEW i \in 1 .. LogCap
      PROVE  /\ p[i] \in 1 .. total
             /\ (p[i] - 1) * LogCap <= (i - 1) * total
             /\ (i - 1) * total <= p[i] * LogCap
  <2> DEFINE x == (i - 1) * total
             q == x \div LogCap
  <2>1. x \in Nat /\ x <= (LogCap - 1) * total
    BY Multiples, i - 1 \in Nat, LogCap - 1 \in Int, i - 1 <= LogCap - 1
  <2>2. p[i] = q + (IF i \in short THEN 0 ELSE 1)
    BY <1>1
  <2> HIDE DEF x
  <2>3. q \in Nat /\ LogCap * q <= x /\ x < LogCap * q + LogCap
    BY <2>1, Quotient
  <2>4. x % LogCap = 0 => x = LogCap * q
    BY <2>1
  <2>5. i \in short => i >= 2 /\ x % LogCap = 0
    BY <1>1 DEF x
  <2> HIDE DEF q
  <2>6. /\ q * LogCap = LogCap * q /\ q * LogCap \in Nat
        /\ (q + 1) * LogCap = q * LogCap + LogCap
        /\ (q - 1) * LogCap = q * LogCap - LogCap
    BY <2>3
  <2>7. (LogCap - 1) * total = total * LogCap - total /\ total * LogCap \in Nat
    OBVIOUS
  <2>8. q + 1 <= total
    <3>1. q * LogCap < total * LogCap
      BY <2>1, <2>3, <2>6, <2>7
    <3>2. ~(total <= q)
      BY <3>1, <2>3, <2>6, <2>7, Multiples
    <3> QED
      BY <2>3, <3>2
  <2>9. i \in short => q >= 1
    <3>1. ASSUME i \in short, q = 0
          PROVE  FALSE
      <4>1. x = 0
        BY <2>4, <2>5, <3>1
      <4>2. 1 * total <= (i - 1) * total
        BY <2>5, <3>1, Multiples, 1 \in Int, i - 1 \in Int, 1 <= i - 1
      <4> QED
        BY <4>1, <4>2 DEF x
    <3> QED
      BY <2>3, <3>1
  <2>10. CASE i \in short
    BY <2>2, <2>3, <2>4, <2>5, <2>6, <2>8, <2>9, <2>10 DEF x
  <2>11. CASE i \notin short
    <3>1. p[i] = q + 1 /\ p[i] - 1 = q
      BY <2>2, <2>3, <2>11
    <3> QED
      BY <2>3, <2>6, <2>8, <3>1 DEF x
  <2> QED
    BY <2>10, <2>11
<1>3. p \in [1 .. LogCap -> 1 .. total]
  BY <1>1, <1>2
<1> QED
  BY <1>2, <1>3 DEF Spaced

\* No row of a batch is logged twice, and the rows are in order.
LEMMA PickedOnce ==
  ASSUME LogCap \in Nat \ {0}, NEW total \in Nat, total > LogCap,
         NEW p, Spaced(p, total),
         NEW i \in 1 .. LogCap, NEW j \in 1 .. LogCap, i < j
  PROVE  p[i] < p[j]
<1>1. /\ p[i] \in Nat /\ p[j] \in Nat
      /\ (p[i] - 1) * LogCap <= (i - 1) * total
      /\ (j - 1) * total <= p[j] * LogCap
  <2>1. p[i] \in 1 .. total /\ p[j] \in 1 .. total
    BY DEF Spaced
  <2>2. /\ (p[i] - 1) * LogCap <= (i - 1) * total
        /\ (j - 1) * total <= p[j] * LogCap
    BY Zenon DEF Spaced
  <2> QED
    BY <2>1, <2>2
<1>2. (i - 1) * total + total <= (j - 1) * total
  BY Multiples, i - 1 < j - 1, i - 1 \in Int, j - 1 \in Int, total \in Nat \ {0}
<1>3. /\ (p[i] - 1) * LogCap \in Int /\ p[i] * LogCap \in Nat
      /\ (p[i] - 1) * LogCap = p[i] * LogCap - LogCap
      /\ p[j] * LogCap \in Nat
      /\ (i - 1) * total \in Nat /\ (j - 1) * total \in Nat
  BY <1>1
<1>4. p[i] * LogCap < p[j] * LogCap
  <2> DEFINE below == (p[i] - 1) * LogCap
             here == p[i] * LogCap
             there == p[j] * LogCap
             left == (i - 1) * total
             right == (j - 1) * total
  <2>1. /\ below \in Int /\ here \in Nat /\ there \in Nat
        /\ left \in Nat /\ right \in Nat
        /\ below = here - LogCap /\ below <= left
        /\ left + total <= right /\ right <= there
    BY <1>1, <1>2, <1>3
  <2> HIDE DEF below, here, there, left, right
  <2>2. here < there
    BY <2>1
  <2> QED
    BY <2>2 DEF here, there
<1>5. ~(p[j] <= p[i])
  BY <1>1, <1>3, <1>4, Multiples
<1> QED
  BY <1>1, <1>5

\* As many rows as are picked up to a position lie, times the batch, at most a
\* batch above that position times the cap.
LEMMA PickedUpTo ==
  ASSUME LogCap \in Nat \ {0}, NEW total \in Nat, total > LogCap,
         NEW p, Spaced(p, total), NEW x \in 0 .. total
  PROVE  \E n \in 0 .. LogCap :
           /\ x * LogCap <= n * total /\ n * total <= x * LogCap + total
           /\ \A i \in 1 .. LogCap : p[i] <= x <=> i <= n
<1>1. total \in Nat \ {0} /\ x * LogCap \in Nat /\ total * LogCap \in Nat
  OBVIOUS
<1>2. x * LogCap <= total * LogCap
  BY Multiples
<1>3. PICK n \in Nat : /\ x * LogCap <= n * total
                       /\ n * total < x * LogCap + total
  <2>1. x * LogCap + total - 1 \in Nat
    BY <1>1
  <2>2. PICK q \in Nat : /\ total * q <= x * LogCap + total - 1
                         /\ x * LogCap + total - 1 < total * q + total
    BY <1>1, <2>1, Quotient
  <2>3. q * total = total * q /\ q * total \in Nat
    OBVIOUS
  <2> QED
    BY <1>1, <2>2, <2>3
<1>4. n \in 0 .. LogCap
  <2>1. ASSUME n > LogCap
        PROVE  FALSE
    <3>1. LogCap * total + total <= n * total
      BY <1>1, <2>1, Multiples
    <3>2. LogCap * total = total * LogCap /\ n * total \in Nat
      OBVIOUS
    <3> QED
      BY <1>1, <1>2, <1>3, <3>1, <3>2
  <2> QED
    BY <2>1
<1>5. ASSUME NEW i \in 1 .. LogCap
      PROVE  /\ p[i] \in Nat /\ p[i] * LogCap \in Nat
             /\ (p[i] - 1) * LogCap = p[i] * LogCap - LogCap
             /\ p[i] * LogCap - LogCap <= (i - 1) * total
             /\ (i - 1) * total <= p[i] * LogCap
             /\ (i - 1) * total \in Nat /\ n * total \in Nat
  <2>1. /\ p[i] \in Nat /\ (p[i] - 1) * LogCap <= (i - 1) * total
        /\ (i - 1) * total <= p[i] * LogCap
    BY DEF Spaced
  <2>2. (p[i] - 1) * LogCap = p[i] * LogCap - LogCap /\ p[i] * LogCap \in Nat
    BY <2>1
  <2> QED
    BY <2>1, <2>2
<1>6. ASSUME NEW i \in 1 .. LogCap, i <= n
      PROVE  p[i] <= x
  <2>1. (i - 1) * total + total <= n * total
    BY <1>1, <1>6, Multiples, i - 1 < n, i - 1 \in Int, n \in Int
  <2>2. p[i] * LogCap < x * LogCap + LogCap
    <3> DEFINE here == p[i] * LogCap
               there == x * LogCap
               left == (i - 1) * total
               right == n * total
    <3>1. /\ here \in Nat /\ there \in Nat /\ left \in Nat /\ right \in Nat
          /\ here - LogCap <= left /\ left + total <= right
          /\ right < there + total
      BY <1>1, <1>3, <1>5, <2>1
    <3> HIDE DEF here, there, left, right
    <3>2. here < there + LogCap
      BY <3>1
    <3> QED
      BY <3>2 DEF here, there
  <2>3. ~(x < p[i])
    BY <1>1, <1>5, <2>2, Multiples
  <2> QED
    BY <1>5, <2>3
<1>7. ASSUME NEW i \in 1 .. LogCap, i > n + 1
      PROVE  x < p[i]
  <2>1. n * total + total <= (i - 1) * total
    BY <1>1, <1>7, Multiples, n < i - 1, i - 1 \in Int, n \in Int
  <2>2. /\ x * LogCap < p[i] * LogCap
        /\ x * LogCap \in Nat /\ p[i] * LogCap \in Nat
    <3> DEFINE here == p[i] * LogCap
               there == x * LogCap
               left == n * total
               right == (i - 1) * total
    <3>1. /\ here \in Nat /\ there \in Nat /\ left \in Nat /\ right \in Nat
          /\ left + total <= right /\ right <= here /\ there <= left
      BY <1>1, <1>3, <1>5, <2>1
    <3> HIDE DEF here, there, left, right
    <3>2. there < here
      BY <3>1
    <3> QED
      BY <3>1, <3>2 DEF here, there
  <2>3. ~(p[i] <= x)
    <3>1. p[i] <= x => p[i] * LogCap <= x * LogCap
      BY <1>5, Multiples
    <3> QED
      BY <2>2, <3>1
  <2> QED
    BY <1>5, <2>3
<1>8. CASE n + 1 \in 1 .. LogCap /\ p[n + 1] <= x
  <2>1. p[n + 1] * LogCap <= x * LogCap
    BY <1>5, <1>8, Multiples
  <2>2. (n + 1 - 1) * total = n * total /\ (n + 1) * total = n * total + total
    OBVIOUS
  <2>3. n * total <= p[n + 1] * LogCap /\ p[n + 1] * LogCap \in Nat
    BY <1>5, <1>8, <2>2
  <2>4. x * LogCap <= (n + 1) * total /\ (n + 1) * total <= x * LogCap + total
    BY <1>1, <1>3, <2>1, <2>2, <2>3, n * total \in Nat
  <2>5. \A i \in 1 .. LogCap : p[i] <= x <=> i <= n + 1
    BY <1>4, <1>5, <1>6, <1>7, <1>8
  <2> QED
    BY <1>8, <2>4, <2>5, n + 1 \in 0 .. LogCap
<1>9. CASE ~(n + 1 \in 1 .. LogCap /\ p[n + 1] <= x)
  <2>1. \A i \in 1 .. LogCap : p[i] <= x <=> i <= n
    BY <1>4, <1>5, <1>6, <1>7, <1>9
  <2> QED
    BY <1>1, <1>3, <1>4, <2>1, n * total \in Nat
<1> QED
  BY <1>8, <1>9

\* The positions of the rows after the m-th, up to the n-th.
Stretch(p, m, n) == {p[i] : i \in m + 1 .. n}

LEMMA PickedBetween ==
  ASSUME LogCap \in Nat \ {0}, NEW total \in Nat, total > LogCap,
         NEW p, Spaced(p, total),
         NEW m \in 0 .. LogCap, NEW n \in 0 .. LogCap, m <= n
  PROVE  Cardinality(Stretch(p, m, n)) = n - m
<1> DEFINE rows == m + 1 .. n
           S == Stretch(p, m, n)
           pick == [i \in rows |-> p[i]]
<1>1. IsFiniteSet(rows) /\ Cardinality(rows) = n - m
  <2>1. \A a, b \in Int : /\ IsFiniteSet(a .. b)
                          /\ Cardinality(a .. b) = IF a > b THEN 0
                                                            ELSE b - a + 1
    BY FS_Interval
  <2>2. /\ m + 1 \in Int /\ n \in Int
        /\ (IF m + 1 > n THEN 0 ELSE n - (m + 1) + 1) = n - m
    OBVIOUS
  <2>3. /\ IsFiniteSet(m + 1 .. n)
        /\ Cardinality(m + 1 .. n) = IF m + 1 > n THEN 0 ELSE n - (m + 1) + 1
    BY <2>1, <2>2
  <2> QED
    BY <2>2, <2>3
<1>2. rows \subseteq 1 .. LogCap
  OBVIOUS
<1>3. ASSUME NEW i \in rows, NEW j \in rows, pick[i] = pick[j]
      PROVE  i = j
  <2>1. i < j \/ j < i \/ i = j
    OBVIOUS
  <2>2. ~(i < j) /\ ~(j < i)
    <3>1. pick[i] = p[i] /\ pick[j] = p[j]
      OBVIOUS
    <3>4. i \in 1 .. LogCap /\ j \in 1 .. LogCap
      BY <1>2
    <3>5. p \in [1 .. LogCap -> 1 .. total]
      BY DEF Spaced
    <3>2. p[i] \in Nat /\ p[j] \in Nat
      <4>1. p[i] \in 1 .. total /\ p[j] \in 1 .. total
        BY <3>4, <3>5
      <4> QED
        BY <4>1
    <3>3. /\ i < j => p[i] < p[j]
          /\ j < i => p[j] < p[i]
      BY <3>4, PickedOnce
    <3> QED
      BY <1>3, <3>1, <3>2, <3>3
  <2> QED
    BY <2>1, <2>2
<1>4. pick \in Bijection(rows, S)
  <2>1. pick \in [rows -> S] /\ \A s \in S : \E i \in rows : pick[i] = s
    BY DEF Stretch
  <2>2. DOMAIN pick = rows
    OBVIOUS
  <2> HIDE DEF pick, rows, S
  <2> QED
    BY <1>3, <2>1, <2>2 DEF Bijection, Injection, Surjection, IsInjective
<1>5. ExistsBijection(rows, S)
  BY <1>4 DEF ExistsBijection
<1> HIDE DEF rows
<1> QED
  BY <1>1, <1>5, FS_Bijection

LEMMA EvenlyPicked ==
  ASSUME LogCap \in Nat \ {0}, NEW total \in Nat, NEW p \in Pickings(total)
  PROVE  /\ Cardinality(Range(p)) = Size(p)
         /\ \A a \in 1 .. total, b \in 1 .. total :
              LET gap == Cardinality(Range(p) \intersect (a .. b)) * total
                           - (b + 1 - a) * Size(p)
              IN a <= b => -total <= gap /\ gap <= total
<1> DEFINE picked == Range(p)
<1>0. \A c, d \in Int : /\ IsFiniteSet(c .. d)
                        /\ Cardinality(c .. d) = IF c > d THEN 0
                                                          ELSE d - c + 1
  BY FS_Interval
<1>1. \A n \in Nat : Cardinality(1 .. n) = n
  <2>1. ASSUME NEW n \in Nat
        PROVE  /\ n \in Int /\ 1 \in Int
               /\ (IF 1 > n THEN 0 ELSE n - 1 + 1) = n
    OBVIOUS
  <2> QED
    BY <1>0, <2>1
<1>2. CASE total <= LogCap
  <2>1. p = [i \in 1 .. total |-> i]
    BY <1>2 DEF Pickings
  <2>2. picked = 1 .. total /\ DOMAIN p = 1 .. total
    BY <2>1 DEF Range
  <2>3. Cardinality(picked) = total /\ Size(p) = total
    BY <1>1, <2>2 DEF Size
  <2>4. ASSUME NEW a \in 1 .. total, NEW b \in 1 .. total, a <= b
        PROVE  Cardinality(picked \intersect (a .. b)) = b + 1 - a
    <3>1. picked \intersect (a .. b) = a .. b
      BY <2>2, <2>4
    <3>2. /\ a \in Int /\ b \in Int
          /\ (IF a > b THEN 0 ELSE b - a + 1) = b + 1 - a
      BY <2>4
    <3> QED
      BY ONLY <1>0, <3>1, <3>2
  <2>5. \A a \in 1 .. total, b \in 1 .. total : (b + 1 - a) * total \in Int
    OBVIOUS
  <2> HIDE DEF picked
  <2>6. ASSUME NEW a \in 1 .. total, NEW b \in 1 .. total, a <= b
        PROVE  LET gap == Cardinality(picked \intersect (a .. b)) * total
                            - (b + 1 - a) * Size(p)
               IN -total <= gap /\ gap <= total
    BY <2>3, <2>4, <2>5, <2>6
  <2> QED
    BY <2>3, <2>6 DEF picked
<1>3. CASE total > LogCap
  <2>1. Spaced(p, total)
    BY <1>3, PickingsAreSpaced
  <2>2. DOMAIN p = 1 .. LogCap /\ Size(p) = LogCap
    BY <1>1, <2>1 DEF Size, Spaced
  <2>3. picked = {p[i] : i \in 1 .. LogCap}
    BY <2>2 DEF Range
  <2>4. Cardinality(picked) = LogCap
    <3>1. 0 \in 0 .. LogCap /\ 0 + 1 = 1 /\ LogCap - 0 = LogCap
      OBVIOUS
    <3>2. picked = Stretch(p, 0, LogCap)
      BY <2>3, <3>1 DEF Stretch
    <3>3. Cardinality(Stretch(p, 0, LogCap)) = LogCap - 0
      BY <1>3, <2>1, <3>1, PickedBetween
    <3> HIDE DEF picked
    <3> QED
      BY <3>1, <3>2, <3>3
  <2>5. ASSUME NEW a \in 1 .. total, NEW b \in 1 .. total, a <= b
        PROVE  LET gap == Cardinality(picked \intersect (a .. b)) * total
                            - (b + 1 - a) * LogCap
               IN -total <= gap /\ gap <= total
    <3> DEFINE within == picked \intersect (a .. b)
    <3>1. PICK n \in 0 .. LogCap :
            /\ b * LogCap <= n * total /\ n * total <= b * LogCap + total
            /\ \A i \in 1 .. LogCap : p[i] <= b <=> i <= n
      BY <1>3, <2>1, PickedUpTo, b \in 0 .. total
    <3>2. PICK m \in 0 .. LogCap :
            /\ (a - 1) * LogCap <= m * total
            /\ m * total <= (a - 1) * LogCap + total
            /\ \A i \in 1 .. LogCap : p[i] <= a - 1 <=> i <= m
      BY <1>3, <2>1, PickedUpTo, a - 1 \in 0 .. total
    <3>3. /\ n * total \in Nat /\ m * total \in Nat
          /\ b * LogCap \in Nat /\ (a - 1) * LogCap \in Nat
      BY a - 1 \in Nat
    <3>4. \A i \in 1 .. LogCap : p[i] \in Nat
      BY <2>1 DEF Spaced
    <3>5. m <= n
      <4>1. ASSUME n < m
            PROVE  FALSE
        <5>1. m \in 1 .. LogCap /\ ~(m <= n)
          BY <4>1
        <5>2. p[m] <= a - 1 /\ ~(p[m] <= b) /\ p[m] \in Nat
          BY <3>1, <3>2, <3>4, <5>1
        <5> QED
          BY <2>5, <5>2
      <4> QED
        BY <4>1
    <3>6. within = Stretch(p, m, n)
      <4>1. ASSUME NEW i \in 1 .. LogCap
            PROVE  p[i] \in a .. b <=> i \in m + 1 .. n
        <5>1. /\ p[i] \in Nat
              /\ p[i] <= b <=> i <= n
              /\ p[i] <= a - 1 <=> i <= m
          BY <3>1, <3>2, <3>4
        <5> QED
          BY <5>1
      <4>2. m + 1 .. n \subseteq 1 .. LogCap
        OBVIOUS
      <4> QED
        BY <2>3, <4>1, <4>2 DEF Stretch
    <3>7. Cardinality(within) = n - m
      BY <1>3, <2>1, <3>5, <3>6, PickedBetween
    <3>8. (n - m) * total - (b + 1 - a) * LogCap
            = (n * total - b * LogCap) - (m * total - (a - 1) * LogCap)
      OBVIOUS
    <3> HIDE DEF picked, within
    <3>9. /\ -total <= (n - m) * total - (b + 1 - a) * LogCap
          /\ (n - m) * total - (b + 1 - a) * LogCap <= total
      BY <3>1, <3>2, <3>3, <3>8
    <3> QED
      BY <3>7, <3>9 DEF picked, within
  <2> HIDE DEF picked
  <2> QED
    BY <2>2, <2>4, <2>5 DEF picked
<1> QED
  BY <1>2, <1>3

-----------------------------------------------------------------------------
(* The log: the invariant and the theorem                                   *)

Entries == [served : Batches, picked : UNION {Pickings(Len(b)) : b \in Batches},
            inputs : BOOLEAN]

LogInv ==
  /\ keeps \in BOOLEAN /\ log \in Seq(Entries)
  /\ \A i \in DOMAIN log : log[i].picked \in Pickings(Len(log[i].served))

LEMMA NextLogInv ==
  ASSUME LogInv, [DriftNext]_driftVars
  PROVE  LogInv'
<1>1. CASE Serve
  <2>0. PICK b \in Batches : \E picked \in Pickings(Len(b)) :
          log' = Append(log, [served |-> b, picked |-> picked, inputs |-> keeps])
    BY <1>1 DEF Serve
  <2>1. PICK picked \in Pickings(Len(b)) :
          log' = Append(log, [served |-> b, picked |-> picked, inputs |-> keeps])
    BY <2>0
  <2> DEFINE e == [served |-> b, picked |-> picked, inputs |-> keeps]
  <2>2. /\ e \in Entries /\ e.picked \in Pickings(Len(e.served))
        /\ keeps' = keeps /\ log' = Append(log, e)
    BY <1>1, <2>1 DEF Serve, LogInv, Entries
  <2>3. log' \in Seq(Entries)
    BY <2>2 DEF LogInv
  <2>4. ASSUME NEW i \in DOMAIN log'
        PROVE  log'[i].picked \in Pickings(Len(log'[i].served))
    <3>1. \/ i \in DOMAIN log /\ log'[i] = log[i]
          \/ log'[i] = e
      BY <2>2, <2>4 DEF LogInv
    <3> QED
      BY <2>2, <3>1 DEF LogInv
  <2> QED
    BY <2>2, <2>3, <2>4 DEF LogInv
<1>2. CASE Delete
  BY <1>2 DEF Delete, LogInv
<1>3. CASE Configure \/ Look \/ UNCHANGED driftVars
  BY <1>3 DEF Configure, Look, driftVars, LogInv
<1> QED
  BY <1>1, <1>2, <1>3 DEF DriftNext

\* Of every stretch of a served batch the log holds its share to within one
\* row, and no row twice (monitoring.py, _build_rows), for any cap, batches of
\* any size and whichever of the whole products falls short.
THEOREM SamplesAreEven ==
  ASSUME DriftConstants
  PROVE  DriftSpec => []SampleIsEven
<1>0. LogCap \in Nat \ {0} /\ \A b \in Batches : Len(b) \in Nat
  BY DEF DriftConstants
<1>1. DriftInit => LogInv
  BY DEF DriftInit, LogInv
<1>2. LogInv /\ [DriftNext]_driftVars => LogInv'
  BY NextLogInv
<1>3. ASSUME LogInv
      PROVE  SampleIsEven
  <2>1. ASSUME NEW i \in DOMAIN log
        PROVE  /\ Len(log[i].served) \in Nat
               /\ log[i].picked \in Pickings(Len(log[i].served))
    BY <1>0, <1>3 DEF LogInv, Entries
  <2> QED
    BY <1>0, <2>1, EvenlyPicked DEF SampleIsEven
<1> QED
  BY <1>1, <1>2, <1>3, PTL DEF DriftSpec

-----------------------------------------------------------------------------
(* Sums over finite sets                                                    *)

LEMMA LeastNatural ==
  ASSUME NEW N, N \subseteq Nat, N # {}
  PROVE  \E n \in N : \A m \in N : n <= m
<1>1. PICK n \in N : \A m \in N : ~(<<m, n>> \in OpToRel(<, Nat))
  BY NatLessThanWellFounded, WFMin
<1>2. ASSUME NEW m \in N
      PROVE  n <= m
  <2>1. m \in Nat /\ n \in Nat
    OBVIOUS
  <2>2. m < n => <<m, n>> \in OpToRel(<, Nat)
    BY <2>1 DEF OpToRel
  <2>3. ~(m < n)
    BY <1>1, <2>2
  <2> QED
    BY <2>1, <2>3
<1> QED
  BY <1>2

\* What a set has if all sets strictly within it have it, every finite set has.
LEMMA SubsetInduction ==
  ASSUME NEW S, IsFiniteSet(S), NEW P,
         \A T \in SUBSET S : (\A U \in SUBSET T : U # T => U \in P) => T \in P
  PROVE  SUBSET S \subseteq P
<1> DEFINE Sizes == {Cardinality(T) : T \in (SUBSET S) \ P}
<1>1. ASSUME NEW T \in SUBSET S
      PROVE  IsFiniteSet(T) /\ Cardinality(T) \in Nat
  BY FS_Subset, FS_CardinalityType
<1>2. SUFFICES ASSUME ~(SUBSET S \subseteq P)
               PROVE  FALSE
  OBVIOUS
<1>3. Sizes # {} /\ Sizes \subseteq Nat
  BY <1>1, <1>2
<1>4. PICK n \in Sizes : \A m \in Sizes : n <= m
  <2> HIDE DEF Sizes
  <2> QED
    BY <1>3, LeastNatural
<1>5. PICK T \in (SUBSET S) \ P : Cardinality(T) = n
  OBVIOUS
<1>6. ASSUME NEW U \in SUBSET T, U # T
      PROVE  U \in P
  <2>1. /\ Cardinality(U) <= Cardinality(T) /\ Cardinality(U) # Cardinality(T)
        /\ Cardinality(U) \in Nat /\ Cardinality(T) \in Nat
    BY <1>1, <1>6, FS_Subset
  <2>2. Cardinality(U) < n
    BY <1>5, <2>1
  <2>3. Cardinality(U) \notin Sizes
    <3>1. ~(n <= Cardinality(U))
      BY <1>5, <2>1, <2>2
    <3> HIDE DEF Sizes
    <3> QED
      BY <1>4, <3>1
  <2> QED
    BY <2>3
<1> QED
  BY <1>5, <1>6

\* What holds of no element, and of one more than it holds of, holds of all.
LEMMA FiniteInduction ==
  ASSUME NEW S, IsFiniteSet(S), NEW P, {} \in P,
         \A T \in SUBSET S : \A x \in S \ T : T \in P => T \union {x} \in P
  PROVE  S \in P
<1>1. ASSUME NEW T \in SUBSET S, \A U \in SUBSET T : U # T => U \in P
      PROVE  T \in P
  <2>1. CASE T # {}
    <3>1. PICK x \in T : TRUE
      BY <2>1
    <3>2. T \ {x} \in SUBSET T /\ T \ {x} # T /\ (T \ {x}) \union {x} = T
      OBVIOUS
    <3>3. T \ {x} \in SUBSET S /\ x \in S \ (T \ {x})
      OBVIOUS
    <3> QED
      BY <1>1, <3>2, <3>3
  <2> QED
    BY <2>1
<1> QED
  BY <1>1, SubsetInduction

\* T adds f up, over every subset of S and in any order.
Sums(T, f, S) ==
  /\ T \in [SUBSET S -> Int] /\ T[{}] = 0
  /\ \A s \in SUBSET S : \A x \in s : T[s] = f[x] + T[s \ {x}]

\* The equation of the fold.
Folds(T, f, S) ==
  T = [s \in SUBSET S |-> IF s = {} THEN 0
                          ELSE f[CHOOSE x \in s : TRUE]
                                 + T[s \ {CHOOSE x \in s : TRUE}]]

LEMMA SumOfFolds ==
  ASSUME NEW f, NEW T, Folds(T, f, DOMAIN f)
  PROVE  \E I : Folds(I, f, DOMAIN f) /\ SumOf(f) = I[DOMAIN f]
<1> DEFINE I == CHOOSE iter : iter = [s \in SUBSET DOMAIN f |-> IF s = {} THEN 0
                          ELSE f[CHOOSE x \in s : TRUE]
                                 + iter[s \ {CHOOSE x \in s : TRUE}]]
<1>1. SumOf(f) = I[DOMAIN f]
  BY DEF SumOf, FoldFunction, FoldFunctionOnSet, MapThenFoldSet
<1> QED
  BY <1>1 DEF Folds


\* Least(S) and greatest, of finitely many integers.
LEMMA GreatestOf ==
  ASSUME NEW S, IsFiniteSet(S), S \subseteq Int, S # {}
  PROVE  \E m \in S : \A k \in S : k <= m
<1> DEFINE P == {T \in SUBSET S : T # {} => \E m \in T : \A k \in T : k <= m}
<1>1. ASSUME NEW T \in SUBSET S, NEW x \in S \ T, T \in P
      PROVE  T \union {x} \in P
  <2>1. CASE T = {}
    BY <2>1
  <2>2. CASE T # {}
    <3>1. PICK m \in T : \A k \in T : k <= m
      BY <1>1, <2>2
    <3>2. m \in Int /\ x \in Int /\ T \subseteq Int
      OBVIOUS
    <3>3. CASE x <= m
      BY <3>1, <3>2, <3>3
    <3>4. CASE m < x
      <4>1. \A k \in T : k <= x
        BY <3>1, <3>2, <3>4
      <4> QED
        BY <3>2, <4>1
    <3> QED
      BY <3>2, <3>3, <3>4
  <2> QED
    BY <2>1, <2>2
<1>2. {} \in P
  OBVIOUS
<1>3. S \in P
  <2> HIDE DEF P
  <2> QED
    BY <1>1, <1>2, FiniteInduction
<1> QED
  BY <1>3

LEMMA LeastOf ==
  ASSUME NEW S, IsFiniteSet(S), S \subseteq Int, S # {}
  PROVE  Min(S) \in S /\ \A k \in S : Min(S) <= k
<1> DEFINE P == {T \in SUBSET S : T # {} => \E m \in T : \A k \in T : m <= k}
<1>1. ASSUME NEW T \in SUBSET S, NEW x \in S \ T, T \in P
      PROVE  T \union {x} \in P
  <2>1. CASE T = {}
    BY <2>1
  <2>2. CASE T # {}
    <3>1. PICK m \in T : \A k \in T : m <= k
      BY <1>1, <2>2
    <3>2. m \in Int /\ x \in Int /\ T \subseteq Int
      OBVIOUS
    <3>3. CASE m <= x
      BY <3>1, <3>2, <3>3
    <3>4. CASE x < m
      <4>1. \A k \in T : x <= k
        BY <3>1, <3>2, <3>4
      <4> QED
        BY <3>2, <4>1
    <3> QED
      BY <3>2, <3>3, <3>4
  <2> QED
    BY <2>1, <2>2
<1>2. {} \in P
  OBVIOUS
<1>3. S \in P
  <2> HIDE DEF P
  <2> QED
    BY <1>1, <1>2, FiniteInduction
<1>4. \E m \in S : \A k \in S : m <= k
  BY <1>3
<1> QED
  BY <1>4 DEF Min

\* The equation of the fold has a solution, whatever is chosen first.
LEMMA FoldExists ==
  ASSUME NEW S, IsFiniteSet(S), NEW f
  PROVE  \E T : Folds(T, f, S)
<1> DEFINE pick(s) == CHOOSE x \in s : TRUE
           Up(T, n) == /\ T[{}] = 0 /\ T = [s \in SUBSET S |-> T[s]]
                       /\ \A s \in SUBSET S : s # {} /\ Cardinality(s) <= n =>
                            T[s] = f[pick(s)] + T[s \ {pick(s)}]
           Fails == {n \in 0..Cardinality(S) : ~\E T : Up(T, n)}
<1>1. ASSUME NEW s \in SUBSET S
      PROVE  /\ IsFiniteSet(s) /\ Cardinality(s) \in Nat
             /\ Cardinality(s) <= Cardinality(S)
             /\ s # {} => /\ Cardinality(s) # 0 /\ pick(s) \in s
                          /\ Cardinality(s \ {pick(s)}) = Cardinality(s) - 1
  <2>1. /\ IsFiniteSet(s) /\ Cardinality(s) \in Nat
        /\ Cardinality(s) <= Cardinality(S)
    BY FS_Subset, FS_CardinalityType
  <2>2. s # {} => pick(s) \in s /\ Cardinality(s) # 0
    BY <2>1, FS_EmptySet
  <2> QED
    BY <2>1, <2>2, FS_RemoveElement
<1>2. Cardinality(S) \in Nat
  BY FS_CardinalityType
<1>3. Fails = {}
  <2>1. SUFFICES ASSUME Fails # {}
                 PROVE  FALSE
    OBVIOUS
  <2>2. PICK n \in Fails : \A m \in Fails : n <= m
    <3>1. Fails \subseteq Nat
      BY <1>2
    <3> HIDE DEF Fails
    <3> QED
      BY <2>1, <3>1, LeastNatural
  <2>3. n # 0
    <3>1. Up([s \in SUBSET S |-> 0], 0)
      <4>1. ASSUME NEW s \in SUBSET S, s # {}
            PROVE  ~(Cardinality(s) <= 0)
        <5>1. Cardinality(s) \in Nat /\ Cardinality(s) # 0
          BY <1>1, <4>1
        <5> QED
          BY <5>1
      <4> QED
        BY <4>1
    <3> HIDE DEF Up
    <3> QED
      BY <3>1
  <2>4. n \in 0..Cardinality(S) /\ n - 1 \in 0..Cardinality(S)
    BY <1>2, <2>3
  <2>5. PICK T : Up(T, n - 1)
    <3>1. n - 1 \notin Fails
      <4>1. ~(n <= n - 1)
        BY <2>4
      <4> HIDE DEF Fails
      <4> QED
        BY <2>2, <4>1
    <3> HIDE DEF Up
    <3> QED
      BY <2>4, <3>1
  <2> DEFINE more == [s \in SUBSET S |-> IF Cardinality(s) <= n - 1 THEN T[s]
                                         ELSE f[pick(s)] + T[s \ {pick(s)}]]
  <2>6. \A s \in SUBSET S : Cardinality(s) <= n - 1 => more[s] = T[s]
    OBVIOUS
  <2>7. more[{}] = 0
    BY <2>4, <2>5, <2>6, FS_EmptySet
  <2>8. ASSUME NEW s \in SUBSET S, s # {}, Cardinality(s) <= n
        PROVE  more[s] = f[pick(s)] + more[s \ {pick(s)}]
    <3>1. Cardinality(s \ {pick(s)}) <= n - 1 /\ s \ {pick(s)} \in SUBSET S
      BY <1>1, <2>4, <2>8
    <3>2. more[s \ {pick(s)}] = T[s \ {pick(s)}]
      BY <2>6, <3>1
    <3>3. more[s] = f[pick(s)] + T[s \ {pick(s)}]
      BY <2>5, <2>8
    <3> QED
      BY <3>2, <3>3
  <2>9. Up(more, n)
    <3> HIDE DEF pick
    <3>1. more = [s \in SUBSET S |-> more[s]]
      OBVIOUS
    <3> HIDE DEF more
    <3> QED
      BY <2>7, <2>8, <3>1
  <2> HIDE DEF Up, more
  <2> QED
    BY <2>9
<1>4. PICK T : Up(T, Cardinality(S))
  <2> HIDE DEF Up
  <2> QED
    BY <1>2, <1>3
<1>5. Folds(T, f, S)
  <2>1. ASSUME NEW s \in SUBSET S
        PROVE  T[s] = IF s = {} THEN 0 ELSE f[pick(s)] + T[s \ {pick(s)}]
    BY <1>1, <1>4
  <2> QED
    BY <1>4, <2>1 DEF Folds
<1> QED
  BY <1>5

\* Any element may be taken first.
LEMMA FoldsAreSums ==
  ASSUME NEW S, IsFiniteSet(S), NEW f \in [S -> Int], NEW T, Folds(T, f, S)
  PROVE  Sums(T, f, S)
<1> DEFINE pick(s) == CHOOSE x \in s : TRUE
           P == {s \in SUBSET S : /\ T[s] \in Int
                                  /\ \A x \in s : T[s] = f[x] + T[s \ {x}]}
<1>1. /\ DOMAIN T = SUBSET S /\ T = [s \in DOMAIN T |-> T[s]] /\ T[{}] = 0
      /\ \A s \in SUBSET S : s # {} =>
           pick(s) \in s /\ T[s] = f[pick(s)] + T[s \ {pick(s)}]
  BY DEF Folds
<1> HIDE DEF pick
<1>2. ASSUME NEW s \in SUBSET S, \A t \in SUBSET s : t # s => t \in P
      PROVE  s \in P
  <2>1. CASE s = {}
    BY <1>1, <2>1
  <2>2. CASE s # {}
    <3> DEFINE c == pick(s)
               u == s \ {c}
    <3>1. c \in s /\ c \in S /\ T[s] = f[c] + T[u]
      BY <1>1, <2>2
    <3> HIDE DEF c
    <3>2. u \in P
      BY <1>2, <3>1
    <3>3. T[s] \in Int
      BY <3>1, <3>2
    <3>4. ASSUME NEW x \in s, x # c
          PROVE  T[s] = f[x] + T[s \ {x}]
      <4> DEFINE v == s \ {x}
                 w == s \ {x, c}
      <4>1. v \in P /\ w \in P
        BY <1>2, <3>1, <3>4
      <4>2. x \in u /\ c \in v /\ u \ {x} = w /\ v \ {c} = w
        BY <3>1, <3>4
      <4>3. T[u] = f[x] + T[w] /\ T[v] = f[c] + T[w] /\ T[w] \in Int
        BY <3>2, <4>1, <4>2
      <4>4. f[x] \in Int /\ f[c] \in Int
        BY <3>1
      <4> HIDE DEF u, v, w
      <4>5. T[s] = f[x] + T[v]
        BY <3>1, <4>3, <4>4
      <4> QED
        BY <4>5 DEF v
    <3> QED
      BY <3>1, <3>3, <3>4
  <2> QED
    BY <2>1, <2>2
<1>3. SUBSET S \subseteq P
  <2> HIDE DEF P
  <2> QED
    BY <1>2, SubsetInduction
<1> QED
  BY <1>1, <1>3 DEF Sums

LEMMA SumsExist ==
  ASSUME NEW S, IsFiniteSet(S), NEW f \in [S -> Int]
  PROVE  \E T : Sums(T, f, S) /\ SumOf(f) = T[S]
<1>1. DOMAIN f = S
  OBVIOUS
<1>2. PICK T : Folds(T, f, S)
  BY FoldExists
<1>3. PICK I : Folds(I, f, S) /\ SumOf(f) = I[S]
  BY <1>1, <1>2, SumOfFolds
<1> QED
  BY <1>3, FoldsAreSums

-----------------------------------------------------------------------------
(* The index                                                                *)

LEMMA NotNegative ==
  ASSUME NEW x \in Int
  PROVE  x * x >= 0
OBVIOUS

LEMMA Cancels ==
  ASSUME NEW c \in Int, NEW x \in Int, c > 0, c * x >= 0
  PROVE  x >= 0
OBVIOUS

\* The square of a difference, bounded by a line through it.
LEMMA Tangent ==
  ASSUME NEW a \in Int, NEW c \in Int, NEW W \in Int, NEW D \in Int
  PROVE  2 * ((D * W) * (a * c)) - (D * D) * (c * c) <= (W * W) * (a * a)
<1> DEFINE x == W * a - D * c
<1>1. x * x >= 0
  <2>1. x \in Int
    OBVIOUS
  <2> HIDE DEF x
  <2> QED
    BY <2>1, NotNegative
<1>2. x * x = (W * a) * (W * a) - 2 * ((W * a) * (D * c)) + (D * c) * (D * c)
  OBVIOUS
<1>3. /\ (W * a) * (W * a) = (W * W) * (a * a)
      /\ (D * c) * (D * c) = (D * D) * (c * c)
      /\ (W * a) * (D * c) = (D * W) * (a * c)
  OBVIOUS
<1> QED
  BY <1>1, <1>2, <1>3

\* What one bin adds to the index is above a line of the analyst's choice.
LEMMA TermAboveLine ==
  ASSUME NEW a \in Int, NEW c \in Nat, NEW p \in Int, NEW W \in Nat, NEW D \in Int,
         2000 * (a * a) <= c * (p + c), c = 0 => a = 0 /\ p = 0
  PROVE  4000 * ((D * W) * a) - (2000 * (D * D) + W * W) * c <= (W * W) * p
<1> DEFINE WW == W * W
           DD == D * D
           DW == D * W
           gap == WW * p - 4000 * (DW * a) + (2000 * DD + WW) * c
<1>1. CASE c = 0
  BY <1>1
<1>2. CASE c > 0
  <2>1. WW \in Int /\ DD \in Int /\ DW \in Int /\ WW >= 0
    BY NotNegative
  <2>2. 2 * (DW * (a * c)) - DD * (c * c) <= WW * (a * a)
    BY Tangent
  <2> HIDE DEF WW, DD, DW
  <2>3. WW * (2000 * (a * a)) <= WW * (c * (p + c))
    BY <2>1
  <2>4. /\ WW * (2000 * (a * a)) = 2000 * (WW * (a * a))
        /\ WW * (c * (p + c)) = c * (WW * p + WW * c)
    BY <2>1
  <2>5. 4000 * (DW * (a * c)) - 2000 * (DD * (c * c)) <= c * (WW * p + WW * c)
    BY <2>1, <2>2, <2>3, <2>4
  <2>6. c * gap = c * (WW * p + WW * c) - 4000 * (DW * (a * c))
                    + 2000 * (DD * (c * c))
    BY <2>1
  <2>7. gap \in Int /\ c * gap >= 0
    BY <2>1, <2>5, <2>6
  <2> HIDE DEF gap
  <2>8. gap >= 0
    BY <1>2, <2>7, Cancels
  <2> QED
    BY <2>1, <2>8 DEF gap, WW, DD, DW
<1> QED
  BY <1>1, <1>2

\* The table of logarithms at one bin, floored where the bin is empty.
LEMMA TermOfBin ==
  ASSUME LogarithmsOK, NEW l \in DOMAIN Ln, NEW r \in DOMAIN Ln,
         NEW x \in 0 .. l, NEW y \in 0 .. r
  PROVE  LET a == x * r - y * l
             c == x * r + y * l
             p == a * (LnOf(x, l) - LnOf(y, r))
         IN /\ a \in Int /\ c \in Nat /\ p \in Int
            /\ 2000 * (a * a) <= c * (p + c)
            /\ c = 0 => a = 0 /\ p = 0
<1> DEFINE u == x * r
           v == y * l
           gap == LnOf(x, l) - LnOf(y, r)
           p == (u - v) * gap
<1>0. /\ l \in Nat \ {0} /\ r \in Nat \ {0} /\ x \in Nat /\ y \in Nat
      /\ DOMAIN Ln = 1 .. Len(Ln) /\ Len(Ln) \in Nat
      /\ \A k \in DOMAIN Ln : Ln[k] \in Int
      /\ LnEpsilon \in Int /\ Ln[l] \in Int /\ Ln[r] \in Int
  BY DEF LogarithmsOK
<1>1. /\ u \in Nat /\ v \in Nat /\ (x = 0 <=> u = 0) /\ (y = 0 <=> v = 0)
  BY <1>0
<1>2. /\ x # 0 => x \in DOMAIN Ln /\ Ln[x] \in Int
      /\ y # 0 => y \in DOMAIN Ln /\ Ln[y] \in Int
  BY <1>0
<1>3. LnOf(x, l) \in Int /\ LnOf(y, r) \in Int
  BY <1>0, <1>2 DEF LnOf
<1>4. p \in Int /\ gap \in Int /\ (u + v = 0 => p = 0 /\ u - v = 0)
  BY <1>1, <1>3
<1>5. 2000 * ((u - v) * (u - v)) <= (u + v) * (p + (u + v))
  <2>1. CASE x = 0 /\ y = 0
    <3>1. u = 0 /\ v = 0
      BY <1>1, <2>1
    <3> HIDE DEF u, v, p
    <3> QED
      BY <1>4, <3>1
  <2>2. CASE x # 0 /\ y # 0
    <3>1. gap = (Ln[x] - Ln[l]) - (Ln[y] - Ln[r])
      BY <2>2 DEF LnOf
    <3>2. x \in 1 .. l /\ y \in 1 .. r
      BY <1>0, <2>2
    <3> QED
      BY <3>1, <3>2 DEF LogarithmsOK
  <2>3. CASE x = 0 /\ y # 0
    <3>1. /\ u = 0 /\ gap = LnEpsilon - (Ln[y] - Ln[r])
      BY <1>0, <2>3 DEF LnOf
    <3>2. y \in 1 .. r
      BY <1>0, <2>3
    <3>3. LnEpsilon + 2000 <= Ln[y] - Ln[r]
      BY <3>2 DEF LogarithmsOK
    <3>4. gap <= 0 - 2000
      BY <1>0, <1>2, <2>3, <3>1, <3>3
    <3> HIDE DEF u, v, gap
    <3>5. v * (0 - gap) >= v * 2000
      BY <1>1, <1>4, <3>4
    <3>6. p = v * (0 - gap)
      BY <1>1, <1>4, <3>1
    <3>7. v * p >= v * (v * 2000)
      BY <1>1, <1>4, <3>5, <3>6
    <3> HIDE DEF p
    <3> QED
      BY <1>1, <1>4, <3>1, <3>7
  <2>4. CASE x # 0 /\ y = 0
    <3>1. /\ v = 0 /\ gap = (Ln[x] - Ln[l]) - LnEpsilon
      BY <1>0, <2>4 DEF LnOf
    <3>2. x \in 1 .. l
      BY <1>0, <2>4
    <3>3. LnEpsilon + 2000 <= Ln[x] - Ln[l]
      BY <3>2 DEF LogarithmsOK
    <3>4. gap >= 2000
      BY <1>0, <1>2, <2>4, <3>1, <3>3
    <3> HIDE DEF u, v, gap
    <3>5. u * gap >= u * 2000
      BY <1>1, <1>4, <3>4
    <3>6. p = u * gap
      BY <1>1, <1>4, <3>1
    <3>7. u * p >= u * (u * 2000)
      BY <1>1, <1>4, <3>5, <3>6
    <3> HIDE DEF p
    <3> QED
      BY <1>1, <1>4, <3>1, <3>7
  <2> QED
    BY <2>1, <2>2, <2>3, <2>4
<1> HIDE DEF gap
<1> QED
  BY <1>1, <1>4, <1>5 DEF gap

-----------------------------------------------------------------------------
(* Rows, sorted into bins                                                   *)

\* How many rows the sorting k puts into the bins of s.
Count(k, s) == Cardinality({i \in DOMAIN k : k[i] \in s})

LEMMA CountType ==
  ASSUME NEW k, IsFiniteSet(DOMAIN k), NEW s
  PROVE  /\ Count(k, s) \in Nat /\ Count(k, s) <= Size(k)
         /\ Size(k) \in Nat
         /\ Count(k, {}) = 0
         /\ (\A i \in DOMAIN k : k[i] \in s) => Count(k, s) = Size(k)
<1> DEFINE S == {i \in DOMAIN k : k[i] \in s}
<1>1. S \in SUBSET DOMAIN k
  OBVIOUS
<1>2. IsFiniteSet(S) /\ Cardinality(S) <= Cardinality(DOMAIN k)
  BY <1>1, FS_Subset
<1>3. Cardinality(S) \in Nat /\ Cardinality(DOMAIN k) \in Nat
  BY <1>2, FS_CardinalityType
<1>4. {i \in DOMAIN k : k[i] \in {}} = {}
  OBVIOUS
<1>5. (\A i \in DOMAIN k : k[i] \in s) => S = DOMAIN k
  OBVIOUS
<1> QED
  BY <1>2, <1>3, <1>4, <1>5, FS_EmptySet DEF Count, Size

LEMMA CountAdds ==
  ASSUME NEW k, IsFiniteSet(DOMAIN k), NEW s, NEW x, x \notin s
  PROVE  Count(k, s \union {x}) = Count(k, s) + Count(k, {x})
<1> DEFINE S == {i \in DOMAIN k : k[i] \in s}
           X == {i \in DOMAIN k : k[i] \in {x}}
<1>1. /\ S \in SUBSET DOMAIN k /\ X \in SUBSET DOMAIN k
      /\ S \cap X = {} /\ S \union X = {i \in DOMAIN k : k[i] \in s \union {x}}
  OBVIOUS
<1> HIDE DEF S, X
<1>2. IsFiniteSet(S) /\ IsFiniteSet(X)
  BY <1>1, FS_Subset
<1>3. Cardinality(S \union X)
        = Cardinality(S) + Cardinality(X) - Cardinality(S \cap X)
  BY <1>2, FS_Union
<1>4. Cardinality(S \cap X) = 0
  BY <1>1, FS_EmptySet
<1>5. Cardinality(S) \in Nat /\ Cardinality(X) \in Nat
  BY <1>2, FS_CardinalityType
<1>6. Cardinality(S \union X) = Cardinality(S) + Cardinality(X)
  BY <1>3, <1>4, <1>5
<1>7. Cardinality(S) = Count(k, s) /\ Cardinality(X) = Count(k, {x})
  BY DEF Count, S, X
<1>8. Cardinality(S \union X) = Count(k, s \union {x})
  BY <1>1 DEF Count
<1> QED
  BY <1>6, <1>7, <1>8

\* A sorting of finitely many rows into finitely many bins.
Sorting(k, B) ==
  /\ IsFiniteSet(DOMAIN k) /\ IsFiniteSet(B)
  /\ \A i \in DOMAIN k : k[i] \in B

Tally(k, B) == [b \in B |-> Count(k, {b})]

LEMMA SumOfTally ==
  ASSUME NEW B, NEW k, Sorting(k, B)
  PROVE  SumOf(Tally(k, B)) = Size(k)
<1>1. IsFiniteSet(B) /\ IsFiniteSet(DOMAIN k)
  BY DEF Sorting
<1>2. Tally(k, B) \in [B -> Int]
  BY <1>1, CountType DEF Tally
<1>3. PICK T : Sums(T, Tally(k, B), B) /\ SumOf(Tally(k, B)) = T[B]
  BY <1>1, <1>2, SumsExist
<1> DEFINE P == {s \in SUBSET B : T[s] = Count(k, s)}
<1>4. {} \in P
  BY <1>1, <1>3, CountType DEF Sums
<1>5. ASSUME NEW s \in SUBSET B, NEW x \in B \ s, s \in P
      PROVE  s \union {x} \in P
  <2>1. /\ s \union {x} \in SUBSET B /\ x \in s \union {x}
        /\ (s \union {x}) \ {x} = s
    BY <1>5
  <2>2. T[s \union {x}] = Tally(k, B)[x] + T[s]
    BY <1>3, <2>1 DEF Sums
  <2>3. Count(k, s \union {x}) = Count(k, s) + Count(k, {x})
    BY <1>1, <1>5, CountAdds
  <2>4. Count(k, s) \in Nat /\ Count(k, {x}) \in Nat
    BY <1>1, CountType
  <2> QED
    BY <1>5, <2>1, <2>2, <2>3, <2>4 DEF Tally
<1>6. B \in P
  <2> HIDE DEF P
  <2> QED
    BY <1>1, <1>4, <1>5, FiniteInduction
<1> QED
  BY <1>1, <1>3, <1>6, CountType DEF Sorting

\* The gap between two sortings over the bins of s, and their sum, in rows of
\* the one times rows of the other.
Gap(k, m, s) == Count(m, s) * Size(k) - Count(k, s) * Size(m)
Both(k, m, s) == Count(m, s) * Size(k) + Count(k, s) * Size(m)

Terms(k, m, B) ==
  [b \in B |-> Gap(k, m, {b})
                 * (LnOf(Count(m, {b}), Size(m)) - LnOf(Count(k, {b}), Size(k)))]

LEMMA GapType ==
  ASSUME NEW k, NEW m, IsFiniteSet(DOMAIN k), IsFiniteSet(DOMAIN m), NEW s
  PROVE  Gap(k, m, s) \in Int /\ Both(k, m, s) \in Nat
<1>1. /\ Count(k, s) \in Nat /\ Count(m, s) \in Nat
      /\ Size(k) \in Nat /\ Size(m) \in Nat
  BY CountType
<1>2. Count(m, s) * Size(k) \in Nat /\ Count(k, s) * Size(m) \in Nat
  BY <1>1
<1> QED
  BY <1>2 DEF Gap, Both

LEMMA GapOfNone ==
  ASSUME NEW k, NEW m, IsFiniteSet(DOMAIN k), IsFiniteSet(DOMAIN m)
  PROVE  Gap(k, m, {}) = 0 /\ Both(k, m, {}) = 0
<1>1. /\ Count(k, {}) = 0 /\ Count(m, {}) = 0
      /\ Size(k) \in Nat /\ Size(m) \in Nat
  BY CountType
<1> QED
  BY <1>1 DEF Gap, Both

LEMMA GapAdds ==
  ASSUME NEW k, NEW m, IsFiniteSet(DOMAIN k), IsFiniteSet(DOMAIN m), NEW s,
         NEW x, x \notin s
  PROVE  /\ Gap(k, m, s \union {x}) = Gap(k, m, s) + Gap(k, m, {x})
         /\ Both(k, m, s \union {x}) = Both(k, m, s) + Both(k, m, {x})
<1>1. \A t : /\ Count(k, t) \in Nat /\ Count(m, t) \in Nat
             /\ Size(k) \in Nat /\ Size(m) \in Nat
  BY CountType
<1>2. /\ Count(k, s \union {x}) = Count(k, s) + Count(k, {x})
      /\ Count(m, s \union {x}) = Count(m, s) + Count(m, {x})
  BY CountAdds
<1>3. ASSUME NEW a \in Nat, NEW b \in Nat, NEW c \in Nat
      PROVE  (a + b) * c = a * c + b * c
  OBVIOUS
<1>4. /\ Count(m, s \union {x}) * Size(k)
           = Count(m, s) * Size(k) + Count(m, {x}) * Size(k)
      /\ Count(k, s \union {x}) * Size(m)
           = Count(k, s) * Size(m) + Count(k, {x}) * Size(m)
  BY <1>1, <1>2, <1>3
<1>5. /\ Count(m, s) * Size(k) \in Nat /\ Count(m, {x}) * Size(k) \in Nat
      /\ Count(k, s) * Size(m) \in Nat /\ Count(k, {x}) * Size(m) \in Nat
  BY <1>1
<1> QED
  BY <1>4, <1>5 DEF Gap, Both

LEMMA PsiIsTheSum ==
  ASSUME NEW B, NEW k, NEW m, Sorting(k, B), Sorting(m, B)
  PROVE  Psi(Tally(k, B), Tally(m, B)) = SumOf(Terms(k, m, B))
<1>1. SumOf(Tally(k, B)) = Size(k) /\ SumOf(Tally(m, B)) = Size(m)
  BY SumOfTally
<1>2. DOMAIN Tally(k, B) = B
  BY DEF Tally
<1>3. \A b \in B : /\ Tally(k, B)[b] = Count(k, {b})
                   /\ Tally(m, B)[b] = Count(m, {b})
  BY DEF Tally
<1>4. [b \in DOMAIN Tally(k, B) |->
         (Tally(m, B)[b] * Size(k) - Tally(k, B)[b] * Size(m))
           * (LnOf(Tally(m, B)[b], Size(m)) - LnOf(Tally(k, B)[b], Size(k)))]
        = Terms(k, m, B)
  BY <1>2, <1>3 DEF Terms, Gap
<1> QED
  BY <1>1, <1>4 DEF Psi

\* The index t lies above a line in the gap g, of the slope that touches the
\* square of the gap at D: b is the weight of the bins.
AboveLine(g, b, t, W, D) ==
  4000 * ((D * W) * g) - (2000 * (D * D) + W * W) * b <= (W * W) * t

\* One more bin, on the side of the cut that s calls its own or on the other.
LEMMA TermsAboveLine ==
  ASSUME LogarithmsOK, NEW B, NEW k, NEW m, Sorting(k, B), Sorting(m, B),
         Size(k) \in DOMAIN Ln, Size(m) \in DOMAIN Ln,
         NEW W \in Nat, NEW D \in Int, NEW x \in B
  PROVE  /\ Terms(k, m, B)[x] \in Int
         /\ AboveLine(Gap(k, m, {x}), Both(k, m, {x}), Terms(k, m, B)[x], W, D)
<1> DEFINE a == Gap(k, m, {x})
           c == Both(k, m, {x})
           p == a * (LnOf(Count(m, {x}), Size(m)) - LnOf(Count(k, {x}), Size(k)))
<1>1. /\ Count(k, {x}) \in 0 .. Size(k) /\ Count(m, {x}) \in 0 .. Size(m)
  BY CountType DEF Sorting
<1>2. /\ a \in Int /\ c \in Nat /\ p \in Int
      /\ 2000 * (a * a) <= c * (p + c)
      /\ c = 0 => a = 0 /\ p = 0
  BY <1>1, TermOfBin DEF Gap, Both
<1>3. Terms(k, m, B)[x] = p
  BY DEF Terms
<1> HIDE DEF a, c, p
<1>4. AboveLine(a, c, p, W, D)
  BY <1>2, TermAboveLine DEF AboveLine
<1> QED
  BY <1>2, <1>3, <1>4 DEF a, c

\* What a sum of terms is bounded by, if every term bounds a step.
LEMMA SumAbove ==
  ASSUME NEW B, IsFiniteSet(B), NEW f \in [B -> Int], NEW w \in Int, NEW L,
         L[{}] = 0, \A s \in SUBSET B : L[s] \in Int,
         \A s \in SUBSET B : \A x \in B \ s :
           L[s \union {x}] <= L[s] + w * f[x]
  PROVE  SumOf(f) \in Int /\ L[B] <= w * SumOf(f)
<1>1. PICK T : Sums(T, f, B) /\ SumOf(f) = T[B]
  BY SumsExist
<1>2. \A s \in SUBSET B : T[s] \in Int
  BY <1>1 DEF Sums
<1> DEFINE P == {s \in SUBSET B : L[s] <= w * T[s]}
<1>3. {} \in P
  <2>1. T[{}] = 0 /\ w * 0 = 0
    BY <1>1 DEF Sums
  <2> QED
    BY <2>1
<1>4. ASSUME NEW s \in SUBSET B, NEW x \in B \ s, s \in P
      PROVE  s \union {x} \in P
  <2> DEFINE z == s \union {x}
  <2>1. /\ z \in SUBSET B /\ x \in z /\ z \ {x} = s
    BY <1>4
  <2>2. T[z] = f[x] + T[s]
    BY <1>1, <2>1 DEF Sums
  <2>3. L[z] <= L[s] + w * f[x] /\ L[s] <= w * T[s]
    BY <1>4
  <2>4. /\ f[x] \in Int /\ T[s] \in Int /\ L[s] \in Int /\ L[z] \in Int
    BY <1>2, <2>1
  <2> HIDE DEF z
  <2>5. /\ w * T[z] = w * f[x] + w * T[s]
        /\ w * f[x] \in Int /\ w * T[s] \in Int
    BY <2>2, <2>4
  <2>6. L[z] <= w * T[z]
    BY <2>3, <2>4, <2>5
  <2> QED
    BY <2>1, <2>6 DEF z
<1>5. B \in P
  <2> HIDE DEF P
  <2> QED
    BY <1>3, <1>4, FiniteInduction
<1> QED
  BY <1>1, <1>2, <1>5

\* One step of the line, from the bound of one bin.
LEMMA LineStep ==
  ASSUME NEW A \in Int, NEW E \in Int, NEW d \in Int, NEW g \in Int,
         NEW b \in Int, NEW c \in Int, NEW t \in Int, NEW e \in Int,
         4000 * (A * g) - E * b <= t, 4000 * ((0 - A) * g) - E * b <= t,
         e = d + g \/ e = d - g
  PROVE  4000 * (A * e) - E * (c + b) <= 4000 * (A * d) - E * c + t
<1>1. E * (c + b) = E * c + E * b /\ E * c \in Int /\ E * b \in Int
  OBVIOUS
<1>2. A * d \in Int /\ A * g \in Int /\ (0 - A) * g = 0 - A * g
  OBVIOUS
<1>3. CASE e = d + g
  <2>1. A * e = A * d + A * g
    BY <1>3
  <2> QED
    BY <1>1, <1>2, <2>1
<1>4. CASE e = d - g
  <2>1. A * e = A * d - A * g
    BY <1>4
  <2> QED
    BY <1>1, <1>2, <2>1
<1> QED
  BY <1>3, <1>4

LEMMA Products ==
  ASSUME NEW D \in Int, NEW W \in Int
  PROVE  /\ D * W \in Int /\ W * W \in Int /\ 2000 * (D * D) + W * W \in Int
         /\ (0 - D) * W = 0 - D * W /\ (0 - D) * (0 - D) = D * D
OBVIOUS

LEMMA SumAboveLine ==
  ASSUME LogarithmsOK, NEW B, NEW k, NEW m, Sorting(k, B), Sorting(m, B),
         Size(k) \in DOMAIN Ln, Size(m) \in DOMAIN Ln,
         NEW W \in Nat, NEW D \in Int, NEW G \in SUBSET B
  PROVE  /\ SumOf(Terms(k, m, B)) \in Int
         /\ AboveLine(2 * Gap(k, m, G) - Gap(k, m, B), Both(k, m, B),
                      SumOf(Terms(k, m, B)), W, D)
<1> DEFINE f == Terms(k, m, B)
           A == D * W
           WW == W * W
           E == 2000 * (D * D) + W * W
           Cut(s) == 2 * Gap(k, m, s \cap G) - Gap(k, m, s)
           L == [s \in SUBSET B |-> 4000 * (A * Cut(s)) - E * Both(k, m, s)]
<1>1. /\ IsFiniteSet(B) /\ IsFiniteSet(DOMAIN k) /\ IsFiniteSet(DOMAIN m)
  BY DEF Sorting
<1>2. A \in Int /\ WW \in Int /\ E \in Int
  BY Products
<1>3. ASSUME NEW x \in B
      PROVE  /\ f[x] \in Int
             /\ 4000 * (A * Gap(k, m, {x})) - E * Both(k, m, {x}) <= WW * f[x]
             /\ 4000 * ((0 - A) * Gap(k, m, {x})) - E * Both(k, m, {x})
                  <= WW * f[x]
  <2>1. 0 - D \in Int
    OBVIOUS
  <2>2. /\ f[x] \in Int
        /\ AboveLine(Gap(k, m, {x}), Both(k, m, {x}), f[x], W, D)
        /\ AboveLine(Gap(k, m, {x}), Both(k, m, {x}), f[x], W, 0 - D)
    BY <2>1, TermsAboveLine
  <2> HIDE DEF f
  <2>3. (0 - D) * W = 0 - A /\ (0 - D) * (0 - D) = D * D
    OBVIOUS
  <2>4. 4000 * (((0 - D) * W) * Gap(k, m, {x}))
          - (2000 * ((0 - D) * (0 - D)) + W * W) * Both(k, m, {x}) <= WW * f[x]
    BY <2>2 DEF AboveLine
  <2>5. 4000 * ((0 - A) * Gap(k, m, {x})) - E * Both(k, m, {x}) <= WW * f[x]
    BY <2>3, <2>4
  <2> QED
    BY <2>2, <2>5 DEF AboveLine
<1> HIDE DEF A, WW, E
<1>4. f \in [B -> Int]
  BY <1>3 DEF Terms
<1> HIDE DEF f
<1>5. \A s : /\ Gap(k, m, s) \in Int /\ Both(k, m, s) \in Int
  BY <1>1, GapType
<1>6. L[{}] = 0
  <2>1. {} \cap G = {} /\ Gap(k, m, {}) = 0 /\ Both(k, m, {}) = 0
    BY <1>1, GapOfNone
  <2>2. 4000 * (A * (2 * 0 - 0)) - E * 0 = 0
    BY <1>2
  <2> QED
    BY <2>1, <2>2
<1>7. ASSUME NEW s \in SUBSET B
      PROVE  Cut(s) \in Int /\ L[s] \in Int
  <2>1. Gap(k, m, s \cap G) \in Int /\ Gap(k, m, s) \in Int
        /\ Both(k, m, s) \in Int
    BY <1>5
  <2>2. Cut(s) \in Int
    BY <2>1
  <2> HIDE DEF Cut
  <2> QED
    BY <1>2, <2>1, <2>2
<1>8. ASSUME NEW s \in SUBSET B, NEW x \in B \ s
      PROVE  L[s \union {x}] <= L[s] + WW * f[x]
  <2> DEFINE z == s \union {x}
             g == Gap(k, m, {x})
  <2>1. z \in SUBSET B
    BY <1>8
  <2>2. /\ Gap(k, m, z) = Gap(k, m, s) + g
        /\ Both(k, m, z) = Both(k, m, s) + Both(k, m, {x})
    BY <1>1, <1>8, GapAdds
  <2>3. Cut(z) = Cut(s) + g \/ Cut(z) = Cut(s) - g
    <3>0. /\ Gap(k, m, s) \in Int /\ g \in Int /\ Gap(k, m, s \cap G) \in Int
      BY <1>5
    <3>1. CASE x \in G
      <4>1. z \cap G = (s \cap G) \union {x} /\ x \notin s \cap G
        BY <1>8, <3>1
      <4>2. Gap(k, m, z \cap G) = Gap(k, m, s \cap G) + g
        BY <1>1, <4>1, GapAdds
      <4> HIDE DEF g, z
      <4> QED
        BY <2>2, <3>0, <4>2
    <3>2. CASE x \notin G
      <4>1. z \cap G = s \cap G
        BY <3>2
      <4>2. Gap(k, m, z \cap G) = Gap(k, m, s \cap G)
        BY <4>1
      <4>3. ASSUME NEW i \in Int, NEW j \in Int, NEW d \in Int
            PROVE  2 * i - (j + d) = (2 * i - j) - d
        OBVIOUS
      <4> HIDE DEF g, z
      <4> QED
        BY <2>2, <3>0, <4>2, <4>3
    <3> QED
      BY <3>1, <3>2
  <2>4. /\ g \in Int /\ Both(k, m, {x}) \in Int /\ Both(k, m, s) \in Int
        /\ f[x] \in Int /\ Cut(s) \in Int /\ Cut(z) \in Int
    BY <1>4, <1>5, <1>7, <2>1
  <2>5. WW * f[x] \in Int
    BY <1>2, <2>4
  <2>6. /\ 4000 * (A * g) - E * Both(k, m, {x}) <= WW * f[x]
        /\ 4000 * ((0 - A) * g) - E * Both(k, m, {x}) <= WW * f[x]
    BY <1>3
  <2> HIDE DEF g, Cut
  <2>7. 4000 * (A * Cut(z)) - E * (Both(k, m, s) + Both(k, m, {x}))
          <= 4000 * (A * Cut(s)) - E * Both(k, m, s) + WW * f[x]
    BY <1>2, <2>3, <2>4, <2>5, <2>6, LineStep
  <2>8. /\ L[z] = 4000 * (A * Cut(z)) - E * Both(k, m, z)
        /\ L[s] = 4000 * (A * Cut(s)) - E * Both(k, m, s)
    BY <2>1
  <2> HIDE DEF z, L
  <2> QED
    BY <2>2, <2>7, <2>8 DEF z
<1>9. \A s \in SUBSET B : L[s] \in Int
  <2> HIDE DEF L, Cut
  <2> QED
    BY <1>7
<1>10. \A s \in SUBSET B : \A x \in B \ s : L[s \union {x}] <= L[s] + WW * f[x]
  BY <1>8
<1> DEFINE c == 2 * Gap(k, m, G) - Gap(k, m, B)
<1>11. L[B] = 4000 * (A * c) - E * Both(k, m, B)
  <2>1. B \cap G = G
    OBVIOUS
  <2>2. Cut(B) = c
    BY <2>1, Zenon
  <2>3. L[B] = 4000 * (A * Cut(B)) - E * Both(k, m, B)
    <3> HIDE DEF Cut
    <3> QED
      OBVIOUS
  <2> HIDE DEF L, Cut, c
  <2> QED
    BY <2>2, <2>3
<1> HIDE DEF L
<1>12. SumOf(f) \in Int /\ L[B] <= WW * SumOf(f)
  BY <1>1, <1>2, <1>4, <1>6, <1>9, <1>10, SumAbove
<1> HIDE DEF c
<1>13. 4000 * (A * c) - E * Both(k, m, B) <= WW * SumOf(f)
  BY <1>11, <1>12
<1>14. AboveLine(c, Both(k, m, B), SumOf(f), W, D)
  BY <1>13 DEF A, WW, E, AboveLine
<1> QED
  BY <1>12, <1>14 DEF f, c

LEMMA SquareOrder ==
  ASSUME NEW x \in Nat, NEW y \in Nat, y * y <= x * x
  PROVE  y <= x
<1>1. SUFFICES ASSUME x < y
               PROVE  x * x < y * y
  OBVIOUS
<1>2. x * x <= x * y /\ x * y < y * y
  BY <1>1
<1> QED
  BY <1>2

\* A stability index below 0.1 leaves no cut that parts the two by more than
\* 0.16 (_psi and _verdict of ml/drift.py), for any bins and any samples.
LEMMA StableIsNear ==
  ASSUME LogarithmsOK, NEW B, NEW k, NEW m, Sorting(k, B), Sorting(m, B),
         Size(k) \in DOMAIN Ln, Size(m) \in DOMAIN Ln, NEW G \in SUBSET B,
         ~(Psi(Tally(k, B), Tally(m, B)) >= 100 * (Size(k) * Size(m)))
  PROVE  /\ 100 * Gap(k, m, G) <= 16 * (Size(k) * Size(m))
         /\ 100 * (0 - Gap(k, m, G)) <= 16 * (Size(k) * Size(m))
<1> DEFINE W == Size(k) * Size(m)
           D == Gap(k, m, G)
           psi == SumOf(Terms(k, m, B))
<1>1. /\ Size(k) \in Nat \ {0} /\ Size(m) \in Nat \ {0}
      /\ W \in Nat \ {0} /\ D \in Int
      /\ IsFiniteSet(DOMAIN k) /\ IsFiniteSet(DOMAIN m)
  <2>1. IsFiniteSet(DOMAIN k) /\ IsFiniteSet(DOMAIN m)
    BY DEF Sorting
  <2>2. Size(k) \in Nat \ {0} /\ Size(m) \in Nat \ {0}
    BY DEF LogarithmsOK
  <2>3. Gap(k, m, G) \in Int
    BY <2>1, GapType
  <2>4. \A a, b \in Nat \ {0} : a * b \in Nat \ {0}
    OBVIOUS
  <2> QED
    BY <2>1, <2>2, <2>3, <2>4
<1>2. Gap(k, m, B) = 0 /\ Both(k, m, B) = 2 * W
  <2>1. Count(k, B) = Size(k) /\ Count(m, B) = Size(m)
    BY CountType DEF Sorting
  <2>2. Size(k) * Size(m) = Size(m) * Size(k)
    BY <1>1
  <2> QED
    BY <1>1, <2>1, <2>2 DEF Gap, Both
<1>3. psi \in Int /\ ~(psi >= 100 * W)
  <2>1. Psi(Tally(k, B), Tally(m, B)) = psi
    BY PsiIsTheSum
  <2>2. 0 \in Nat /\ 0 \in Int /\ G \in SUBSET B
    OBVIOUS
  <2>3. psi \in Int
    BY <2>2, SumAboveLine
  <2> QED
    BY <2>1, <2>3
<1>4. 4000 * ((D * W) * (2 * D - 0)) - (2000 * (D * D) + W * W) * (2 * W)
        <= (W * W) * psi
  <2>1. W \in Nat /\ D \in Int
    BY <1>1
  <2>2. AboveLine(2 * D - Gap(k, m, B), Both(k, m, B), psi, W, D)
    <3> HIDE DEF W
    <3> QED
      BY <2>1, SumAboveLine
  <2>3. AboveLine(2 * D - 0, 2 * W, psi, W, D)
    BY <1>2, <2>2, Zenon
  <2> HIDE DEF W, D, psi
  <2> QED
    BY <2>3 DEF AboveLine
<1> HIDE DEF W, D, psi
<1>5. 4000 * ((D * W) * (2 * D - 0)) - (2000 * (D * D) + W * W) * (2 * W)
        = W * (4000 * (D * D) - 2 * (W * W))
  BY <1>1
<1>6. W * (W * psi - 4000 * (D * D) + 2 * (W * W)) >= 0
  <2>1. (W * W) * psi = W * (W * psi)
    BY <1>1, <1>3
  <2> QED
    BY <1>1, <1>3, <1>4, <1>5, <2>1
<1>7. W * psi - 4000 * (D * D) + 2 * (W * W) >= 0
  <2>1. W * psi - 4000 * (D * D) + 2 * (W * W) \in Int /\ W > 0 /\ W \in Int
    BY <1>1, <1>3
  <2> QED
    BY <1>6, <2>1, Cancels
<1>8. W * psi <= W * (100 * W) /\ W * (100 * W) = 100 * (W * W)
  BY <1>1, <1>3
<1>9. 4000 * (D * D) <= 102 * (W * W)
  <2>1. W * psi \in Int /\ D * D \in Int /\ W * W \in Nat
    BY <1>1, <1>3
  <2> QED
    BY <1>7, <1>8, <2>1
<1>10. (100 * D) * (100 * D) <= (16 * W) * (16 * W)
  <2>1. /\ D * D \in Int /\ W * W \in Nat
        /\ (100 * D) * (100 * D) = 10000 * (D * D)
        /\ (16 * W) * (16 * W) = 256 * (W * W)
    BY <1>1
  <2> QED
    BY <1>9, <2>1
<1>11. 16 * W \in Nat /\ 100 * D \in Int
  BY <1>1
<1>12. CASE D >= 0
  <2>1. 100 * D \in Nat
    BY <1>1, <1>12
  <2>2. 100 * D <= 16 * W
    BY <1>10, <1>11, <2>1, SquareOrder
  <2> QED
    BY <1>1, <1>12, <2>2 DEF W, D
<1>13. CASE D < 0
  <2>1. 0 - 100 * D \in Nat
    BY <1>1, <1>13
  <2>2. (0 - 100 * D) * (0 - 100 * D) = (100 * D) * (100 * D)
    BY <1>11
  <2>3. 0 - 100 * D <= 16 * W
    BY <1>10, <1>11, <2>1, <2>2, SquareOrder
  <2> QED
    BY <1>1, <1>13, <2>3 DEF W, D
<1> QED
  BY <1>1, <1>12, <1>13

-----------------------------------------------------------------------------
(* What a verdict tells                                                     *)

LEMMA NoGapNoIndex ==
  ASSUME LogarithmsOK, NEW B, NEW k, NEW m, Sorting(k, B), Sorting(m, B),
         Size(k) \in DOMAIN Ln, Size(m) \in DOMAIN Ln,
         \A b \in B : Gap(k, m, {b}) = 0
  PROVE  Psi(Tally(k, B), Tally(m, B)) = 0
<1> DEFINE f == Terms(k, m, B)
           L == [s \in SUBSET B |-> 0]
<1>1. \A b \in B : f[b] \in Int /\ f[b] = 0
  <2> TAKE b \in B
  <2>1. f[b] \in Int
    <3>1. 0 \in Nat /\ 0 \in Int
      OBVIOUS
    <3> QED
      BY <3>1, TermsAboveLine
  <2>2. /\ Count(m, {b}) \in 0 .. Size(m) /\ Count(k, {b}) \in 0 .. Size(k)
    BY CountType DEF Sorting
  <2> DEFINE p == LnOf(Count(m, {b}), Size(m)) - LnOf(Count(k, {b}), Size(k))
  <2>3. p \in Int
    <3>1. \A l \in DOMAIN Ln : \A y \in 0 .. l : LnOf(y, l) \in Int
      <4>1. Ln \in Seq(Int) /\ LnEpsilon \in Int
        BY DEF LogarithmsOK
      <4>2. ASSUME NEW l \in DOMAIN Ln, NEW y \in 0 .. l
            PROVE  LnOf(y, l) \in Int
        <5>1. l \in Nat /\ l <= Len(Ln) /\ y \in Int /\ Ln[l] \in Int
              /\ DOMAIN Ln = 1 .. Len(Ln) /\ Len(Ln) \in Nat
          BY <4>1
        <5>2. y # 0 => y \in DOMAIN Ln /\ Ln[y] \in Int
          BY <4>1, <5>1
        <5> QED
          BY <4>1, <5>1, <5>2 DEF LnOf
      <4> QED
        BY <4>2
    <3> QED
      BY <2>2, <3>1
  <2>4. f[b] = 0 * p
    BY DEF Terms
  <2> QED
    BY <2>1, <2>3, <2>4
<1>2. f \in [B -> Int]
  BY <1>1 DEF Terms
<1>3. IsFiniteSet(B)
  BY DEF Sorting
<1> HIDE DEF f
<1>4. /\ L[{}] = 0 /\ \A s \in SUBSET B : L[s] = 0 /\ L[s] \in Int
      /\ L[B] = 0
  OBVIOUS
<1>5. ASSUME NEW w \in Int, NEW s \in SUBSET B, NEW x \in B \ s
      PROVE  L[s \union {x}] <= L[s] + w * f[x]
  <2>1. L[s \union {x}] = 0 /\ L[s] = 0 /\ f[x] = 0
    BY <1>1, <1>4
  <2> HIDE DEF L
  <2> QED
    BY <2>1
<1> HIDE DEF L
<1>6. ASSUME NEW w \in Int
      PROVE  SumOf(f) \in Int /\ L[B] <= w * SumOf(f)
  <2>1. \A s \in SUBSET B : \A x \in B \ s :
          L[s \union {x}] <= L[s] + w * f[x]
    BY <1>5
  <2>2. \A s \in SUBSET B : L[s] \in Int
    BY <1>4
  <2> QED
    BY <1>2, <1>3, <1>4, <2>1, <2>2, SumAbove
<1>7. L[B] <= 1 * SumOf(f) /\ L[B] <= (0 - 1) * SumOf(f)
  <2>1. 0 - 1 \in Int /\ 1 \in Int
    OBVIOUS
  <2> QED
    BY <1>6, <2>1
<1>8. SumOf(f) = 0
  BY <1>4, <1>6, <1>7
<1> QED
  BY <1>8, PsiIsTheSum DEF f

\* What a verdict tells of two sortings (_verdict of ml/drift.py): "stable" says
\* that no cut sets them apart by more than 0.16, and if nothing does at all it
\* is "stable".
THEOREM VerdictTells ==
  ASSUME LogarithmsOK, NEW B, NEW k, NEW m, Sorting(k, B), Sorting(m, B),
         Size(k) \in DOMAIN Ln, Size(m) \in DOMAIN Ln
  PROVE  LET verdict == Verdict(Tally(k, B), Tally(m, B))
         IN /\ verdict \in {"material", "moderate", "stable"}
            /\ verdict = "stable" =>
                 \A G \in SUBSET B :
                   /\ 100 * Gap(k, m, G) <= 16 * (Size(k) * Size(m))
                   /\ 100 * (0 - Gap(k, m, G)) <= 16 * (Size(k) * Size(m))
            /\ (\A b \in B : Gap(k, m, {b}) = 0) => verdict = "stable"
<1> DEFINE psi == Psi(Tally(k, B), Tally(m, B))
           whole == Size(k) * Size(m)
<1>1. SumOf(Tally(k, B)) = Size(k) /\ SumOf(Tally(m, B)) = Size(m)
  BY SumOfTally
<1>2. Verdict(Tally(k, B), Tally(m, B)) =
        IF psi >= 250 * whole THEN "material"
        ELSE IF psi >= 100 * whole THEN "moderate" ELSE "stable"
  <2> DEFINE w == SumOf(Tally(k, B)) * SumOf(Tally(m, B))
  <2>1. Verdict(Tally(k, B), Tally(m, B)) =
          IF psi >= 250 * w THEN "material"
          ELSE IF psi >= 100 * w THEN "moderate" ELSE "stable"
    BY DEF Verdict
  <2>2. w = whole
    BY <1>1
  <2> HIDE DEF w, whole, psi
  <2> QED
    BY <2>1, <2>2
<1>3. Verdict(Tally(k, B), Tally(m, B)) = "stable" => ~(psi >= 100 * whole)
  <2> HIDE DEF psi, whole
  <2> QED
    BY <1>2
<1>4. (\A b \in B : Gap(k, m, {b}) = 0) =>
        Verdict(Tally(k, B), Tally(m, B)) = "stable"
  <2> HAVE \A b \in B : Gap(k, m, {b}) = 0
  <2>1. psi = 0
    BY NoGapNoIndex
  <2>2. whole \in Nat /\ whole > 0
    <3>1. Size(k) \in Nat \ {0} /\ Size(m) \in Nat \ {0}
      BY DEF LogarithmsOK
    <3>2. \A a, b \in Nat \ {0} : a * b \in Nat /\ a * b > 0
      OBVIOUS
    <3> QED
      BY <3>1, <3>2
  <2> HIDE DEF psi, whole
  <2> QED
    BY <1>2, <2>1, <2>2
<1>5. ~(psi >= 100 * whole) =>
        \A G \in SUBSET B :
           /\ 100 * Gap(k, m, G) <= 16 * (Size(k) * Size(m))
           /\ 100 * (0 - Gap(k, m, G)) <= 16 * (Size(k) * Size(m))
  BY StableIsNear
<1> HIDE DEF psi, whole
<1>6. Verdict(Tally(k, B), Tally(m, B)) \in {"material", "moderate", "stable"}
  BY <1>2
<1> QED
  BY <1>3, <1>4, <1>5, <1>6

\* Columns that no value sets apart are not set apart by any set of values.
LEMMA AlikeThroughout ==
  ASSUME NEW xs, NEW ys, NEW V, Sorting(xs, V), Sorting(ys, V),
         \A v \in V : Gap(xs, ys, {v}) = 0, NEW G \in SUBSET V
  PROVE  Gap(xs, ys, G) = 0
<1>1. IsFiniteSet(DOMAIN xs) /\ IsFiniteSet(DOMAIN ys) /\ IsFiniteSet(G)
  BY FS_Subset DEF Sorting
<1> DEFINE P == {s \in SUBSET G : Gap(xs, ys, s) = 0}
<1>2. {} \in P
  BY <1>1, GapOfNone
<1>3. ASSUME NEW s \in SUBSET G, NEW x \in G \ s, s \in P
      PROVE  s \union {x} \in P
  <2>1. Gap(xs, ys, s \union {x}) = Gap(xs, ys, s) + Gap(xs, ys, {x})
    BY <1>1, GapAdds
  <2>2. Gap(xs, ys, s) = 0 /\ Gap(xs, ys, {x}) = 0
    BY <1>3
  <2> QED
    BY <2>1, <2>2
<1>4. G \in P
  <2> HIDE DEF P
  <2> QED
    BY <1>1, <1>2, <1>3, FiniteInduction
<1> QED
  BY <1>4

-----------------------------------------------------------------------------
(* The bins of a number                                                     *)

LEMMA RangeFinite ==
  ASSUME NEW f, IsFiniteSet(DOMAIN f), f = [i \in DOMAIN f |-> f[i]]
  PROVE  IsFiniteSet(Range(f)) /\ Cardinality(Range(f)) <= Size(f)
<1>1. f \in Surjection(DOMAIN f, Range(f))
  BY DEF Surjection, Range
<1> QED
  BY <1>1, FS_Surjection DEF Size

\* Edges in their order: two at least.
Ordered(edges) ==
  /\ edges \in Seq(Int) /\ Len(edges) >= 2
  /\ \A i, j \in DOMAIN edges : i <= j => edges[i] <= edges[j]

\* A value lies below an inner edge exactly if its bin does.
LEMMA BinBelow ==
  ASSUME NEW edges, Ordered(edges), Unit \in Nat, NEW v \in Int
  PROVE  /\ BinOf(edges, v) \in 1 .. (Len(edges) - 1)
         /\ \A i \in 2 .. (Len(edges) - 1) :
              v * Unit < edges[i] <=> BinOf(edges, v) \in 1 .. (i - 1)
<1> DEFINE n == Len(edges)
           S == {i \in 2 .. (n - 1) : edges[i] <= v * Unit}
           w == v * Unit
<1>1. /\ n \in Nat /\ n >= 2 /\ DOMAIN edges = 1 .. n
      /\ \A i \in 1 .. n : edges[i] \in Int
      /\ \A i, j \in 1 .. n : i <= j => edges[i] <= edges[j]
  BY DEF Ordered
<1>2. w \in Int
  OBVIOUS
<1>3. BinOf(edges, v) = 1 + Cardinality(S)
  BY DEF BinOf
<1> HIDE DEF n, w
<1>4. /\ IsFiniteSet(2 .. (n - 1)) /\ Cardinality(2 .. (n - 1)) = n - 2
  <2>1. 2 \in Int /\ n - 1 \in Int
    BY <1>1
  <2>2. Cardinality(2 .. (n - 1)) = IF 2 > n - 1 THEN 0 ELSE (n - 1) - 2 + 1
    BY <2>1, FS_Interval
  <2> QED
    BY <1>1, <2>1, <2>2, FS_Interval
<1>5. S \in SUBSET (2 .. (n - 1))
  BY DEF n
<1>6. /\ IsFiniteSet(S) /\ Cardinality(S) \in Nat /\ Cardinality(S) <= n - 2
  BY <1>4, <1>5, FS_Subset, FS_CardinalityType
<1>7. ASSUME NEW i \in 2 .. (n - 1)
      PROVE  w < edges[i] <=> Cardinality(S) <= i - 2
  <2>1. i \in Int /\ i \in 1 .. n /\ i >= 2
    BY <1>1
  <2>2. CASE w < edges[i]
    <3>1. S \in SUBSET (2 .. (i - 1))
      <4>1. ASSUME NEW j \in S, j > i - 1
            PROVE  FALSE
        <5>1. j \in Int /\ i <= j /\ j \in 1 .. n /\ edges[j] <= w
          BY <1>1, <1>5, <2>1, <4>1 DEF n, w
        <5>2. edges[i] <= edges[j] /\ edges[i] \in Int /\ edges[j] \in Int
          BY <1>1, <2>1, <5>1
        <5> QED
          BY <1>2, <2>2, <5>1, <5>2
      <4>2. ASSUME NEW j \in S
            PROVE  j \in 2 .. (i - 1)
        <5>1. j \in 2 .. (n - 1)
          BY <1>5
        <5> QED
          BY <1>1, <2>1, <4>1, <5>1
      <4> QED
        BY <4>2
    <3>2. /\ IsFiniteSet(2 .. (i - 1))
          /\ Cardinality(2 .. (i - 1)) = IF 2 > i - 1 THEN 0 ELSE (i - 1) - 2 + 1
      <4>1. 2 \in Int /\ i - 1 \in Int
        BY <2>1
      <4> QED
        BY <4>1, FS_Interval
    <3>3. Cardinality(S) <= Cardinality(2 .. (i - 1))
      BY <3>1, <3>2, FS_Subset
    <3>4. Cardinality(2 .. (i - 1)) = i - 2
      BY <2>1, <3>2
    <3> QED
      BY <2>2, <3>3, <3>4
  <2>3. CASE ~(w < edges[i])
    <3>1. 2 .. i \in SUBSET S
      <4>1. ASSUME NEW j \in 2 .. i
            PROVE  j \in S
        <5>1. /\ j \in Int /\ j <= i /\ j \in 1 .. n /\ j \in 2 .. (n - 1)
          BY <1>1, <2>1
        <5>2. edges[j] <= edges[i] /\ edges[i] \in Int /\ edges[j] \in Int
          BY <1>1, <2>1, <5>1
        <5>3. edges[j] <= w
          BY <1>2, <2>3, <5>2
        <5> QED
          BY <5>1, <5>3 DEF n, w
      <4> QED
        BY <4>1
    <3>2. Cardinality(2 .. i) = IF 2 > i THEN 0 ELSE i - 2 + 1
      BY <2>1, FS_Interval
    <3>3. Cardinality(2 .. i) <= Cardinality(S)
      BY <1>6, <3>1, FS_Subset
    <3>4. Cardinality(2 .. i) = i - 1
      BY <2>1, <3>2
    <3>5. ~(Cardinality(S) <= i - 2)
      BY <1>6, <2>1, <3>3, <3>4
    <3> QED
      BY <2>3, <3>5
  <2> QED
    BY <2>2, <2>3
<1> DEFINE c == Cardinality(S)
<1>8. c \in Nat /\ c <= n - 2 /\ BinOf(edges, v) = 1 + c
  BY <1>3, <1>6
<1>9. \A i \in 2 .. (n - 1) : w < edges[i] <=> c <= i - 2
  BY <1>7
<1> HIDE DEF S, c
<1>10. BinOf(edges, v) \in 1 .. (n - 1)
  BY <1>1, <1>8
<1>11. \A i \in 2 .. (n - 1) : c <= i - 2 <=> BinOf(edges, v) \in 1 .. (i - 1)
  BY <1>1, <1>8
<1>12. \A i \in 2 .. (n - 1) :
         w < edges[i] <=> BinOf(edges, v) \in 1 .. (i - 1)
  BY <1>9, <1>11
<1> QED
  BY <1>10, <1>12 DEF n, w

BinsOf(edges, values) == [i \in DOMAIN values |-> BinOf(edges, values[i])]

\* A histogram tallies the bins, and what lies below an inner edge is what the
\* bins before it hold (_histogram of ml/drift.py).
LEMMA HistogramTallies ==
  ASSUME NEW edges, Ordered(edges), Unit \in Nat, NEW values,
         IsFiniteSet(DOMAIN values), \A i \in DOMAIN values : values[i] \in Int
  PROVE  /\ Sorting(BinsOf(edges, values), 1 .. (Len(edges) - 1))
         /\ Size(BinsOf(edges, values)) = Size(values)
         /\ Histogram(edges, values)
              = Tally(BinsOf(edges, values), 1 .. (Len(edges) - 1))
         /\ \A i \in 2 .. (Len(edges) - 1) :
              HowMany(values, LAMBDA v : v * Unit < edges[i])
                = Count(BinsOf(edges, values), 1 .. (i - 1))
<1> DEFINE k == BinsOf(edges, values)
           B == 1 .. (Len(edges) - 1)
<1>1. DOMAIN k = DOMAIN values
  BY DEF BinsOf
<1>2. \A i \in DOMAIN values : k[i] = BinOf(edges, values[i])
  BY DEF BinsOf
<1>3. \A i \in DOMAIN values : k[i] \in B
  BY <1>2, BinBelow
<1>4. Len(edges) - 1 \in Int /\ 1 \in Int
  BY DEF Ordered
<1>5. IsFiniteSet(B)
  BY <1>4, FS_Interval
<1> HIDE DEF k
<1>6. Sorting(k, B)
  <2> HIDE DEF B
  <2> QED
    BY <1>1, <1>3, <1>5 DEF Sorting
<1>7. Size(k) = Size(values)
  BY <1>1 DEF Size
<1>8. ASSUME NEW b \in B
      PROVE  HowMany(values, LAMBDA v : BinOf(edges, v) = b) = Count(k, {b})
  <2>1. {i \in DOMAIN values : BinOf(edges, values[i]) = b}
          = {i \in DOMAIN k : k[i] \in {b}}
    BY <1>1, <1>2
  <2> QED
    BY <2>1 DEF HowMany, Count
<1>9. Histogram(edges, values) = Tally(k, B)
  BY <1>8 DEF Histogram, Tally
<1>10. ASSUME NEW i \in 2 .. (Len(edges) - 1)
       PROVE  HowMany(values, LAMBDA v : v * Unit < edges[i])
                = Count(k, 1 .. (i - 1))
  <2>1. \A j \in DOMAIN values :
          values[j] * Unit < edges[i] <=> BinOf(edges, values[j]) \in 1 .. (i - 1)
    BY BinBelow
  <2>2. {j \in DOMAIN values : values[j] * Unit < edges[i]}
          = {j \in DOMAIN k : k[j] \in 1 .. (i - 1)}
    BY <1>1, <1>2, <2>1
  <2> QED
    BY <2>2 DEF HowMany, Count
<1> QED
  BY <1>6, <1>7, <1>9, <1>10 DEF k

-----------------------------------------------------------------------------
(* The edges are in order                                                   *)

\* A column of finitely many numbers, one of them at least.
Numbers(values) ==
  /\ IsFiniteSet(DOMAIN values) /\ DOMAIN values # {}
  /\ values = [i \in DOMAIN values |-> values[i]]
  /\ \A i \in DOMAIN values : values[i] \in Int

LEMMA NumbersType ==
  ASSUME NEW values, Numbers(values)
  PROVE  /\ IsFiniteSet(Range(values)) /\ Range(values) \subseteq Int
         /\ Range(values) # {}
         /\ Size(values) \in Nat /\ Size(values) >= 1
<1>1. IsFiniteSet(Range(values))
  BY RangeFinite DEF Numbers
<1>2. Range(values) \subseteq Int /\ Range(values) # {}
  BY DEF Numbers, Range
<1>3. Cardinality(DOMAIN values) \in Nat /\ Cardinality(DOMAIN values) # 0
  BY FS_CardinalityType, FS_EmptySet DEF Numbers
<1> QED
  BY <1>1, <1>2, <1>3 DEF Size

\* In order, a column has its own values, as many as it has positions, and none
\* before a smaller one.
LEMMA SortedType ==
  ASSUME NEW values, Numbers(values)
  PROVE  /\ Sorted(values) \in Seq(Int) /\ Len(Sorted(values)) = Size(values)
         /\ \A i, j \in 1 .. Size(values) :
              i <= j => Sorted(values)[i] <= Sorted(values)[j]
<1> DEFINE upto(v) == {i \in DOMAIN values : values[i] <= v}
           at(k) == {v \in Range(values) : Cardinality(upto(v)) >= k}
           n == Size(values)
<1>1. /\ IsFiniteSet(Range(values)) /\ Range(values) \subseteq Int
      /\ Range(values) # {} /\ n \in Nat
  BY NumbersType
<1>2. PICK m \in Range(values) : \A v \in Range(values) : v <= m
  BY <1>1, GreatestOf
<1>3. upto(m) = DOMAIN values
  BY <1>2 DEF Range
<1>4. Cardinality(upto(m)) = n
  BY <1>3 DEF Size
<1>5. \A v \in Range(values) : Cardinality(upto(v)) \in Nat
  <2>1. \A v : upto(v) \in SUBSET DOMAIN values
    OBVIOUS
  <2> HIDE DEF upto
  <2> QED
    BY <2>1, FS_Subset, FS_CardinalityType DEF Numbers
<1> HIDE DEF upto, n
<1>6. ASSUME NEW k \in 1 .. n
      PROVE  /\ Min(at(k)) \in at(k) /\ \A v \in at(k) : Min(at(k)) <= v
             /\ Min(at(k)) \in Int
  <2>1. at(k) \in SUBSET Range(values) /\ m \in at(k)
    BY <1>1, <1>2, <1>4
  <2> HIDE DEF at
  <2>2. IsFiniteSet(at(k)) /\ at(k) \subseteq Int /\ at(k) # {}
    BY <1>1, <2>1, FS_Subset
  <2>3. Min(at(k)) \in at(k) /\ \A v \in at(k) : Min(at(k)) <= v
    BY <2>2, LeastOf
  <2> QED
    BY <2>2, <2>3
<1>7. Sorted(values) = [k \in 1 .. n |-> Min(at(k))]
  BY DEF Sorted, HowMany, n, at, upto
<1>8. ASSUME NEW i \in 1 .. n, NEW j \in 1 .. n, i <= j
      PROVE  Min(at(i)) <= Min(at(j))
  <2>1. at(j) \subseteq at(i)
    <3>1. ASSUME NEW v \in Range(values), Cardinality(upto(v)) >= j
          PROVE  Cardinality(upto(v)) >= i
      <4>1. Cardinality(upto(v)) \in Nat /\ i \in Int /\ j \in Int
        BY <1>1, <1>5
      <4> QED
        BY <1>8, <3>1, <4>1
    <3> QED
      BY <3>1
  <2> HIDE DEF at
  <2> QED
    BY <1>6, <2>1
<1> HIDE DEF at
<1>9. Sorted(values) \in Seq(Int) /\ Len(Sorted(values)) = n
  <2>1. Sorted(values) \in [1 .. n -> Int]
    BY <1>6, <1>7
  <2> QED
    BY <1>1, <2>1
<1>10. \A i, j \in 1 .. n : i <= j => Sorted(values)[i] <= Sorted(values)[j]
  BY <1>7, <1>8
<1> QED
  BY <1>9, <1>10 DEF n

\* The edges of a column that has two values or more are in order, whichever
\* way they are made (_numeric_edges of ml/drift.py).
LEMMA EdgesOrdered ==
  ASSUME Bins \in Nat \ {0}, Unit \in Nat, NEW values, Numbers(values)
  PROVE  Ordered(Edges(values))
<1> DEFINE sorted == Sorted(values)
           n == Size(values)
           last == n - 1
           at(i) == (i * last) \div Bins
           rest(i) == (i * last) % Bins
           next(i) == sorted[Min({at(i) + 2, n})]
           quantile(i) ==
             (Unit \div Bins) * (sorted[at(i) + 1] * (Bins - rest(i))
                                   + next(i) * rest(i))
           quantiles == {quantile(i) : i \in 0 .. Bins}
           width == Min({Bins, Max({2, Cardinality(Range(values))})})
           step == (Unit \div width) * (sorted[n] - sorted[1])
           even == [i \in 1 .. (width + 1) |->
                      Unit * sorted[1] + (i - 1) * step]
           own == [q \in quantiles |-> q]
<1>1. Edges(values) = IF Cardinality(quantiles) >= 3 THEN Sorted(own) ELSE even
  BY DEF Edges
<1>2. /\ n \in Nat /\ n >= 1 /\ IsFiniteSet(Range(values))
      /\ sorted \in Seq(Int) /\ Len(sorted) = n
      /\ \A i, j \in 1 .. n : i <= j => sorted[i] <= sorted[j]
      /\ \A i \in 1 .. n : sorted[i] \in Int
  <2>1. /\ sorted \in Seq(Int) /\ Len(sorted) = n
        /\ \A i, j \in 1 .. n : i <= j => sorted[i] <= sorted[j]
    BY SortedType
  <2>2. n \in Nat /\ n >= 1 /\ IsFiniteSet(Range(values))
    BY NumbersType
  <2> HIDE DEF sorted, n
  <2> QED
    BY <2>1, <2>2
<1> HIDE DEF sorted, n
<1>3. \A a, b \in Int : Min({a, b}) \in {a, b} /\ Min({a, b}) <= a
                        /\ Min({a, b}) <= b
  BY DEF Min
<1>4. ASSUME NEW i \in 0 .. Bins
      PROVE  quantile(i) \in Int
  <2>1. /\ i * last \in Nat /\ i * last <= Bins * last
    BY <1>2
  <2>2. at(i) \in Nat /\ at(i) <= last
    <3> DEFINE p == i * last
    <3>1. p \in Nat /\ last \in Nat /\ p <= Bins * last
      BY <1>2, <2>1
    <3> HIDE DEF p, last
    <3>2. p \div Bins \in Nat /\ p \div Bins <= last
      BY <3>1
    <3> QED
      BY <3>2 DEF p
  <2>3. at(i) + 1 \in 1 .. n
    BY <1>2, <2>2
  <2>4. Min({at(i) + 2, n}) \in 1 .. n
    <3>1. at(i) + 2 \in Int /\ n \in Int
      BY <1>2, <2>2
    <3> HIDE DEF at
    <3>2. /\ Min({at(i) + 2, n}) \in {at(i) + 2, n}
          /\ Min({at(i) + 2, n}) <= n
      BY <1>3, <3>1
    <3> QED
      BY <1>2, <2>2, <3>2
  <2>5. sorted[at(i) + 1] \in Int /\ next(i) \in Int
    BY <1>2, <2>3, <2>4
  <2>6. rest(i) \in Int /\ Unit \div Bins \in Int
    <3> DEFINE p == i * last
    <3>1. p \in Nat
      BY <2>1
    <3> HIDE DEF p
    <3>2. p % Bins \in Int /\ Unit \div Bins \in Int
      BY <3>1
    <3> QED
      BY <3>2 DEF p
  <2> DEFINE a == sorted[at(i) + 1]
             b == next(i)
             r == rest(i)
             u == Unit \div Bins
  <2>7. a \in Int /\ b \in Int /\ r \in Int /\ u \in Int
    BY <2>5, <2>6
  <2> HIDE DEF a, b, r, u
  <2>8. u * (a * (Bins - r) + b * r) \in Int
    <3>1. a * (Bins - r) \in Int /\ b * r \in Int
      BY <2>7
    <3> QED
      BY <2>7, <3>1
  <2> QED
    BY <2>8 DEF a, b, r, u
<1>5. CASE Cardinality(quantiles) >= 3
  <2> HIDE DEF quantile
  <2>1. IsFiniteSet(quantiles)
    <3>1. IsFiniteSet(0 .. Bins)
      BY FS_Interval
    <3> DEFINE g == [i \in 0 .. Bins |-> quantile(i)]
    <3>2. DOMAIN g = 0 .. Bins /\ g = [i \in DOMAIN g |-> g[i]]
          /\ Range(g) = quantiles
      BY DEF Range
    <3> HIDE DEF g
    <3> QED
      BY <3>1, <3>2, RangeFinite
  <2>2. quantiles \subseteq Int
    BY <1>4
  <2> HIDE DEF quantiles
  <2>3. DOMAIN own = quantiles /\ own = [q \in DOMAIN own |-> own[q]]
        /\ \A q \in DOMAIN own : own[q] \in Int
    BY <2>2
  <2>4. quantiles # {}
    BY <1>5, FS_EmptySet
  <2>5. Size(own) = Cardinality(quantiles)
    BY <2>3 DEF Size
  <2> HIDE DEF own
  <2>6. Numbers(own)
    BY <2>1, <2>3, <2>4 DEF Numbers
  <2>7. /\ Sorted(own) \in Seq(Int) /\ Len(Sorted(own)) = Size(own)
        /\ \A i, j \in 1 .. Size(own) :
             i <= j => Sorted(own)[i] <= Sorted(own)[j]
    BY <2>6, SortedType
  <2>8. Edges(values) = Sorted(own)
    BY <1>1, <1>5
  <2>9. DOMAIN Sorted(own) = 1 .. Size(own) /\ Size(own) >= 2
    <3>1. Cardinality(quantiles) \in Nat
      BY <2>1, FS_CardinalityType
    <3> QED
      BY <1>5, <2>5, <2>7, <3>1
  <2> QED
    BY <2>7, <2>8, <2>9 DEF Ordered
<1>6. CASE ~(Cardinality(quantiles) >= 3)
  <2> HIDE DEF quantile, quantiles
  <2>1. width \in Nat /\ width >= 1
    <3>1. Max({2, Cardinality(Range(values))}) \in Nat
          /\ Max({2, Cardinality(Range(values))}) >= 2
      <4>1. Cardinality(Range(values)) \in Nat
        BY <1>2, FS_CardinalityType
      <4>2. \A a, b \in Nat : Max({a, b}) \in {a, b} /\ Max({a, b}) >= a
        BY DEF Max
      <4> QED
        BY <4>1, <4>2
    <3> DEFINE x == Max({2, Cardinality(Range(values))})
    <3> HIDE DEF x
    <3>2. x \in Nat /\ x >= 2
      BY <3>1 DEF x
    <3>3. Min({Bins, x}) \in {Bins, x}
      <4>1. Bins \in Int /\ x \in Int
        BY <3>2
      <4> QED
        BY <1>3, <4>1, Zenon
    <3>4. Min({Bins, x}) \in Nat /\ Min({Bins, x}) >= 1
      BY <3>2, <3>3
    <3> QED
      BY <3>4 DEF x
  <2> HIDE DEF width
  <2>2. step \in Int /\ step >= 0
    <3>1. Unit \div width \in Nat
      BY <2>1
    <3>2. sorted[n] - sorted[1] \in Nat
      <4>1. 1 \in 1 .. n /\ n \in 1 .. n /\ 1 <= n
        BY <1>2
      <4>2. sorted[1] <= sorted[n] /\ sorted[1] \in Int /\ sorted[n] \in Int
        BY <1>2, <4>1
      <4> QED
        BY <4>2
    <3>3. \A a, b \in Nat : a * b \in Int /\ a * b >= 0
      OBVIOUS
    <3> QED
      BY <3>1, <3>2, <3>3
  <2> HIDE DEF step
  <2>3. Unit * sorted[1] \in Int
    <3>1. sorted[1] \in Int
      BY <1>2
    <3> QED
      BY <3>1
  <2> DEFINE base == Unit * sorted[1]
  <2>4. base \in Int
    BY <2>3
  <2>5. even = [i \in 1 .. (width + 1) |-> base + (i - 1) * step]
    OBVIOUS
  <2> HIDE DEF base, even
  <2>6. ASSUME NEW i \in 1 .. (width + 1)
        PROVE  (i - 1) * step \in Int /\ base + (i - 1) * step \in Int
    <3>1. i - 1 \in Int
      BY <2>1
    <3>2. \A a \in Int : a * step \in Int
      BY <2>2
    <3> QED
      BY <2>4, <3>1, <3>2
  <2>7. even \in [1 .. (width + 1) -> Int]
    BY <2>5, <2>6
  <2>8. even \in Seq(Int) /\ Len(even) = width + 1 /\ DOMAIN even = 1 .. (width + 1)
    BY <2>1, <2>7
  <2>9. ASSUME NEW i \in 1 .. (width + 1), NEW j \in 1 .. (width + 1), i <= j
        PROVE  even[i] <= even[j]
    <3>1. i - 1 \in Int /\ j - 1 \in Int /\ i - 1 <= j - 1
      BY <2>1, <2>9
    <3>2. \A a, b \in Int : a <= b => a * step <= b * step
      BY <2>2
    <3>3. (i - 1) * step <= (j - 1) * step
      BY <3>1, <3>2
    <3>4. /\ even[i] = base + (i - 1) * step /\ even[j] = base + (j - 1) * step
          /\ (i - 1) * step \in Int /\ (j - 1) * step \in Int
      BY <2>5, <2>6
    <3> QED
      BY <2>4, <3>3, <3>4
  <2>10. Edges(values) = even
    BY <1>1, <1>6
  <2> QED
    BY <2>1, <2>8, <2>9, <2>10 DEF Ordered
<1> QED
  BY <1>5, <1>6

-----------------------------------------------------------------------------
(* What the verdict on a column tells                                       *)

\* How far two sortings are apart over a set of bins.
LEMMA ApartIsGap ==
  ASSUME NEW k, NEW m, IsFiniteSet(DOMAIN k), IsFiniteSet(DOMAIN m), NEW s
  PROVE  LET gap == Count(k, s) * Size(m) - Count(m, s) * Size(k)
         IN /\ Max({gap, -gap}) \in {Gap(k, m, s), 0 - Gap(k, m, s)}
            /\ Max({gap, -gap}) = 0 => Gap(k, m, s) = 0
<1> DEFINE gap == Count(k, s) * Size(m) - Count(m, s) * Size(k)
<1>1. Gap(k, m, s) \in Int /\ gap = 0 - Gap(k, m, s)
  <2>1. /\ Count(k, s) \in Nat /\ Count(m, s) \in Nat
        /\ Size(k) \in Nat /\ Size(m) \in Nat
    BY CountType
  <2> DEFINE a == Count(k, s) * Size(m)
             b == Count(m, s) * Size(k)
  <2>2. a \in Int /\ b \in Int
    BY <2>1
  <2>3. Gap(k, m, s) = b - a /\ gap = a - b
    BY DEF Gap
  <2> HIDE DEF a, b, gap
  <2> QED
    BY <2>2, <2>3
<1> HIDE DEF gap
<1>2. gap \in Int /\ -gap = Gap(k, m, s)
  BY <1>1
<1>3. \A a, b \in Int : Max({a, b}) \in {a, b}
  BY DEF Max
<1>4. Max({gap, -gap}) \in {gap, -gap}
  BY <1>1, <1>2, <1>3
<1>5. /\ Max({gap, -gap}) \in {Gap(k, m, s), 0 - Gap(k, m, s)}
      /\ Max({gap, -gap}) = 0 => Gap(k, m, s) = 0
  BY <1>1, <1>2, <1>4
<1> QED
  BY <1>5 DEF gap

\* Two columns in which every value has the same share.
Even(xs, ys) ==
  \A v \in Range(xs) \union Range(ys) : Apart(xs, ys, LAMBDA x : x = v) = 0

\* Sorted by their values, they fill every set of bins alike.
LEMMA EvenlySorted ==
  ASSUME NEW xs, NEW ys, Even(xs, ys),
         IsFiniteSet(DOMAIN xs), xs = [i \in DOMAIN xs |-> xs[i]],
         IsFiniteSet(DOMAIN ys), ys = [i \in DOMAIN ys |-> ys[i]],
         NEW F, NEW k, NEW m, NEW s,
         DOMAIN k = DOMAIN xs, \A i \in DOMAIN xs : k[i] = F[xs[i]],
         DOMAIN m = DOMAIN ys, \A i \in DOMAIN ys : m[i] = F[ys[i]]
  PROVE  Gap(k, m, s) = 0
<1> DEFINE V == Range(xs) \union Range(ys)
           G == {v \in V : F[v] \in s}
<1>1. /\ \A i \in DOMAIN xs : xs[i] \in V
      /\ \A i \in DOMAIN ys : ys[i] \in V
  BY DEF Range
<1>2. IsFiniteSet(V)
  BY RangeFinite, FS_Union
<1>3. ASSUME NEW v \in V
      PROVE  Gap(xs, ys, {v}) = 0
  <2>1. /\ {i \in DOMAIN xs : xs[i] = v} = {i \in DOMAIN xs : xs[i] \in {v}}
        /\ {i \in DOMAIN ys : ys[i] = v} = {i \in DOMAIN ys : ys[i] \in {v}}
    OBVIOUS
  <2> DEFINE gap == Count(xs, {v}) * Size(ys) - Count(ys, {v}) * Size(xs)
  <2>2. Apart(xs, ys, LAMBDA x : x = v) = Max({gap, -gap})
    BY <2>1 DEF Apart, HowMany, Count
  <2>3. Max({gap, -gap}) = 0 => Gap(xs, ys, {v}) = 0
    BY ApartIsGap
  <2>4. Apart(xs, ys, LAMBDA x : x = v) = 0
    BY DEF Even
  <2> QED
    BY <2>2, <2>3, <2>4, Zenon
<1> HIDE DEF V
<1>4. Sorting(xs, V) /\ Sorting(ys, V)
  BY <1>1, <1>2 DEF Sorting
<1>5. G \in SUBSET V
  OBVIOUS
<1>6. /\ {i \in DOMAIN xs : xs[i] \in G} = {i \in DOMAIN k : k[i] \in s}
      /\ {i \in DOMAIN ys : ys[i] \in G} = {i \in DOMAIN m : m[i] \in s}
  BY <1>1
<1>7. /\ Count(k, s) = Count(xs, G) /\ Count(m, s) = Count(ys, G)
      /\ Size(k) = Size(xs) /\ Size(m) = Size(ys)
  BY <1>6 DEF Count, Size
<1>8. Gap(k, m, s) = Gap(xs, ys, G)
  BY <1>7 DEF Gap
<1> QED
  BY <1>3, <1>4, <1>5, <1>8, AlikeThroughout

\* A column that can be measured: finitely many values.
Finite(values) ==
  IsFiniteSet(DOMAIN values) /\ values = [i \in DOMAIN values |-> values[i]]

\* Two columns are near below an edge, or in a label; the values that are new.
NearBelow(xs, ys, e) == Near(xs, ys, LAMBDA v : v * Unit < e)
NearIn(xs, ys, l) == Near(xs, ys, LAMBDA v : v = l)
New(xs, ys) == HowMany(ys, LAMBDA v : v \notin Range(xs))

\* What the verdict on a numeric column tells (_numeric_reference and
\* _compare_numeric of ml/drift.py).
LEMMA NumericTells ==
  ASSUME LogarithmsOK, Bins \in Nat \ {0}, Unit \in Nat, NEW was, NEW now,
         Finite(was), Finite(now),
         \A i \in DOMAIN was : was[i] \in Int,
         \A i \in DOMAIN now : now[i] \in Int,
         Size(was) # 0 => Size(was) \in DOMAIN Ln,
         Size(now) # 0 => Size(now) \in DOMAIN Ln
  PROVE  LET spec == NumericReference(was)
             col == CompareNumeric(spec, now)
         IN /\ col.measured => /\ col.verdict \in {"material", "moderate", "stable"}
                               /\ Even(was, now) => col.verdict = "stable"
            /\ Size(now) # 0 /\ (col.measured => col.verdict = "stable") =>
                 \A i \in 2 .. (Len(spec.edges) - 1) :
                   NearBelow(was, now, spec.edges[i])
<1> DEFINE spec == NumericReference(was)
           col == CompareNumeric(spec, now)
<1>1. CASE Cardinality(Range(was)) <= 1
  <2>1. spec.edges = <<>>
    BY <1>1 DEF NumericReference
  <2> HIDE DEF spec
  <2>2. ~col.measured
    BY <2>1 DEF CompareNumeric, Column
  <2>3. 2 .. (Len(spec.edges) - 1) = {}
    BY <2>1
  <2> HIDE DEF col
  <2>4. \A i \in 2 .. (Len(spec.edges) - 1) :
          NearBelow(was, now, spec.edges[i])
    BY <2>3
  <2> QED
    BY <2>2, <2>4 DEF spec, col
<1>2. CASE ~(Cardinality(Range(was)) <= 1)
  <2> DEFINE edges == Edges(was)
             B == 1 .. (Len(edges) - 1)
             k == BinsOf(edges, was)
             m == BinsOf(edges, now)
  <2>1. spec.edges = edges /\ spec.counts = Histogram(edges, was)
    BY <1>2 DEF NumericReference
  <2>2. Range(was) # {}
    BY <1>2, FS_EmptySet
  <2>3. Numbers(was)
    BY <2>2 DEF Numbers, Finite, Range
  <2>4. Ordered(edges)
    BY <2>3, EdgesOrdered
  <2>5. edges # <<>>
    <3> HIDE DEF edges
    <3>1. Len(<<>>) = 0
      OBVIOUS
    <3> QED
      BY <2>4, <3>1 DEF Ordered
  <2>6. Size(was) # 0
    BY <2>3, NumbersType
  <2> HIDE DEF edges, spec
  <2>7. /\ Sorting(k, B) /\ Size(k) = Size(was)
        /\ Histogram(edges, was) = Tally(k, B)
        /\ \A i \in 2 .. (Len(edges) - 1) :
             HowMany(was, LAMBDA v : v * Unit < edges[i]) = Count(k, 1 .. (i - 1))
    BY <2>4, HistogramTallies DEF Finite
  <2>8. /\ Sorting(m, B) /\ Size(m) = Size(now)
        /\ Histogram(edges, now) = Tally(m, B)
        /\ \A i \in 2 .. (Len(edges) - 1) :
             HowMany(now, LAMBDA v : v * Unit < edges[i]) = Count(m, 1 .. (i - 1))
    BY <2>4, HistogramTallies DEF Finite
  <2>9. /\ Size(now) = 0 => ~col.measured
        /\ Size(now) # 0 => /\ col.measured
                            /\ col.verdict = Verdict(Tally(k, B), Tally(m, B))
    <3> HIDE DEF B, k, m
    <3> QED
      BY <2>1, <2>5, <2>7, <2>8 DEF CompareNumeric, Column
  <2> HIDE DEF col
  <2>10. CASE Size(now) = 0
    BY <2>9, <2>10 DEF spec, col
  <2>11. CASE Size(now) # 0
    <3> DEFINE verdict == Verdict(Tally(k, B), Tally(m, B))
    <3>1. /\ verdict \in {"material", "moderate", "stable"}
          /\ verdict = "stable" =>
               \A G \in SUBSET B :
                 /\ 100 * Gap(k, m, G) <= 16 * (Size(k) * Size(m))
                 /\ 100 * (0 - Gap(k, m, G)) <= 16 * (Size(k) * Size(m))
          /\ (\A b \in B : Gap(k, m, {b}) = 0) => verdict = "stable"
      <4>1. Size(k) \in DOMAIN Ln /\ Size(m) \in DOMAIN Ln
        BY <2>6, <2>7, <2>8, <2>11
      <4> HIDE DEF k, m, B
      <4> QED
        BY <2>7, <2>8, <4>1, VerdictTells
    <3> HIDE DEF verdict
    <3>2. ASSUME Even(was, now)
          PROVE  verdict = "stable"
      <4> DEFINE F == [v \in Range(was) \union Range(now) |-> BinOf(edges, v)]
      <4>1. /\ DOMAIN k = DOMAIN was
            /\ \A i \in DOMAIN was : k[i] = F[was[i]]
            /\ DOMAIN m = DOMAIN now
            /\ \A i \in DOMAIN now : m[i] = F[now[i]]
        BY DEF BinsOf, Range
      <4> HIDE DEF F, k, m
      <4>2. \A s : Gap(k, m, s) = 0
        BY <3>2, <4>1, EvenlySorted DEF Finite
      <4> QED
        BY <3>1, <4>2
    <3>3. ASSUME verdict = "stable", NEW i \in 2 .. (Len(spec.edges) - 1)
          PROVE  NearBelow(was, now, spec.edges[i])
      <4> DEFINE G == 1 .. (i - 1)
                 gap == Count(k, G) * Size(m) - Count(m, G) * Size(k)
      <4>0. i \in 2 .. (Len(edges) - 1)
        BY <2>1
      <4>1. G \in SUBSET B
        BY <2>4, <4>0 DEF Ordered
      <4>2. /\ 100 * Gap(k, m, G) <= 16 * (Size(k) * Size(m))
            /\ 100 * (0 - Gap(k, m, G)) <= 16 * (Size(k) * Size(m))
        BY <3>1, <3>3, <4>1
      <4>3. Max({gap, -gap}) \in {Gap(k, m, G), 0 - Gap(k, m, G)}
        BY <2>7, <2>8, ApartIsGap DEF Sorting
      <4>4. /\ Cardinality({j \in DOMAIN was : was[j] * Unit < edges[i]})
                 = Count(k, G)
            /\ Cardinality({j \in DOMAIN now : now[j] * Unit < edges[i]})
                 = Count(m, G)
        BY <2>7, <2>8, <4>0 DEF HowMany
      <4> HIDE DEF G, k, m
      <4>5. Apart(was, now, LAMBDA v : v * Unit < spec.edges[i])
              = Max({gap, -gap})
        BY <2>1, <2>7, <2>8, <4>4 DEF Apart, HowMany
      <4> HIDE DEF gap
      <4>6. 100 * Apart(was, now, LAMBDA v : v * Unit < spec.edges[i])
              <= 16 * (Size(k) * Size(m))
        BY <4>2, <4>3, <4>5
      <4> QED
        BY <2>7, <2>8, <4>6 DEF Near, NearBelow
    <3>4. col.measured /\ col.verdict = verdict
      BY <2>9, <2>11 DEF verdict
    <3>5. verdict = "stable" => \A i \in 2 .. (Len(spec.edges) - 1) :
            NearBelow(was, now, spec.edges[i])
      BY <3>3
    <3> HIDE DEF B, k, m
    <3>6. /\ col.measured => /\ col.verdict \in {"material", "moderate", "stable"}
                             /\ Even(was, now) => col.verdict = "stable"
          /\ Size(now) # 0 /\ (col.measured => col.verdict = "stable") =>
               \A i \in 2 .. (Len(spec.edges) - 1) :
                 NearBelow(was, now, spec.edges[i])
      BY <3>1, <3>2, <3>4, <3>5
    <3> QED
      BY <3>6 DEF spec, col
  <2> QED
    BY <2>10, <2>11
<1> QED
  BY <1>1, <1>2

\* Values sorted by the labels they have; what is no label is "__other__".
LabelsOf(labels, values) ==
  [i \in DOMAIN values |->
     IF values[i] \in labels THEN values[i] ELSE "__other__"]

LEMMA LabelsTallied ==
  ASSUME NEW labels, IsFiniteSet(labels), "__other__" \notin labels,
         NEW values, Finite(values)
  PROVE  /\ Sorting(LabelsOf(labels, values), labels \union {"__other__"})
         /\ Size(LabelsOf(labels, values)) = Size(values)
         /\ \A l \in labels : Cardinality({i \in DOMAIN values : values[i] = l})
                                = Count(LabelsOf(labels, values), {l})
         /\ Cardinality({i \in DOMAIN values : values[i] \notin labels})
              = Count(LabelsOf(labels, values), {"__other__"})
<1> DEFINE k == LabelsOf(labels, values)
           B == labels \union {"__other__"}
<1>1. /\ DOMAIN k = DOMAIN values
      /\ \A i \in DOMAIN values :
           k[i] = IF values[i] \in labels THEN values[i] ELSE "__other__"
  BY DEF LabelsOf
<1> HIDE DEF k
<1>2. IsFiniteSet(B)
  BY FS_AddElement
<1>3. \A i \in DOMAIN k : k[i] \in B
  BY <1>1
<1>4. Sorting(k, B)
  <2> HIDE DEF B
  <2> QED
    BY <1>1, <1>2, <1>3 DEF Sorting, Finite
<1>5. Size(k) = Size(values)
  BY <1>1 DEF Size
<1>6. ASSUME NEW l \in labels
      PROVE  Cardinality({i \in DOMAIN values : values[i] = l}) = Count(k, {l})
  <2>1. {i \in DOMAIN values : values[i] = l} = {i \in DOMAIN k : k[i] \in {l}}
    BY <1>1
  <2> QED
    BY <2>1 DEF Count
<1>7. Cardinality({i \in DOMAIN values : values[i] \notin labels})
        = Count(k, {"__other__"})
  <2>1. {i \in DOMAIN values : values[i] \notin labels}
          = {i \in DOMAIN k : k[i] \in {"__other__"}}
    BY <1>1
  <2> QED
    BY <2>1 DEF Count
<1> QED
  BY <1>4, <1>5, <1>6, <1>7 DEF k

\* What the verdict on a categorical column tells (_categorical_reference and
\* _compare_categorical of ml/drift.py).
LEMMA CategoricalTells ==
  ASSUME LogarithmsOK, NEW cap, NEW was, NEW now, Finite(was), Finite(now),
         "__other__" \notin Range(was),
         Size(was) # 0 => Size(was) \in DOMAIN Ln,
         Size(now) # 0 => Size(now) \in DOMAIN Ln
  PROVE  LET spec == CategoricalReference(was, cap)
             col == CompareCategorical(spec, now)
         IN /\ col.measured =>
                 /\ col.verdict \in {"material", "moderate", "stable"}
                 /\ Even(was, now) /\ ~(spec.pooled > 0) => col.verdict = "stable"
            /\ /\ spec.labels # {} /\ Size(now) # 0
               /\ col.measured => col.verdict = "stable"
               =>
                 /\ \A l \in spec.labels : NearIn(was, now, l)
                 /\ 20 * New(was, now) <= Size(now)
<1> DEFINE spec == CategoricalReference(was, cap)
           col == CompareCategorical(spec, now)
           labels == spec.labels
           B == labels \union {"__other__"}
           k == LabelsOf(labels, was)
           m == LabelsOf(labels, now)
           outside == Cardinality({i \in DOMAIN now : now[i] \notin labels})
           verdict == Verdict(Tally(k, B), Tally(m, B))
<1>1. /\ labels \subseteq Range(was)
      /\ spec.counts = [l \in labels |->
                          Cardinality({i \in DOMAIN was : was[i] = l})]
      /\ spec.pooled = Cardinality({i \in DOMAIN was : was[i] \notin labels})
  BY DEF CategoricalReference, HowMany
<1> HIDE DEF spec
<1>2. IsFiniteSet(labels) /\ "__other__" \notin labels
  BY <1>1, RangeFinite, FS_Subset DEF Finite
<1> HIDE DEF labels
<1>3. /\ Sorting(k, B) /\ Size(k) = Size(was)
      /\ \A l \in labels : Cardinality({i \in DOMAIN was : was[i] = l})
                             = Count(k, {l})
      /\ Cardinality({i \in DOMAIN was : was[i] \notin labels})
           = Count(k, {"__other__"})
  BY <1>2, LabelsTallied
<1>4. /\ Sorting(m, B) /\ Size(m) = Size(now)
      /\ \A l \in labels : Cardinality({i \in DOMAIN now : now[i] = l})
                             = Count(m, {l})
      /\ outside = Count(m, {"__other__"})
  BY <1>2, LabelsTallied
<1> HIDE DEF k, m
<1>5. [l \in B |-> IF l \in labels THEN spec.counts[l] ELSE spec.pooled]
        = Tally(k, B)
  <2>1. ASSUME NEW l \in B
        PROVE  (IF l \in labels THEN spec.counts[l] ELSE spec.pooled)
                 = Count(k, {l})
    BY <1>1, <1>3 DEF labels
  <2> HIDE DEF B
  <2> QED
    BY <2>1 DEF Tally
<1>6. [l \in B |-> IF l = "__other__" THEN outside
                   ELSE Cardinality({i \in DOMAIN now : now[i] = l})]
        = Tally(m, B)
  <2> HIDE DEF outside
  <2>1. ASSUME NEW l \in B
        PROVE  (IF l = "__other__" THEN outside
                ELSE Cardinality({i \in DOMAIN now : now[i] = l}))
                 = Count(m, {l})
    BY <1>4
  <2> HIDE DEF B
  <2> QED
    BY <2>1 DEF Tally
<1>7. col = IF labels = {} \/ Size(now) = 0 THEN Column(FALSE, "unavailable")
            ELSE Column(TRUE, IF /\ verdict = "stable"
                                 /\ 20 * outside >= Size(now) /\ outside > 0
                              THEN "moderate" ELSE verdict)
  <2> DEFINE ref == [l \in B |->
                       IF l \in labels THEN spec.counts[l] ELSE spec.pooled]
             live == [l \in B |->
                        IF l = "__other__" THEN outside
                        ELSE Cardinality({i \in DOMAIN now : now[i] = l})]
  <2>1. DOMAIN ref = B
    OBVIOUS
  <2>2. col = IF labels = {} \/ Size(now) = 0 THEN Column(FALSE, "unavailable")
            ELSE Column(TRUE, IF /\ Verdict(ref, live) = "stable"
                                 /\ 20 * outside >= Size(now) /\ outside > 0
                              THEN "moderate" ELSE Verdict(ref, live))
    BY <2>1 DEF CompareCategorical, HowMany, labels
  <2>3. ref = Tally(k, B) /\ live = Tally(m, B)
    BY <1>5, <1>6
  <2> HIDE DEF ref, live, outside, col, B
  <2> QED
    BY <2>2, <2>3
<1>8. outside \in Nat /\ Size(now) \in Nat /\ Size(was) \in Nat
  <2>1. /\ Count(m, {"__other__"}) \in Nat /\ Size(m) \in Nat /\ Size(k) \in Nat
    BY <1>3, <1>4, CountType DEF Sorting
  <2> QED
    BY <1>3, <1>4, <2>1
<1>9. {i \in DOMAIN now : now[i] \notin Range(was)}
        \in SUBSET {i \in DOMAIN now : now[i] \notin labels}
  BY <1>1 DEF labels
<1>10. /\ Cardinality({i \in DOMAIN now : now[i] \notin Range(was)}) \in Nat
       /\ Cardinality({i \in DOMAIN now : now[i] \notin Range(was)}) <= outside
  <2>1. IsFiniteSet({i \in DOMAIN now : now[i] \notin labels})
    <3>1. {i \in DOMAIN now : now[i] \notin labels} \in SUBSET DOMAIN now
      OBVIOUS
    <3> QED
      BY <3>1, FS_Subset DEF Finite
  <2> QED
    BY <1>9, <2>1, FS_Subset, FS_CardinalityType
<1> HIDE DEF col, outside, verdict
<1>11. CASE labels = {} \/ Size(now) = 0
  <2>1. ~col.measured
    BY <1>7, <1>11 DEF Column
  <2> QED
    BY <1>11, <2>1 DEF spec, col, labels
<1>12. CASE labels # {} /\ Size(now) # 0
  <2>1. Size(k) \in DOMAIN Ln /\ Size(m) \in DOMAIN Ln
    <3>1. Size(was) # 0
      <4>1. DOMAIN was # {}
        BY <1>1, <1>12 DEF labels, Range
      <4> QED
        BY <4>1, FS_EmptySet DEF Finite, Size
    <3> QED
      BY <1>3, <1>4, <1>12, <3>1
  <2>2. /\ verdict \in {"material", "moderate", "stable"}
        /\ verdict = "stable" =>
             \A G \in SUBSET B :
               /\ 100 * Gap(k, m, G) <= 16 * (Size(k) * Size(m))
               /\ 100 * (0 - Gap(k, m, G)) <= 16 * (Size(k) * Size(m))
        /\ (\A b \in B : Gap(k, m, {b}) = 0) => verdict = "stable"
    <3> HIDE DEF B
    <3> QED
      BY <1>3, <1>4, <2>1, VerdictTells DEF verdict
  <2>3. /\ col.measured
        /\ col.verdict = IF /\ verdict = "stable"
                            /\ 20 * outside >= Size(now) /\ outside > 0
                         THEN "moderate" ELSE verdict
    BY <1>7, <1>12 DEF Column
  <2>4. ASSUME Even(was, now), ~(spec.pooled > 0)
        PROVE  verdict = "stable" /\ outside = 0
    <3> DEFINE F == [v \in Range(was) \union Range(now) |->
                       IF v \in labels THEN v ELSE "__other__"]
    <3>1. /\ DOMAIN k = DOMAIN was
          /\ \A i \in DOMAIN was : k[i] = F[was[i]]
          /\ DOMAIN m = DOMAIN now
          /\ \A i \in DOMAIN now : m[i] = F[now[i]]
      BY DEF LabelsOf, Range, k, m
    <3> HIDE DEF F
    <3>2. \A s : Gap(k, m, s) = 0
      BY <2>4, <3>1, EvenlySorted DEF Finite
    <3>3. verdict = "stable"
      BY <2>2, <3>2
    <3>4. Count(k, {"__other__"}) = 0
      <4>1. Count(k, {"__other__"}) \in Nat
        BY <1>3, CountType DEF Sorting
      <4>2. spec.pooled = Count(k, {"__other__"})
        BY <1>1, <1>3 DEF labels
      <4> QED
        BY <2>4, <4>1, <4>2
    <3>5. outside * Size(k) - 0 * Size(m) = 0
      BY <1>4, <3>2, <3>4 DEF Gap
    <3>6. Size(k) \in Nat /\ Size(k) > 0 /\ Size(m) \in Nat
      <4>1. DOMAIN Ln \subseteq Nat \ {0}
        BY DEF LogarithmsOK
      <4> QED
        BY <2>1, <4>1
    <3>7. \A a, b \in Nat : b > 0 /\ a * b = 0 => a = 0
      OBVIOUS
    <3>8. outside * Size(k) = 0
      <4>1. outside * Size(k) \in Int /\ 0 * Size(m) = 0
        BY <1>8, <3>6
      <4> QED
        BY <3>5, <4>1
    <3>9. outside = 0
      BY <1>8, <3>6, <3>7, <3>8
    <3> QED
      BY <3>3, <3>9
  <2>5. ASSUME verdict = "stable", NEW l \in spec.labels
        PROVE  NearIn(was, now, l)
    <3> DEFINE gap == Count(k, {l}) * Size(m) - Count(m, {l}) * Size(k)
    <3>1. {l} \in SUBSET B /\ l \in labels
      BY DEF labels
    <3>2. /\ 100 * Gap(k, m, {l}) <= 16 * (Size(k) * Size(m))
          /\ 100 * (0 - Gap(k, m, {l})) <= 16 * (Size(k) * Size(m))
      BY <2>2, <2>5, <3>1
    <3>3. Max({gap, -gap}) \in {Gap(k, m, {l}), 0 - Gap(k, m, {l})}
      BY <1>3, <1>4, ApartIsGap DEF Sorting
    <3>4. Apart(was, now, LAMBDA v : v = l) = Max({gap, -gap})
      BY <1>3, <1>4, <3>1 DEF Apart, HowMany
    <3> HIDE DEF gap
    <3>5. 100 * Apart(was, now, LAMBDA v : v = l) <= 16 * (Size(k) * Size(m))
      BY <3>2, <3>3, <3>4
    <3> QED
      BY <1>3, <1>4, <3>5 DEF Near, NearIn
  <2>6. ASSUME col.verdict = "stable"
        PROVE  /\ verdict = "stable"
               /\ 20 * New(was, now) <= Size(now)
    <3>1. verdict = "stable" /\ ~(20 * outside >= Size(now) /\ outside > 0)
      BY <2>3, <2>6
    <3> DEFINE new == Cardinality({i \in DOMAIN now : now[i] \notin Range(was)})
    <3>2. new \in Nat /\ new <= outside
      BY <1>10
    <3> HIDE DEF new
    <3>3. 20 * new <= Size(now)
      BY <1>8, <3>1, <3>2
    <3> QED
      BY <3>1, <3>3 DEF HowMany, New, new
  <2>7. col.verdict \in {"material", "moderate", "stable"}
    BY <2>2, <2>3
  <2>8. Even(was, now) /\ ~(spec.pooled > 0) => col.verdict = "stable"
    BY <2>3, <2>4
  <2>9. col.verdict = "stable" =>
          /\ \A l \in spec.labels : NearIn(was, now, l)
          /\ 20 * New(was, now) <= Size(now)
    BY <2>5, <2>6
  <2>10. /\ col.measured =>
             /\ col.verdict \in {"material", "moderate", "stable"}
             /\ Even(was, now) /\ ~(spec.pooled > 0) => col.verdict = "stable"
         /\ /\ spec.labels # {} /\ Size(now) # 0
            /\ col.measured => col.verdict = "stable"
            =>
              /\ \A l \in spec.labels : NearIn(was, now, l)
              /\ 20 * New(was, now) <= Size(now)
    BY <2>3, <2>7, <2>8, <2>9
  <2> QED
    BY <2>10 DEF spec, col
<1> QED
  BY <1>11, <1>12

-----------------------------------------------------------------------------
(* The window                                                               *)

LEMMA PickedType ==
  ASSUME LogCap \in Nat \ {0}, NEW total \in Nat, NEW p \in Pickings(total)
  PROVE  /\ IsFiniteSet(DOMAIN p)
         /\ \A i \in DOMAIN p : p[i] \in 1 .. total
<1>1. CASE total <= LogCap
  <2>1. p = [i \in 1 .. total |-> i]
    BY <1>1 DEF Pickings
  <2> QED
    BY <2>1, FS_Interval
<1>2. CASE total > LogCap
  <2>1. p \in [1 .. LogCap -> 1 .. total]
    BY <1>2, PickingsAreSpaced DEF Spaced
  <2> QED
    BY <2>1, FS_Interval
<1> QED
  BY <1>1, <1>2

\* Rows to compare with the reference: no more than were asked for.
WindowOK(rows) ==
  /\ IsFiniteSet(DOMAIN rows) /\ Cardinality(DOMAIN rows) <= SampleSize
  /\ \A p \in DOMAIN rows : rows[p] \in Rows

LEMMA LoggedType ==
  ASSUME DriftConstants, LogInv
  PROVE  /\ \A k \in 1 .. Len(log) :
              /\ IsFiniteSet(Logged(k))
              /\ \A q \in Logged(k) :
                   /\ q[1] = k
                   /\ log[q[1]].served[log[q[1]].picked[q[2]]] \in Rows
         /\ \A k \in 0 .. Len(log) : IsFiniteSet(LoggedAfter(k))
         /\ LoggedAfter(Len(log)) = {}
         /\ Len(log) \in Nat
<1>0. Len(log) \in Nat /\ DOMAIN log = 1 .. Len(log)
  BY DEF LogInv
<1>1. ASSUME NEW k \in 1 .. Len(log)
      PROVE  /\ IsFiniteSet(Logged(k))
             /\ \A q \in Logged(k) :
                  /\ q[1] = k
                  /\ log[q[1]].served[log[q[1]].picked[q[2]]] \in Rows
  <2> DEFINE served == log[k].served
             picked == log[k].picked
  <2>1. served \in Batches /\ picked \in Pickings(Len(served))
    <3>1. log[k] \in Entries
      BY <1>0 DEF LogInv
    <3>2. log[k].served \in Batches
      BY <3>1 DEF Entries
    <3>3. log[k].picked \in Pickings(Len(log[k].served))
      BY <1>0 DEF LogInv
    <3> QED
      BY <3>2, <3>3
  <2>2. /\ served \in Seq(Rows) /\ Len(served) \in Nat
        /\ LogCap \in Nat \ {0}
    BY <2>1 DEF DriftConstants
  <2>3. /\ IsFiniteSet(DOMAIN picked)
        /\ \A i \in DOMAIN picked : picked[i] \in 1 .. Len(served)
    BY <2>1, <2>2, PickedType
  <2>4. Logged(k) = {k} \X DOMAIN picked
    BY DEF Logged
  <2> HIDE DEF served, picked
  <2>5. \A i \in DOMAIN picked : served[picked[i]] \in Rows
    BY <2>2, <2>3
  <2>6. IsFiniteSet(Logged(k))
    <3>1. IsFiniteSet({k})
      BY FS_Singleton
    <3>2. IsFiniteSet({k} \X DOMAIN picked)
      BY <2>3, <3>1, FS_Product
    <3> QED
      BY <2>4, <3>2
  <2>7. ASSUME NEW q \in Logged(k)
        PROVE  q[1] = k /\ q[2] \in DOMAIN picked
    BY <2>4
  <2> QED
    BY <2>5, <2>6, <2>7 DEF served, picked
<1>2. ASSUME NEW k \in 0 .. Len(log)
      PROVE  IsFiniteSet(LoggedAfter(k))
  <2> DEFINE later == (k + 1) .. Len(log)
             F == [m \in later |-> Logged(m)]
  <2>1. k \in Int /\ k + 1 \in Int
    BY <1>0
  <2>2. IsFiniteSet(later) /\ later \subseteq 1 .. Len(log)
    BY <1>0, <2>1, FS_Interval
  <2> HIDE DEF later
  <2>3. DOMAIN F = later /\ F = [m \in DOMAIN F |-> F[m]]
        /\ \A m \in later : F[m] = Logged(m)
    OBVIOUS
  <2> HIDE DEF F
  <2>4. IsFiniteSet(Range(F))
    BY <2>2, <2>3, RangeFinite
  <2>5. \A T \in Range(F) : IsFiniteSet(T)
    BY <1>1, <2>2, <2>3 DEF Range
  <2>6. LoggedAfter(k) = UNION Range(F)
    BY <2>3 DEF LoggedAfter, Range, later
  <2> QED
    BY <2>4, <2>5, <2>6, FS_UNION
<1>3. LoggedAfter(Len(log)) = {}
  <2>1. (Len(log) + 1) .. Len(log) = {}
    BY <1>0
  <2> QED
    BY <2>1 DEF LoggedAfter
<1> QED
  BY <1>0, <1>1, <1>2, <1>3

LEMMA InputsType ==
  ASSUME NEW S, IsFiniteSet(S), Cardinality(S) <= SampleSize,
         SampleSize \in Nat,
         \A q \in S : log[q[1]].served[log[q[1]].picked[q[2]]] \in Rows
  PROVE  WindowOK(Inputs(S))
<1> DEFINE D == {q \in S : log[q[1]].inputs}
<1>1. D \in SUBSET S
  OBVIOUS
<1>2. DOMAIN Inputs(S) = D
      /\ \A p \in D : Inputs(S)[p] = log[p[1]].served[log[p[1]].picked[p[2]]]
  BY DEF Inputs
<1>3. \A p \in D : Inputs(S)[p] \in Rows
  BY <1>1, <1>2
<1> HIDE DEF D
<1>4. IsFiniteSet(D) /\ Cardinality(D) <= Cardinality(S)
      /\ Cardinality(D) \in Nat /\ Cardinality(S) \in Nat
  BY <1>1, FS_Subset, FS_CardinalityType
<1> QED
  BY <1>2, <1>3, <1>4 DEF WindowOK

LEMMA WindowsType ==
  ASSUME DriftConstants, LogInv, NEW w \in Windows
  PROVE  WindowOK(w)
<1> DEFINE fits == {k \in 0 .. Len(log) :
                      Cardinality(LoggedAfter(k)) <= SampleSize}
           cut == Min(fits)
           rest == SampleSize - Cardinality(LoggedAfter(cut))
<1>1. SampleSize \in Nat \ {0}
  BY DEF DriftConstants
<1>2. Len(log) \in fits
  BY <1>1, LoggedType, FS_EmptySet
<1>3. fits \in SUBSET (0 .. Len(log)) /\ Len(log) \in Nat
  BY LoggedType
<1>4. cut \in fits
  <2>1. IsFiniteSet(0 .. Len(log))
    BY <1>3, FS_Interval
  <2> HIDE DEF fits
  <2>2. IsFiniteSet(fits) /\ fits \subseteq Int /\ fits # {}
    <3>1. IsFiniteSet(fits)
      BY <1>3, <2>1, FS_Subset
    <3> QED
      BY <1>2, <1>3, <3>1
  <2> QED
    BY <2>2, LeastOf
<1>5. w \in IF cut = 0 THEN {Inputs(LoggedAfter(0))}
            ELSE {Inputs(LoggedAfter(cut) \union S) :
                    S \in kSubset(rest, Logged(cut))}
  BY DEF Windows
<1>6. cut \in 0 .. Len(log) /\ Cardinality(LoggedAfter(cut)) <= SampleSize
  BY <1>4
<1> HIDE DEF cut
<1>7. IsFiniteSet(LoggedAfter(cut)) /\ Cardinality(LoggedAfter(cut)) \in Nat
  BY <1>6, LoggedType, FS_CardinalityType
<1>8. \A q \in LoggedAfter(cut) :
        log[q[1]].served[log[q[1]].picked[q[2]]] \in Rows
  <2> TAKE q \in LoggedAfter(cut)
  <2>1. PICK m \in (cut + 1) .. Len(log) : q \in Logged(m)
    BY DEF LoggedAfter
  <2>2. m \in 1 .. Len(log)
    BY <1>3, <1>6, <2>1
  <2> QED
    BY <2>1, <2>2, LoggedType
<1>9. CASE cut = 0
  <2>1. w = Inputs(LoggedAfter(cut))
    BY <1>5, <1>9
  <2> QED
    BY <1>1, <1>6, <1>7, <1>8, <2>1, InputsType
<1>10. CASE cut # 0
  <2>1. PICK S \in SUBSET Logged(cut) :
          /\ Cardinality(S) = rest
          /\ w = Inputs(LoggedAfter(cut) \union S)
    BY <1>5, <1>10 DEF kSubset
  <2>2. cut \in 1 .. Len(log)
    BY <1>3, <1>6, <1>10
  <2>3. /\ IsFiniteSet(Logged(cut))
        /\ \A q \in Logged(cut) :
             log[q[1]].served[log[q[1]].picked[q[2]]] \in Rows
    BY <2>2, LoggedType
  <2>4. IsFiniteSet(S)
    BY <2>3, FS_Subset
  <2> DEFINE A == LoggedAfter(cut)
  <2>5. /\ IsFiniteSet(A \union S)
        /\ Cardinality(A \union S)
             = Cardinality(A) + Cardinality(S) - Cardinality(A \cap S)
        /\ Cardinality(A \cap S) \in Nat
    <3>1. IsFiniteSet(A \cap S)
      <4>1. A \cap S \in SUBSET S
        OBVIOUS
      <4> QED
        BY <2>4, <4>1, FS_Subset
    <3> QED
      BY <1>7, <2>4, <3>1, FS_Union, FS_CardinalityType
  <2>6. Cardinality(A \union S) <= SampleSize
    BY <1>1, <1>7, <2>1, <2>5
  <2>7. \A q \in A \union S :
          log[q[1]].served[log[q[1]].picked[q[2]]] \in Rows
    BY <1>8, <2>3
  <2> HIDE DEF A
  <2> QED
    BY <1>1, <2>1, <2>5, <2>6, <2>7, InputsType DEF A
<1> QED
  BY <1>9, <1>10

-----------------------------------------------------------------------------
(* The report: the invariant                                                *)

\* The training frame that the reference tells of.
ReferenceOK ==
  \/ reference = Nothing
  \/ \E f \in Trainings : reference \in {Reference(f), Charted(f)}

\* A report is what the comparison of its window with the reference says.
ReportInv ==
  /\ LogInv /\ ReferenceOK
  /\ DOMAIN window # {} =>
       /\ WindowOK(window)
       /\ report.status = Compare(reference, window).status

LEMMA NextReportInv ==
  ASSUME DriftConstants, ReportInv, [DriftNext]_driftVars
  PROVE  ReportInv'
<1>1. LogInv'
  BY NextLogInv DEF ReportInv
<1>2. ReferenceOK'
  <2>1. CASE Delete
    <3>1. CASE reference = Nothing
      BY <2>1, <3>1 DEF Delete, ReferenceOK
    <3>2. CASE reference # Nothing
      <4>1. PICK f \in Trainings : reference \in {Reference(f), Charted(f)}
        BY <3>2 DEF ReportInv, ReferenceOK
      <4>2. reference.frame = f
        BY <4>1 DEF Reference, Charted
      <4>3. reference' = Reference(f)
        BY <2>1, <3>2, <4>2 DEF Delete
      <4> QED
        BY <4>1, <4>3 DEF ReferenceOK
    <3> QED
      BY <3>1, <3>2
  <2>2. CASE UNCHANGED reference
    BY <2>2 DEF ReportInv, ReferenceOK
  <2> QED
    BY <2>1, <2>2 DEF DriftNext, Serve, Configure, Look, driftVars
<1>3. (DOMAIN window # {} =>
         /\ WindowOK(window)
         /\ report.status = Compare(reference, window).status)'
  <2>1. CASE Forget
    <3>1. window' = <<>> /\ DOMAIN <<>> = {}
      BY <2>1 DEF Forget
    <3> QED
      BY <3>1
  <2>2. CASE Look
    <3>1. SUFFICES ASSUME DOMAIN window' # {}
                   PROVE  /\ WindowOK(window')
                          /\ report'.status = Compare(reference', window').status
      OBVIOUS
    <3>2. WindowOK(window')
      BY <2>2, WindowsType DEF Look, ReportInv
    <3>3. reference' = reference
      BY <2>2 DEF Look
    <3>4. report'.status = Compare(reference, window').status
      BY <2>2, <3>1 DEF Look
    <3> QED
      BY <3>2, <3>3, <3>4
  <2>3. CASE UNCHANGED driftVars
    BY <2>3 DEF ReportInv, driftVars, WindowOK, Compare, Columns, Worst
  <2> QED
    BY <2>1, <2>2, <2>3 DEF DriftNext, Serve, Configure, Delete
<1> QED
  BY <1>1, <1>2, <1>3 DEF ReportInv

-----------------------------------------------------------------------------
(* What a report tells                                                      *)

\* The worst verdict of two columns (_worst of ml/drift.py).
LEMMA WorstOfTwo ==
  ASSUME NEW n, NEW c,
         n.measured => n.verdict \in {"material", "moderate", "stable"},
         c.measured => c.verdict \in {"material", "moderate", "stable"}
  PROVE  LET worst == Worst([n |-> n, c |-> c])
         IN /\ worst = "stable" => /\ n.measured => n.verdict = "stable"
                                   /\ c.measured => c.verdict = "stable"
            /\ worst \in {"moderate", "material"} =>
                 \/ n.measured /\ n.verdict # "stable"
                 \/ c.measured /\ c.verdict # "stable"
<1> DEFINE cols == [n |-> n, c |-> c]
           verdicts == {cols[col].verdict :
                          col \in {x \in DOMAIN cols : cols[x].measured}}
<1>1. DOMAIN cols = {"n", "c"} /\ cols["n"] = n /\ cols["c"] = c
  OBVIOUS
<1>2. Worst(cols) = IF verdicts = {} THEN "unavailable"
                    ELSE IF "material" \in verdicts THEN "material"
                    ELSE IF "moderate" \in verdicts THEN "moderate"
                    ELSE "stable"
  BY DEF Worst
<1>3. /\ n.measured => n.verdict \in verdicts
      /\ c.measured => c.verdict \in verdicts
  BY <1>1
<1>4. \A v \in verdicts : \/ n.measured /\ n.verdict = v
                          \/ c.measured /\ c.verdict = v
  BY <1>1
<1> HIDE DEF verdicts, cols
<1>5. Worst(cols) = "stable" => /\ n.measured => n.verdict = "stable"
                                /\ c.measured => c.verdict = "stable"
  BY <1>2, <1>3
<1>6. Worst(cols) \in {"moderate", "material"} =>
        \/ n.measured /\ n.verdict # "stable"
        \/ c.measured /\ c.verdict # "stable"
  BY <1>2, <1>4
<1> QED
  BY <1>5, <1>6 DEF cols

\* The columns of a frame, or of the rows of a window.
LEMMA KnownType ==
  ASSUME NEW rows, IsFiniteSet(DOMAIN rows),
         \A p \in DOMAIN rows : rows[p] \in Rows
  PROVE  /\ \A col : /\ Finite(Known(rows, col))
                     /\ Size(Known(rows, col)) \in Nat
                     /\ Size(Known(rows, col)) <= Cardinality(DOMAIN rows)
         /\ \A p \in DOMAIN Known(rows, "n") : Known(rows, "n")[p] \in Int
         /\ \A col : \A v \in Range(Known(rows, col)) :
              \E p \in DOMAIN rows : v = rows[p][col]
<1>1. ASSUME NEW col
      PROVE  /\ DOMAIN Known(rows, col)
                  = {j \in DOMAIN rows : rows[j][col] # Nothing}
             /\ Known(rows, col) = [i \in DOMAIN Known(rows, col) |->
                                      Known(rows, col)[i]]
             /\ \A i \in DOMAIN Known(rows, col) :
                  Known(rows, col)[i] = rows[i][col]
  BY DEF Known
<1>2. ASSUME NEW col
      PROVE  /\ Finite(Known(rows, col))
             /\ Size(Known(rows, col)) \in Nat
             /\ Size(Known(rows, col)) <= Cardinality(DOMAIN rows)
  <2> DEFINE D == DOMAIN Known(rows, col)
  <2>1. D \in SUBSET DOMAIN rows
    BY <1>1
  <2> HIDE DEF D
  <2>2. IsFiniteSet(D) /\ Cardinality(D) \in Nat
        /\ Cardinality(D) <= Cardinality(DOMAIN rows)
    BY <2>1, FS_Subset, FS_CardinalityType
  <2> QED
    BY <1>1, <2>2 DEF D, Finite, Size
<1>3. ASSUME NEW p \in DOMAIN Known(rows, "n")
      PROVE  Known(rows, "n")[p] \in Int
  <2>1. p \in DOMAIN rows /\ rows[p]["n"] # Nothing
        /\ Known(rows, "n")[p] = rows[p]["n"]
    BY <1>1
  <2>2. rows[p]["n"] \in Int \union {Nothing}
    BY <2>1 DEF Rows
  <2> QED
    BY <2>1, <2>2
<1>4. ASSUME NEW col, NEW v \in Range(Known(rows, col))
      PROVE  \E p \in DOMAIN rows : v = rows[p][col]
  BY <1>1 DEF Range
<1> QED
  BY <1>2, <1>3, <1>4

LEMMA LongEnough ==
  ASSUME LogarithmsOK, NEW l \in DOMAIN Ln, NEW s \in Nat, s <= l, s # 0
  PROVE  s \in DOMAIN Ln
BY DEF LogarithmsOK

\* What the comparison says of any training frame and any window.
LEMMA ComparisonTells ==
  ASSUME DriftConstants, NEW f \in Trainings, NEW w, WindowOK(w),
         NEW ref, ref = Reference(f), ref # Nothing,
         NEW status, status = Compare(ref, w).status
  PROVE  LET was(col) == Known(f, col)
             now(col) == Known(w, col)
         IN /\ status = "stable" =>
                 /\ Size(now("n")) > 0 => \A i \in 2 .. (Len(ref.n.edges) - 1) :
                      NearBelow(was("n"), now("n"), ref.n.edges[i])
                 /\ ref.c.labels # {} /\ Size(now("c")) > 0 =>
                      /\ \A l \in ref.c.labels :
                           NearIn(was("c"), now("c"), l)
                      /\ 20 * New(was("c"), now("c"))
                           <= Size(now("c"))
            /\ status \in {"moderate", "material"} =>
                 \/ ~Even(was("n"), now("n"))
                 \/ ~Even(was("c"), now("c"))
                 \/ ref.c.pooled > 0
<1> DEFINE wasn == Known(f, "n")
           wasc == Known(f, "c")
           nown == Known(w, "n")
           nowc == Known(w, "c")
           n == CompareNumeric(ref.n, nown)
           c == CompareCategorical(ref.c, nowc)
<1>1. /\ LogarithmsOK /\ Bins \in Nat \ {0} /\ Unit \in Nat
      /\ f \in Seq(Rows) /\ Len(f) \in DOMAIN Ln /\ SampleSize \in DOMAIN Ln
      /\ \A i \in DOMAIN f : f[i].c \notin {"__other__", "__unseen__"}
  BY DEF DriftConstants
<1>2. /\ IsFiniteSet(DOMAIN f) /\ Cardinality(DOMAIN f) = Len(f)
      /\ \A p \in DOMAIN f : f[p] \in Rows
  <2>1. DOMAIN f = 1 .. Len(f) /\ Len(f) \in Nat
    BY <1>1
  <2>2. /\ IsFiniteSet(1 .. Len(f))
        /\ Cardinality(1 .. Len(f)) = IF 1 > Len(f) THEN 0 ELSE Len(f) - 1 + 1
    BY <2>1, FS_Interval
  <2>3. \A p \in DOMAIN f : f[p] \in Rows
    BY <1>1
  <2> QED
    BY <2>1, <2>2, <2>3
<1>3. /\ Finite(wasn) /\ Size(wasn) \in Nat /\ Size(wasn) <= Len(f)
      /\ Finite(wasc) /\ Size(wasc) \in Nat /\ Size(wasc) <= Len(f)
      /\ \A p \in DOMAIN wasn : wasn[p] \in Int
      /\ \A v \in Range(wasc) : \E p \in DOMAIN f : v = f[p]["c"]
  BY <1>2, KnownType
<1>4. /\ Finite(nown) /\ Size(nown) \in Nat
      /\ Size(nown) <= Cardinality(DOMAIN w)
      /\ Finite(nowc) /\ Size(nowc) \in Nat
      /\ Size(nowc) <= Cardinality(DOMAIN w)
      /\ \A p \in DOMAIN nown : nown[p] \in Int
  BY KnownType DEF WindowOK
<1>5. "__other__" \notin Range(wasc)
  BY <1>1, <1>3
<1>6. ref.n = NumericReference(wasn)
      /\ ref.c = CategoricalReference(wasc, MaxCategories)
  BY DEF Reference
<1> HIDE DEF wasn, wasc, nown, nowc
<1>7. /\ Size(wasn) # 0 => Size(wasn) \in DOMAIN Ln
      /\ Size(wasc) # 0 => Size(wasc) \in DOMAIN Ln
      /\ Size(nown) # 0 => Size(nown) \in DOMAIN Ln
      /\ Size(nowc) # 0 => Size(nowc) \in DOMAIN Ln
  <2>1. Cardinality(DOMAIN w) \in Nat /\ Cardinality(DOMAIN w) <= SampleSize
    BY FS_CardinalityType DEF WindowOK
  <2>2. SampleSize \in Nat
    BY DEF DriftConstants
  <2>3. Size(nown) <= SampleSize /\ Size(nowc) <= SampleSize
    BY <1>4, <2>1, <2>2
  <2> QED
    BY <1>1, <1>3, <1>4, <2>3, LongEnough
<1>8. /\ n.measured => /\ n.verdict \in {"material", "moderate", "stable"}
                       /\ Even(wasn, nown) => n.verdict = "stable"
      /\ Size(nown) # 0 /\ (n.measured => n.verdict = "stable") =>
           \A i \in 2 .. (Len(ref.n.edges) - 1) :
             NearBelow(wasn, nown, ref.n.edges[i])
  <2>1. /\ LogarithmsOK /\ Bins \in Nat \ {0} /\ Unit \in Nat
        /\ Finite(wasn) /\ Finite(nown)
        /\ \A i \in DOMAIN wasn : wasn[i] \in Int
        /\ \A i \in DOMAIN nown : nown[i] \in Int
        /\ Size(wasn) # 0 => Size(wasn) \in DOMAIN Ln
        /\ Size(nown) # 0 => Size(nown) \in DOMAIN Ln
    BY <1>1, <1>3, <1>4, <1>7
  <2> QED
    BY <1>6, <2>1, NumericTells
<1>9. /\ c.measured =>
           /\ c.verdict \in {"material", "moderate", "stable"}
           /\ Even(wasc, nowc) /\ ~(ref.c.pooled > 0) => c.verdict = "stable"
      /\ /\ ref.c.labels # {} /\ Size(nowc) # 0
         /\ c.measured => c.verdict = "stable"
         =>
           /\ \A l \in ref.c.labels : NearIn(wasc, nowc, l)
           /\ 20 * New(wasc, nowc) <= Size(nowc)
  <2>1. /\ LogarithmsOK /\ Finite(wasc) /\ Finite(nowc)
        /\ "__other__" \notin Range(wasc)
        /\ Size(wasc) # 0 => Size(wasc) \in DOMAIN Ln
        /\ Size(nowc) # 0 => Size(nowc) \in DOMAIN Ln
    BY <1>1, <1>3, <1>4, <1>5, <1>7
  <2> QED
    BY <1>6, <2>1, CategoricalTells
<1>10. Compare(ref, w).status =
         IF Cardinality(DOMAIN w) < MinRows THEN "insufficient_data"
         ELSE Worst([n |-> n, c |-> c])
  BY DEF Compare, Columns, nown, nowc
<1> HIDE DEF n, c
<1>11. /\ status = "stable" => Worst([n |-> n, c |-> c]) = "stable"
       /\ status \in {"moderate", "material"} =>
            Worst([n |-> n, c |-> c]) \in {"moderate", "material"}
  BY <1>10
<1>12. /\ status = "stable" => /\ n.measured => n.verdict = "stable"
                               /\ c.measured => c.verdict = "stable"
       /\ status \in {"moderate", "material"} =>
            \/ n.measured /\ n.verdict # "stable"
            \/ c.measured /\ c.verdict # "stable"
  BY <1>8, <1>9, <1>11, WorstOfTwo
<1>13. /\ Size(nown) > 0 => Size(nown) # 0
       /\ Size(nowc) > 0 => Size(nowc) # 0
  BY <1>4
<1>14. ASSUME status = "stable", Size(nown) > 0
       PROVE  \A i \in 2 .. (Len(ref.n.edges) - 1) :
                NearBelow(wasn, nown, ref.n.edges[i])
  BY <1>8, <1>12, <1>13, <1>14
<1>15. ASSUME status = "stable", ref.c.labels # {}, Size(nowc) > 0
       PROVE  /\ \A l \in ref.c.labels : NearIn(wasc, nowc, l)
              /\ 20 * New(wasc, nowc) <= Size(nowc)
  BY <1>9, <1>12, <1>13, <1>15
<1>16. ASSUME status \in {"moderate", "material"}
       PROVE  \/ ~Even(wasn, nown) \/ ~Even(wasc, nowc) \/ ref.c.pooled > 0
  BY <1>8, <1>9, <1>12, <1>16
<1> QED
  BY <1>14, <1>15, <1>16 DEF wasn, wasc, nown, nowc

\* A model that is called stable is asked what it was trained on, and a window
\* that is distributed like the training frame is not called drift
\* (ml/drift.py, compare, and monitoring.py, drift_report): for any frames,
\* batches, bins and caps, over any table of logarithms that is true to a
\* thousandth.
THEOREM StatusTellsOfMoves ==
  ASSUME DriftConstants
  PROVE  DriftSpec => []StatusMatchesMove
<1>1. DriftInit => ReportInv
  <2> SUFFICES ASSUME DriftInit
               PROVE  ReportInv
    OBVIOUS
  <2>1. LogInv
    BY DEF DriftInit, LogInv
  <2>2. ReferenceOK
    BY DEF DriftInit, ReferenceOK
  <2>3. DOMAIN window = {}
    BY DEF DriftInit
  <2> QED
    BY <2>1, <2>2, <2>3 DEF ReportInv
<1>2. ReportInv /\ [DriftNext]_driftVars => ReportInv'
  BY NextReportInv
<1>3. ASSUME ReportInv
      PROVE  StatusMatchesMove
  <2> SUFFICES ASSUME reference # Nothing, DOMAIN window # {},
                      reference.from = "training_profile"
               PROVE  StatusMatchesMove
    BY DEF StatusMatchesMove
  <2>1. PICK f \in Trainings : reference \in {Reference(f), Charted(f)}
    BY <1>3 DEF ReportInv, ReferenceOK
  <2>2. Charted(f).from = "charts"
    BY DEF Charted
  <2>3. /\ reference.frame \in Trainings
        /\ reference = Reference(reference.frame)
    <3>1. reference = Reference(f)
      BY <2>1, <2>2
    <3>2. reference.frame = f
      BY <3>1 DEF Reference
    <3> QED
      BY <3>1, <3>2, Zenon
  <2>4. WindowOK(window) /\ report.status = Compare(reference, window).status
    BY <1>3 DEF ReportInv
  <2> DEFINE was(col) == Known(reference.frame, col)
             now(col) == Known(window, col)
  <2>5. /\ report.status = "stable" =>
             /\ Size(now("n")) > 0 =>
                  \A i \in 2 .. (Len(reference.n.edges) - 1) :
                    NearBelow(was("n"), now("n"), reference.n.edges[i])
             /\ reference.c.labels # {} /\ Size(now("c")) > 0 =>
                  /\ \A l \in reference.c.labels :
                       NearIn(was("c"), now("c"), l)
                  /\ 20 * New(was("c"), now("c"))
                       <= Size(now("c"))
        /\ report.status \in {"moderate", "material"} =>
             \/ ~Even(was("n"), now("n"))
             \/ ~Even(was("c"), now("c"))
             \/ reference.c.pooled > 0
    BY <2>3, <2>4, ComparisonTells
  <2>6. \A col : Alike(reference.frame, window, col) <=> Even(was(col), now(col))
    BY DEF Alike, Even
  <2> QED
    BY <2>5, <2>6 DEF StatusMatchesMove, NearBelow, NearIn, New
<1> QED
  BY <1>1, <1>2, <1>3, PTL DEF DriftSpec

=============================================================================
