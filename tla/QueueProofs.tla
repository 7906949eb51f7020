---------------------------- MODULE QueueProofs -----------------------------
(***************************************************************************)
(* What the operators of Sums, of Stream and of the two queues return.     *)
(*                                                                         *)
(* Sums and streams: running totals grow and every byte has one place in   *)
(* them, every buffer is large enough for the request it was made for, and *)
(* cursors stay where the assertions of Stream.h want them.                *)
(*                                                                         *)
(* Queues, whatever their bytes are: Data is the set of values that count  *)
(* as bytes, and a cell holds one of them or Uninit. Bytes(q) is what a    *)
(* reader gets from q, from the first byte to the last.                    *)
(***************************************************************************)
EXTENDS RecvQueue, SendQueue, WellFoundedInduction, SequenceTheorems, TLAPS

LEMMA Least ==
  ASSUME NEW S \in SUBSET Nat, S # {}
  PROVE  \E least \in S : \A n \in S : least <= n
<1>1. PICK least \in S : \A n \in S : ~(<< n, least >> \in OpToRel(<, Nat))
  BY WFMin, NatLessThanWellFounded, Zenon
<1>2. OpToRel(<, Nat) = {pair \in Nat \X Nat : pair[1] < pair[2]}
  BY DEF OpToRel
<1>3. \A n \in S : ~(n < least)
  BY <1>1, <1>2
<1> QED
  BY <1>3

\* A set of naturals that contains 0 and the successor of each of its members
\* contains them all.
LEMMA SetInduction ==
  ASSUME NEW S, 0 \in S, \A n \in Nat : n \in S => n + 1 \in S
  PROVE  Nat \subseteq S
<1> SUFFICES ASSUME Nat \ S # {}
             PROVE  FALSE
  OBVIOUS
<1>1. PICK least \in Nat \ S : \A n \in Nat \ S : least <= n
  BY Least
<1>2. least - 1 \in Nat /\ least - 1 \notin Nat \ S
  BY <1>1
<1> QED
  BY <1>1, <1>2

-----------------------------------------------------------------------------
IsSum(sum, sizes, n) == sum = [i \in 0 .. n |-> IF i = 0 THEN 0 ELSE sum[i - 1] + sizes[i]]

LEMMA SumExists ==
  ASSUME NEW sizes
  PROVE  \A n \in Nat : \E sum : IsSum(sum, sizes, n)
<1> DEFINE S == {n \in Nat : \E sum : IsSum(sum, sizes, n)}
<1>1. 0 \in S
  <2>1. IsSum([i \in 0 .. 0 |-> 0], sizes, 0)
    BY DEF IsSum
  <2> QED
    BY <2>1
<1>2. ASSUME NEW n \in Nat, n \in S
      PROVE  n + 1 \in S
  <2>1. PICK sum : IsSum(sum, sizes, n)
    BY <1>2
  <2> DEFINE more == [i \in 0 .. n + 1 |-> IF i <= n THEN sum[i] ELSE sum[n] + sizes[n + 1]]
  <2>2. \A i \in 0 .. n : sum[i] = IF i = 0 THEN 0 ELSE sum[i - 1] + sizes[i]
    BY <2>1 DEF IsSum
  <2>3. \A i \in 0 .. n + 1 : more[i] = IF i = 0 THEN 0 ELSE more[i - 1] + sizes[i]
    BY <2>2
  <2>4. IsSum(more, sizes, n + 1)
    BY <2>3 DEF IsSum
  <2> QED
    BY <2>4
<1>3. Nat \subseteq S
  <2> HIDE DEF S
  <2> QED
    BY <1>1, <1>2, SetInduction
<1> QED
  BY <1>3

LEMMA SumUnique ==
  ASSUME NEW sizes, NEW n \in Nat, NEW k \in 0 .. n,
         NEW sum, IsSum(sum, sizes, n), NEW short, IsSum(short, sizes, k)
  PROVE  \A i \in 0 .. k : short[i] = sum[i]
<1> DEFINE S == {i \in Nat : i <= k => short[i] = sum[i]}
<1>1. 0 \in S
  BY DEF IsSum
<1>2. ASSUME NEW i \in Nat, i \in S
      PROVE  i + 1 \in S
  BY <1>2 DEF IsSum
<1>3. Nat \subseteq S
  <2> HIDE DEF S
  <2> QED
    BY <1>1, <1>2, SetInduction
<1> QED
  BY <1>3

LEMMA SumToIsSum ==
  ASSUME NEW sizes, NEW n \in Nat
  PROVE  \E sum : IsSum(sum, sizes, n) /\ SumTo(sizes, n) = sum[n]
<1> DEFINE P(sum) == sum = [i \in 0 .. n |-> IF i = 0 THEN 0 ELSE sum[i - 1] + sizes[i]]
<1>1. \E sum : P(sum)
  BY SumExists DEF IsSum
<1>2. P(CHOOSE sum : P(sum))
  <2> HIDE DEF P
  <2> QED
    BY <1>1
<1>3. IsSum(CHOOSE sum : P(sum), sizes, n)
  BY <1>2 DEF IsSum
<1>4. SumTo(sizes, n) = (CHOOSE sum : P(sum))[n]
  BY DEF SumTo
<1> QED
  BY <1>3, <1>4

LEMMA SumToValue ==
  ASSUME NEW sizes, NEW n \in Nat, NEW k \in 0 .. n, NEW sum, IsSum(sum, sizes, n)
  PROVE  SumTo(sizes, k) = sum[k]
<1>1. PICK short : IsSum(short, sizes, k) /\ SumTo(sizes, k) = short[k]
  BY SumToIsSum
<1>2. short[k] = sum[k]
  BY <1>1, SumUnique
<1> QED
  BY <1>1, <1>2

-----------------------------------------------------------------------------
LEMMA SumToZero == \A sizes : SumTo(sizes, 0) = 0
<1> SUFFICES ASSUME NEW sizes
             PROVE  SumTo(sizes, 0) = 0
  OBVIOUS
<1>1. PICK sum : IsSum(sum, sizes, 0) /\ SumTo(sizes, 0) = sum[0]
  BY SumToIsSum
<1> QED
  BY <1>1 DEF IsSum

\* The recursion: one more size is one more term.
LEMMA SumToStep ==
  ASSUME NEW sizes, NEW n \in Nat
  PROVE  SumTo(sizes, n + 1) = SumTo(sizes, n) + sizes[n + 1]
<1>1. PICK sum : IsSum(sum, sizes, n + 1) /\ SumTo(sizes, n + 1) = sum[n + 1]
  BY SumToIsSum
<1>2. SumTo(sizes, n) = sum[n]
  BY <1>1, SumToValue
<1>3. sum[n + 1] = sum[n] + sizes[n + 1]
  BY <1>1 DEF IsSum
<1> QED
  BY <1>1, <1>2, <1>3

LEMMA SumToNat ==
  ASSUME NEW sizes, NEW n \in Nat, \A i \in 1 .. n : sizes[i] \in Nat
  PROVE  \A k \in 0 .. n : SumTo(sizes, k) \in Nat
<1> DEFINE S == {k \in Nat : k <= n => SumTo(sizes, k) \in Nat}
<1>1. 0 \in S
  BY SumToZero
<1>2. ASSUME NEW k \in Nat, k \in S
      PROVE  k + 1 \in S
  BY <1>2, SumToStep
<1>3. Nat \subseteq S
  <2> HIDE DEF S
  <2> QED
    BY <1>1, <1>2, SetInduction
<1> QED
  BY <1>3

\* Running totals never go down.
LEMMA SumToMonotone ==
  ASSUME NEW sizes, NEW n \in Nat, \A i \in 1 .. n : sizes[i] \in Nat,
         NEW j \in 0 .. n, NEW k \in j .. n
  PROVE  SumTo(sizes, j) <= SumTo(sizes, k)
<1> DEFINE S == {d \in Nat : j + d <= n => SumTo(sizes, j) <= SumTo(sizes, j + d)}
<1>0. \A i \in 0 .. n : SumTo(sizes, i) \in Nat
  BY SumToNat
<1>1. 0 \in S
  BY <1>0
<1>2. ASSUME NEW d \in Nat, d \in S
      PROVE  d + 1 \in S
  <2> SUFFICES ASSUME j + (d + 1) <= n
               PROVE  SumTo(sizes, j) <= SumTo(sizes, j + (d + 1))
    OBVIOUS
  <2>1. SumTo(sizes, j) <= SumTo(sizes, j + d)
    BY <1>2
  <2>2. SumTo(sizes, (j + d) + 1) = SumTo(sizes, j + d) + sizes[(j + d) + 1]
    BY SumToStep
  <2>3. sizes[(j + d) + 1] \in Nat /\ SumTo(sizes, j) \in Nat /\ SumTo(sizes, j + d) \in Nat
    BY <1>0
  <2>4. j + (d + 1) = (j + d) + 1
    OBVIOUS
  <2> QED
    BY <2>1, <2>2, <2>3, <2>4
<1>3. Nat \subseteq S
  <2> HIDE DEF S
  <2> QED
    BY <1>1, <1>2, SetInduction
<1>4. k - j \in S /\ j + (k - j) = k
  BY <1>3
<1> QED
  BY <1>4

\* Only the sizes that are added up count.
LEMMA SumToAgree ==
  ASSUME NEW sizes, NEW other, NEW n \in Nat, \A i \in 1 .. n : sizes[i] = other[i]
  PROVE  \A k \in 0 .. n : SumTo(sizes, k) = SumTo(other, k)
<1> DEFINE S == {k \in Nat : k <= n => SumTo(sizes, k) = SumTo(other, k)}
<1>1. 0 \in S
  BY SumToZero
<1>2. ASSUME NEW k \in Nat, k \in S
      PROVE  k + 1 \in S
  BY <1>2, SumToStep
<1>3. Nat \subseteq S
  <2> HIDE DEF S
  <2> QED
    BY <1>1, <1>2, SetInduction
<1> QED
  BY <1>3

LEMMA SumToNothing ==
  ASSUME NEW sizes, NEW n \in Nat, \A i \in 1 .. n : sizes[i] = 0
  PROVE  SumTo(sizes, n) = 0
<1> DEFINE S == {k \in Nat : k <= n => SumTo(sizes, k) = 0}
<1>1. 0 \in S
  BY SumToZero
<1>2. ASSUME NEW k \in Nat, k \in S
      PROVE  k + 1 \in S
  BY <1>2, SumToStep
<1>3. Nat \subseteq S
  <2> HIDE DEF S
  <2> QED
    BY <1>1, <1>2, SetInduction
<1> QED
  BY <1>3

\* Sizes of nothing at the end add nothing.
LEMMA SumToRest ==
  ASSUME NEW sizes, NEW n \in Nat, \A i \in 1 .. n : sizes[i] \in Nat,
         NEW p \in 0 .. n, \A i \in p + 1 .. n : sizes[i] = 0
  PROVE  SumTo(sizes, n) = SumTo(sizes, p)
<1> DEFINE S == {d \in Nat : p + d <= n => SumTo(sizes, p + d) = SumTo(sizes, p)}
<1>1. 0 \in S
  <2>1. p + 0 = p
    OBVIOUS
  <2> QED
    BY <2>1
<1>2. ASSUME NEW d \in Nat, d \in S
      PROVE  d + 1 \in S
  <2> SUFFICES ASSUME p + (d + 1) <= n
               PROVE  SumTo(sizes, p + (d + 1)) = SumTo(sizes, p)
    OBVIOUS
  <2>1. p + (d + 1) = (p + d) + 1 /\ p + d \in Nat /\ p + d <= n /\ (p + d) + 1 \in p + 1 .. n
    OBVIOUS
  <2>2. SumTo(sizes, (p + d) + 1) = SumTo(sizes, p + d) + sizes[(p + d) + 1]
    BY <2>1, SumToStep
  <2>3. SumTo(sizes, p + d) = SumTo(sizes, p) /\ sizes[(p + d) + 1] = 0
    BY <1>2, <2>1
  <2>4. SumTo(sizes, p) \in Nat
    BY SumToNat
  <2> QED
    BY <2>1, <2>2, <2>3, <2>4
<1>3. Nat \subseteq S
  <2> HIDE DEF S
  <2> QED
    BY <1>1, <1>2, SetInduction
<1>4. n - p \in S /\ p + (n - p) = n
  BY <1>3
<1> QED
  BY <1>4

\* Sizes that are not above those of a part of another sequence do not add up
\* to more than that part.
LEMMA SumToBelow ==
  ASSUME NEW sizes, NEW other, NEW n \in Nat, NEW d \in Nat,
         \A i \in 1 .. n : sizes[i] \in Nat,
         \A i \in 1 .. d + n : other[i] \in Nat,
         \A i \in 1 .. n : sizes[i] <= other[d + i]
  PROVE  SumTo(sizes, n) + SumTo(other, d) <= SumTo(other, d + n)
<1> DEFINE S == {k \in Nat : k <= n => SumTo(sizes, k) + SumTo(other, d) <= SumTo(other, d + k)}
<1>1. /\ \A k \in 0 .. n : SumTo(sizes, k) \in Nat
      /\ \A k \in 0 .. d + n : SumTo(other, k) \in Nat
  <2>1. \A k \in 0 .. n : SumTo(sizes, k) \in Nat
    BY SumToNat
  <2>2. PICK m \in Nat : m = d + n
    OBVIOUS
  <2>3. \A k \in 0 .. m : SumTo(other, k) \in Nat
    BY <2>2, SumToNat
  <2> QED
    BY <2>1, <2>2, <2>3
<1>2. 0 \in S
  <2>1. SumTo(other, d) \in Nat /\ d + 0 = d
    BY <1>1
  <2> QED
    BY <2>1, SumToZero
<1>3. ASSUME NEW k \in Nat, k \in S
      PROVE  k + 1 \in S
  <2> SUFFICES ASSUME k + 1 <= n
               PROVE  SumTo(sizes, k + 1) + SumTo(other, d) <= SumTo(other, d + (k + 1))
    OBVIOUS
  <2>1. SumTo(sizes, k) + SumTo(other, d) <= SumTo(other, d + k)
    BY <1>3
  <2>2. SumTo(sizes, k + 1) = SumTo(sizes, k) + sizes[k + 1]
    BY SumToStep
  <2>3. SumTo(other, (d + k) + 1) = SumTo(other, d + k) + other[(d + k) + 1]
    BY SumToStep
  <2>4. /\ k + 1 \in 1 .. n /\ d + (k + 1) = (d + k) + 1
        /\ k \in 0 .. n /\ d \in 0 .. d + n /\ d + k \in 0 .. d + n /\ (d + k) + 1 \in 1 .. d + n
    OBVIOUS
  <2>5. sizes[k + 1] <= other[(d + k) + 1] /\ sizes[k + 1] \in Nat /\ other[(d + k) + 1] \in Nat
    BY <2>4
  <2>6. SumTo(sizes, k) \in Nat /\ SumTo(other, d) \in Nat /\ SumTo(other, d + k) \in Nat
    BY <1>1, <2>4
  <2> QED
    BY <2>1, <2>2, <2>3, <2>4, <2>5, <2>6
<1>4. Nat \subseteq S
  <2> HIDE DEF S
  <2> QED
    BY <1>2, <1>3, SetInduction
<1> QED
  BY <1>4

\* A byte that exists is found, in exactly the element whose running total
\* reaches it first; the difference is its place in that element.
LEMMA StopAtFound ==
  ASSUME NEW sizes \in Seq(Nat), NEW size \in Nat, 0 < size, size <= Total(sizes)
  PROVE  /\ StopAt(sizes, size) \in 1 .. Len(sizes)
         /\ SumTo(sizes, StopAt(sizes, size) - 1) \in Nat
         /\ SumTo(sizes, StopAt(sizes, size) - 1) < size
         /\ size <= SumTo(sizes, StopAt(sizes, size))
         /\ size - SumTo(sizes, StopAt(sizes, size) - 1) \in 1 .. sizes[StopAt(sizes, size)]
<1> DEFINE S == {k \in 0 .. Len(sizes) : size <= SumTo(sizes, k)}
<1>0. Len(sizes) \in Nat /\ \A i \in 1 .. Len(sizes) : sizes[i] \in Nat
  OBVIOUS
<1>1. \A k \in 0 .. Len(sizes) : SumTo(sizes, k) \in Nat
  BY <1>0, SumToNat
<1>2. S # {} /\ S \in SUBSET Nat
  BY DEF Total
<1>3. PICK least \in S : \A k \in S : least <= k
  <2> HIDE DEF S
  <2> QED
    BY <1>2, Least
<1>4. least # 0
  BY SumToZero
<1>5. least - 1 \in 0 .. Len(sizes) /\ least - 1 \notin S
  BY <1>3, <1>4
<1>6. least \in DOMAIN sizes /\ SumTo(sizes, least - 1) < size /\ size <= SumTo(sizes, least)
  <2>1. SumTo(sizes, least - 1) \in Nat
    BY <1>1, <1>5
  <2>2. ~ (size <= SumTo(sizes, least - 1))
    BY <1>5
  <2>3. least \in 0 .. Len(sizes) /\ size <= SumTo(sizes, least)
    OBVIOUS
  <2> HIDE DEF S
  <2> QED
    BY <1>0, <1>4, <2>1, <2>2, <2>3
<1> DEFINE k == StopAt(sizes, size)
<1>7. k \in DOMAIN sizes /\ SumTo(sizes, k - 1) < size /\ size <= SumTo(sizes, k)
  BY <1>6 DEF StopAt
<1> HIDE DEF k
<1>8. k \in 1 .. Len(sizes) /\ k - 1 \in 0 .. Len(sizes) /\ k - 1 \in Nat
  BY <1>7
<1>9. SumTo(sizes, (k - 1) + 1) = SumTo(sizes, k - 1) + sizes[(k - 1) + 1]
  BY <1>8, SumToStep
<1>10. SumTo(sizes, k - 1) \in Nat /\ sizes[k] \in Nat /\ (k - 1) + 1 = k
  BY <1>0, <1>1, <1>8
<1>11. size - SumTo(sizes, k - 1) \in 1 .. sizes[k]
  BY <1>7, <1>9, <1>10
<1> QED
  BY <1>7, <1>8, <1>10, <1>11 DEF k
-----------------------------------------------------------------------------

IsPow(pow, n) == pow = [k \in 0 .. n |-> IF k = 0 THEN 1 ELSE 2 * pow[k - 1]]

LEMMA PowExists == \A n \in Nat : \E pow : IsPow(pow, n)
<1> DEFINE S == {n \in Nat : \E pow : IsPow(pow, n)}
<1>1. 0 \in S
  <2>1. IsPow([k \in 0 .. 0 |-> 1], 0)
    BY DEF IsPow
  <2> QED
    BY <2>1
<1>2. ASSUME NEW n \in Nat, n \in S
      PROVE  n + 1 \in S
  <2>1. PICK pow : IsPow(pow, n)
    BY <1>2
  <2> DEFINE more == [k \in 0 .. n + 1 |-> IF k <= n THEN pow[k] ELSE 2 * pow[n]]
  <2>2. \A k \in 0 .. n : pow[k] = IF k = 0 THEN 1 ELSE 2 * pow[k - 1]
    BY <2>1 DEF IsPow
  <2>3. \A k \in 0 .. n + 1 : more[k] = IF k = 0 THEN 1 ELSE 2 * more[k - 1]
    BY <2>2
  <2>4. IsPow(more, n + 1)
    BY <2>3 DEF IsPow
  <2> QED
    BY <2>4
<1>3. Nat \subseteq S
  <2> HIDE DEF S
  <2> QED
    BY <1>1, <1>2, SetInduction
<1> QED
  BY <1>3

LEMMA PowGrows ==
  ASSUME NEW n \in Nat, NEW pow, IsPow(pow, n)
  PROVE  \A k \in 0 .. n : pow[k] \in Nat /\ k < pow[k]
<1> DEFINE S == {k \in Nat : k <= n => pow[k] \in Nat /\ k < pow[k]}
<1>1. 0 \in S
  BY DEF IsPow
<1>2. ASSUME NEW k \in Nat, k \in S
      PROVE  k + 1 \in S
  BY <1>2 DEF IsPow
<1>3. Nat \subseteq S
  <2> HIDE DEF S
  <2> QED
    BY <1>1, <1>2, SetInduction
<1> QED
  BY <1>3

\* A power of two lies between any need and its double.
LEMMA PowBetween ==
  ASSUME NEW n \in Nat, 0 < n, NEW pow, IsPow(pow, n)
  PROVE  \E k \in 0 .. n : pow[k] \in n .. (2 * n - 1)
<1> DEFINE S == {k \in 0 .. n : n <= pow[k]}
<1>1. \A k \in 0 .. n : pow[k] \in Nat /\ k < pow[k]
  BY PowGrows
<1>2. S # {} /\ S \in SUBSET Nat
  <2>1. n \in S
    BY <1>1
  <2> QED
    BY <2>1
<1>3. PICK least \in S : \A k \in S : least <= k
  <2> HIDE DEF S
  <2> QED
    BY <1>2, Least
<1>4. CASE least = 0
  <2>1. pow[0] = 1
    BY DEF IsPow
  <2> QED
    BY <1>3, <1>4, <2>1
<1>5. CASE least # 0
  <2>1. least - 1 \in 0 .. n /\ least - 1 \notin S
    BY <1>3, <1>5
  <2>2. pow[least - 1] < n /\ pow[least] = 2 * pow[least - 1]
    BY <1>1, <1>3, <1>5, <2>1 DEF IsPow
  <2> QED
    BY <1>1, <1>3, <2>1, <2>2
<1> QED
  BY <1>4, <1>5

LEMMA NextPow2Fits ==
  ASSUME NEW size \in Nat
  PROVE  nextPow2(size) \in Nat /\ size <= nextPow2(size) /\ 0 < nextPow2(size)
<1> DEFINE need == Larger(size, MIN_ALLOC_SIZE)
           P(pow) == pow = [k \in 0 .. need |-> IF k = 0 THEN 1 ELSE 2 * pow[k - 1]]
<1>1. need \in Nat /\ 0 < need /\ size <= need
  BY MinAllocAssumption DEF Larger
<1>2. \E pow : P(pow)
  <2> HIDE DEF need
  <2> QED
    BY <1>1, PowExists DEF IsPow
<1>3. P(CHOOSE pow : P(pow))
  <2> HIDE DEF P
  <2> QED
    BY <1>2
<1> DEFINE pow == CHOOSE pow : P(pow)
<1>4. \E k \in 0 .. need : pow[k] \in need .. (2 * need - 1)
  <2>1. IsPow(pow, need)
    BY <1>3 DEF IsPow
  <2> HIDE DEF need, pow
  <2> QED
    BY <1>1, <2>1, PowBetween
<1>5. nextPow2(size) = CHOOSE p \in need .. (2 * need - 1) : \E k \in 0 .. need : p = pow[k]
  BY DEF nextPow2
<1>6. nextPow2(size) \in need .. (2 * need - 1)
  <2> HIDE DEF need, pow
  <2> QED
    BY <1>4, <1>5
<1> QED
  BY <1>1, <1>6

LEMMA AllocSizeFits ==
  ASSUME NEW size \in Nat
  PROVE  /\ AllocSize(size) \in Nat
         /\ size <= AllocSize(size)
         /\ 0 < size => 0 < AllocSize(size)
BY NextPow2Fits DEF AllocSize

-----------------------------------------------------------------------------
LEMMA FunctionIsSeq ==
  ASSUME NEW S, NEW n \in Nat, NEW f \in [1 .. n -> S]
  PROVE  f \in Seq(S) /\ Len(f) = n
OBVIOUS

\* A sequence whose first k elements are replaced by one.
LEMMA FrontAndRest ==
  ASSUME NEW S, NEW q \in Seq(S), NEW k \in 1 .. Len(q), NEW s \in S
  PROVE  /\ << s >> \o SubSeq(q, k + 1, Len(q)) \in Seq(S)
         /\ Len(<< s >> \o SubSeq(q, k + 1, Len(q))) = Len(q) - k + 1
         /\ (<< s >> \o SubSeq(q, k + 1, Len(q)))[1] = s
         /\ \A i \in 2 .. Len(q) - k + 1 : (<< s >> \o SubSeq(q, k + 1, Len(q)))[i] = q[k + i - 1]
<1> DEFINE rest == SubSeq(q, k + 1, Len(q))
           front == << s >>
<1>1. Len(q) \in Nat /\ DOMAIN q = 1 .. Len(q) /\ \A i \in 1 .. Len(q) : q[i] \in S
  OBVIOUS
<1>2. /\ rest \in Seq(S)
      /\ Len(rest) = Len(q) - k
      /\ \A i \in 1 .. Len(q) - k : rest[i] = q[(k + 1) + i - 1]
  BY <1>1, SubSeqProperties
<1>3. front \in Seq(S) /\ Len(front) = 1 /\ front[1] = s
  OBVIOUS
<1> HIDE DEF rest, front
<1>4. /\ front \o rest \in Seq(S)
      /\ Len(front \o rest) = Len(front) + Len(rest)
      /\ \A i \in 1 .. Len(front) + Len(rest) :
           (front \o rest)[i] = IF i <= Len(front) THEN front[i] ELSE rest[i - Len(front)]
  BY <1>2, <1>3, ConcatProperties
<1>5. Len(front) + Len(rest) = Len(q) - k + 1
  BY <1>1, <1>2, <1>3
<1>6. (front \o rest)[1] = s
  BY <1>1, <1>3, <1>4, <1>5
<1>7. ASSUME NEW i \in 2 .. Len(q) - k + 1
      PROVE  (front \o rest)[i] = q[k + i - 1]
  <2>1. i \in 1 .. Len(front) + Len(rest) /\ ~(i <= Len(front)) /\ i - Len(front) = i - 1
    BY <1>1, <1>3, <1>5
  <2>2. i - 1 \in 1 .. Len(q) - k /\ (k + 1) + (i - 1) - 1 = k + i - 1
    BY <1>1
  <2> QED
    BY <1>2, <1>4, <2>1, <2>2
<1> QED
  BY <1>4, <1>5, <1>6, <1>7 DEF front, rest

LEMMA StreamSizes ==
  ASSUME NEW Cell, NEW s \in StreamsOf(Cell), CursorsOK(s)
  PROVE  /\ StreamReadableSize(s) \in Nat
         /\ StreamWritableSize(s) \in Nat
         /\ StreamAllocSize(s) \in Nat
         /\ StreamWritableSize(s) = StreamAllocSize(s) - s.m_written
         /\ StreamReadableSize(s) = s.m_written - s.m_read
BY DEF StreamsOf, CursorsOK, StreamReadableSize, StreamWritableSize, StreamAllocSize

\* A new stream has the room it was asked for, and nothing to read.
LEMMA NewStreamFits ==
  ASSUME NEW Cell, Uninit \in Cell, NEW size \in Nat
  PROVE  /\ NewStream(size) \in StreamsOf(Cell)
         /\ CursorsOK(NewStream(size))
         /\ NewStream(size).m_read = 0
         /\ NewStream(size).m_written = 0
         /\ size <= StreamAllocSize(NewStream(size))
<1>1. AllocSize(size) \in Nat /\ size <= AllocSize(size)
  BY AllocSizeFits
<1>2. NewCells(AllocSize(size)) \in Seq(Cell) /\ Len(NewCells(AllocSize(size))) = AllocSize(size)
  BY <1>1 DEF NewCells
<1> QED
  BY <1>1, <1>2 DEF NewStream, StreamsOf, CursorsOK, StreamAllocSize

LEMMA StreamCommitFits ==
  ASSUME NEW Cell, NEW s \in StreamsOf(Cell), CursorsOK(s), NEW n \in 0 .. StreamWritableSize(s)
  PROVE  /\ StreamCommit(s, n) \in StreamsOf(Cell)
         /\ CursorsOK(StreamCommit(s, n))
         /\ StreamCommit(s, n) = [cells |-> s.cells, m_read |-> s.m_read, m_written |-> s.m_written + n]
BY DEF StreamsOf, CursorsOK, StreamCommit, StreamWritableSize, StreamAllocSize

LEMMA StreamConsumeFits ==
  ASSUME NEW Cell, NEW s \in StreamsOf(Cell), CursorsOK(s), NEW n \in 0 .. StreamReadableSize(s)
  PROVE  /\ StreamConsume(s, n) \in StreamsOf(Cell)
         /\ CursorsOK(StreamConsume(s, n))
         /\ StreamConsume(s, n) = [cells |-> s.cells, m_read |-> s.m_read + n, m_written |-> s.m_written]
BY DEF StreamsOf, CursorsOK, StreamConsume, StreamReadableSize, StreamAllocSize

LEMMA StreamResetFits ==
  ASSUME NEW Cell, NEW s \in StreamsOf(Cell), CursorsOK(s)
  PROVE  /\ StreamReset(s) \in StreamsOf(Cell)
         /\ CursorsOK(StreamReset(s))
         /\ StreamReset(s) = [cells |-> s.cells, m_read |-> 0, m_written |-> 0]
BY DEF StreamsOf, CursorsOK, StreamReset, StreamAllocSize

\* Storing bytes moves no cursor and touches no cell but its own.
LEMMA StoreFits ==
  ASSUME NEW Cell, NEW s \in StreamsOf(Cell), NEW at \in Nat, NEW bytes \in Seq(Cell)
  PROVE  /\ Store(s, at, bytes) \in StreamsOf(Cell)
         /\ Store(s, at, bytes).m_read = s.m_read
         /\ Store(s, at, bytes).m_written = s.m_written
         /\ Len(Store(s, at, bytes).cells) = Len(s.cells)
         /\ \A i \in 1 .. Len(s.cells) :
              Store(s, at, bytes).cells[i] =
                IF i \in at + 1 .. at + Len(bytes) THEN bytes[i - at] ELSE s.cells[i]
<1> DEFINE cells == Overwrite(s.cells, at, bytes)
<1>1. s.cells \in Seq(Cell) /\ s.m_read \in Nat /\ s.m_written \in Nat
  BY DEF StreamsOf
<1>2. DOMAIN s.cells = 1 .. Len(s.cells) /\ Len(s.cells) \in Nat
  BY <1>1
<1>3. cells = [i \in 1 .. Len(s.cells) |->
                 IF i \in at + 1 .. at + Len(bytes) THEN bytes[i - at] ELSE s.cells[i]]
  BY <1>2 DEF Overwrite
<1>4. \A i \in 1 .. Len(s.cells) : cells[i] \in Cell
  BY <1>1, <1>2, <1>3
<1>5. cells \in Seq(Cell) /\ Len(cells) = Len(s.cells)
  <2> HIDE DEF cells
  <2>1. cells \in [1 .. Len(s.cells) -> Cell]
    BY <1>3, <1>4
  <2> QED
    BY <1>2, <2>1, FunctionIsSeq
<1>6. Store(s, at, bytes) = [cells |-> cells, m_read |-> s.m_read, m_written |-> s.m_written]
  BY DEF Store, StreamsOf
<1> QED
  <2> HIDE DEF cells
  <2> QED
    BY <1>1, <1>3, <1>5, <1>6 DEF StreamsOf

LEMMA UnreadFits ==
  ASSUME NEW Cell, NEW s \in StreamsOf(Cell), CursorsOK(s)
  PROVE  /\ Unread(s) \in Seq(Cell)
         /\ Len(Unread(s)) = StreamReadableSize(s)
         /\ \A j \in 1 .. StreamReadableSize(s) : Unread(s)[j] = s.cells[s.m_read + j]
BY SubSeqProperties DEF StreamsOf, CursorsOK, Unread, StreamReadableSize, StreamAllocSize

\* A buffer that is too small grows, and keeps what has been written to it.
LEMMA VerifyWritableFits ==
  ASSUME NEW Cell, Uninit \in Cell, NEW s \in StreamsOf(Cell), CursorsOK(s), NEW n \in Nat
  PROVE  /\ VerifyWritable(s, n) \in StreamsOf(Cell)
         /\ VerifyWritable(s, n).m_read = s.m_read
         /\ VerifyWritable(s, n).m_written = s.m_written
         /\ s.m_written + n <= Len(VerifyWritable(s, n).cells)
         /\ \A i \in 1 .. s.m_written : VerifyWritable(s, n).cells[i] = s.cells[i]
<1> DEFINE w == s.m_written
           len == Len(s.cells)
           alloc == AllocSize(w + n)
           new == NewCells(alloc - len)
           all == s.cells \o new
<1>1. /\ s.cells \in Seq(Cell) /\ len \in Nat /\ w \in Nat /\ s.m_read \in Nat /\ w <= len
      /\ s = [cells |-> s.cells, m_read |-> s.m_read, m_written |-> w]
      /\ StreamWritableSize(s) = len - w
  BY DEF StreamsOf, CursorsOK, StreamAllocSize, StreamWritableSize
<1>2. VerifyWritable(s, n) = IF len - w < n THEN [s EXCEPT !.cells = all] ELSE s
  BY <1>1 DEF VerifyWritable
<1>3. CASE ~(len - w < n)
  BY <1>1, <1>2, <1>3
<1>4. CASE len - w < n
  <2>1. alloc \in Nat /\ w + n <= alloc
    <3>1. PICK need \in Nat : need = w + n
      BY <1>1
    <3>2. AllocSize(need) \in Nat /\ need <= AllocSize(need)
      BY AllocSizeFits
    <3> QED
      BY <3>1, <3>2
  <2>2. new \in Seq(Cell) /\ Len(new) = alloc - len
    <3> DEFINE d == alloc - len
    <3>1. d \in Nat
      <4> HIDE DEF len, alloc, w
      <4> QED
        BY <1>1, <1>4, <2>1
    <3>2. NewCells(d) \in [1 .. d -> Cell]
      BY DEF NewCells
    <3> HIDE DEF d
    <3>3. NewCells(d) \in Seq(Cell) /\ Len(NewCells(d)) = d
      BY <3>1, <3>2, FunctionIsSeq
    <3> QED
      BY <3>3 DEF d
  <2> HIDE DEF new, alloc
  <2>3. /\ all \in Seq(Cell) /\ Len(all) = len + (alloc - len)
        /\ \A i \in 1 .. len : all[i] = s.cells[i]
    <3>1. /\ all \in Seq(Cell) /\ Len(all) = Len(s.cells) + Len(new)
          /\ \A i \in 1 .. Len(s.cells) + Len(new) :
               all[i] = IF i <= Len(s.cells) THEN s.cells[i] ELSE new[i - Len(s.cells)]
      BY <1>1, <2>2, ConcatProperties
    <3>2. \A i \in 1 .. len : i \in 1 .. len + Len(new) /\ i <= len
      BY <1>1, <1>4, <2>1, <2>2
    <3> HIDE DEF all
    <3> QED
      BY <2>2, <3>1, <3>2
  <2> HIDE DEF all
  <2>4. VerifyWritable(s, n) = [cells |-> all, m_read |-> s.m_read, m_written |-> w]
    BY <1>1, <1>2, <1>4
  <2>5. [cells |-> all, m_read |-> s.m_read, m_written |-> w] \in StreamsOf(Cell)
    BY <1>1, <2>3 DEF StreamsOf
  <2>6. w + n <= Len(all)
    <3> HIDE DEF len, w
    <3> QED
      BY <1>1, <2>1, <2>3
  <2>7. \A i \in 1 .. w : all[i] = s.cells[i]
    BY <1>1, <2>3
  <2> QED
    BY <2>4, <2>5, <2>6, <2>7
<1> QED
  BY <1>3, <1>4

\* Stream::write: the bytes are behind what had been written.
LEMMA StreamWriteFits ==
  ASSUME NEW Cell, Uninit \in Cell, NEW s \in StreamsOf(Cell), CursorsOK(s), NEW bytes \in Seq(Cell)
  PROVE  /\ StreamWrite(s, bytes) \in StreamsOf(Cell)
         /\ CursorsOK(StreamWrite(s, bytes))
         /\ StreamWrite(s, bytes).m_read = s.m_read
         /\ StreamWrite(s, bytes).m_written = s.m_written + Len(bytes)
         /\ \A i \in 1 .. s.m_written : StreamWrite(s, bytes).cells[i] = s.cells[i]
         /\ \A i \in 1 .. Len(bytes) : StreamWrite(s, bytes).cells[s.m_written + i] = bytes[i]
<1> DEFINE w == s.m_written
           n == Len(bytes)
           room == VerifyWritable(s, n)
           full == Store(room, w, bytes)
           t == StreamWrite(s, bytes)
<1>1. w \in Nat /\ s.m_read \in Nat /\ s.m_read <= w /\ n \in Nat
  BY DEF CursorsOK
<1>2. /\ room \in StreamsOf(Cell)
      /\ room.m_read = s.m_read /\ room.m_written = w
      /\ w + n <= Len(room.cells)
      /\ \A i \in 1 .. w : room.cells[i] = s.cells[i]
  BY <1>1, VerifyWritableFits
<1>3. t = StreamCommit(full, n)
  BY DEF StreamWrite
<1> HIDE DEF w, n, room
<1>4. /\ full \in StreamsOf(Cell)
      /\ full.m_read = room.m_read /\ full.m_written = room.m_written
      /\ Len(full.cells) = Len(room.cells)
      /\ \A i \in 1 .. Len(room.cells) :
           full.cells[i] = IF i \in w + 1 .. w + n THEN bytes[i - w] ELSE room.cells[i]
  BY <1>1, <1>2, StoreFits DEF n
<1> HIDE DEF full, t
<1>5. t = [cells |-> full.cells, m_read |-> s.m_read, m_written |-> w + n]
  BY <1>2, <1>3, <1>4 DEF StreamCommit, StreamsOf
<1>6. Len(room.cells) \in Nat
  BY <1>2 DEF StreamsOf
<1>7. t \in StreamsOf(Cell) /\ CursorsOK(t)
  BY <1>1, <1>2, <1>4, <1>5, <1>6 DEF StreamsOf, CursorsOK, StreamAllocSize
<1>8. ASSUME NEW i \in 1 .. w
      PROVE  full.cells[i] = s.cells[i]
  <2>1. i \in 1 .. Len(room.cells) /\ i \notin w + 1 .. w + n
    BY <1>1, <1>2, <1>6
  <2> QED
    BY <1>2, <1>4, <2>1
<1>9. ASSUME NEW i \in 1 .. n
      PROVE  full.cells[w + i] = bytes[i]
  <2>1. w + i \in 1 .. Len(room.cells) /\ w + i \in w + 1 .. w + n /\ (w + i) - w = i
    BY <1>1, <1>2, <1>6
  <2> QED
    BY <1>4, <2>1
<1> QED
  BY <1>5, <1>7, <1>8, <1>9 DEF t, w, n

\* Stream::write(size): the cursor moves on, and nothing is written.
LEMMA StreamSkipFits ==
  ASSUME NEW Cell, Uninit \in Cell, NEW s \in StreamsOf(Cell), CursorsOK(s), NEW n \in Nat
  PROVE  /\ StreamSkip(s, n) \in StreamsOf(Cell)
         /\ CursorsOK(StreamSkip(s, n))
         /\ StreamSkip(s, n).m_read = s.m_read
         /\ StreamSkip(s, n).m_written = s.m_written + n
<1> DEFINE room == VerifyWritable(s, n)
           t == StreamSkip(s, n)
<1>1. s.m_written \in Nat /\ s.m_read \in Nat /\ s.m_read <= s.m_written
  BY DEF CursorsOK
<1>2. /\ room \in StreamsOf(Cell)
      /\ room.m_read = s.m_read /\ room.m_written = s.m_written
      /\ s.m_written + n <= Len(room.cells)
  BY VerifyWritableFits
<1>3. t = StreamCommit(room, n)
  BY DEF StreamSkip
<1> HIDE DEF room, t
<1>4. t = [cells |-> room.cells, m_read |-> s.m_read, m_written |-> s.m_written + n]
  BY <1>2, <1>3 DEF StreamCommit, StreamsOf
<1>5. t \in StreamsOf(Cell) /\ CursorsOK(t)
  BY <1>1, <1>2, <1>4 DEF StreamsOf, CursorsOK, StreamAllocSize
<1> QED
  BY <1>4, <1>5 DEF t

-----------------------------------------------------------------------------
(***************************************************************************)
(* The first n elements of a sequence, and the others.                     *)
(***************************************************************************)
LEMMA FirstFacts ==
  ASSUME NEW S, NEW a \in Seq(S), NEW n \in 0 .. Len(a)
  PROVE  /\ SubSeq(a, 1, n) \in Seq(S)
         /\ Len(SubSeq(a, 1, n)) = n
         /\ \A j \in 1 .. n : SubSeq(a, 1, n)[j] = a[j]
<1>1. n \in Nat /\ n <= Len(a) /\ Len(a) \in Nat /\ \A j \in 1 .. Len(a) : a[j] \in S
  OBVIOUS
<1>2. PICK one \in Int : one = 1
  OBVIOUS
<1>3. /\ SubSeq(a, one, n) \in Seq(S)
      /\ Len(SubSeq(a, one, n)) = IF one <= n THEN n - one + 1 ELSE 0
      /\ \A j \in 1 .. n - one + 1 : SubSeq(a, one, n)[j] = a[one + j - 1]
  <2>1. \A j \in one .. n : a[j] \in S
    BY <1>1, <1>2
  <2> QED
    BY <1>1, <2>1, SubSeqProperties
<1>4. one + n - 1 = n /\ n - one + 1 = n /\ \A j \in 1 .. n : one + j - 1 = j
  BY <1>1, <1>2
<1> QED
  BY <1>1, <1>2, <1>3, <1>4

LEMMA RestFacts ==
  ASSUME NEW S, NEW a \in Seq(S), NEW n \in 0 .. Len(a)
  PROVE  /\ SubSeq(a, n + 1, Len(a)) \in Seq(S)
         /\ Len(SubSeq(a, n + 1, Len(a))) = Len(a) - n
         /\ \A j \in 1 .. Len(a) - n : SubSeq(a, n + 1, Len(a))[j] = a[n + j]
<1> DEFINE len == Len(a)
           rest == SubSeq(a, n + 1, len)
<1>1. n \in Nat /\ n <= len /\ len \in Nat /\ \A j \in 1 .. len : a[j] \in S
  OBVIOUS
<1> HIDE DEF len
<1>2. \A j \in n + 1 .. len : a[j] \in S
  BY <1>1
<1>3. /\ rest \in Seq(S)
      /\ Len(rest) = IF n + 1 <= len THEN len - (n + 1) + 1 ELSE 0
      /\ \A j \in 1 .. len - (n + 1) + 1 : rest[j] = a[(n + 1) + j - 1]
  BY <1>1, <1>2, SubSeqProperties
<1> HIDE DEF rest
<1>4. len - (n + 1) + 1 = len - n /\ \A j \in 1 .. len - n : (n + 1) + j - 1 = n + j
  BY <1>1
<1>5. Len(rest) = len - n /\ \A j \in 1 .. len - n : rest[j] = a[n + j]
  BY <1>1, <1>3, <1>4
<1> QED
  BY <1>3, <1>5 DEF len, rest

LEMMA FirstAndRest ==
  ASSUME NEW S, NEW a \in Seq(S), NEW n \in 0 .. Len(a)
  PROVE  SubSeq(a, 1, n) \o SubSeq(a, n + 1, Len(a)) = a
<1> DEFINE f == SubSeq(a, 1, n)
           r == SubSeq(a, n + 1, Len(a))
<1>1. /\ f \in Seq(S) /\ Len(f) = n /\ \A j \in 1 .. n : f[j] = a[j]
      /\ r \in Seq(S) /\ Len(r) = Len(a) - n /\ \A j \in 1 .. Len(a) - n : r[j] = a[n + j]
      /\ n \in Nat /\ Len(a) \in Nat /\ n <= Len(a)
  <2>1. f \in Seq(S) /\ Len(f) = n /\ \A j \in 1 .. n : f[j] = a[j]
    BY FirstFacts
  <2>2. r \in Seq(S) /\ Len(r) = Len(a) - n /\ \A j \in 1 .. Len(a) - n : r[j] = a[n + j]
    BY RestFacts
  <2>3. n \in Nat /\ Len(a) \in Nat /\ n <= Len(a)
    OBVIOUS
  <2> HIDE DEF f, r
  <2> QED
    BY <2>1, <2>2, <2>3
<1> HIDE DEF f, r
<1>2. /\ f \o r \in Seq(S) /\ Len(f \o r) = Len(f) + Len(r)
      /\ \A j \in 1 .. Len(f) + Len(r) :
           (f \o r)[j] = IF j <= Len(f) THEN f[j] ELSE r[j - Len(f)]
  BY <1>1, ConcatProperties
<1>3. Len(f \o r) = Len(a)
  BY <1>1, <1>2
<1>4. ASSUME NEW j \in 1 .. Len(a)
      PROVE  (f \o r)[j] = a[j]
  <2>1. CASE j <= n
    BY <1>1, <1>2, <2>1
  <2>2. CASE ~(j <= n)
    <3>1. j - n \in 1 .. Len(a) - n /\ n + (j - n) = j
      BY <1>1, <2>2
    <3> QED
      BY <1>1, <1>2, <2>2, <3>1
  <2> QED
    BY <2>1, <2>2
<1> QED
  BY <1>2, <1>3, <1>4, SeqEqual DEF f, r

\* The first elements and the rest of two sequences in a row, when the first of
\* them is long enough.
LEMMA FirstOfConcat ==
  ASSUME NEW S, NEW a \in Seq(S), NEW b \in Seq(S), NEW n \in 0 .. Len(a)
  PROVE  /\ SubSeq(a \o b, 1, n) = SubSeq(a, 1, n)
         /\ SubSeq(a \o b, n + 1, Len(a \o b)) = SubSeq(a, n + 1, Len(a)) \o b
         /\ n \in 0 .. Len(a \o b)
<1> DEFINE c == a \o b
           r == SubSeq(a, n + 1, Len(a))
<1>1. /\ c \in Seq(S) /\ Len(c) = Len(a) + Len(b)
      /\ \A j \in 1 .. Len(a) + Len(b) : c[j] = IF j <= Len(a) THEN a[j] ELSE b[j - Len(a)]
      /\ Len(a) \in Nat /\ Len(b) \in Nat /\ n \in Nat /\ n <= Len(a)
  BY ConcatProperties
<1>2. n \in 0 .. Len(c)
  BY <1>1
<1> HIDE DEF c
<1>3. /\ SubSeq(c, 1, n) \in Seq(S) /\ Len(SubSeq(c, 1, n)) = n
      /\ \A j \in 1 .. n : SubSeq(c, 1, n)[j] = c[j]
      /\ SubSeq(a, 1, n) \in Seq(S) /\ Len(SubSeq(a, 1, n)) = n
      /\ \A j \in 1 .. n : SubSeq(a, 1, n)[j] = a[j]
  BY <1>1, <1>2, FirstFacts
<1>4. /\ SubSeq(c, n + 1, Len(c)) \in Seq(S) /\ Len(SubSeq(c, n + 1, Len(c))) = Len(c) - n
      /\ \A j \in 1 .. Len(c) - n : SubSeq(c, n + 1, Len(c))[j] = c[n + j]
      /\ r \in Seq(S) /\ Len(r) = Len(a) - n
      /\ \A j \in 1 .. Len(a) - n : r[j] = a[n + j]
  BY <1>1, <1>2, RestFacts
<1> HIDE DEF r
<1>5. /\ r \o b \in Seq(S) /\ Len(r \o b) = Len(r) + Len(b)
      /\ \A j \in 1 .. Len(r) + Len(b) :
           (r \o b)[j] = IF j <= Len(r) THEN r[j] ELSE b[j - Len(r)]
  <2>1. r \in Seq(S)
    BY <1>4
  <2> QED
    BY <2>1, ConcatProperties
<1>6. SubSeq(c, 1, n) = SubSeq(a, 1, n)
  <2>1. \A j \in 1 .. n : SubSeq(c, 1, n)[j] = SubSeq(a, 1, n)[j]
    <3> TAKE j \in 1 .. n
    <3>1. j \in 1 .. Len(a) + Len(b) /\ j <= Len(a)
      BY <1>1
    <3> QED
      BY <1>1, <1>3, <3>1
  <2> QED
    BY <1>3, <2>1, SeqEqual
<1>7. SubSeq(c, n + 1, Len(c)) = r \o b
  <2> DEFINE d == SubSeq(c, n + 1, Len(c))
  <2>1. Len(d) = Len(r \o b) /\ Len(d) = Len(c) - n
    BY <1>1, <1>4, <1>5
  <2>2. ASSUME NEW j \in 1 .. Len(c) - n
        PROVE  d[j] = (r \o b)[j]
    <3>1. d[j] = c[n + j]
      BY <1>4
    <3>2. n + j \in 1 .. Len(a) + Len(b) /\ j \in 1 .. Len(r) + Len(b) /\ Len(r) = Len(a) - n
      BY <1>1, <1>4
    <3>3. CASE j <= Len(r)
      <4>1. n + j <= Len(a) /\ j \in 1 .. Len(a) - n
        BY <1>1, <3>2, <3>3
      <4> QED
        BY <1>1, <1>4, <1>5, <3>1, <3>2, <3>3, <4>1
    <3>4. CASE ~(j <= Len(r))
      <4>1. ~(n + j <= Len(a)) /\ (n + j) - Len(a) = j - Len(r)
        BY <1>1, <3>2, <3>4
      <4> QED
        BY <1>1, <1>5, <3>1, <3>2, <3>4, <4>1
    <3> QED
      BY <3>3, <3>4
  <2>3. d \in Seq(S) /\ r \o b \in Seq(S)
    BY <1>4, <1>5
  <2> HIDE DEF d
  <2>4. \A j \in 1 .. Len(d) : d[j] = (r \o b)[j]
    BY <2>1, <2>2
  <2> QED
    BY <2>1, <2>3, <2>4, SeqEqual DEF d
<1> QED
  BY <1>2, <1>6, <1>7 DEF c, r

\* A part of a part.
LEMMA RestOfRest ==
  ASSUME NEW S, NEW a \in Seq(S), NEW m \in Nat, NEW n \in Nat, m + n <= Len(a),
         NEW b, b = SubSeq(a, m + 1, Len(a))
  PROVE  /\ SubSeq(b, n + 1, Len(b)) = SubSeq(a, (m + n) + 1, Len(a))
         /\ b \in Seq(S) /\ Len(b) = Len(a) - m /\ n \in 0 .. Len(b)
<1>1. m \in 0 .. Len(a) /\ Len(a) \in Nat /\ m + n \in 0 .. Len(a)
  OBVIOUS
<1>2. /\ b \in Seq(S) /\ Len(b) = Len(a) - m
      /\ \A j \in 1 .. Len(a) - m : b[j] = a[m + j]
  BY <1>1, RestFacts
<1>3. n \in 0 .. Len(b)
  BY <1>1, <1>2
<1> DEFINE k == m + n
           c == SubSeq(b, n + 1, Len(b))
           d == SubSeq(a, k + 1, Len(a))
<1>4. /\ c \in Seq(S) /\ Len(c) = Len(b) - n /\ \A j \in 1 .. Len(b) - n : c[j] = b[n + j]
  BY <1>2, <1>3, RestFacts
<1>5. /\ d \in Seq(S) /\ Len(d) = Len(a) - k /\ \A j \in 1 .. Len(a) - k : d[j] = a[k + j]
  BY <1>1, RestFacts
<1> HIDE DEF c, d
<1>6. Len(c) = Len(d) /\ Len(c) = Len(a) - k
  BY <1>1, <1>2, <1>4, <1>5
<1>7. ASSUME NEW j \in 1 .. Len(a) - k
      PROVE  c[j] = d[j]
  <2>1. j \in 1 .. Len(b) - n /\ n + j \in 1 .. Len(a) - m /\ m + (n + j) = k + j
    BY <1>1, <1>2
  <2> QED
    BY <1>2, <1>4, <1>5, <2>1
<1>8. c = d
  BY <1>4, <1>5, <1>6, <1>7, SeqEqual
<1> QED
  BY <1>2, <1>3, <1>8 DEF c, d

\* Consuming drops the first unread bytes.
LEMMA ConsumeUnread ==
  ASSUME NEW Cell, NEW s \in StreamsOf(Cell), CursorsOK(s), NEW n \in 0 .. StreamReadableSize(s)
  PROVE  Unread(StreamConsume(s, n)) = SubSeq(Unread(s), n + 1, Len(Unread(s)))
<1> DEFINE t == StreamConsume(s, n)
           u == Unread(s)
<1>1. /\ t \in StreamsOf(Cell) /\ CursorsOK(t)
      /\ t = [cells |-> s.cells, m_read |-> s.m_read + n, m_written |-> s.m_written]
  BY StreamConsumeFits
<1>2. /\ t.cells = s.cells /\ t.m_read = s.m_read + n
      /\ s.m_read \in Nat /\ n \in Nat /\ s.m_written \in Nat
      /\ StreamReadableSize(s) = s.m_written - s.m_read
      /\ StreamReadableSize(t) = (s.m_written - s.m_read) - n
  BY <1>1 DEF CursorsOK, StreamReadableSize
<1> HIDE DEF t
<1>3. /\ Unread(t) \in Seq(Cell) /\ Len(Unread(t)) = StreamReadableSize(t)
      /\ \A j \in 1 .. StreamReadableSize(t) : Unread(t)[j] = t.cells[t.m_read + j]
  BY <1>1, UnreadFits
<1>4. /\ u \in Seq(Cell) /\ Len(u) = StreamReadableSize(s)
      /\ \A j \in 1 .. StreamReadableSize(s) : u[j] = s.cells[s.m_read + j]
  BY UnreadFits
<1> HIDE DEF u
<1>5. n \in 0 .. Len(u)
  BY <1>4
<1>6. /\ SubSeq(u, n + 1, Len(u)) \in Seq(Cell)
      /\ Len(SubSeq(u, n + 1, Len(u))) = Len(u) - n
      /\ \A j \in 1 .. Len(u) - n : SubSeq(u, n + 1, Len(u))[j] = u[n + j]
  BY <1>4, <1>5, RestFacts
<1>7. \A j \in 1 .. StreamReadableSize(t) : Unread(t)[j] = SubSeq(u, n + 1, Len(u))[j]
  <2> TAKE j \in 1 .. StreamReadableSize(t)
  <2>1. /\ n + j \in 1 .. StreamReadableSize(s) /\ j \in 1 .. Len(u) - n
        /\ s.m_read + (n + j) = (s.m_read + n) + j
    BY <1>2, <1>4
  <2>2. Unread(t)[j] = t.cells[t.m_read + j]
    BY <1>3
  <2>3. SubSeq(u, n + 1, Len(u))[j] = u[n + j]
    BY <1>6, <2>1
  <2>4. u[n + j] = s.cells[s.m_read + (n + j)]
    BY <1>4, <2>1
  <2> QED
    BY <1>2, <2>1, <2>2, <2>3, <2>4
<1>8. Len(u) - n = StreamReadableSize(t)
  BY <1>2, <1>4
<1>9. Unread(t) = SubSeq(u, n + 1, Len(u))
  BY <1>3, <1>6, <1>7, <1>8, SeqEqual
<1> QED
  BY <1>9 DEF t, u

\* A sequence that agrees with another but for its last, or its first, element.
LEMMA AppendAgrees ==
  ASSUME NEW S, NEW g \in Seq(S), NEW h \in Seq(S), NEW x \in S,
         Len(h) = Len(g) + 1, \A i \in 1 .. Len(g) : h[i] = g[i], h[Len(g) + 1] = x
  PROVE  h = Append(g, x)
<1>1. /\ Append(g, x) \in Seq(S) /\ Len(Append(g, x)) = Len(g) + 1 /\ Len(g) \in Nat
      /\ \A i \in 1 .. Len(g) : Append(g, x)[i] = g[i]
      /\ Append(g, x)[Len(g) + 1] = x
  OBVIOUS
<1>2. \A i \in 1 .. Len(g) + 1 : i \in 1 .. Len(g) \/ i = Len(g) + 1
  BY <1>1
<1>3. \A i \in 1 .. Len(h) : h[i] = Append(g, x)[i]
  BY <1>1, <1>2
<1> QED
  BY <1>1, <1>3, SeqEqual

LEMMA TailAgrees ==
  ASSUME NEW S, NEW g \in Seq(S), NEW h \in Seq(S),
         Len(g) = Len(h) + 1, \A i \in 1 .. Len(h) : h[i] = g[i + 1]
  PROVE  h = Tail(g)
<1>1. /\ Tail(g) \in Seq(S) /\ Len(Tail(g)) = Len(h) /\ Len(h) \in Nat
      /\ \A i \in 1 .. Len(h) : Tail(g)[i] = g[i + 1]
  OBVIOUS
<1>2. \A i \in 1 .. Len(h) : h[i] = Tail(g)[i]
  BY <1>1
<1> QED
  BY <1>1, <1>2, SeqEqual

\* Concatenation is associative.
LEMMA Regroup ==
  ASSUME NEW S
  PROVE  \A a, b, c \in Seq(S) : a \o b \in Seq(S) /\ a \o (b \o c) = (a \o b) \o c
BY ConcatAssociative, ConcatProperties

\* Splitting a sequence in two and moving the parts over.
LEMMA MoveOver ==
  ASSUME NEW S, NEW a \in Seq(S), NEW n \in 0 .. Len(a), NEW b \in Seq(S)
  PROVE  /\ SubSeq(a, 1, n) \in Seq(S) /\ Len(SubSeq(a, 1, n)) = n
         /\ SubSeq(a, n + 1, Len(a)) \in Seq(S)
         /\ (b \o SubSeq(a, 1, n)) \o SubSeq(a, n + 1, Len(a)) = b \o a
<1> DEFINE f == SubSeq(a, 1, n)
           r == SubSeq(a, n + 1, Len(a))
<1>1. f \in Seq(S) /\ Len(f) = n /\ r \in Seq(S) /\ f \o r = a
  BY FirstFacts, RestFacts, FirstAndRest
<1> HIDE DEF f, r
<1>2. \A x, y, z \in Seq(S) : x \o (y \o z) = (x \o y) \o z
  BY Regroup
<1>3. b \o (f \o r) = (b \o f) \o r
  BY <1>1, <1>2
<1> QED
  BY <1>1, <1>3 DEF f, r

-----------------------------------------------------------------------------
(***************************************************************************)
(* Queues.                                                                 *)
(***************************************************************************)
CellsOf(Data) == Data \cup {Uninit}

\* A stream whose unread bytes are bytes somebody has written.
SoundStream(Data, s) ==
  /\ s \in StreamsOf(CellsOf(Data))
  /\ CursorsOK(s)
  /\ \A i \in s.m_read + 1 .. s.m_written : s.cells[i] \in Data

SoundQueue(Data, q) ==
  /\ q \in Seq(StreamsOf(CellsOf(Data)))
  /\ \A i \in DOMAIN q : SoundStream(Data, q[i])

\* Every stream of the queue has something to send.
Busy(q) == \A i \in DOMAIN q : StreamReadableSize(q[i]) > 0

\* A queue of well-formed streams.
WellFormed(Data, q) ==
  q \in Seq(StreamsOf(CellsOf(Data))) /\ \A i \in DOMAIN q : CursorsOK(q[i])

WrittenBytes(Data, q) == \A i \in DOMAIN q : \A c \in 1 .. q[i].m_written : q[i].cells[c] \in Data

PackedQueue(q) == NoDrainedStream(q) /\ OnlyFrontRead(q) /\ FilledInOrder(q) /\ HasMemory(q)

\* A queue a RecvQueue in use may be.
GoodQueue(Data, q) == WellFormed(Data, q) /\ WrittenBytes(Data, q) /\ PackedQueue(q)

-----------------------------------------------------------------------------
(***************************************************************************)
(* Where a byte of the backlog is.                                         *)
(***************************************************************************)
LEMMA SoundShape ==
  ASSUME NEW Data, NEW q, SoundQueue(Data, q)
  PROVE  /\ Len(q) \in Nat
         /\ DOMAIN q = 1 .. Len(q)
         /\ \A i \in 1 .. Len(q) :
              /\ q[i] \in StreamsOf(CellsOf(Data))
              /\ CursorsOK(q[i])
              /\ SoundStream(Data, q[i])
BY DEF SoundQueue, SoundStream

LEMMA UnreadSizesAreNat ==
  ASSUME NEW Data, NEW q, SoundQueue(Data, q)
  PROVE  /\ UnreadSizes(q) \in Seq(Nat)
         /\ Len(UnreadSizes(q)) = Len(q)
         /\ \A i \in 1 .. Len(q) :
              UnreadSizes(q)[i] = StreamReadableSize(q[i]) /\ UnreadSizes(q)[i] \in Nat
<1>1. Len(q) \in Nat /\ DOMAIN q = 1 .. Len(q)
  BY SoundShape
<1>2. \A i \in 1 .. Len(q) : StreamReadableSize(q[i]) \in Nat
  BY SoundShape, StreamSizes
<1>3. UnreadSizes(q) = [i \in 1 .. Len(q) |-> StreamReadableSize(q[i])]
  BY <1>1 DEF UnreadSizes
<1>4. UnreadSizes(q) \in [1 .. Len(q) -> Nat]
  BY <1>2, <1>3
<1>5. UnreadSizes(q) \in Seq(Nat) /\ Len(UnreadSizes(q)) = Len(q)
  BY <1>1, <1>4, FunctionIsSeq
<1> QED
  BY <1>2, <1>3, <1>5

\* The running totals of the sizes of a queue.
LEMMA SumsOfQueue ==
  ASSUME NEW Data, NEW q, SoundQueue(Data, q)
  PROVE  /\ \A k \in 0 .. Len(q) : SumTo(UnreadSizes(q), k) \in Nat
         /\ SumTo(UnreadSizes(q), 0) = 0
         /\ \A k \in 1 .. Len(q) :
              SumTo(UnreadSizes(q), k) = SumTo(UnreadSizes(q), k - 1) + StreamReadableSize(q[k])
         /\ Backlog(q) = SumTo(UnreadSizes(q), Len(q))
         /\ Backlog(q) \in Nat
<1>1. /\ Len(q) \in Nat
      /\ \A i \in 1 .. Len(q) : UnreadSizes(q)[i] = StreamReadableSize(q[i]) /\ UnreadSizes(q)[i] \in Nat
  BY SoundShape, UnreadSizesAreNat
<1>2. \A k \in 0 .. Len(q) : SumTo(UnreadSizes(q), k) \in Nat
  BY <1>1, SumToNat
<1>3. ASSUME NEW k \in 1 .. Len(q)
      PROVE  SumTo(UnreadSizes(q), k) = SumTo(UnreadSizes(q), k - 1) + StreamReadableSize(q[k])
  <2>1. k - 1 \in Nat /\ (k - 1) + 1 = k
    BY <1>1
  <2>2. SumTo(UnreadSizes(q), (k - 1) + 1) = SumTo(UnreadSizes(q), k - 1) + UnreadSizes(q)[(k - 1) + 1]
    BY <2>1, SumToStep
  <2> QED
    BY <1>1, <2>1, <2>2
<1>4. Backlog(q) = SumTo(UnreadSizes(q), Len(q))
  BY UnreadSizesAreNat DEF Backlog, Total
<1>5. Len(q) \in 0 .. Len(q)
  BY <1>1
<1> QED
  BY <1>2, <1>3, <1>4, <1>5, SumToZero

\* Every place of the backlog is in one stream.
LEMMA PlaceFound ==
  ASSUME NEW Data, NEW q, SoundQueue(Data, q), NEW j \in 1 .. Backlog(q)
  PROVE  \E k \in 1 .. Len(q) :
           SumTo(UnreadSizes(q), k - 1) < j /\ j <= SumTo(UnreadSizes(q), k)
<1>1. /\ UnreadSizes(q) \in Seq(Nat) /\ Len(UnreadSizes(q)) = Len(q)
      /\ j \in Nat /\ 0 < j /\ j <= Total(UnreadSizes(q))
  BY UnreadSizesAreNat, SumsOfQueue DEF Backlog
<1> QED
  BY <1>1, StopAtFound

LEMMA StopIsUnique ==
  ASSUME NEW Data, NEW q, SoundQueue(Data, q), NEW j \in Nat, NEW k \in 1 .. Len(q),
         SumTo(UnreadSizes(q), k - 1) < j, j <= SumTo(UnreadSizes(q), k)
  PROVE  /\ StopAt(UnreadSizes(q), j) = k
         /\ j \in 1 .. Backlog(q)
<1> DEFINE sum(i) == SumTo(UnreadSizes(q), i)
           m == StopAt(UnreadSizes(q), j)
<1>1. /\ UnreadSizes(q) \in Seq(Nat) /\ Len(UnreadSizes(q)) = Len(q) /\ Len(q) \in Nat
      /\ \A i \in 1 .. Len(q) : UnreadSizes(q)[i] \in Nat
  BY UnreadSizesAreNat, SoundShape
<1>2. \A i \in 0 .. Len(q) : sum(i) \in Nat
  BY SumsOfQueue
<1>3. \A i \in 0 .. Len(q) : \A l \in i .. Len(q) : sum(i) <= sum(l)
  BY <1>1, SumToMonotone
<1>4. Backlog(q) = sum(Len(q)) /\ sum(0) = 0
  BY SumsOfQueue
<1> HIDE DEF sum
<1>5. sum(k - 1) < j /\ j <= sum(k)
  BY DEF sum
<1>6. 0 < j /\ j <= sum(Len(q))
  <2>1. k - 1 \in 0 .. Len(q) /\ k \in 0 .. Len(q) /\ Len(q) \in k .. Len(q)
    BY <1>1
  <2>2. sum(k - 1) \in Nat /\ sum(k) \in Nat /\ sum(Len(q)) \in Nat
    <3>1. Len(q) \in 0 .. Len(q)
      BY <1>1
    <3> QED
      BY <1>2, <2>1, <3>1
  <2>3. sum(k) <= sum(Len(q))
    BY <1>3, <2>1
  <2> QED
    BY <1>5, <2>2, <2>3
<1>7. m \in 1 .. Len(q) /\ sum(m - 1) < j /\ j <= sum(m)
  <2>1. j <= Total(UnreadSizes(q))
    BY <1>4, <1>6 DEF Backlog
  <2> QED
    BY <1>1, <1>6, <2>1, StopAtFound DEF sum
<1> HIDE DEF m
<1>8. ~(m < k)
  <2> SUFFICES ASSUME m < k
               PROVE  FALSE
    OBVIOUS
  <2>1. m \in 0 .. Len(q) /\ k - 1 \in m .. Len(q)
    BY <1>1, <1>7
  <2> QED
    BY <1>2, <1>3, <1>5, <1>7, <2>1
<1>9. ~(k < m)
  <2> SUFFICES ASSUME k < m
               PROVE  FALSE
    OBVIOUS
  <2>1. k \in 0 .. Len(q) /\ m - 1 \in k .. Len(q)
    BY <1>1, <1>7
  <2> QED
    BY <1>2, <1>3, <1>5, <1>7, <2>1
<1>10. m = k
  BY <1>7, <1>8, <1>9
<1> QED
  BY <1>4, <1>6, <1>10 DEF m

LEMMA BacklogByteAt ==
  ASSUME NEW Data, NEW q, SoundQueue(Data, q), NEW j \in Nat, NEW k \in 1 .. Len(q),
         SumTo(UnreadSizes(q), k - 1) < j, j <= SumTo(UnreadSizes(q), k)
  PROVE  /\ BacklogByte(q, j) = q[k].cells[q[k].m_read + (j - SumTo(UnreadSizes(q), k - 1))]
         /\ BacklogByte(q, j) \in Data
<1> DEFINE n == j - SumTo(UnreadSizes(q), k - 1)
<1>1. StopAt(UnreadSizes(q), j) = k
  BY StopIsUnique
<1>2. /\ SoundStream(Data, q[k]) /\ q[k] \in StreamsOf(CellsOf(Data)) /\ CursorsOK(q[k])
      /\ Len(q) \in Nat
  BY SoundShape
<1>3. n \in 1 .. StreamReadableSize(q[k])
  <2>1. /\ SumTo(UnreadSizes(q), k - 1) \in Nat /\ SumTo(UnreadSizes(q), k) \in Nat
        /\ SumTo(UnreadSizes(q), k) = SumTo(UnreadSizes(q), k - 1) + StreamReadableSize(q[k])
    BY <1>2, SumsOfQueue
  <2>2. StreamReadableSize(q[k]) \in Nat
    BY <1>2, StreamSizes
  <2> QED
    BY <2>1, <2>2
<1> HIDE DEF n
<1>4. BacklogByte(q, j) = Unread(q[k])[n]
  BY <1>1 DEF BacklogByte, n
<1>5. Unread(q[k])[n] = q[k].cells[q[k].m_read + n]
  BY <1>2, <1>3, UnreadFits
<1>6. q[k].m_read + n \in q[k].m_read + 1 .. q[k].m_written
  BY <1>2, <1>3 DEF CursorsOK, StreamReadableSize
<1> QED
  BY <1>2, <1>4, <1>5, <1>6 DEF SoundStream, n

LEMMA BytesAreBytes ==
  ASSUME NEW Data, NEW q, SoundQueue(Data, q)
  PROVE  \A j \in 1 .. Backlog(q) : BacklogByte(q, j) \in Data
<1> TAKE j \in 1 .. Backlog(q)
<1>1. PICK k \in 1 .. Len(q) :
             SumTo(UnreadSizes(q), k - 1) < j /\ j <= SumTo(UnreadSizes(q), k)
  BY PlaceFound
<1>2. j \in Nat
  BY SumsOfQueue
<1> QED
  BY <1>1, <1>2, BacklogByteAt

LEMMA FirstBytesType ==
  ASSUME NEW Data, NEW q, SoundQueue(Data, q), NEW n \in 0 .. Backlog(q)
  PROVE  FirstBytes(q, n) \in Seq(Data) /\ Len(FirstBytes(q, n)) = n
<1>1. Backlog(q) \in Nat
  BY SumsOfQueue
<1>2. FirstBytes(q, n) \in [1 .. n -> Data]
  BY <1>1, BytesAreBytes DEF FirstBytes
<1> QED
  BY <1>1, <1>2, FunctionIsSeq

-----------------------------------------------------------------------------
(***************************************************************************)
(* What push does to the backlog.                                          *)
(***************************************************************************)
\* A stream that was made with room for bytes, and written to once.
LEMMA WrittenStream ==
  ASSUME NEW Data, NEW bytes \in Seq(Data), NEW size \in Nat, Len(bytes) <= size
  PROVE  /\ SoundStream(Data, StreamWrite(NewStream(size), bytes))
         /\ StreamReadableSize(StreamWrite(NewStream(size), bytes)) = Len(bytes)
         /\ StreamWrite(NewStream(size), bytes).m_read = 0
         /\ \A i \in 1 .. Len(bytes) : StreamWrite(NewStream(size), bytes).cells[i] = bytes[i]
<1> DEFINE new == NewStream(size)
           n == Len(bytes)
           full == Store(new, 0, bytes)
<1>1. n \in Nat /\ bytes \in Seq(CellsOf(Data)) /\ \A i \in 1 .. n : bytes[i] \in Data
  BY DEF CellsOf
<1>2. AllocSize(size) \in Nat /\ size <= AllocSize(size)
  BY AllocSizeFits
<1>3. NewCells(AllocSize(size)) \in Seq(CellsOf(Data)) /\ Len(NewCells(AllocSize(size))) = AllocSize(size)
  BY <1>2 DEF NewCells, CellsOf
<1>4. /\ new \in StreamsOf(CellsOf(Data)) /\ new.m_read = 0 /\ new.m_written = 0
      /\ Len(new.cells) \in Nat /\ n <= Len(new.cells)
  BY <1>1, <1>2, <1>3 DEF NewStream, StreamsOf
<1> HIDE DEF new
<1>5. VerifyWritable(new, n) = new
  <2>1. ~(StreamWritableSize(new) < n)
    BY <1>1, <1>4 DEF StreamWritableSize, StreamAllocSize
  <2> QED
    BY <2>1 DEF VerifyWritable
<1>6. /\ full \in StreamsOf(CellsOf(Data)) /\ full.m_read = 0 /\ full.m_written = 0
      /\ Len(full.cells) = Len(new.cells)
      /\ \A i \in 1 .. Len(new.cells) :
           full.cells[i] = IF i \in 0 + 1 .. 0 + n THEN bytes[i - 0] ELSE new.cells[i]
  <2>1. PICK at \in Nat : at = 0
    OBVIOUS
  <2>2. /\ Store(new, at, bytes) \in StreamsOf(CellsOf(Data))
        /\ Store(new, at, bytes).m_read = new.m_read
        /\ Store(new, at, bytes).m_written = new.m_written
        /\ Len(Store(new, at, bytes).cells) = Len(new.cells)
        /\ \A i \in 1 .. Len(new.cells) :
             Store(new, at, bytes).cells[i] =
               IF i \in at + 1 .. at + Len(bytes) THEN bytes[i - at] ELSE new.cells[i]
    <3>1. new \in StreamsOf(CellsOf(Data))
      BY <1>4
    <3>2. bytes \in Seq(CellsOf(Data))
      BY <1>1
    <3> HIDE DEF n, full
    <3> QED
      BY <3>1, <3>2, StoreFits
  <2> QED
    BY <1>4, <2>1, <2>2
<1>7. StreamWrite(new, bytes) = StreamCommit(full, n)
  BY <1>4, <1>5 DEF StreamWrite
<1> HIDE DEF full, n
<1>8. StreamCommit(full, n) = [cells |-> full.cells, m_read |-> 0, m_written |-> n]
  BY <1>1, <1>6 DEF StreamCommit, StreamsOf
<1>9. \A i \in 1 .. n : full.cells[i] = bytes[i]
  BY <1>1, <1>4, <1>6
<1>10. StreamCommit(full, n) \in StreamsOf(CellsOf(Data)) /\ CursorsOK(StreamCommit(full, n))
  BY <1>1, <1>4, <1>6, <1>8 DEF StreamsOf, CursorsOK, StreamAllocSize
<1>11. SoundStream(Data, StreamCommit(full, n))
  BY <1>1, <1>8, <1>9, <1>10 DEF SoundStream
<1>12. StreamReadableSize(StreamCommit(full, n)) = n
  BY <1>1, <1>8 DEF StreamReadableSize
<1> QED
  BY <1>7, <1>8, <1>9, <1>11, <1>12 DEF new, n

LEMMA PushGood ==
  ASSUME NEW Data, NEW q, SoundQueue(Data, q), NEW s, SoundStream(Data, s)
  PROVE  /\ SoundQueue(Data, Append(q, s))
         /\ Len(Append(q, s)) = Len(q) + 1
         /\ \A i \in 1 .. Len(q) : Append(q, s)[i] = q[i]
         /\ Append(q, s)[Len(q) + 1] = s
<1>1. q \in Seq(StreamsOf(CellsOf(Data))) /\ s \in StreamsOf(CellsOf(Data)) /\ Len(q) \in Nat
  BY SoundShape DEF SoundQueue, SoundStream
<1>2. /\ Append(q, s) \in Seq(StreamsOf(CellsOf(Data)))
      /\ Len(Append(q, s)) = Len(q) + 1
      /\ \A i \in 1 .. Len(q) : Append(q, s)[i] = q[i]
      /\ Append(q, s)[Len(q) + 1] = s
  BY <1>1, AppendProperties
<1>3. \A i \in DOMAIN Append(q, s) : SoundStream(Data, Append(q, s)[i])
  <2>1. DOMAIN Append(q, s) = 1 .. Len(q) + 1
    BY <1>1, <1>2
  <2> QED
    BY <1>1, <1>2, <2>1, SoundShape
<1> QED
  BY <1>2, <1>3 DEF SoundQueue

\* What is pushed comes after everything that waits, and moves none of it.
LEMMA PushBytes ==
  ASSUME NEW Data, NEW q, SoundQueue(Data, q), NEW s, SoundStream(Data, s)
  PROVE  /\ Backlog(Append(q, s)) = Backlog(q) + StreamReadableSize(s)
         /\ \A j \in 1 .. Backlog(q) : BacklogByte(Append(q, s), j) = BacklogByte(q, j)
         /\ \A i \in 1 .. StreamReadableSize(s) :
              BacklogByte(Append(q, s), Backlog(q) + i) = s.cells[s.m_read + i]
<1> DEFINE r == Append(q, s)
<1>1. /\ SoundQueue(Data, r) /\ Len(r) = Len(q) + 1 /\ Len(q) \in Nat
      /\ \A i \in 1 .. Len(q) : r[i] = q[i]
      /\ r[Len(q) + 1] = s
  BY PushGood, SoundShape
<1> HIDE DEF r
<1>2. \A k \in 0 .. Len(q) : SumTo(UnreadSizes(r), k) = SumTo(UnreadSizes(q), k)
  <2>1. \A i \in 1 .. Len(q) : UnreadSizes(r)[i] = UnreadSizes(q)[i]
    BY <1>1, UnreadSizesAreNat
  <2> QED
    BY <1>1, <2>1, SumToAgree
<1>3. StreamReadableSize(s) \in Nat
  BY StreamSizes DEF SoundStream
<1>4. Backlog(q) \in Nat /\ Backlog(q) = SumTo(UnreadSizes(q), Len(q))
  BY SumsOfQueue
<1>5. Backlog(r) = SumTo(UnreadSizes(r), Len(q) + 1)
  BY <1>1, SumsOfQueue
<1>6. Backlog(r) = Backlog(q) + StreamReadableSize(s)
  <2>1. Len(q) + 1 \in 1 .. Len(r) /\ (Len(q) + 1) - 1 = Len(q) /\ Len(q) \in 0 .. Len(q)
    BY <1>1
  <2>2. SumTo(UnreadSizes(r), Len(q) + 1)
          = SumTo(UnreadSizes(r), (Len(q) + 1) - 1) + StreamReadableSize(r[Len(q) + 1])
    BY <1>1, <2>1, SumsOfQueue
  <2> QED
    BY <1>1, <1>2, <1>4, <1>5, <2>1, <2>2
<1>7. ASSUME NEW j \in 1 .. Backlog(q)
      PROVE  BacklogByte(r, j) = BacklogByte(q, j)
  <2>1. PICK k \in 1 .. Len(q) :
               SumTo(UnreadSizes(q), k - 1) < j /\ j <= SumTo(UnreadSizes(q), k)
    BY PlaceFound
  <2>2. k - 1 \in 0 .. Len(q) /\ k \in 0 .. Len(q) /\ k \in 1 .. Len(r) /\ j \in Nat
    BY <1>1, <1>4
  <2>3. SumTo(UnreadSizes(r), k - 1) < j /\ j <= SumTo(UnreadSizes(r), k)
    BY <1>2, <2>1, <2>2
  <2>4. BacklogByte(q, j) = q[k].cells[q[k].m_read + (j - SumTo(UnreadSizes(q), k - 1))]
    BY <2>1, <2>2, BacklogByteAt
  <2>5. BacklogByte(r, j) = r[k].cells[r[k].m_read + (j - SumTo(UnreadSizes(r), k - 1))]
    BY <1>1, <2>2, <2>3, BacklogByteAt
  <2> QED
    BY <1>1, <1>2, <2>2, <2>4, <2>5
<1>8. ASSUME NEW i \in 1 .. StreamReadableSize(s)
      PROVE  BacklogByte(r, Backlog(q) + i) = s.cells[s.m_read + i]
  <2> DEFINE k == Len(q) + 1
             j == Backlog(q) + i
  <2>1. /\ k \in 1 .. Len(r) /\ k - 1 = Len(q) /\ Len(q) \in 0 .. Len(q)
        /\ j \in Nat /\ Backlog(q) < j /\ j <= Backlog(r) /\ j - Backlog(q) = i
    BY <1>1, <1>3, <1>4, <1>6
  <2>2. SumTo(UnreadSizes(r), k - 1) = Backlog(q) /\ SumTo(UnreadSizes(r), k) = Backlog(r)
    BY <1>2, <1>4, <1>5, <2>1
  <2>3. r[k] = s
    BY <1>1
  <2> HIDE DEF k, j
  <2>4. BacklogByte(r, j) = r[k].cells[r[k].m_read + (j - SumTo(UnreadSizes(r), k - 1))]
    BY <1>1, <2>1, <2>2, BacklogByteAt
  <2> QED
    BY <2>1, <2>2, <2>3, <2>4 DEF j
<1> QED
  BY <1>6, <1>7, <1>8 DEF r

-----------------------------------------------------------------------------
(***************************************************************************)
(* What consume does to the backlog.                                       *)
(***************************************************************************)
\* A queue r that is q without its first n bytes: its front is what is left of
\* the stream after the first d of q, and the others are those of q.
Shifted(q, r, d, n) ==
  /\ Len(q) = d + Len(r)
  /\ SumTo(UnreadSizes(q), d) <= n
  /\ Len(r) = 0 => SumTo(UnreadSizes(q), d) = n
  /\ \A i \in 1 .. Len(r) :
       r[i].cells = q[d + i].cells /\ r[i].m_written = q[d + i].m_written
  /\ 1 <= Len(r) => StreamReadableSize(r[1]) = SumTo(UnreadSizes(q), d + 1) - n
  /\ \A i \in 2 .. Len(r) : r[i] = q[d + i]

LEMMA ShiftedSums ==
  ASSUME NEW Data, NEW q, SoundQueue(Data, q), NEW r, SoundQueue(Data, r), NEW d \in Nat, NEW n \in Nat,
         Shifted(q, r, d, n)
  PROVE  /\ \A i \in 1 .. Len(r) : SumTo(UnreadSizes(r), i) = SumTo(UnreadSizes(q), d + i) - n
         /\ Backlog(r) = Backlog(q) - n
<1> DEFINE S == {k \in Nat : k + 1 <= Len(r) =>
                   SumTo(UnreadSizes(r), k + 1) = SumTo(UnreadSizes(q), d + (k + 1)) - n}
<1>1. Len(q) \in Nat /\ Len(r) \in Nat /\ Len(q) = d + Len(r)
  BY SoundShape DEF Shifted
<1>2. /\ \A k \in 0 .. Len(q) : SumTo(UnreadSizes(q), k) \in Nat
      /\ \A k \in 1 .. Len(q) :
           SumTo(UnreadSizes(q), k) = SumTo(UnreadSizes(q), k - 1) + StreamReadableSize(q[k])
      /\ SumTo(UnreadSizes(r), 0) = 0
      /\ \A k \in 1 .. Len(r) :
           SumTo(UnreadSizes(r), k) = SumTo(UnreadSizes(r), k - 1) + StreamReadableSize(r[k])
  BY SumsOfQueue
<1>3. 0 \in S
  <2> SUFFICES ASSUME 1 <= Len(r)
               PROVE  SumTo(UnreadSizes(r), 1) = SumTo(UnreadSizes(q), d + 1) - n
    OBVIOUS
  <2>1. SumTo(UnreadSizes(r), 1) = SumTo(UnreadSizes(r), 1 - 1) + StreamReadableSize(r[1])
    BY <1>1, <1>2
  <2>2. StreamReadableSize(r[1]) = SumTo(UnreadSizes(q), d + 1) - n
    BY DEF Shifted
  <2>3. SumTo(UnreadSizes(q), d + 1) \in Nat
    BY <1>1, <1>2
  <2> QED
    BY <1>2, <2>1, <2>2, <2>3
<1>4. ASSUME NEW k \in Nat, k \in S
      PROVE  k + 1 \in S
  <2> DEFINE m == k + 1
  <2> SUFFICES ASSUME m + 1 <= Len(r)
               PROVE  SumTo(UnreadSizes(r), m + 1) = SumTo(UnreadSizes(q), d + (m + 1)) - n
    OBVIOUS
  <2>1. SumTo(UnreadSizes(r), m) = SumTo(UnreadSizes(q), d + m) - n
    BY <1>1, <1>4
  <2> HIDE DEF S, m
  <2>2. m \in Nat /\ m >= 1
    BY DEF m
  <2>3. /\ m + 1 \in 1 .. Len(r) /\ m + 1 \in 2 .. Len(r) /\ (m + 1) - 1 = m
        /\ d + (m + 1) \in 1 .. Len(q) /\ (d + (m + 1)) - 1 = d + m
        /\ d + m \in 0 .. Len(q)
    BY <1>1, <2>2
  <2>4. r[m + 1] = q[d + (m + 1)]
    BY <2>3 DEF Shifted
  <2>5. SumTo(UnreadSizes(r), m + 1) = SumTo(UnreadSizes(r), m) + StreamReadableSize(r[m + 1])
    BY <1>2, <2>3
  <2>6. SumTo(UnreadSizes(q), d + (m + 1))
          = SumTo(UnreadSizes(q), d + m) + StreamReadableSize(q[d + (m + 1)])
    BY <1>2, <2>3
  <2>7. StreamReadableSize(q[d + (m + 1)]) \in Nat /\ SumTo(UnreadSizes(q), d + m) \in Nat
    BY <1>2, <2>3, StreamSizes, SoundShape
  <2> QED
    BY <2>1, <2>4, <2>5, <2>6, <2>7
<1>5. Nat \subseteq S
  <2> HIDE DEF S
  <2> QED
    BY <1>3, <1>4, SetInduction
<1>6. \A i \in 1 .. Len(r) : SumTo(UnreadSizes(r), i) = SumTo(UnreadSizes(q), d + i) - n
  <2> TAKE i \in 1 .. Len(r)
  <2>1. i - 1 \in Nat /\ (i - 1) + 1 = i
    BY <1>1
  <2>2. i - 1 \in S
    BY <1>5, <2>1
  <2> QED
    BY <1>1, <2>1, <2>2
<1>7. Backlog(r) = SumTo(UnreadSizes(r), Len(r)) /\ Backlog(q) = SumTo(UnreadSizes(q), Len(q))
  BY SumsOfQueue
<1>8. Backlog(r) = Backlog(q) - n
  <2> HIDE DEF S
  <2>1. CASE Len(r) = 0
    <3>1. SumTo(UnreadSizes(q), d) = n /\ d = Len(q)
      BY <1>1, <2>1 DEF Shifted
    <3> QED
      BY <1>2, <1>7, <2>1, <3>1
  <2>2. CASE Len(r) # 0
    <3>1. Len(r) \in 1 .. Len(r)
      BY <1>1, <2>2
    <3> QED
      BY <1>1, <1>6, <1>7, <3>1
  <2> QED
    BY <2>1, <2>2
<1> QED
  BY <1>6, <1>8

LEMMA ShiftedBytes ==
  ASSUME NEW Data, NEW q, SoundQueue(Data, q), NEW r, SoundQueue(Data, r), NEW d \in Nat, NEW n \in Nat,
         Shifted(q, r, d, n)
  PROVE  \A j \in 1 .. Backlog(r) : BacklogByte(r, j) = BacklogByte(q, n + j)
<1> TAKE j \in 1 .. Backlog(r)
<1>1. Len(q) \in Nat /\ Len(r) \in Nat /\ Len(q) = d + Len(r) /\ Backlog(r) \in Nat
  BY SoundShape, SumsOfQueue DEF Shifted
<1>2. PICK i \in 1 .. Len(r) :
             SumTo(UnreadSizes(r), i - 1) < j /\ j <= SumTo(UnreadSizes(r), i)
  BY PlaceFound
<1> DEFINE k == d + i
<1>3. /\ i \in Nat /\ j \in Nat /\ 0 < j /\ n + j \in Nat
      /\ i - 1 \in 0 .. Len(r)
      /\ k \in 1 .. Len(q) /\ k - 1 \in 0 .. Len(q)
  BY <1>1
<1>4. r[i].cells = q[k].cells /\ r[i].m_written = q[k].m_written
  BY DEF Shifted
<1>5. SumTo(UnreadSizes(r), i) = SumTo(UnreadSizes(q), k) - n
  BY ShiftedSums
<1>6. /\ SumTo(UnreadSizes(q), k) \in Nat /\ SumTo(UnreadSizes(q), k - 1) \in Nat
      /\ SumTo(UnreadSizes(r), i) \in Nat /\ SumTo(UnreadSizes(r), i - 1) \in Nat
      /\ SumTo(UnreadSizes(q), k) = SumTo(UnreadSizes(q), k - 1) + StreamReadableSize(q[k])
      /\ SumTo(UnreadSizes(r), i) = SumTo(UnreadSizes(r), i - 1) + StreamReadableSize(r[i])
  <2>1. i \in 0 .. Len(r) /\ k \in 0 .. Len(q)
    BY <1>1, <1>3
  <2> QED
    BY <1>3, <2>1, SumsOfQueue
<1>7. SumTo(UnreadSizes(q), k - 1) < n + j
  <2>1. CASE i = 1
    <3>1. k - 1 = d /\ SumTo(UnreadSizes(q), d) <= n
      BY <1>1, <2>1 DEF Shifted
    <3> QED
      BY <1>3, <1>6, <3>1
  <2>2. CASE i # 1
    <3>1. i - 1 \in 1 .. Len(r) /\ k - 1 = d + (i - 1)
      BY <1>1, <1>3, <2>2
    <3> HIDE DEF k
    <3>2. \A l \in 1 .. Len(r) : SumTo(UnreadSizes(r), l) = SumTo(UnreadSizes(q), d + l) - n
      BY ShiftedSums
    <3>3. SumTo(UnreadSizes(r), i - 1) = SumTo(UnreadSizes(q), k - 1) - n
      BY <3>1, <3>2
    <3> QED
      BY <1>2, <1>3, <1>6, <3>3
  <2> QED
    BY <2>1, <2>2
<1> HIDE DEF k
<1>8. n + j <= SumTo(UnreadSizes(q), k)
  BY <1>2, <1>3, <1>5, <1>6
<1>9. BacklogByte(q, n + j) = q[k].cells[q[k].m_read + ((n + j) - SumTo(UnreadSizes(q), k - 1))]
  BY <1>3, <1>7, <1>8, BacklogByteAt
<1>10. BacklogByte(r, j) = r[i].cells[r[i].m_read + (j - SumTo(UnreadSizes(r), i - 1))]
  BY <1>2, <1>3, BacklogByteAt
<1>11. r[i].m_read + (j - SumTo(UnreadSizes(r), i - 1))
         = q[k].m_read + ((n + j) - SumTo(UnreadSizes(q), k - 1))
  <2>1. /\ CursorsOK(q[k]) /\ CursorsOK(r[i])
    BY <1>3, SoundShape
  <2>2. /\ q[k].m_read \in Nat /\ q[k].m_written \in Nat
        /\ r[i].m_read \in Nat /\ r[i].m_written \in Nat
        /\ StreamReadableSize(q[k]) = q[k].m_written - q[k].m_read
        /\ StreamReadableSize(r[i]) = r[i].m_written - r[i].m_read
    BY <2>1 DEF CursorsOK, StreamReadableSize
  <2> DEFINE a == SumTo(UnreadSizes(r), i - 1)
             b == SumTo(UnreadSizes(r), i)
             c == SumTo(UnreadSizes(q), k - 1)
             e == SumTo(UnreadSizes(q), k)
             x == r[i].m_read
             y == q[k].m_read
             w == q[k].m_written
  <2>3. /\ a \in Nat /\ b \in Nat /\ c \in Nat /\ e \in Nat
        /\ x \in Nat /\ y \in Nat /\ w \in Nat
    BY <1>6, <2>2
  <2>4. b = e - n /\ b = a + (w - x) /\ e = c + (w - y)
    BY <1>4, <1>5, <1>6, <2>2
  <2> HIDE DEF a, b, c, e, x, y, w
  <2>5. x + (j - a) = y + ((n + j) - c)
    BY <1>3, <2>3, <2>4
  <2> QED
    BY <2>5 DEF a, c, x, y
<1> QED
  BY <1>4, <1>9, <1>10, <1>11

\* The streams behind the k-th.
LEMMA RestOfQueue ==
  ASSUME NEW Data, NEW q, SoundQueue(Data, q), NEW k \in 1 .. Len(q)
  PROVE  /\ SoundQueue(Data, SubSeq(q, k + 1, Len(q)))
         /\ Len(SubSeq(q, k + 1, Len(q))) = Len(q) - k
         /\ \A i \in 1 .. Len(q) - k : SubSeq(q, k + 1, Len(q))[i] = q[k + i]
<1> DEFINE rest == SubSeq(q, k + 1, Len(q))
<1>1. /\ q \in Seq(StreamsOf(CellsOf(Data))) /\ Len(q) \in Nat
      /\ \A i \in 1 .. Len(q) : SoundStream(Data, q[i])
  BY SoundShape DEF SoundQueue
<1>2. /\ rest \in Seq(StreamsOf(CellsOf(Data)))
      /\ Len(rest) = Len(q) - k
      /\ \A i \in 1 .. Len(q) - k : rest[i] = q[(k + 1) + i - 1]
  BY <1>1, SubSeqProperties
<1> HIDE DEF rest
<1>3. \A i \in 1 .. Len(q) - k : rest[i] = q[k + i] /\ k + i \in 1 .. Len(q)
  BY <1>1, <1>2
<1>4. DOMAIN rest = 1 .. Len(q) - k
  BY <1>2
<1>5. SoundQueue(Data, rest)
  BY <1>1, <1>2, <1>3, <1>4 DEF SoundQueue
<1> QED
  BY <1>2, <1>3, <1>5 DEF rest

\* The stream the loop stops at, and what the loop leaves of it.
LEMMA StoppedStream ==
  ASSUME NEW Data, NEW q, SoundQueue(Data, q), NEW n \in 1 .. Backlog(q),
         NEW k, k = StopAt(UnreadSizes(q), n),
         NEW s, s = StreamConsume(q[k], n - SumTo(UnreadSizes(q), k - 1))
  PROVE  /\ k \in 1 .. Len(q)
         /\ SumTo(UnreadSizes(q), k - 1) \in Nat
         /\ SumTo(UnreadSizes(q), k - 1) < n
         /\ SumTo(UnreadSizes(q), k) \in Nat
         /\ SoundStream(Data, s)
         /\ s.cells = q[k].cells
         /\ s.m_written = q[k].m_written
         /\ StreamReadableSize(s) = SumTo(UnreadSizes(q), k) - n
<1>1. /\ UnreadSizes(q) \in Seq(Nat) /\ Len(UnreadSizes(q)) = Len(q)
      /\ n \in Nat /\ 0 < n /\ n <= Total(UnreadSizes(q))
  BY UnreadSizesAreNat, SumsOfQueue DEF Backlog
<1>2. /\ k \in 1 .. Len(q)
      /\ SumTo(UnreadSizes(q), k - 1) \in Nat
      /\ SumTo(UnreadSizes(q), k - 1) < n
      /\ n <= SumTo(UnreadSizes(q), k)
  BY <1>1, StopAtFound
<1>3. /\ SumTo(UnreadSizes(q), k) \in Nat
      /\ SumTo(UnreadSizes(q), k) = SumTo(UnreadSizes(q), k - 1) + StreamReadableSize(q[k])
  <2>1. k \in 0 .. Len(q)
    BY <1>2
  <2> QED
    BY <1>2, <2>1, SumsOfQueue
<1>4. /\ SoundStream(Data, q[k]) /\ q[k] \in StreamsOf(CellsOf(Data)) /\ CursorsOK(q[k])
  BY <1>2, SoundShape
<1>5. StreamReadableSize(q[k]) \in Nat /\ StreamReadableSize(q[k]) = q[k].m_written - q[k].m_read
  BY <1>4, StreamSizes
<1> DEFINE taken == n - SumTo(UnreadSizes(q), k - 1)
<1>6. taken \in 0 .. StreamReadableSize(q[k])
  BY <1>1, <1>2, <1>3, <1>5
<1>7. s = StreamConsume(q[k], taken)
  OBVIOUS
<1> HIDE DEF taken
<1>8. /\ s \in StreamsOf(CellsOf(Data))
      /\ CursorsOK(s)
      /\ s = [cells |-> q[k].cells, m_read |-> q[k].m_read + taken, m_written |-> q[k].m_written]
  BY <1>4, <1>6, <1>7, StreamConsumeFits
<1>9. q[k].m_read \in Nat /\ q[k].m_written \in Nat
  BY <1>4 DEF CursorsOK
<1>10. SoundStream(Data, s)
  BY <1>4, <1>6, <1>8, <1>9, <1>5 DEF SoundStream
<1>11. StreamReadableSize(s) = StreamReadableSize(q[k]) - taken
  BY <1>5, <1>6, <1>8, <1>9 DEF StreamReadableSize
<1>12. StreamReadableSize(s) = SumTo(UnreadSizes(q), k) - n
  BY <1>1, <1>2, <1>3, <1>5, <1>11 DEF taken
<1> QED
  BY <1>2, <1>3, <1>8, <1>10, <1>12

LEMMA ConsumeGood ==
  ASSUME NEW Data, NEW q, SoundQueue(Data, q), NEW n \in 1 .. Backlog(q)
  PROVE  /\ SoundQueue(Data, consume(q, n))
         /\ \E d \in Nat : Shifted(q, consume(q, n), d, n)
         /\ Busy(q) => Busy(consume(q, n))
<1> DEFINE k == StopAt(UnreadSizes(q), n)
           s == StreamConsume(q[k], n - SumTo(UnreadSizes(q), k - 1))
           rest == SubSeq(q, k + 1, Len(q))
           r == consume(q, n)
<1>1. n \in Nat /\ n # 0
  BY SumsOfQueue
<1>2. r = IF StreamReadableSize(s) = 0 THEN rest ELSE << s >> \o rest
  BY <1>1 DEF consume
<1>3. /\ k \in 1 .. Len(q)
      /\ SumTo(UnreadSizes(q), k - 1) \in Nat
      /\ SumTo(UnreadSizes(q), k - 1) < n
      /\ SumTo(UnreadSizes(q), k) \in Nat
      /\ SoundStream(Data, s)
      /\ s.cells = q[k].cells
      /\ s.m_written = q[k].m_written
      /\ StreamReadableSize(s) = SumTo(UnreadSizes(q), k) - n
  BY StoppedStream
<1> HIDE DEF k, s, r
<1>4. /\ SoundQueue(Data, rest)
      /\ Len(rest) = Len(q) - k
      /\ \A i \in 1 .. Len(q) - k : rest[i] = q[k + i]
  <2>1. k \in 1 .. Len(q)
    BY <1>3
  <2>2. \A j \in 1 .. Len(q) :
          /\ SoundQueue(Data, SubSeq(q, j + 1, Len(q)))
          /\ Len(SubSeq(q, j + 1, Len(q))) = Len(q) - j
          /\ \A i \in 1 .. Len(q) - j : SubSeq(q, j + 1, Len(q))[i] = q[j + i]
    BY RestOfQueue
  <2> QED
    BY <2>1, <2>2
<1>5. Len(q) \in Nat /\ DOMAIN q = 1 .. Len(q) /\ q \in Seq(StreamsOf(CellsOf(Data)))
  BY SoundShape DEF SoundQueue
<1>6. CASE StreamReadableSize(s) = 0
  <2> HIDE DEF rest
  <2>1. r = rest
    BY <1>2, <1>6
  <2>2. SumTo(UnreadSizes(q), k) = n
    BY <1>1, <1>3, <1>6
  <2>3. 1 <= Len(r) => StreamReadableSize(r[1]) = SumTo(UnreadSizes(q), k + 1) - n
    <3> SUFFICES ASSUME 1 <= Len(r)
                 PROVE  StreamReadableSize(r[1]) = SumTo(UnreadSizes(q), k + 1) - n
      OBVIOUS
    <3>1. /\ 1 \in 1 .. Len(q) - k /\ k + 1 \in 1 .. Len(q) /\ (k + 1) - 1 = k
      BY <1>3, <1>4, <1>5, <2>1
    <3>2. r[1] = q[k + 1]
      BY <1>4, <2>1, <3>1
    <3>3. SumTo(UnreadSizes(q), k + 1) = SumTo(UnreadSizes(q), (k + 1) - 1) + StreamReadableSize(q[k + 1])
      BY <3>1, SumsOfQueue
    <3>4. StreamReadableSize(q[k + 1]) \in Nat
      BY <3>1, SoundShape, StreamSizes
    <3> QED
      BY <1>1, <2>2, <3>1, <3>2, <3>3, <3>4
  <2>4. Shifted(q, r, k, n) /\ k \in Nat
    <3>1. k \in Nat /\ Len(q) = k + Len(r) /\ Len(r) = Len(q) - k
      BY <1>3, <1>4, <1>5, <2>1
    <3>2. SumTo(UnreadSizes(q), k) <= n
      BY <1>1, <2>2
    <3>3. \A i \in 1 .. Len(r) : r[i] = q[k + i]
      BY <1>4, <2>1
    <3>4. \A i \in 2 .. Len(r) : r[i] = q[k + i]
      BY <1>5, <3>1, <3>3
    <3> QED
      BY <2>2, <2>3, <3>1, <3>2, <3>3, <3>4 DEF Shifted
  <2>5. Busy(q) => Busy(r)
    <3>1. DOMAIN r = 1 .. Len(q) - k
      BY <1>4, <2>1, SoundShape
    <3>2. \A i \in 1 .. Len(q) - k : r[i] = q[k + i] /\ k + i \in 1 .. Len(q)
      BY <1>3, <1>4, <1>5, <2>1
    <3> QED
      BY <1>5, <3>1, <3>2 DEF Busy
  <2> QED
    BY <1>4, <2>1, <2>4, <2>5 DEF r
<1>7. CASE StreamReadableSize(s) # 0
  <2>1. r = << s >> \o rest
    BY <1>2, <1>7
  <2>2. s \in StreamsOf(CellsOf(Data)) /\ CursorsOK(s)
    BY <1>3 DEF SoundStream
  <2>3. /\ r \in Seq(StreamsOf(CellsOf(Data)))
        /\ Len(r) = Len(q) - k + 1
        /\ r[1] = s
        /\ \A i \in 2 .. Len(q) - k + 1 : r[i] = q[k + i - 1]
    <3>1. k \in 1 .. Len(q) /\ q \in Seq(StreamsOf(CellsOf(Data))) /\ s \in StreamsOf(CellsOf(Data))
      BY <1>3, <1>5, <2>2
    <3>2. /\ << s >> \o rest \in Seq(StreamsOf(CellsOf(Data)))
          /\ Len(<< s >> \o rest) = Len(q) - k + 1
          /\ (<< s >> \o rest)[1] = s
          /\ \A i \in 2 .. Len(q) - k + 1 : (<< s >> \o rest)[i] = q[k + i - 1]
      BY <3>1, FrontAndRest
    <3> HIDE DEF rest
    <3> QED
      BY <2>1, <3>2
  <2> HIDE DEF rest
  <2>4. DOMAIN r = 1 .. Len(r) /\ Len(r) = Len(q) - (k - 1) /\ k - 1 \in Nat /\ k = (k - 1) + 1
    BY <1>3, <1>5, <2>3
  <2>5. \A i \in 2 .. Len(r) : r[i] = q[(k - 1) + i] /\ (k - 1) + i \in 1 .. Len(q)
    BY <1>3, <1>5, <2>3, <2>4
  <2>6. \A i \in 1 .. Len(r) : i = 1 \/ i \in 2 .. Len(r)
    BY <1>5, <2>4
  <2>7. SoundQueue(Data, r)
    <3>1. \A i \in 1 .. Len(r) : SoundStream(Data, r[i])
      BY <1>3, <2>3, <2>5, <2>6, SoundShape
    <3> QED
      BY <2>3, <2>4, <3>1 DEF SoundQueue
  <2>8. \A i \in 1 .. Len(r) :
          r[i].cells = q[(k - 1) + i].cells /\ r[i].m_written = q[(k - 1) + i].m_written
    BY <1>3, <2>3, <2>4, <2>5, <2>6
  <2>9. Shifted(q, r, k - 1, n)
    <3>1. Len(q) = (k - 1) + Len(r) /\ Len(r) # 0
      <4>1. k \in Nat /\ k <= Len(q) /\ Len(r) = Len(q) - (k - 1)
        BY <1>3, <1>5, <2>4
      <4> HIDE DEF k, r
      <4> QED
        BY <1>5, <4>1
    <3>2. SumTo(UnreadSizes(q), k - 1) <= n
      BY <1>1, <1>3
    <3>3. StreamReadableSize(r[1]) = SumTo(UnreadSizes(q), (k - 1) + 1) - n
      BY <1>3, <2>3, <2>4
    <3> QED
      BY <2>5, <2>8, <3>1, <3>2, <3>3 DEF Shifted
  <2>10. Busy(q) => Busy(r)
    <3>1. StreamReadableSize(s) > 0
      BY <1>7, <2>2, StreamSizes
    <3> QED
      BY <1>5, <2>3, <2>4, <2>5, <2>6, <3>1 DEF Busy
  <2> QED
    BY <2>4, <2>7, <2>9, <2>10 DEF r
<1> QED
  BY <1>6, <1>7

LEMMA EmptySound ==
  ASSUME NEW Data
  PROVE  SoundQueue(Data, << >>) /\ Backlog(<< >>) = 0
<1>1. << >> \in Seq(StreamsOf(CellsOf(Data))) /\ DOMAIN << >> = {} /\ Len(<< >>) = 0
  OBVIOUS
<1>2. SoundQueue(Data, << >>)
  BY <1>1 DEF SoundQueue
<1>3. Backlog(<< >>) = SumTo(UnreadSizes(<< >>), 0)
  BY <1>1, <1>2, SumsOfQueue
<1> QED
  BY <1>2, <1>3, SumToZero

-----------------------------------------------------------------------------
Bytes(q) == FirstBytes(q, Backlog(q))

LEMMA BytesType ==
  ASSUME NEW Data, NEW q, SoundQueue(Data, q)
  PROVE  /\ Bytes(q) \in Seq(Data)
         /\ Len(Bytes(q)) = Backlog(q)
         /\ Backlog(q) \in Nat
         /\ \A j \in 1 .. Backlog(q) : Bytes(q)[j] = BacklogByte(q, j)
<1>1. Backlog(q) \in Nat
  BY SumsOfQueue
<1>2. Backlog(q) \in 0 .. Backlog(q)
  BY <1>1
<1> QED
  BY <1>1, <1>2, FirstBytesType DEF Bytes, FirstBytes

\* What a reader of one stream gets.
LEMMA SoundUnread ==
  ASSUME NEW Data, NEW s, SoundStream(Data, s)
  PROVE  /\ Unread(s) \in Seq(Data)
         /\ Len(Unread(s)) = StreamReadableSize(s)
         /\ StreamReadableSize(s) \in Nat
         /\ \A j \in 1 .. StreamReadableSize(s) : Unread(s)[j] = s.cells[s.m_read + j]
<1> DEFINE n == StreamReadableSize(s)
<1>1. s \in StreamsOf(CellsOf(Data)) /\ CursorsOK(s)
  BY DEF SoundStream
<1>2. /\ n \in Nat
      /\ n = s.m_written - s.m_read /\ s.m_written \in Nat /\ s.m_read \in Nat
      /\ Unread(s) \in Seq(CellsOf(Data)) /\ Len(Unread(s)) = n
      /\ \A j \in 1 .. n : Unread(s)[j] = s.cells[s.m_read + j]
  BY <1>1, StreamSizes, UnreadFits DEF CursorsOK
<1> HIDE DEF n
<1>3. \A j \in 1 .. n : s.m_read + j \in s.m_read + 1 .. s.m_written
  BY <1>2
<1>4. \A j \in 1 .. n : Unread(s)[j] \in Data
  BY <1>2, <1>3 DEF SoundStream
<1>5. Unread(s) \in Seq(Data)
  BY <1>2, <1>4
<1> QED
  BY <1>2, <1>5 DEF n

\* A queue that holds what another holds and then some bytes more.
LEMMA BytesAppended ==
  ASSUME NEW Data, NEW q, SoundQueue(Data, q), NEW r, SoundQueue(Data, r), NEW more \in Seq(Data),
         Backlog(r) = Backlog(q) + Len(more),
         \A j \in 1 .. Backlog(q) : BacklogByte(r, j) = BacklogByte(q, j),
         \A i \in 1 .. Len(more) : BacklogByte(r, Backlog(q) + i) = more[i]
  PROVE  Bytes(r) = Bytes(q) \o more
<1> DEFINE n == Len(more)
<1>1. n \in Nat
  OBVIOUS
<1>2. /\ Bytes(q) \in Seq(Data) /\ Len(Bytes(q)) = Backlog(q) /\ Backlog(q) \in Nat
      /\ \A j \in 1 .. Backlog(q) : Bytes(q)[j] = BacklogByte(q, j)
      /\ Bytes(r) \in Seq(Data) /\ Len(Bytes(r)) = Backlog(r)
      /\ \A j \in 1 .. Backlog(r) : Bytes(r)[j] = BacklogByte(r, j)
  BY BytesType
<1>3. /\ Bytes(q) \o more \in Seq(Data)
      /\ Len(Bytes(q) \o more) = Backlog(q) + n
      /\ \A j \in 1 .. Backlog(q) + n :
           (Bytes(q) \o more)[j] =
             IF j <= Backlog(q) THEN Bytes(q)[j] ELSE more[j - Backlog(q)]
  <2>1. /\ Bytes(q) \o more \in Seq(Data)
        /\ Len(Bytes(q) \o more) = Len(Bytes(q)) + Len(more)
        /\ \A j \in 1 .. Len(Bytes(q)) + Len(more) :
             (Bytes(q) \o more)[j] =
               IF j <= Len(Bytes(q)) THEN Bytes(q)[j] ELSE more[j - Len(Bytes(q))]
    BY <1>2, ConcatProperties
  <2> QED
    BY <1>2, <2>1
<1>4. Backlog(r) = Backlog(q) + n
  OBVIOUS
<1>5. ASSUME NEW j \in 1 .. Backlog(q) + n
      PROVE  Bytes(r)[j] = (Bytes(q) \o more)[j]
  <2>1. CASE j <= Backlog(q)
    <3>1. j \in 1 .. Backlog(q) /\ j \in 1 .. Backlog(r)
      BY <1>1, <1>2, <1>4, <2>1
    <3> QED
      BY <1>1, <1>2, <1>3, <2>1, <3>1
  <2>2. CASE ~(j <= Backlog(q))
    <3> DEFINE i == j - Backlog(q)
    <3>1. i \in 1 .. n /\ j = Backlog(q) + i /\ j \in 1 .. Backlog(r)
      BY <1>1, <1>2, <1>4, <2>2
    <3>2. (Bytes(q) \o more)[j] = more[i]
      BY <1>1, <1>3, <2>2
    <3> HIDE DEF i
    <3>3. Bytes(r)[j] = more[i]
      BY <1>2, <3>1
    <3> QED
      BY <3>2, <3>3
  <2> QED
    BY <2>1, <2>2
<1>6. Len(Bytes(r)) = Len(Bytes(q) \o more) /\ Len(Bytes(r)) = Backlog(q) + n
  BY <1>2, <1>3, <1>4
<1>7. \A j \in 1 .. Len(Bytes(r)) : Bytes(r)[j] = (Bytes(q) \o more)[j]
  BY <1>5, <1>6
<1> QED
  BY <1>2, <1>3, <1>6, <1>7, SeqEqual

\* A push puts its bytes behind those that wait.
LEMMA PushIsPut ==
  ASSUME NEW Data, NEW q, SoundQueue(Data, q), NEW s, SoundStream(Data, s)
  PROVE  Bytes(Append(q, s)) = Bytes(q) \o Unread(s)
<1>1. /\ SoundQueue(Data, Append(q, s))
      /\ Backlog(Append(q, s)) = Backlog(q) + StreamReadableSize(s)
      /\ \A j \in 1 .. Backlog(q) : BacklogByte(Append(q, s), j) = BacklogByte(q, j)
      /\ \A i \in 1 .. StreamReadableSize(s) :
           BacklogByte(Append(q, s), Backlog(q) + i) = s.cells[s.m_read + i]
  BY PushGood, PushBytes
<1>2. /\ Unread(s) \in Seq(Data) /\ Len(Unread(s)) = StreamReadableSize(s)
      /\ \A i \in 1 .. StreamReadableSize(s) : Unread(s)[i] = s.cells[s.m_read + i]
  BY SoundUnread
<1> QED
  BY <1>1, <1>2, BytesAppended

LEMMA FirstBytesPrefix ==
  ASSUME NEW Data, NEW q, SoundQueue(Data, q), NEW n \in 0 .. Backlog(q)
  PROVE  FirstBytes(q, n) = SubSeq(Bytes(q), 1, n)
<1> DEFINE B == Backlog(q)
<1>1. /\ Bytes(q) \in Seq(Data) /\ Len(Bytes(q)) = B /\ B \in Nat
      /\ \A j \in 1 .. B : Bytes(q)[j] = BacklogByte(q, j) /\ Bytes(q)[j] \in Data
  BY BytesType, BytesAreBytes
<1> HIDE DEF B
<1>2. n \in Nat /\ n <= B /\ n \in 0 .. Backlog(q)
  BY <1>1 DEF B
<1>3. \A j \in 1 .. n : Bytes(q)[j] \in Data /\ Bytes(q)[j] = BacklogByte(q, j)
  BY <1>1, <1>2
<1>4. /\ SubSeq(Bytes(q), 1, n) \in Seq(Data)
      /\ Len(SubSeq(Bytes(q), 1, n)) = n
      /\ \A j \in 1 .. n : SubSeq(Bytes(q), 1, n)[j] = Bytes(q)[j]
  <2>1. PICK one \in Int : one = 1
    OBVIOUS
  <2>2. /\ SubSeq(Bytes(q), one, n) \in Seq(Data)
        /\ Len(SubSeq(Bytes(q), one, n)) = IF one <= n THEN n - one + 1 ELSE 0
        /\ \A j \in 1 .. n - one + 1 : SubSeq(Bytes(q), one, n)[j] = Bytes(q)[one + j - 1]
    <3>1. \A j \in one .. n : Bytes(q)[j] \in Data
      BY <1>3, <2>1
    <3> QED
      BY <1>2, <3>1, SubSeqProperties
  <2>3. one + n - 1 = n /\ n - one + 1 = n /\ \A j \in 1 .. n : one + j - 1 = j
    BY <1>2, <2>1
  <2> QED
    BY <1>2, <2>1, <2>2, <2>3
<1>5. /\ FirstBytes(q, n) \in Seq(Data) /\ Len(FirstBytes(q, n)) = n
      /\ \A j \in 1 .. n : FirstBytes(q, n)[j] = BacklogByte(q, j)
  BY <1>2, FirstBytesType DEF FirstBytes
<1> QED
  BY <1>3, <1>4, <1>5, SeqEqual

LEMMA BytesDropped ==
  ASSUME NEW Data, NEW q, SoundQueue(Data, q), NEW r, SoundQueue(Data, r),
         NEW d \in Nat, NEW n \in 0 .. Backlog(q), Shifted(q, r, d, n)
  PROVE  /\ Bytes(r) = SubSeq(Bytes(q), n + 1, Len(Bytes(q)))
         /\ Backlog(r) = Backlog(q) - n
<1> DEFINE B == Backlog(q)
           rest == SubSeq(Bytes(q), n + 1, B)
<1>1. /\ Bytes(q) \in Seq(Data) /\ Len(Bytes(q)) = B /\ B \in Nat
      /\ \A j \in 1 .. B : Bytes(q)[j] = BacklogByte(q, j) /\ Bytes(q)[j] \in Data
  BY BytesType, BytesAreBytes
<1> HIDE DEF B
<1>2. n \in Nat /\ n <= B
  BY <1>1 DEF B
<1>3. Backlog(r) = B - n
  BY <1>2, ShiftedSums DEF B
<1>4. \A j \in 1 .. Backlog(r) : BacklogByte(r, j) = BacklogByte(q, n + j)
  BY <1>2, ShiftedBytes
<1>5. /\ Bytes(r) \in Seq(Data) /\ Len(Bytes(r)) = Backlog(r)
      /\ \A j \in 1 .. Backlog(r) : Bytes(r)[j] = BacklogByte(r, j)
  BY BytesType
<1>6. /\ rest \in Seq(Data)
      /\ Len(rest) = B - n
      /\ \A j \in 1 .. B - n : rest[j] = Bytes(q)[n + j]
  <2>1. \A j \in n + 1 .. B : Bytes(q)[j] \in Data
    BY <1>1, <1>2
  <2>2. /\ rest \in Seq(Data)
        /\ Len(rest) = IF n + 1 <= B THEN B - (n + 1) + 1 ELSE 0
        /\ \A j \in 1 .. B - (n + 1) + 1 : rest[j] = Bytes(q)[(n + 1) + j - 1]
    BY <1>1, <1>2, <2>1, SubSeqProperties
  <2> HIDE DEF rest
  <2>3. B - (n + 1) + 1 = B - n /\ \A j \in 1 .. B - n : (n + 1) + j - 1 = n + j
    BY <1>1, <1>2
  <2> QED
    BY <1>1, <1>2, <2>2, <2>3
<1> HIDE DEF rest
<1>7. ASSUME NEW j \in 1 .. B - n
      PROVE  Bytes(r)[j] = rest[j]
  <2>1. n + j \in 1 .. B
    BY <1>1, <1>2
  <2> QED
    BY <1>1, <1>3, <1>4, <1>5, <1>6, <2>1
<1>8. Bytes(r) = rest
  BY <1>3, <1>5, <1>6, <1>7, SeqEqual
<1> QED
  BY <1>1, <1>3, <1>8 DEF rest, B

\* The bytes of a completed write are the first of the FIFO, and consume leaves
\* the others.
LEMMA SentIsTake ==
  ASSUME NEW Data, NEW q, SoundQueue(Data, q), NEW n \in 1 .. Backlog(q)
  PROVE  /\ FirstBytes(q, n) = SubSeq(Bytes(q), 1, n)
         /\ Bytes(consume(q, n)) = SubSeq(Bytes(q), n + 1, Len(Bytes(q)))
<1>1. n \in 0 .. Backlog(q) /\ n \in Nat
  BY SumsOfQueue
<1>2. /\ SoundQueue(Data, consume(q, n))
      /\ \E d \in Nat : Shifted(q, consume(q, n), d, n)
  BY ConsumeGood
<1>3. Bytes(consume(q, n)) = SubSeq(Bytes(q), n + 1, Len(Bytes(q)))
  <2>1. PICK d \in Nat : Shifted(q, consume(q, n), d, n)
    BY <1>2
  <2> QED
    BY <1>1, <1>2, <2>1, BytesDropped
<1> QED
  BY <1>1, <1>3, FirstBytesPrefix

-----------------------------------------------------------------------------
(***************************************************************************)
(* Where the loops over the queue stop.                                    *)
(***************************************************************************)
LEMMA QueueShape ==
  ASSUME NEW Data, NEW q, WellFormed(Data, q)
  PROVE  /\ Len(q) \in Nat
         /\ DOMAIN q = 1 .. Len(q)
         /\ \A i \in 1 .. Len(q) : q[i] \in StreamsOf(CellsOf(Data)) /\ CursorsOK(q[i])
BY DEF WellFormed

LEMMA ReadableSizesAreNat ==
  ASSUME NEW Data, NEW q, WellFormed(Data, q)
  PROVE  /\ ReadableSizes(q) \in Seq(Nat)
         /\ Len(ReadableSizes(q)) = Len(q)
         /\ \A i \in 1 .. Len(q) :
              ReadableSizes(q)[i] = StreamReadableSize(q[i]) /\ ReadableSizes(q)[i] \in Nat
<1>1. ReadableSizes(q) \in [1 .. Len(q) -> Nat]
  BY QueueShape, StreamSizes DEF ReadableSizes
<1> QED
  BY <1>1, QueueShape, FunctionIsSeq DEF ReadableSizes

LEMMA WritableSizesAreNat ==
  ASSUME NEW Data, NEW q, WellFormed(Data, q)
  PROVE  /\ WritableSizes(q) \in Seq(Nat)
         /\ Len(WritableSizes(q)) = Len(q)
         /\ \A i \in 1 .. Len(q) :
              WritableSizes(q)[i] = StreamWritableSize(q[i]) /\ WritableSizes(q)[i] \in Nat
<1>1. WritableSizes(q) \in [1 .. Len(q) -> Nat]
  BY QueueShape, StreamSizes DEF WritableSizes
<1> QED
  BY <1>1, QueueShape, FunctionIsSeq DEF WritableSizes

\* The stream that holds the size-th readable byte, and its place in it.
LEMMA ReadStop ==
  ASSUME NEW Data, NEW q, WellFormed(Data, q), NEW size \in Nat, 0 < size, size <= getReadableSize(q)
  PROVE  /\ StopAt(ReadableSizes(q), size) \in 1 .. Len(q)
         /\ size - SumTo(ReadableSizes(q), StopAt(ReadableSizes(q), size) - 1)
              \in 1 .. StreamReadableSize(q[StopAt(ReadableSizes(q), size)])
BY ReadableSizesAreNat, StopAtFound DEF getReadableSize

\* The stream that takes the size-th byte to be written, and its place in it.
LEMMA WriteStop ==
  ASSUME NEW Data, NEW q, WellFormed(Data, q), NEW size \in Nat, 0 < size, size <= getWritableSize(q)
  PROVE  /\ StopAt(WritableSizes(q), size) \in 1 .. Len(q)
         /\ size - SumTo(WritableSizes(q), StopAt(WritableSizes(q), size) - 1)
              \in 1 .. StreamWritableSize(q[StopAt(WritableSizes(q), size)])
BY WritableSizesAreNat, StopAtFound DEF getWritableSize

-----------------------------------------------------------------------------
(***************************************************************************)
(* Each method keeps a good queue good.                                    *)
(***************************************************************************)
LEMMA PrepareGood ==
  ASSUME NEW Data, NEW q, GoodQueue(Data, q), NEW size \in Nat \ {0}
  PROVE  /\ GoodQueue(Data, prepare(q, size))
         /\ Len(q) <= Len(prepare(q, size))
         /\ \A i \in 1 .. Len(q) : prepare(q, size)[i] = q[i]
<1> DEFINE new == NewStream(Larger(size, DEFAULT_BUF_SIZE))
<1>1. /\ new \in StreamsOf(CellsOf(Data))
      /\ CursorsOK(new)
      /\ new.m_read = 0
      /\ new.m_written = 0
      /\ StreamAllocSize(new) > 0
  <2>1. Larger(size, DEFAULT_BUF_SIZE) \in Nat /\ 0 < Larger(size, DEFAULT_BUF_SIZE)
    BY DefaultBufAssumption DEF Larger
  <2>2. Uninit \in CellsOf(Data)
    BY DEF CellsOf
  <2> DEFINE n == Larger(size, DEFAULT_BUF_SIZE)
  <2> HIDE DEF n
  <2>3. /\ NewStream(n) \in StreamsOf(CellsOf(Data))
        /\ CursorsOK(NewStream(n))
        /\ NewStream(n).m_read = 0
        /\ NewStream(n).m_written = 0
        /\ n <= StreamAllocSize(NewStream(n))
    BY <2>1, <2>2, NewStreamFits DEF n
  <2>4. StreamAllocSize(NewStream(n)) \in Nat
    BY <2>3, StreamSizes
  <2> QED
    BY <2>1, <2>3, <2>4 DEF n
<1>2. Len(q) \in Nat /\ DOMAIN q = 1 .. Len(q) /\ q \in Seq(StreamsOf(CellsOf(Data)))
  BY QueueShape DEF GoodQueue, WellFormed
<1> HIDE DEF new
<1>3. /\ Append(q, new) \in Seq(StreamsOf(CellsOf(Data)))
      /\ Len(Append(q, new)) = Len(q) + 1
      /\ DOMAIN Append(q, new) = 1 .. Len(q) + 1
      /\ \A i \in 1 .. Len(q) : Append(q, new)[i] = q[i]
      /\ Append(q, new)[Len(q) + 1] = new
  BY <1>1, <1>2
<1> DEFINE r == Append(q, new)
<1>4. GoodQueue(Data, r)
  <2> HIDE DEF r
  <2>1. WellFormed(Data, r)
    BY <1>1, <1>2, <1>3 DEF GoodQueue, WellFormed, r
  <2>2. WrittenBytes(Data, r)
    BY <1>1, <1>2, <1>3 DEF GoodQueue, WrittenBytes, r
  <2>3. NoDrainedStream(r)
    BY <1>1, <1>2, <1>3 DEF GoodQueue, PackedQueue, NoDrainedStream, r
  <2>4. OnlyFrontRead(r)
    BY <1>1, <1>2, <1>3 DEF GoodQueue, PackedQueue, OnlyFrontRead, r
  <2>5. FilledInOrder(r)
    BY <1>1, <1>2, <1>3 DEF GoodQueue, PackedQueue, FilledInOrder, r
  <2>6. HasMemory(r)
    BY <1>1, <1>2, <1>3 DEF GoodQueue, PackedQueue, HasMemory, r
  <2> QED
    BY <2>1, <2>2, <2>3, <2>4, <2>5, <2>6 DEF GoodQueue, PackedQueue
<1>5. prepare(q, size) = r \/ prepare(q, size) = q
  BY DEF prepare, new
<1>6. Len(r) = Len(q) + 1 /\ \A i \in 1 .. Len(q) : r[i] = q[i]
  BY <1>3
<1> HIDE DEF r
<1> QED
  BY <1>2, <1>4, <1>5, <1>6

\* What pop leaves: the stream it stopped in, or nothing of it, and then the rest.
LEMMA RestGood ==
  ASSUME NEW Data, NEW q, GoodQueue(Data, q), NEW k \in 1 .. Len(q)
  PROVE  GoodQueue(Data, SubSeq(q, k + 1, Len(q)))
<1> DEFINE r == SubSeq(q, k + 1, Len(q))
<1>1. Len(q) \in Nat /\ DOMAIN q = 1 .. Len(q) /\ q \in Seq(StreamsOf(CellsOf(Data)))
  BY QueueShape DEF GoodQueue, WellFormed
<1>2. \A i \in (k + 1) .. Len(q) : q[i] \in StreamsOf(CellsOf(Data))
  BY <1>1
<1>3. /\ r \in Seq(StreamsOf(CellsOf(Data)))
      /\ DOMAIN r = 1 .. Len(q) - k
      /\ \A i \in 1 .. Len(q) - k : r[i] = q[k + i] /\ k + i \in 1 .. Len(q) /\ k + i > 1
  BY <1>1, <1>2, SubSeqProperties
<1> HIDE DEF r
<1>4. WellFormed(Data, r)
  BY <1>1, <1>3 DEF GoodQueue, WellFormed
<1>5. WrittenBytes(Data, r)
  BY <1>1, <1>3 DEF GoodQueue, WrittenBytes
<1>6. NoDrainedStream(r)
  BY <1>1, <1>3 DEF GoodQueue, PackedQueue, NoDrainedStream
<1>7. OnlyFrontRead(r)
  BY <1>1, <1>3 DEF GoodQueue, PackedQueue, OnlyFrontRead
<1>8. FilledInOrder(r)
  <2> SUFFICES ASSUME NEW i \in DOMAIN r, NEW j \in DOMAIN r, i < j, r[j].m_written > 0
               PROVE  StreamWritableSize(r[i]) = 0
    BY DEF FilledInOrder
  <2>1. k + i < k + j /\ k + i \in DOMAIN q /\ k + j \in DOMAIN q
    BY <1>1, <1>3
  <2> QED
    BY <1>3, <2>1 DEF GoodQueue, PackedQueue, FilledInOrder
<1>9. HasMemory(r)
  BY <1>1, <1>3 DEF GoodQueue, PackedQueue, HasMemory
<1> QED
  BY <1>4, <1>5, <1>6, <1>7, <1>8, <1>9 DEF GoodQueue, PackedQueue, r

LEMMA FrontAndRestGood ==
  ASSUME NEW Data, NEW q, GoodQueue(Data, q), NEW k \in 1 .. Len(q), NEW s \in StreamsOf(CellsOf(Data)), CursorsOK(s),
         s.cells = q[k].cells, s.m_written = q[k].m_written, s.m_read < s.m_written
  PROVE  GoodQueue(Data, << s >> \o SubSeq(q, k + 1, Len(q)))
<1> DEFINE r == << s >> \o SubSeq(q, k + 1, Len(q))
<1>1. Len(q) \in Nat /\ DOMAIN q = 1 .. Len(q) /\ q \in Seq(StreamsOf(CellsOf(Data)))
  BY QueueShape DEF GoodQueue, WellFormed
<1>2. /\ r \in Seq(StreamsOf(CellsOf(Data)))
      /\ Len(r) = Len(q) - k + 1
      /\ r[1] = s
      /\ \A i \in 2 .. Len(q) - k + 1 : r[i] = q[k + i - 1]
  BY <1>1, FrontAndRest
<1> HIDE DEF r
<1>3. DOMAIN r = 1 .. Len(q) - k + 1
  BY <1>1, <1>2
<1>4. \A i \in DOMAIN r :
        \/ i = 1 /\ r[i] = s
        \/ i > 1 /\ k + i - 1 \in DOMAIN q /\ k + i - 1 > 1 /\ r[i] = q[k + i - 1]
  BY <1>1, <1>2, <1>3
<1>5. k \in DOMAIN q
  BY <1>1
<1>6. WellFormed(Data, r)
  BY <1>2, <1>4 DEF GoodQueue, WellFormed
<1>7. WrittenBytes(Data, r)
  BY <1>4, <1>5 DEF GoodQueue, WrittenBytes
<1>8. NoDrainedStream(r)
  BY <1>4 DEF GoodQueue, PackedQueue, NoDrainedStream
<1>9. OnlyFrontRead(r)
  BY <1>4 DEF GoodQueue, PackedQueue, OnlyFrontRead
<1>10. FilledInOrder(r)
  <2> SUFFICES ASSUME NEW i \in DOMAIN r, NEW j \in DOMAIN r, i < j, r[j].m_written > 0
               PROVE  StreamWritableSize(r[i]) = 0
    BY DEF FilledInOrder
  <2>1. i \in Nat /\ j \in Nat /\ 1 <= i
    BY <1>1, <1>3
  <2>2. k + j - 1 \in DOMAIN q /\ q[k + j - 1].m_written > 0
    BY <1>4, <2>1
  <2>3. CASE i = 1
    <3>1. StreamWritableSize(q[k]) = 0
      BY <1>1, <1>5, <2>1, <2>2, <2>3 DEF GoodQueue, PackedQueue, FilledInOrder
    <3>2. StreamWritableSize(s) = StreamWritableSize(q[k])
      BY DEF StreamWritableSize, StreamAllocSize
    <3> QED
      BY <1>2, <2>3, <3>1, <3>2
  <2>4. CASE i # 1
    <3>1. k + i - 1 \in DOMAIN q /\ r[i] = q[k + i - 1] /\ k + i - 1 < k + j - 1
      BY <1>1, <1>4, <2>1, <2>4
    <3> QED
      BY <2>2, <3>1 DEF GoodQueue, PackedQueue, FilledInOrder
  <2> QED
    BY <2>3, <2>4
<1>11. HasMemory(r)
  <2>1. StreamAllocSize(s) = StreamAllocSize(q[k])
    BY DEF StreamAllocSize
  <2> QED
    BY <1>4, <1>5, <2>1 DEF GoodQueue, PackedQueue, HasMemory
<1> QED
  BY <1>6, <1>7, <1>8, <1>9, <1>10, <1>11 DEF GoodQueue, PackedQueue, r

LEMMA PopGood ==
  ASSUME NEW Data, NEW q, GoodQueue(Data, q), NEW size \in Nat, 0 < size, size <= getReadableSize(q)
  PROVE  GoodQueue(Data, pop(q, size))
<1> DEFINE k == StopAt(ReadableSizes(q), size)
           n == size - SumTo(ReadableSizes(q), k - 1)
           s == StreamConsume(q[k], n)
           rest == SubSeq(q, k + 1, Len(q))
<1>1. k \in 1 .. Len(q) /\ n \in 1 .. StreamReadableSize(q[k])
  BY ReadStop DEF GoodQueue
<1>2. pop(q, size) = IF StreamReadableSize(s) > 0 THEN << s >> \o rest
                     ELSE IF k = Len(q) /\ StreamAllocSize(s) = DEFAULT_BUF_SIZE
                     THEN << StreamReset(s) >>
                     ELSE rest
  BY DEF pop
<1> HIDE DEF k, n
<1>3. q[k] \in StreamsOf(CellsOf(Data)) /\ CursorsOK(q[k])
  BY <1>1, QueueShape DEF GoodQueue
<1>4. n \in 0 .. StreamReadableSize(q[k])
  BY <1>1, <1>3, StreamSizes
<1>5. /\ s \in StreamsOf(CellsOf(Data))
      /\ CursorsOK(s)
      /\ s = [cells |-> q[k].cells, m_read |-> q[k].m_read + n, m_written |-> q[k].m_written]
  BY <1>3, <1>4, StreamConsumeFits
<1> HIDE DEF s
<1>6. CASE StreamReadableSize(s) > 0
  <2>1. s.cells = q[k].cells /\ s.m_written = q[k].m_written
    BY <1>5
  <2>2. s.m_read < s.m_written
    BY <1>5, <1>6 DEF StreamReadableSize, CursorsOK
  <2>3. GoodQueue(Data, << s >> \o rest)
    BY <1>1, <1>5, <2>1, <2>2, FrontAndRestGood
  <2> QED
    BY <1>2, <1>6, <2>3
<1>7. CASE /\ ~(StreamReadableSize(s) > 0)
           /\ k = Len(q) /\ StreamAllocSize(s) = DEFAULT_BUF_SIZE
  <2> DEFINE r == << StreamReset(s) >>
  <2>1. /\ StreamReset(s) \in StreamsOf(CellsOf(Data))
        /\ CursorsOK(StreamReset(s))
        /\ StreamReset(s) = [cells |-> s.cells, m_read |-> 0, m_written |-> 0]
    BY <1>5, StreamResetFits
  <2>2. StreamAllocSize(StreamReset(s)) > 0
    BY <1>7, <2>1, DefaultBufAssumption DEF StreamAllocSize
  <2>3. r \in Seq(StreamsOf(CellsOf(Data))) /\ DOMAIN r = {1} /\ r[1] = StreamReset(s)
    BY <2>1
  <2>4. GoodQueue(Data, r)
    <3> HIDE DEF r
    <3>1. WellFormed(Data, r)
      BY <2>1, <2>3 DEF WellFormed
    <3>2. WrittenBytes(Data, r)
      BY <2>1, <2>3 DEF WrittenBytes
    <3>3. PackedQueue(r)
      BY <2>1, <2>2, <2>3
      DEF PackedQueue, NoDrainedStream, OnlyFrontRead, FilledInOrder, HasMemory
    <3> QED
      BY <3>1, <3>2, <3>3 DEF GoodQueue
  <2> QED
    BY <1>2, <1>7, <2>4
<1>8. CASE /\ ~(StreamReadableSize(s) > 0)
           /\ ~(k = Len(q) /\ StreamAllocSize(s) = DEFAULT_BUF_SIZE)
  <2>1. GoodQueue(Data, rest)
    BY <1>1, RestGood
  <2> QED
    BY <1>2, <1>8, <2>1
<1> QED
  BY <1>6, <1>7, <1>8

\* commit moves m_written of the streams up to the one it stops in.
LEMMA CommitStreams ==
  ASSUME NEW Data, NEW q, WellFormed(Data, q), NEW size \in Nat, 0 < size, size <= getWritableSize(q)
  PROVE  LET k == StopAt(WritableSizes(q), size)
             r == commit(q, size)
             last == size - SumTo(WritableSizes(q), k - 1)
         IN  /\ WellFormed(Data, r)
             /\ DOMAIN r = DOMAIN q
             /\ k \in DOMAIN q
             /\ last \in 1 .. StreamWritableSize(q[k])
             /\ \A i \in DOMAIN q :
                  /\ r[i].cells = q[i].cells
                  /\ r[i].m_read = q[i].m_read
                  /\ i < k => r[i].m_written = StreamAllocSize(q[i])
                  /\ i = k => r[i].m_written = q[i].m_written + last
                  /\ i > k => r[i].m_written = q[i].m_written
<1> DEFINE k == StopAt(WritableSizes(q), size)
           last == size - SumTo(WritableSizes(q), k - 1)
           r == commit(q, size)
<1>1. k \in 1 .. Len(q) /\ last \in 1 .. StreamWritableSize(q[k])
  BY WriteStop
<1>2. r = [i \in DOMAIN q |->
             IF i < k THEN StreamCommit(q[i], StreamWritableSize(q[i]))
             ELSE IF i = k THEN StreamCommit(q[i], last)
             ELSE q[i]]
  BY DEF commit
<1> HIDE DEF k, last, r
<1>3. /\ Len(q) \in Nat
      /\ DOMAIN q = 1 .. Len(q)
      /\ \A i \in DOMAIN q : q[i] \in StreamsOf(CellsOf(Data)) /\ CursorsOK(q[i])
  BY QueueShape
<1>4. ASSUME NEW i \in DOMAIN q
      PROVE  /\ r[i] \in StreamsOf(CellsOf(Data))
             /\ CursorsOK(r[i])
             /\ r[i].cells = q[i].cells
             /\ r[i].m_read = q[i].m_read
             /\ i < k => r[i].m_written = StreamAllocSize(q[i])
             /\ i = k => r[i].m_written = q[i].m_written + last
             /\ i > k => r[i].m_written = q[i].m_written
  <2>1. q[i] \in StreamsOf(CellsOf(Data)) /\ CursorsOK(q[i]) /\ i \in Nat /\ k \in Nat
    BY <1>1, <1>3
  <2>2. /\ StreamWritableSize(q[i]) \in Nat
        /\ q[i].m_written + StreamWritableSize(q[i]) = StreamAllocSize(q[i])
    BY <2>1, StreamSizes DEF CursorsOK
  <2>3. CASE i < k
    <3> DEFINE n == StreamWritableSize(q[i])
    <3>1. n \in 0 .. StreamWritableSize(q[i])
      BY <2>2
    <3>2. /\ StreamCommit(q[i], n) \in StreamsOf(CellsOf(Data))
          /\ CursorsOK(StreamCommit(q[i], n))
          /\ StreamCommit(q[i], n) =
               [cells |-> q[i].cells, m_read |-> q[i].m_read, m_written |-> q[i].m_written + n]
      BY <2>1, <3>1, StreamCommitFits
    <3>3. r[i] = StreamCommit(q[i], n)
      BY <1>2, <2>3
    <3> QED
      BY <2>1, <2>2, <2>3, <3>2, <3>3
  <2>4. CASE i = k
    <3>1. last \in 0 .. StreamWritableSize(q[i])
      BY <1>1, <2>2, <2>4
    <3>2. /\ StreamCommit(q[i], last) \in StreamsOf(CellsOf(Data))
          /\ CursorsOK(StreamCommit(q[i], last))
          /\ StreamCommit(q[i], last) =
               [cells |-> q[i].cells, m_read |-> q[i].m_read, m_written |-> q[i].m_written + last]
      BY <2>1, <3>1, StreamCommitFits
    <3>3. r[i] = StreamCommit(q[i], last)
      BY <1>2, <2>1, <2>4
    <3> QED
      BY <2>1, <2>4, <3>2, <3>3
  <2>5. CASE i > k
    <3>1. r[i] = q[i]
      BY <1>2, <2>1, <2>5
    <3> QED
      BY <2>1, <2>5, <3>1
  <2> QED
    BY <2>1, <2>3, <2>4, <2>5
<1>5. DOMAIN r = DOMAIN q
  BY <1>2
<1>6. r \in Seq(StreamsOf(CellsOf(Data)))
  <2>1. r \in [1 .. Len(q) -> StreamsOf(CellsOf(Data))]
    BY <1>2, <1>3, <1>4
  <2> QED
    BY <1>3, <2>1, FunctionIsSeq
<1>7. WellFormed(Data, r)
  BY <1>4, <1>5, <1>6 DEF WellFormed
<1> QED
  BY <1>1, <1>3, <1>4, <1>5, <1>7 DEF k, last, r

LEMMA CommitPacked ==
  ASSUME NEW Data, NEW q, WellFormed(Data, q), PackedQueue(q),
         NEW size \in Nat, 0 < size, size <= getWritableSize(q)
  PROVE  PackedQueue(commit(q, size))
<1> DEFINE k == StopAt(WritableSizes(q), size)
           last == size - SumTo(WritableSizes(q), k - 1)
           r == commit(q, size)
<1>1. /\ WellFormed(Data, r)
      /\ DOMAIN r = DOMAIN q
      /\ k \in DOMAIN q
      /\ last \in 1 .. StreamWritableSize(q[k])
      /\ \A i \in DOMAIN q :
           /\ r[i].cells = q[i].cells
           /\ r[i].m_read = q[i].m_read
           /\ i < k => r[i].m_written = StreamAllocSize(q[i])
           /\ i = k => r[i].m_written = q[i].m_written + last
           /\ i > k => r[i].m_written = q[i].m_written
  BY CommitStreams
<1> HIDE DEF k, last, r
<1>2. /\ DOMAIN q = 1 .. Len(q)
      /\ Len(q) \in Nat
      /\ \A i \in DOMAIN q : q[i] \in StreamsOf(CellsOf(Data)) /\ CursorsOK(q[i])
  BY QueueShape
<1>3. \A i \in DOMAIN q :
        /\ q[i].m_read \in Nat
        /\ q[i].m_written \in Nat
        /\ q[i].m_read <= q[i].m_written
        /\ q[i].m_written <= StreamAllocSize(q[i])
        /\ StreamAllocSize(q[i]) \in Nat
        /\ StreamWritableSize(q[i]) = StreamAllocSize(q[i]) - q[i].m_written
        /\ StreamAllocSize(r[i]) = StreamAllocSize(q[i])
        /\ StreamWritableSize(r[i]) = StreamAllocSize(q[i]) - r[i].m_written
  BY <1>1, <1>2 DEF CursorsOK, StreamsOf, StreamWritableSize, StreamAllocSize
<1>4. \A i \in DOMAIN q : StreamAllocSize(q[i]) > 0
  BY DEF PackedQueue, HasMemory
<1>5. \A i \in DOMAIN q : i > k => q[i].m_written = 0
  <2> SUFFICES ASSUME NEW i \in DOMAIN q, i > k, q[i].m_written > 0
               PROVE  FALSE
    BY <1>3
  <2>1. StreamWritableSize(q[k]) = 0
    BY <1>1 DEF PackedQueue, FilledInOrder
  <2> QED
    BY <1>1, <2>1
<1>6. NoDrainedStream(r)
  <2> SUFFICES ASSUME NEW i \in DOMAIN q, r[i].m_written > 0
               PROVE  r[i].m_read < r[i].m_written
    BY <1>1 DEF NoDrainedStream
  <2>1. q[i].m_written > 0 => q[i].m_read < q[i].m_written
    BY DEF PackedQueue, NoDrainedStream
  <2>2. i \in Nat /\ k \in Nat
    BY <1>1, <1>2
  <2>3. q[i].m_written <= r[i].m_written
    BY <1>1, <1>3, <2>2
  <2> QED
    BY <1>1, <1>3, <2>1, <2>2, <2>3
<1>7. OnlyFrontRead(r)
  BY <1>1 DEF PackedQueue, OnlyFrontRead
<1>8. FilledInOrder(r)
  <2> SUFFICES ASSUME NEW i \in DOMAIN q, NEW j \in DOMAIN q, i < j, r[j].m_written > 0
               PROVE  StreamWritableSize(r[i]) = 0
    BY <1>1 DEF FilledInOrder
  <2>1. i \in Nat /\ j \in Nat /\ k \in Nat
    BY <1>1, <1>2
  <2>2. j <= k
    BY <1>1, <1>5, <2>1
  <2> QED
    BY <1>1, <1>3, <2>1, <2>2
<1>9. HasMemory(r)
  BY <1>1, <1>3, <1>4 DEF HasMemory
<1> QED
  BY <1>6, <1>7, <1>8, <1>9 DEF PackedQueue, r

-----------------------------------------------------------------------------
(***************************************************************************)
(* A completed read: the socket fills the buffers it was given, and commit *)
(* claims exactly the cells that were filled.                              *)
(***************************************************************************)
\* The buffers of a read in progress are the free memory of the first streams.
FreshBuffers(q, bufs) ==
  /\ bufs \in Seq([from : Nat, size : Nat])
  /\ Len(bufs) <= Len(q)
  /\ \A i \in DOMAIN bufs :
       bufs[i].from = q[i].m_written /\ bufs[i].size = StreamWritableSize(q[i])

LEMMA BufferSums ==
  ASSUME NEW Data, NEW q, WellFormed(Data, q), NEW bufs, FreshBuffers(q, bufs)
  PROVE  /\ Len(bufs) \in 0 .. Len(q)
         /\ Len(BufferSizes(bufs)) = Len(bufs)
         /\ \A i \in 0 .. Len(bufs) :
              SumTo(BufferSizes(bufs), i) = SumTo(WritableSizes(q), i)
<1>1. /\ Len(bufs) \in Nat
      /\ DOMAIN bufs = 1 .. Len(bufs)
      /\ Len(bufs) <= Len(q)
      /\ \A i \in 1 .. Len(bufs) : bufs[i].size = StreamWritableSize(q[i])
  BY DEF FreshBuffers
<1>2. Len(q) \in Nat /\ DOMAIN q = 1 .. Len(q)
  BY QueueShape
<1>3. \A i \in 1 .. Len(bufs) : WritableSizes(q)[i] = StreamWritableSize(q[i])
  BY <1>1, <1>2, WritableSizesAreNat
<1>4. \A i \in 1 .. Len(bufs) : BufferSizes(bufs)[i] = WritableSizes(q)[i]
  BY <1>1, <1>3 DEF BufferSizes
<1>5. BufferSizes(bufs) \in Seq(Nat) /\ Len(BufferSizes(bufs)) = Len(bufs)
  <2>1. \A i \in 1 .. Len(bufs) : bufs[i].size \in Nat
    BY <1>1, <1>2, <1>3, WritableSizesAreNat
  <2>2. BufferSizes(bufs) \in [1 .. Len(bufs) -> Nat]
    BY <1>1, <2>1 DEF BufferSizes
  <2> QED
    BY <1>1, <2>2, FunctionIsSeq
<1> DEFINE given == BufferSizes(bufs)
           free == WritableSizes(q)
<1> HIDE DEF given, free
<1>6. \A i \in 0 .. Len(bufs) : SumTo(given, i) = SumTo(free, i)
  <2>1. \A i \in 1 .. Len(bufs) : given[i] = free[i]
    BY <1>4 DEF given, free
  <2> QED
    BY <1>1, <2>1, SumToAgree
<1> QED
  BY <1>1, <1>2, <1>5, <1>6 DEF given, free

LEMMA ScatterStreams ==
  ASSUME NEW Data, NEW q, WellFormed(Data, q), NEW bufs, FreshBuffers(q, bufs), NEW bytes \in Seq(Data)
  PROVE  LET r == Scatter(q, bufs, bytes)
         IN  /\ WellFormed(Data, r)
             /\ DOMAIN r = DOMAIN q
             /\ \A i \in DOMAIN q :
                  /\ r[i].m_read = q[i].m_read
                  /\ r[i].m_written = q[i].m_written
                  /\ Len(r[i].cells) = Len(q[i].cells)
             /\ \A i \in DOMAIN bufs :
                  /\ Share(bufs, bytes, i) \in Seq(Data)
                  /\ \A c \in 1 .. Len(q[i].cells) :
                       r[i].cells[c] =
                         IF c \in q[i].m_written + 1 .. q[i].m_written + Len(Share(bufs, bytes, i))
                         THEN Share(bufs, bytes, i)[c - q[i].m_written]
                         ELSE q[i].cells[c]
             /\ \A i \in DOMAIN q \ DOMAIN bufs : r[i] = q[i]
<1> DEFINE r == Scatter(q, bufs, bytes)
<1>1. /\ Len(q) \in Nat
      /\ DOMAIN q = 1 .. Len(q)
      /\ \A i \in DOMAIN q : q[i] \in StreamsOf(CellsOf(Data)) /\ CursorsOK(q[i])
  BY QueueShape
<1>2. /\ Len(bufs) \in 0 .. Len(q)
      /\ \A i \in 0 .. Len(bufs) : SumTo(BufferSizes(bufs), i) \in Nat
  <2>1. \A i \in 0 .. Len(q) : SumTo(WritableSizes(q), i) \in Nat
    BY <1>1, WritableSizesAreNat, SumToNat
  <2> QED
    BY <1>1, <2>1, BufferSums
<1>3. DOMAIN bufs = 1 .. Len(bufs)
  BY DEF FreshBuffers
<1>4. ASSUME NEW i \in DOMAIN bufs
      PROVE  Share(bufs, bytes, i) \in Seq(Data)
  <2> DEFINE before == SumTo(BufferSizes(bufs), i - 1)
             upTo == SumTo(BufferSizes(bufs), i)
             end == IF upTo < Len(bytes) THEN upTo ELSE Len(bytes)
  <2>1. before \in Nat /\ upTo \in Nat
    BY <1>1, <1>2, <1>3
  <2>2. Len(bytes) \in Nat /\ \A j \in 1 .. Len(bytes) : bytes[j] \in Data
    OBVIOUS
  <2>3. Share(bufs, bytes, i) = SubSeq(bytes, before + 1, end)
    BY DEF Share
  <2> HIDE DEF before, upTo
  <2>4. before + 1 \in Int /\ end \in Int /\ \A j \in before + 1 .. end : bytes[j] \in Data
    BY <2>1, <2>2
  <2> HIDE DEF end
  <2> QED
    BY <2>3, <2>4, SubSeqProperties
<1>5. r = [i \in DOMAIN q |->
             IF i \in DOMAIN bufs THEN Store(q[i], bufs[i].from, Share(bufs, bytes, i)) ELSE q[i]]
  BY DEF Scatter
<1> HIDE DEF r
<1>6. ASSUME NEW i \in DOMAIN bufs
      PROVE  /\ r[i] \in StreamsOf(CellsOf(Data))
             /\ CursorsOK(r[i])
             /\ r[i].m_read = q[i].m_read
             /\ r[i].m_written = q[i].m_written
             /\ Len(r[i].cells) = Len(q[i].cells)
             /\ \A c \in 1 .. Len(q[i].cells) :
                  r[i].cells[c] =
                    IF c \in q[i].m_written + 1 .. q[i].m_written + Len(Share(bufs, bytes, i))
                    THEN Share(bufs, bytes, i)[c - q[i].m_written]
                    ELSE q[i].cells[c]
  <2> DEFINE part == Share(bufs, bytes, i)
             at == q[i].m_written
  <2>1. i \in DOMAIN q /\ q[i] \in StreamsOf(CellsOf(Data)) /\ CursorsOK(q[i]) /\ at \in Nat
    BY <1>1, <1>2, <1>3 DEF CursorsOK
  <2>2. part \in Seq(CellsOf(Data))
    BY <1>4 DEF CellsOf
  <2>3. r[i] = Store(q[i], at, part)
    BY <1>5, <2>1 DEF FreshBuffers
  <2> HIDE DEF part, at
  <2>4. /\ Store(q[i], at, part) \in StreamsOf(CellsOf(Data))
        /\ Store(q[i], at, part).m_read = q[i].m_read
        /\ Store(q[i], at, part).m_written = q[i].m_written
        /\ Len(Store(q[i], at, part).cells) = Len(q[i].cells)
        /\ \A c \in 1 .. Len(q[i].cells) :
             Store(q[i], at, part).cells[c] =
               IF c \in at + 1 .. at + Len(part) THEN part[c - at] ELSE q[i].cells[c]
    BY <2>1, <2>2, StoreFits
  <2>5. CursorsOK(r[i])
    BY <2>1, <2>3, <2>4 DEF CursorsOK, StreamAllocSize
  <2> QED
    BY <2>3, <2>4, <2>5 DEF part, at
<1>7. \A i \in DOMAIN q \ DOMAIN bufs : r[i] = q[i]
  BY <1>5
<1>8. DOMAIN r = DOMAIN q
  BY <1>5
<1>9. \A i \in DOMAIN q : r[i] \in StreamsOf(CellsOf(Data)) /\ CursorsOK(r[i])
  BY <1>1, <1>6, <1>7
<1>10. r \in Seq(StreamsOf(CellsOf(Data)))
  <2>1. r \in [1 .. Len(q) -> StreamsOf(CellsOf(Data))]
    BY <1>1, <1>5, <1>9
  <2> QED
    BY <1>1, <2>1, FunctionIsSeq
<1>11. WellFormed(Data, r)
  BY <1>8, <1>9, <1>10 DEF WellFormed
<1>12. \A i \in DOMAIN q :
         /\ r[i].m_read = q[i].m_read
         /\ r[i].m_written = q[i].m_written
         /\ Len(r[i].cells) = Len(q[i].cells)
  BY <1>6, <1>7
<1> QED
  BY <1>4, <1>6, <1>7, <1>8, <1>11, <1>12 DEF r

LEMMA SamePacked ==
  ASSUME NEW Data, NEW q, NEW r, PackedQueue(q), DOMAIN r = DOMAIN q,
         \A i \in DOMAIN q :
           /\ r[i].m_read = q[i].m_read
           /\ r[i].m_written = q[i].m_written
           /\ Len(r[i].cells) = Len(q[i].cells)
  PROVE  PackedQueue(r)
<1>1. \A i \in DOMAIN q :
        /\ StreamAllocSize(r[i]) = StreamAllocSize(q[i])
        /\ StreamWritableSize(r[i]) = StreamWritableSize(q[i])
  BY DEF StreamAllocSize, StreamWritableSize
<1> QED
  BY <1>1 DEF PackedQueue, NoDrainedStream, OnlyFrontRead, FilledInOrder, HasMemory

\* What a completed read has done to the streams: those before the k-th are
\* full, the k-th has taken the rest, and each free cell holds the byte whose
\* place it is.
Filled(q, r, bytes, k) ==
  /\ k \in 1 .. Len(q)
  /\ SumTo(WritableSizes(q), k - 1) < Len(bytes)
  /\ Len(bytes) <= SumTo(WritableSizes(q), k)
  /\ Len(r) = Len(q)
  /\ \A i \in 1 .. Len(q) :
       /\ r[i].m_read = q[i].m_read
       /\ i < k => r[i].m_written = q[i].m_written + WritableSizes(q)[i]
       /\ i = k => r[i].m_written = q[i].m_written + (Len(bytes) - SumTo(WritableSizes(q), k - 1))
       /\ i > k => r[i].m_written = q[i].m_written
       /\ Len(r[i].cells) = Len(q[i].cells)
       /\ \A c \in 1 .. q[i].m_written : r[i].cells[c] = q[i].cells[c]
  /\ \A p \in 1 .. Len(q), x \in 1 .. Len(bytes) :
       SumTo(WritableSizes(q), p - 1) < x /\ x <= SumTo(WritableSizes(q), p) =>
         r[p].cells[q[p].m_written + (x - SumTo(WritableSizes(q), p - 1))] = bytes[x]

LEMMA CompleteGood ==
  ASSUME NEW Data, NEW q, GoodQueue(Data, q), NEW bufs, FreshBuffers(q, bufs), NEW bytes \in Seq(Data),
         0 < Len(bytes), Len(bytes) <= Total(BufferSizes(bufs))
  PROVE  /\ GoodQueue(Data, commit(Scatter(q, bufs, bytes), Len(bytes)))
         /\ \E k \in Nat : Filled(q, commit(Scatter(q, bufs, bytes), Len(bytes)), bytes, k)
<1> DEFINE filled == Scatter(q, bufs, bytes)
           n == Len(bytes)
           free == WritableSizes(q)
           k == StopAt(free, n)
           last == n - SumTo(free, k - 1)
           r == commit(filled, n)
<1>1. WellFormed(Data, q) /\ WrittenBytes(Data, q) /\ PackedQueue(q) /\ n \in Nat
  BY DEF GoodQueue
<1>2. /\ Len(q) \in Nat
      /\ DOMAIN q = 1 .. Len(q)
      /\ \A i \in DOMAIN q : q[i] \in StreamsOf(CellsOf(Data)) /\ CursorsOK(q[i])
  BY <1>1, QueueShape
<1>3. /\ WellFormed(Data, filled)
      /\ DOMAIN filled = DOMAIN q
      /\ \A i \in DOMAIN q :
           /\ filled[i].m_read = q[i].m_read
           /\ filled[i].m_written = q[i].m_written
           /\ Len(filled[i].cells) = Len(q[i].cells)
      /\ \A i \in DOMAIN bufs :
           /\ Share(bufs, bytes, i) \in Seq(Data)
           /\ \A c \in 1 .. Len(q[i].cells) :
                filled[i].cells[c] =
                  IF c \in q[i].m_written + 1 .. q[i].m_written + Len(Share(bufs, bytes, i))
                  THEN Share(bufs, bytes, i)[c - q[i].m_written]
                  ELSE q[i].cells[c]
      /\ \A i \in DOMAIN q \ DOMAIN bufs : filled[i] = q[i]
  BY <1>1, ScatterStreams
<1> HIDE DEF filled
<1>4. PackedQueue(filled)
  BY <1>1, <1>3, SamePacked
<1>5. WritableSizes(filled) = free
  BY <1>3 DEF WritableSizes, StreamWritableSize, StreamAllocSize
<1>6. /\ free \in Seq(Nat)
      /\ Len(free) = Len(q)
      /\ \A i \in 1 .. Len(q) : free[i] = StreamWritableSize(q[i]) /\ free[i] \in Nat
  BY <1>1, WritableSizesAreNat
<1>7. /\ Len(bufs) \in 0 .. Len(q)
      /\ DOMAIN bufs = 1 .. Len(bufs)
      /\ \A i \in 0 .. Len(bufs) : SumTo(BufferSizes(bufs), i) = SumTo(free, i)
      /\ n <= SumTo(free, Len(bufs))
  BY <1>1, BufferSums DEF FreshBuffers, Total
<1> HIDE DEF free
<1>8. \A i \in 0 .. Len(q) : SumTo(free, i) \in Nat
  BY <1>2, <1>6, SumToNat
<1>9. n <= Total(free)
  <2> DEFINE b == Len(bufs)
             h == Len(q)
  <2>1. b \in 0 .. Len(q) /\ h \in b .. Len(q)
    BY <1>2, <1>7
  <2> HIDE DEF b, h
  <2>2. SumTo(free, b) <= SumTo(free, h)
    BY <1>2, <1>6, <2>1, SumToMonotone
  <2>3. SumTo(free, b) \in Nat /\ SumTo(free, h) \in Nat
    BY <1>2, <1>8, <2>1
  <2>4. n <= SumTo(free, h)
    BY <1>1, <1>7, <2>2, <2>3 DEF b
  <2> QED
    BY <1>6, <2>4 DEF Total, h
<1>10. /\ k \in 1 .. Len(q)
       /\ SumTo(free, k - 1) < n
       /\ n <= SumTo(free, k)
       /\ last \in 1 .. free[k]
  BY <1>1, <1>6, <1>9, StopAtFound
<1>11. /\ WellFormed(Data, r)
       /\ DOMAIN r = DOMAIN filled
       /\ \A i \in DOMAIN filled :
            /\ r[i].cells = filled[i].cells
            /\ r[i].m_read = filled[i].m_read
            /\ i < k => r[i].m_written = StreamAllocSize(filled[i])
            /\ i = k => r[i].m_written = filled[i].m_written + last
            /\ i > k => r[i].m_written = filled[i].m_written
  <2>1. n <= getWritableSize(filled)
    BY <1>5, <1>9 DEF getWritableSize
  <2> QED
    BY <1>1, <1>3, <1>5, <2>1, CommitStreams
<1>12. PackedQueue(r)
  <2>1. n <= getWritableSize(filled)
    BY <1>5, <1>9 DEF getWritableSize
  <2> QED
    BY <1>1, <1>3, <1>4, <2>1, CommitPacked
<1> HIDE DEF r, n
<1>13. k <= Len(bufs)
  <2> SUFFICES ASSUME Len(bufs) < k
               PROVE  FALSE
    BY <1>7, <1>10
  <2> DEFINE b == Len(bufs)
             h == k - 1
  <2>1. b \in 0 .. Len(q) /\ h \in b .. Len(q)
    BY <1>2, <1>7, <1>10
  <2> HIDE DEF b, h
  <2>2. SumTo(free, b) <= SumTo(free, h)
    BY <1>2, <1>6, <2>1, SumToMonotone
  <2>3. SumTo(free, b) \in Nat /\ SumTo(free, h) \in Nat
    BY <1>2, <1>8, <2>1
  <2> QED
    BY <1>1, <1>7, <1>10, <2>2, <2>3 DEF b, h
\* What the socket stored in a stream is what commit claims of it.
<1>14. ASSUME NEW i \in 1 .. Len(q), i <= k
       PROVE  q[i].m_written + Len(Share(bufs, bytes, i)) = r[i].m_written
  <2>1. i - 1 \in 0 .. Len(bufs) /\ i \in 0 .. Len(bufs) /\ i - 1 \in Nat /\ i - 1 \in 0 .. Len(q)
    BY <1>2, <1>7, <1>10, <1>13, <1>14
  <2> DEFINE before == SumTo(free, i - 1)
             upTo == SumTo(free, i)
             end == IF upTo < n THEN upTo ELSE n
  <2>2. Share(bufs, bytes, i) = SubSeq(bytes, before + 1, end)
    BY <1>7, <2>1 DEF Share, n
  <2>3. before \in Nat /\ upTo \in Nat /\ free[i] \in Nat
    BY <1>2, <1>6, <1>8, <2>1
  <2>4. upTo = before + free[i]
    <3>1. SumTo(free, (i - 1) + 1) = SumTo(free, i - 1) + free[(i - 1) + 1]
      BY <2>1, SumToStep
    <3> QED
      BY <3>1
  <2>5. before < n
    <3> DEFINE g == i - 1
               h == k - 1
    <3>1. g \in 0 .. Len(q) /\ h \in g .. Len(q)
      BY <1>2, <1>10, <1>14, <2>1
    <3> HIDE DEF g, h
    <3>2. SumTo(free, g) <= SumTo(free, h)
      BY <1>2, <1>6, <3>1, SumToMonotone
    <3>3. SumTo(free, g) \in Nat /\ SumTo(free, h) \in Nat
      BY <1>2, <1>8, <3>1
    <3> QED
      BY <1>1, <1>10, <3>2, <3>3 DEF g, h
  <2>6. Len(SubSeq(bytes, before + 1, end)) = end - before
    <3> HIDE DEF before, upTo
    <3>1. before + 1 \in Int /\ end \in Int /\ before <= end
      BY <1>1, <2>3, <2>4, <2>5
    <3>2. \A j \in before + 1 .. end : bytes[j] \in Data
      BY <1>1, <2>3, <3>1 DEF n
    <3> HIDE DEF end
    <3>3. Len(SubSeq(bytes, before + 1, end)) =
            IF before + 1 <= end THEN end - (before + 1) + 1 ELSE 0
      BY <3>1, <3>2, SubSeqProperties
    <3> QED
      BY <2>3, <3>1, <3>3
  <2>7. /\ i \in DOMAIN filled
        /\ q[i].m_written \in Nat
        /\ StreamAllocSize(filled[i]) = q[i].m_written + free[i]
        /\ filled[i].m_written = q[i].m_written
    <3>1. i \in DOMAIN q /\ q[i] \in StreamsOf(CellsOf(Data)) /\ CursorsOK(q[i])
      BY <1>2
    <3>2. filled[i].m_written = q[i].m_written /\ Len(filled[i].cells) = Len(q[i].cells)
      BY <1>3, <3>1
    <3>3. /\ free[i] = StreamAllocSize(q[i]) - q[i].m_written
          /\ StreamAllocSize(q[i]) \in Nat
          /\ q[i].m_written \in Nat
      BY <1>6, <3>1, StreamSizes DEF CursorsOK
    <3>4. StreamAllocSize(filled[i]) = StreamAllocSize(q[i])
      BY <3>2 DEF StreamAllocSize
    <3> HIDE DEF before, upTo, end
    <3>5. StreamAllocSize(q[i]) = q[i].m_written + free[i]
      BY <2>3, <3>3
    <3> QED
      BY <1>3, <3>1, <3>2, <3>3, <3>4, <3>5
  <2>8. CASE i < k
    <3>1. upTo < n \/ upTo = n
      <4> DEFINE h == k - 1
      <4>1. i \in 0 .. Len(q) /\ h \in i .. Len(q)
        BY <1>2, <1>10, <2>8
      <4> HIDE DEF h
      <4>2. SumTo(free, i) <= SumTo(free, h)
        BY <1>2, <1>6, <4>1, SumToMonotone
      <4>3. SumTo(free, h) \in Nat
        BY <1>2, <1>8, <4>1
      <4> QED
        BY <1>1, <1>10, <2>3, <4>2, <4>3 DEF h
    <3>2. end = upTo
      BY <3>1
    <3>3. r[i].m_written = StreamAllocSize(filled[i])
      BY <1>11, <2>7, <2>8
    <3> HIDE DEF before, upTo, end
    <3>4. Len(Share(bufs, bytes, i)) = end - before
      BY <2>2, <2>6
    <3>5. Len(Share(bufs, bytes, i)) = free[i]
      BY <2>3, <2>4, <3>2, <3>4
    <3> QED
      BY <2>7, <3>3, <3>5
  <2>9. CASE i = k
    <3>1. end = n
      BY <1>1, <1>10, <2>3, <2>9
    <3>2. r[i].m_written = filled[i].m_written + last /\ last = n - before
      BY <1>11, <2>7, <2>9
    <3> HIDE DEF before, upTo, end, last
    <3> QED
      BY <2>2, <2>3, <2>6, <2>7, <3>1, <3>2
  <2> QED
    BY <1>2, <1>10, <1>14, <2>8, <2>9
<1>15. WrittenBytes(Data, r)
  <2> SUFFICES ASSUME NEW i \in DOMAIN q, NEW c \in 1 .. r[i].m_written
               PROVE  r[i].cells[c] \in Data
    BY <1>3, <1>11 DEF WrittenBytes
  <2>1. /\ r[i].cells = filled[i].cells
        /\ r[i].m_written \in Nat
        /\ c \in 1 .. Len(q[i].cells)
        /\ q[i].m_written \in Nat
    <3>1. i \in 1 .. Len(r) /\ i \in DOMAIN filled
      BY <1>3, <1>11, QueueShape
    <3>2. r[i] \in StreamsOf(CellsOf(Data)) /\ CursorsOK(r[i])
      BY <1>11, <3>1, QueueShape
    <3>3. r[i].cells = filled[i].cells /\ Len(filled[i].cells) = Len(q[i].cells)
      BY <1>3, <1>11, <3>1
    <3>4. r[i].m_written \in Nat /\ r[i].m_written <= Len(q[i].cells)
      BY <3>2, <3>3 DEF CursorsOK, StreamAllocSize
    <3>5. Len(q[i].cells) \in Nat /\ q[i].m_written \in Nat
      BY <1>2 DEF CursorsOK, StreamsOf
    <3> QED
      BY <3>3, <3>4, <3>5
  <2>2. c \in 1 .. q[i].m_written => q[i].cells[c] \in Data
    BY <1>1 DEF WrittenBytes
  <2>3. CASE i <= k
    <3> DEFINE part == Share(bufs, bytes, i)
    <3>1. i \in DOMAIN bufs /\ i \in 1 .. Len(q)
      BY <1>2, <1>7, <1>10, <1>13, <2>3
    <3>2. q[i].m_written + Len(part) = r[i].m_written
      BY <1>14, <2>3, <3>1
    <3>3. part \in Seq(Data) /\ Len(part) \in Nat
      BY <1>3, <3>1
    <3>4. filled[i].cells[c] =
            IF c \in q[i].m_written + 1 .. q[i].m_written + Len(part)
            THEN part[c - q[i].m_written]
            ELSE q[i].cells[c]
      BY <1>3, <2>1, <3>1
    <3> HIDE DEF part
    <3>5. CASE c <= q[i].m_written
      BY <2>1, <2>2, <3>3, <3>4, <3>5
    <3>6. CASE c > q[i].m_written
      <4>1. c - q[i].m_written \in 1 .. Len(part)
        BY <2>1, <3>2, <3>3, <3>6
      <4>2. part[c - q[i].m_written] \in Data
        BY <3>3, <4>1
      <4> QED
        BY <2>1, <3>2, <3>4, <3>6, <4>2
    <3> QED
      BY <2>1, <3>5, <3>6
  <2>4. CASE i > k
    <3>1. c \in 1 .. q[i].m_written
      BY <1>3, <1>11, <2>4
    <3>2. filled[i].cells[c] = q[i].cells[c]
      <4>1. CASE i \in DOMAIN bufs
        <5>1. c \notin q[i].m_written + 1 .. q[i].m_written + Len(Share(bufs, bytes, i))
          BY <2>1, <3>1
        <5> QED
          BY <1>3, <2>1, <4>1, <5>1
      <4>2. CASE i \notin DOMAIN bufs
        BY <1>3, <4>2
      <4> QED
        BY <4>1, <4>2
    <3> QED
      BY <2>1, <2>2, <3>1, <3>2
  <2> QED
    BY <1>2, <1>10, <2>3, <2>4
<1>16. ASSUME NEW i \in 1 .. Len(q)
       PROVE  /\ r[i].m_read = q[i].m_read
              /\ i < k => r[i].m_written = q[i].m_written + free[i]
              /\ i = k => r[i].m_written = q[i].m_written + (n - SumTo(free, k - 1))
              /\ i > k => r[i].m_written = q[i].m_written
              /\ Len(r[i].cells) = Len(q[i].cells)
  <2>1. i \in DOMAIN q /\ i \in DOMAIN filled /\ CursorsOK(q[i]) /\ q[i] \in StreamsOf(CellsOf(Data))
    BY <1>2, <1>3
  <2>2. StreamAllocSize(filled[i]) = q[i].m_written + free[i]
    <3>1. StreamAllocSize(filled[i]) = StreamAllocSize(q[i])
      BY <1>3, <2>1 DEF StreamAllocSize
    <3>2. /\ free[i] = StreamAllocSize(q[i]) - q[i].m_written
          /\ StreamAllocSize(q[i]) \in Nat /\ q[i].m_written \in Nat
      BY <1>6, <2>1, StreamSizes DEF CursorsOK
    <3> QED
      BY <3>1, <3>2
  <2> QED
    BY <1>3, <1>11, <2>1, <2>2
<1>17. ASSUME NEW i \in 1 .. Len(q), NEW c \in 1 .. q[i].m_written
       PROVE  r[i].cells[c] = q[i].cells[c]
  <2>1. /\ i \in DOMAIN q /\ i \in DOMAIN filled
        /\ q[i].m_written \in Nat /\ Len(q[i].cells) \in Nat
        /\ q[i].m_written <= Len(q[i].cells)
    BY <1>2, <1>3 DEF CursorsOK, StreamAllocSize, StreamsOf
  <2>2. c \in 1 .. Len(q[i].cells) /\ c <= q[i].m_written
    BY <2>1
  <2>3. filled[i].cells[c] = q[i].cells[c]
    <3>1. CASE i \in DOMAIN bufs
      <4>1. c \notin q[i].m_written + 1 .. q[i].m_written + Len(Share(bufs, bytes, i))
        BY <2>1, <2>2
      <4> QED
        BY <1>3, <2>2, <3>1, <4>1
    <3>2. CASE i \notin DOMAIN bufs
      BY <1>3, <2>1, <3>2
    <3> QED
      BY <3>1, <3>2
  <2> QED
    BY <1>11, <2>1, <2>3
\* The x-th byte is in the stream p it fell to, behind what was there.
<1>18. ASSUME NEW p \in 1 .. Len(q), NEW x \in 1 .. n,
              SumTo(free, p - 1) < x, x <= SumTo(free, p)
       PROVE  r[p].cells[q[p].m_written + (x - SumTo(free, p - 1))] = bytes[x]
  <2> DEFINE before == SumTo(free, p - 1)
             upTo == SumTo(free, p)
             end == IF upTo < n THEN upTo ELSE n
             y == x - before
             part == Share(bufs, bytes, p)
  <2>1. p <= k
    <3> SUFFICES ASSUME k < p
                 PROVE  FALSE
      BY <1>10
    <3> DEFINE g == p - 1
    <3>1. k \in 0 .. Len(q) /\ g \in k .. Len(q)
      BY <1>2, <1>10
    <3> HIDE DEF g
    <3>2. SumTo(free, k) <= SumTo(free, g)
      BY <1>2, <1>6, <3>1, SumToMonotone
    <3>3. SumTo(free, k) \in Nat /\ SumTo(free, g) \in Nat
      BY <1>2, <1>8, <3>1
    <3> QED
      BY <1>1, <1>10, <1>18, <3>2, <3>3 DEF g
  <2>2. p \in DOMAIN bufs /\ p - 1 \in 0 .. Len(bufs) /\ p \in 0 .. Len(bufs) /\ p - 1 \in 0 .. Len(q)
    BY <1>2, <1>7, <1>10, <1>13, <2>1
  <2>3. before \in Nat /\ upTo \in Nat
    BY <1>8, <2>2, <1>2
  <2>4. part = SubSeq(bytes, before + 1, end)
    BY <1>7, <2>2 DEF Share, n
  <2> HIDE DEF before, upTo
  <2>5. /\ end \in Nat /\ before < x /\ x <= end /\ end <= n /\ n = Len(bytes)
    BY <1>1, <1>18, <2>3 DEF before, upTo, n
  <2> HIDE DEF end
  <2>6. Len(part) = end - before /\ part[y] = bytes[x]
    <3>1. \A j \in before + 1 .. end : bytes[j] \in Data
      BY <1>1, <2>3, <2>5
    <3>2. /\ Len(SubSeq(bytes, before + 1, end)) =
               IF before + 1 <= end THEN end - (before + 1) + 1 ELSE 0
          /\ \A j \in 1 .. end - (before + 1) + 1 :
               SubSeq(bytes, before + 1, end)[j] = bytes[(before + 1) + j - 1]
      <4> DEFINE first == before + 1
      <4>1. first \in Int /\ end \in Int /\ \A j \in first .. end : bytes[j] \in Data
        BY <2>3, <2>5, <3>1
      <4> HIDE DEF first
      <4>2. /\ Len(SubSeq(bytes, first, end)) = IF first <= end THEN end - first + 1 ELSE 0
            /\ \A j \in 1 .. end - first + 1 : SubSeq(bytes, first, end)[j] = bytes[first + j - 1]
        BY <4>1, SubSeqProperties
      <4> QED
        BY <4>2 DEF first
    <3>3. /\ y \in 1 .. end - (before + 1) + 1 /\ (before + 1) + y - 1 = x
          /\ before + 1 <= end /\ end - (before + 1) + 1 = end - before
      BY <1>1, <2>3, <2>5
    <3> HIDE DEF y, part
    <3> QED
      BY <2>4, <3>2, <3>3
  <2>7. q[p].m_written + Len(part) = r[p].m_written
    BY <1>14, <2>1
  <2>8. /\ r[p].m_written \in Nat /\ r[p].m_written <= Len(q[p].cells)
        /\ q[p].m_written \in Nat /\ r[p].cells = filled[p].cells
    <3>1. p \in 1 .. Len(r) /\ p \in DOMAIN filled /\ p \in DOMAIN q
      BY <1>2, <1>3, <1>11, QueueShape
    <3>2. r[p] \in StreamsOf(CellsOf(Data)) /\ CursorsOK(r[p])
      BY <1>11, <3>1, QueueShape
    <3>3. r[p].cells = filled[p].cells /\ Len(filled[p].cells) = Len(q[p].cells)
      BY <1>3, <1>11, <3>1
    <3> QED
      BY <1>2, <3>1, <3>2, <3>3 DEF CursorsOK, StreamAllocSize
  <2>9. Len(q[p].cells) \in Nat
    BY <1>2 DEF StreamsOf
  <2> HIDE DEF part
  <2>10. y \in 1 .. Len(part) /\ Len(part) \in Nat
    BY <1>1, <2>3, <2>5, <2>6
  <2> HIDE DEF y
  <2>11. /\ q[p].m_written + y \in 1 .. Len(q[p].cells)
         /\ q[p].m_written + y \in q[p].m_written + 1 .. q[p].m_written + Len(part)
         /\ (q[p].m_written + y) - q[p].m_written = y
    <3> DEFINE w == q[p].m_written
               room == Len(q[p].cells)
               m == Len(part)
    <3>1. w \in Nat /\ room \in Nat /\ m \in Nat /\ w + m <= room /\ y \in 1 .. m
      BY <2>7, <2>8, <2>9, <2>10
    <3> HIDE DEF w, room, m
    <3>2. w + y \in 1 .. room /\ w + y \in w + 1 .. w + m /\ (w + y) - w = y
      BY <3>1
    <3> QED
      BY <3>2 DEF w, room, m
  <2>12. filled[p].cells[q[p].m_written + y] = part[y]
    BY <1>3, <2>2, <2>11 DEF part
  <2> QED
    BY <2>6, <2>8, <2>12 DEF y, before
<1>19. Filled(q, r, bytes, k) /\ k \in Nat
  <2>1. Len(r) = Len(q)
    BY <1>2, <1>3, <1>11, QueueShape
  <2> QED
    BY <1>10, <1>16, <1>17, <1>18, <2>1 DEF Filled, free, n
<1> QED
  BY <1>11, <1>12, <1>15, <1>19 DEF GoodQueue, r, n, filled

-----------------------------------------------------------------------------
(***************************************************************************)
(* What a caller is given.                                                 *)
(***************************************************************************)
LEMMA UnreadBytes ==
  ASSUME NEW Data, NEW q, GoodQueue(Data, q), NEW i \in DOMAIN q
  PROVE  /\ Unread(q[i]) \in Seq(Data)
         /\ Len(Unread(q[i])) = StreamReadableSize(q[i])
<1>1. q[i] \in StreamsOf(CellsOf(Data)) /\ CursorsOK(q[i])
  BY QueueShape DEF GoodQueue
<1>2. /\ Unread(q[i]) \in Seq(CellsOf(Data))
      /\ Len(Unread(q[i])) = StreamReadableSize(q[i])
      /\ \A j \in 1 .. StreamReadableSize(q[i]) : Unread(q[i])[j] = q[i].cells[q[i].m_read + j]
  BY <1>1, UnreadFits
<1>3. ASSUME NEW j \in 1 .. StreamReadableSize(q[i])
      PROVE  Unread(q[i])[j] \in Data
  <2>1. q[i].m_read + j \in 1 .. q[i].m_written
    BY <1>1, StreamSizes DEF CursorsOK
  <2> QED
    BY <1>2, <2>1 DEF GoodQueue, WrittenBytes
<1> DEFINE u == Unread(q[i])
           n == StreamReadableSize(q[i])
<1>4. u \in [1 .. n -> Data] /\ n \in Nat
  BY <1>1, <1>2, <1>3, StreamSizes
<1> HIDE DEF u, n
<1> QED
  BY <1>2, <1>4, FunctionIsSeq DEF u, n

LEMMA PeekBytes ==
  ASSUME NEW Data, NEW q, GoodQueue(Data, q), NEW n \in Nat, n <= getReadableSize(q)
  PROVE  peek(q, n) \in Seq(Data)
<1>1. getReadableSize(q) \in Nat
  <2> DEFINE sizes == ReadableSizes(q)
             len == Len(sizes)
  <2>1. len \in Nat /\ \A i \in 1 .. len : sizes[i] \in Nat
    BY ReadableSizesAreNat, QueueShape DEF GoodQueue
  <2>2. getReadableSize(q) = SumTo(sizes, len)
    BY DEF getReadableSize, Total
  <2> HIDE DEF sizes, len
  <2>3. \A i \in 0 .. len : SumTo(sizes, i) \in Nat
    BY <2>1, SumToNat
  <2> QED
    BY <2>1, <2>2, <2>3
<1>2. ASSUME NEW j \in 1 .. n
      PROVE  ByteAt(q, j) \in Data
  <2> DEFINE k == StopAt(ReadableSizes(q), j)
             at == j - SumTo(ReadableSizes(q), k - 1)
  <2>1. j \in Nat /\ 0 < j /\ j <= getReadableSize(q)
    BY <1>1
  <2>2. k \in 1 .. Len(q) /\ at \in 1 .. StreamReadableSize(q[k])
    BY <2>1, ReadStop DEF GoodQueue
  <2>3. ByteAt(q, j) = Unread(q[k])[at]
    BY DEF ByteAt
  <2> HIDE DEF k, at
  <2>4. k \in DOMAIN q
    BY <2>2, QueueShape DEF GoodQueue
  <2>5. Unread(q[k]) \in Seq(Data) /\ Len(Unread(q[k])) = StreamReadableSize(q[k])
    BY <2>4, UnreadBytes
  <2> QED
    BY <2>2, <2>3, <2>5
<1>3. peek(q, n) \in [1 .. n -> Data]
  BY <1>2 DEF peek
<1> QED
  BY <1>3, FunctionIsSeq

LEMMA DetachGood ==
  ASSUME NEW Data, NEW q, GoodQueue(Data, q), q # << >>
  PROVE  GoodQueue(Data, Tail(q)) /\ Unread(Head(q)) \in Seq(Data)
<1>1. q \in Seq(StreamsOf(CellsOf(Data))) /\ Len(q) \in Nat /\ 1 \in 1 .. Len(q) /\ 1 \in DOMAIN q
  BY DEF GoodQueue, WellFormed
<1>2. GoodQueue(Data, SubSeq(q, 1 + 1, Len(q)))
  BY <1>1, RestGood
<1>3. Tail(q) = SubSeq(q, 1 + 1, Len(q))
  BY <1>1
<1>4. Unread(q[1]) \in Seq(Data)
  BY <1>1, UnreadBytes
<1>5. Head(q) = q[1]
  BY <1>1
<1>6. GoodQueue(Data, Tail(q))
  BY <1>2, <1>3, Zenon
<1>7. Unread(Head(q)) \in Seq(Data)
  BY <1>4, <1>5, Zenon
<1> QED
  BY <1>6, <1>7

LEMMA BuffersFresh ==
  ASSUME NEW Data, NEW q, WellFormed(Data, q)
  PROVE  FreshBuffers(q, buffers(q))
<1>1. Len(q) \in Nat /\ DOMAIN q = 1 .. Len(q)
  BY QueueShape
<1>2. \A i \in 1 .. Len(q) : q[i].m_written \in Nat /\ StreamWritableSize(q[i]) \in Nat
  BY QueueShape, StreamSizes DEF CursorsOK
<1>3. buffers(q) \in [1 .. Len(q) -> [from : Nat, size : Nat]]
  BY <1>1, <1>2 DEF buffers
<1>4. buffers(q) \in Seq([from : Nat, size : Nat]) /\ Len(buffers(q)) = Len(q)
  BY <1>1, <1>3, FunctionIsSeq
<1>5. \A i \in DOMAIN buffers(q) :
        buffers(q)[i].from = q[i].m_written /\ buffers(q)[i].size = StreamWritableSize(q[i])
  BY DEF buffers
<1> QED
  BY <1>1, <1>4, <1>5 DEF FreshBuffers

LEMMA EmptyGood ==
  ASSUME NEW Data
  PROVE  GoodQueue(Data, << >>)
BY DEF GoodQueue, WellFormed, WrittenBytes, PackedQueue, NoDrainedStream, OnlyFrontRead,
       FilledInOrder, HasMemory

-----------------------------------------------------------------------------
(***************************************************************************)
(* What the methods of RecvQueue do to the bytes. The two queues read      *)
(* their streams in the same way, so Contents and Bytes are one.           *)
(***************************************************************************)
LEMMA SameReading ==
  ASSUME NEW q
  PROVE  /\ ReadableSizes(q) = UnreadSizes(q)
         /\ getReadableSize(q) = Backlog(q)
         /\ Contents(q) = Bytes(q)
         /\ \A n : peek(q, n) = FirstBytes(q, n)
BY DEF ReadableSizes, UnreadSizes, getReadableSize, Backlog, Contents, Bytes, peek, FirstBytes,
       ByteAt, BacklogByte

LEMMA GoodIsSound ==
  ASSUME NEW Data, NEW q, GoodQueue(Data, q)
  PROVE  /\ SoundQueue(Data, q)
         /\ \A i \in 1 .. Len(q) :
              /\ q[i].m_read \in Nat /\ q[i].m_written \in Nat
              /\ q[i].m_read <= q[i].m_written
              /\ StreamReadableSize(q[i]) = q[i].m_written - q[i].m_read
<1>1. /\ q \in Seq(StreamsOf(CellsOf(Data))) /\ DOMAIN q = 1 .. Len(q)
      /\ \A i \in 1 .. Len(q) : q[i] \in StreamsOf(CellsOf(Data)) /\ CursorsOK(q[i])
  BY QueueShape DEF GoodQueue, WellFormed
<1>2. \A i \in 1 .. Len(q) : \A c \in 1 .. q[i].m_written : q[i].cells[c] \in Data
  BY <1>1 DEF GoodQueue, WrittenBytes
<1>3. ASSUME NEW i \in 1 .. Len(q)
      PROVE  SoundStream(Data, q[i])
  <2>1. q[i].m_read \in Nat /\ q[i].m_written \in Nat
    BY <1>1 DEF CursorsOK
  <2>2. \A c \in q[i].m_read + 1 .. q[i].m_written : c \in 1 .. q[i].m_written
    BY <2>1
  <2> QED
    BY <1>1, <1>2, <2>2 DEF SoundStream
<1> QED
  BY <1>1, <1>3 DEF SoundQueue, CursorsOK, StreamReadableSize

\* How many bytes of a completed read the first i streams have taken.
Taken(q, bytes, k, i) == IF i < k THEN SumTo(WritableSizes(q), i) ELSE Len(bytes)

LEMMA FilledSums ==
  ASSUME NEW Data, NEW q, GoodQueue(Data, q), NEW r, GoodQueue(Data, r),
         NEW bytes \in Seq(Data), NEW k \in Nat, Filled(q, r, bytes, k)
  PROVE  \A i \in 0 .. Len(q) :
           SumTo(UnreadSizes(r), i) = SumTo(UnreadSizes(q), i) + Taken(q, bytes, k, i)
<1> DEFINE free == WritableSizes(q)
           n == Len(bytes)
           old(m) == SumTo(UnreadSizes(q), m)
           new(m) == SumTo(UnreadSizes(r), m)
           taken(m) == Taken(q, bytes, k, m)
           len == Len(q)
           S == {i \in Nat : i <= len => new(i) = old(i) + taken(i)}
<1>1. /\ SoundQueue(Data, q) /\ SoundQueue(Data, r) /\ len \in Nat /\ Len(r) = len /\ n \in Nat
      /\ k \in 1 .. len
  BY GoodIsSound, SoundShape DEF Filled
<1>2. /\ \A i \in 0 .. len : old(i) \in Nat /\ new(i) \in Nat
      /\ old(0) = 0 /\ new(0) = 0
      /\ \A i \in 1 .. len : old(i) = old(i - 1) + StreamReadableSize(q[i])
      /\ \A i \in 1 .. len : new(i) = new(i - 1) + StreamReadableSize(r[i])
  BY <1>1, SumsOfQueue
<1>3. /\ \A i \in 1 .. len : free[i] \in Nat
      /\ \A i \in 0 .. len : SumTo(free, i) \in Nat
  BY <1>1, WritableSizesAreNat, SumToNat DEF GoodQueue
<1>4. ASSUME NEW i \in 1 .. len
      PROVE  /\ i < k => StreamReadableSize(r[i]) = StreamReadableSize(q[i]) + free[i]
             /\ i = k => StreamReadableSize(r[i]) = StreamReadableSize(q[i]) + (n - SumTo(free, k - 1))
             /\ i > k => StreamReadableSize(r[i]) = StreamReadableSize(q[i])
             /\ StreamReadableSize(q[i]) \in Nat
  <2>1. /\ q[i].m_read \in Nat /\ q[i].m_written \in Nat /\ q[i].m_read <= q[i].m_written
        /\ StreamReadableSize(q[i]) = q[i].m_written - q[i].m_read
        /\ StreamReadableSize(r[i]) = r[i].m_written - r[i].m_read
        /\ r[i].m_read = q[i].m_read
    BY <1>1, GoodIsSound DEF Filled
  <2>2. /\ i < k => r[i].m_written = q[i].m_written + free[i]
        /\ i = k => r[i].m_written = q[i].m_written + (n - SumTo(free, k - 1))
        /\ i > k => r[i].m_written = q[i].m_written
    BY DEF Filled
  <2>3. free[i] \in Nat /\ SumTo(free, k - 1) \in Nat
    BY <1>1, <1>3
  <2> HIDE DEF free, n
  <2> QED
    BY <1>1, <2>1, <2>2, <2>3
<1>5. ASSUME NEW i \in 0 .. len
      PROVE  taken(i) \in Nat
  BY <1>1, <1>3 DEF Taken
<1>6. ASSUME NEW i \in 1 .. len
      PROVE  /\ i < k => taken(i) = taken(i - 1) + free[i]
             /\ i = k => taken(i) = taken(i - 1) + (n - SumTo(free, k - 1))
             /\ i > k => taken(i) = taken(i - 1)
  <2>1. SumTo(free, (i - 1) + 1) = SumTo(free, i - 1) + free[(i - 1) + 1]
    BY SumToStep
  <2>2. SumTo(free, k - 1) \in Nat
    BY <1>1, <1>3
  <2> QED
    BY <1>1, <2>1, <2>2 DEF Taken
<1> HIDE DEF old, new, taken
<1>7. 0 \in S
  <2>1. taken(0) = 0
    BY <1>1, SumToZero DEF taken, Taken
  <2> QED
    BY <1>2, <2>1
<1>8. ASSUME NEW i \in Nat, i \in S
      PROVE  i + 1 \in S
  <2> SUFFICES ASSUME i + 1 <= len
               PROVE  new(i + 1) = old(i + 1) + taken(i + 1)
    OBVIOUS
  <2> DEFINE j == i + 1
  <2>1. j \in 1 .. len /\ j - 1 = i /\ i \in 0 .. len /\ j \in 0 .. len
    BY <1>1
  <2> HIDE DEF j
  <2>2. new(i) = old(i) + taken(i)
    BY <1>8, <2>1
  <2>3. /\ old(i) \in Nat /\ new(i) \in Nat /\ taken(i) \in Nat /\ taken(j) \in Nat
        /\ old(j) = old(i) + StreamReadableSize(q[j])
        /\ new(j) = new(i) + StreamReadableSize(r[j])
    BY <1>2, <1>5, <2>1
  <2>4. free[j] \in Nat /\ SumTo(free, k - 1) \in Nat
    BY <1>1, <1>3, <2>1
  <2> HIDE DEF free, n
  <2>5. CASE j < k
    BY <1>4, <1>6, <2>1, <2>2, <2>3, <2>4, <2>5 DEF j
  <2>6. CASE j = k
    BY <1>1, <1>4, <1>6, <2>1, <2>2, <2>3, <2>4, <2>6 DEF j
  <2>7. CASE j > k
    BY <1>4, <1>6, <2>1, <2>2, <2>3, <2>7 DEF j
  <2> QED
    BY <1>1, <2>1, <2>5, <2>6, <2>7 DEF j
<1>9. Nat \subseteq S
  <2> HIDE DEF S
  <2> QED
    BY <1>7, <1>8, SetInduction
<1> QED
  BY <1>9 DEF old, new, taken

\* What a completed read leaves unread: what was there, and the bytes that came.
LEMMA FilledBytes ==
  ASSUME NEW Data, NEW q, GoodQueue(Data, q), NEW r, GoodQueue(Data, r),
         NEW bytes \in Seq(Data), NEW k \in Nat, Filled(q, r, bytes, k)
  PROVE  Bytes(r) = Bytes(q) \o bytes
<1> DEFINE free == WritableSizes(q)
           n == Len(bytes)
           old(m) == SumTo(UnreadSizes(q), m)
           new(m) == SumTo(UnreadSizes(r), m)
           taken(m) == Taken(q, bytes, k, m)
           len == Len(q)
           B == Backlog(q)
<1>1. /\ SoundQueue(Data, q) /\ SoundQueue(Data, r) /\ len \in Nat /\ Len(r) = len /\ n \in Nat
      /\ k \in 1 .. len
      /\ DOMAIN q = 1 .. len
  BY GoodIsSound, SoundShape DEF Filled
<1>2. /\ \A i \in 0 .. len : old(i) \in Nat /\ new(i) \in Nat
      /\ \A i \in 1 .. len : old(i) = old(i - 1) + StreamReadableSize(q[i])
      /\ B = old(len) /\ B \in Nat
      /\ Backlog(r) = new(len)
  BY <1>1, SumsOfQueue
<1>3. /\ free \in Seq(Nat) /\ Len(free) = len
      /\ \A i \in 1 .. len : free[i] = StreamWritableSize(q[i]) /\ free[i] \in Nat
      /\ \A i \in 0 .. len : SumTo(free, i) \in Nat
  BY <1>1, WritableSizesAreNat, SumToNat DEF GoodQueue
<1>4. \A i \in 0 .. len : new(i) = old(i) + taken(i)
  BY FilledSums
<1>5. /\ \A m \in 0 .. len : m < k => taken(m) = SumTo(free, m)
      /\ \A m \in 0 .. len : ~(m < k) => taken(m) = n
      /\ SumTo(free, k - 1) < n
      /\ n <= SumTo(free, k)
  BY DEF Taken, Filled
<1>6. /\ \A i \in 1 .. len : r[i].m_read = q[i].m_read
      /\ \A i \in 1 .. len : \A c \in 1 .. q[i].m_written : r[i].cells[c] = q[i].cells[c]
      /\ \A p \in 1 .. len, x \in 1 .. n :
           SumTo(free, p - 1) < x /\ x <= SumTo(free, p) =>
             r[p].cells[q[p].m_written + (x - SumTo(free, p - 1))] = bytes[x]
  BY DEF Filled
<1>7. \A i \in 1 .. len :
        /\ q[i].m_read \in Nat /\ q[i].m_written \in Nat
        /\ q[i].m_read <= q[i].m_written
        /\ StreamReadableSize(q[i]) = q[i].m_written - q[i].m_read
  BY GoodIsSound
\* A stream is written to only when those before it are full.
<1>8. \A i, j \in 1 .. len : i < j /\ q[j].m_written > 0 => free[i] = 0
  BY <1>1, <1>3 DEF GoodQueue, PackedQueue, FilledInOrder
<1>9. ASSUME NEW p \in 1 .. len, NEW j \in Nat, new(p - 1) < j, j <= new(p)
      PROVE  BacklogByte(r, j) = r[p].cells[r[p].m_read + (j - new(p - 1))]
  BY <1>1, <1>9, BacklogByteAt
<1>10. ASSUME NEW p \in 1 .. len, NEW j \in Nat, old(p - 1) < j, j <= old(p)
       PROVE  BacklogByte(q, j) = q[p].cells[q[p].m_read + (j - old(p - 1))]
  BY <1>1, <1>10, BacklogByteAt
<1>11. \A j \in 1 .. B : \E p \in 1 .. len : old(p - 1) < j /\ j <= old(p)
  BY <1>1, PlaceFound
<1>12. \A m \in 0 .. len : (\A i \in 1 .. m : free[i] = 0) => SumTo(free, m) = 0
  BY <1>1, SumToNothing
<1>13. \A m \in 0 .. len : (\A i \in m + 1 .. len : q[i].m_written = 0) => old(len) = old(m)
  <2> TAKE m \in 0 .. len
  <2> HAVE \A i \in m + 1 .. len : q[i].m_written = 0
  <2> DEFINE sizes == UnreadSizes(q)
  <2>1. \A i \in 1 .. len : sizes[i] = StreamReadableSize(q[i]) /\ sizes[i] \in Nat
    BY <1>1, UnreadSizesAreNat
  <2>2. ASSUME NEW i \in m + 1 .. len
        PROVE  sizes[i] = 0
    <3>1. i \in 1 .. len /\ q[i].m_written = 0
      BY <1>1
    <3> HIDE DEF sizes
    <3>2. /\ q[i].m_read \in Nat /\ q[i].m_read <= q[i].m_written
          /\ StreamReadableSize(q[i]) = q[i].m_written - q[i].m_read
          /\ sizes[i] = StreamReadableSize(q[i])
      BY <1>7, <2>1, <3>1
    <3> QED
      BY <3>1, <3>2
  <2> HIDE DEF sizes
  <2>3. SumTo(sizes, len) = SumTo(sizes, m)
    BY <1>1, <2>1, <2>2, SumToRest
  <2> QED
    BY <2>3 DEF sizes
<1>14. \A h, m \in 0 .. len : h <= m => SumTo(free, h) <= SumTo(free, m)
  <2> TAKE h, m \in 0 .. len
  <2> HAVE h <= m
  <2>1. m \in h .. len /\ \A i \in 1 .. len : free[i] \in Nat
    BY <1>1, <1>3
  <2>2. SumTo(free, h) <= SumTo(free, m)
    <3>1. PICK g \in Nat : g = m
      BY <1>1
    <3>2. h \in 0 .. g /\ g \in h .. g /\ \A i \in 1 .. g : free[i] \in Nat
      BY <1>1, <2>1, <3>1
    <3> HIDE DEF free
    <3>3. SumTo(free, h) <= SumTo(free, g)
      BY <3>2, SumToMonotone
    <3> QED
      BY <3>1, <3>3
  <2> QED
    BY <2>2
<1> HIDE DEF free, n, old, new, taken, len, B
<1>15. ASSUME NEW j \in 1 .. B
       PROVE  BacklogByte(r, j) = BacklogByte(q, j)
  <2>1. PICK p \in 1 .. len : old(p - 1) < j /\ j <= old(p)
    BY <1>11
  <2>2. /\ p - 1 \in 0 .. len /\ p \in 0 .. len /\ j \in Nat
        /\ old(p - 1) \in Nat /\ old(p) \in Nat
        /\ old(p) = old(p - 1) + StreamReadableSize(q[p])
        /\ q[p].m_read \in Nat /\ q[p].m_written \in Nat
        /\ StreamReadableSize(q[p]) = q[p].m_written - q[p].m_read
    BY <1>1, <1>2, <1>7
  <2>3. q[p].m_written > 0
    BY <2>1, <2>2
  <2>4. \A i \in 1 .. p - 1 : free[i] = 0
    BY <1>1, <1>8, <2>3
  <2>5. taken(p - 1) = 0
    <3>1. CASE p - 1 < k
      BY <1>5, <1>12, <2>2, <2>4, <3>1
    <3>2. CASE ~(p - 1 < k)
      <4>1. k \in 0 .. len /\ \A i \in 1 .. k : free[i] = 0
        BY <1>1, <2>4, <3>2
      <4>2. SumTo(free, k) = 0
        BY <1>12, <4>1
      <4>3. SumTo(free, k - 1) \in Nat
        <5>1. k - 1 \in 0 .. len
          BY <1>1
        <5> QED
          BY <1>3, <5>1
      <4> QED
        BY <1>1, <1>5, <4>2, <4>3
    <3> QED
      BY <3>1, <3>2
  <2>6. taken(p) \in Nat
    BY <1>1, <1>3, <1>5, <2>2
  <2>7. new(p - 1) = old(p - 1) /\ j <= new(p)
    <3>1. new(p - 1) = old(p - 1) + taken(p - 1) /\ new(p) = old(p) + taken(p)
      BY <1>4, <2>2
    <3> QED
      BY <2>1, <2>2, <2>5, <2>6, <3>1
  <2>8. BacklogByte(r, j) = r[p].cells[r[p].m_read + (j - old(p - 1))]
    BY <1>9, <2>1, <2>2, <2>7
  <2>9. BacklogByte(q, j) = q[p].cells[q[p].m_read + (j - old(p - 1))]
    BY <1>10, <2>1, <2>2
  <2>10. q[p].m_read + (j - old(p - 1)) \in 1 .. q[p].m_written
    <3> DEFINE from == q[p].m_read
               to == q[p].m_written
               o == old(p - 1)
    <3>1. from \in Nat /\ to \in Nat /\ o \in Nat /\ j \in Nat /\ o < j /\ j <= o + (to - from)
      BY <2>1, <2>2
    <3> HIDE DEF from, to, o
    <3>2. from + (j - o) \in 1 .. to
      BY <3>1
    <3> QED
      BY <3>2 DEF from, to, o
  <2> QED
    BY <1>6, <2>8, <2>9, <2>10
<1>16. ASSUME NEW x \in 1 .. n
       PROVE  BacklogByte(r, B + x) = bytes[x]
  <2>1. PICK p \in 1 .. len : SumTo(free, p - 1) < x /\ x <= SumTo(free, p)
    <3>1. x \in Nat /\ 0 < x /\ x <= Total(free)
      <4>1. SumTo(free, k) <= SumTo(free, len) /\ SumTo(free, k) \in Nat /\ SumTo(free, len) \in Nat
        BY <1>1, <1>3, <1>14
      <4> QED
        BY <1>1, <1>3, <1>5, <4>1 DEF Total
    <3> QED
      BY <1>3, <3>1, StopAtFound
  <2>2. /\ p - 1 \in 0 .. len /\ p \in 0 .. len /\ x \in Nat /\ x <= n
        /\ old(p - 1) \in Nat /\ old(p) \in Nat
        /\ old(p) = old(p - 1) + StreamReadableSize(q[p])
        /\ q[p].m_read \in Nat /\ q[p].m_written \in Nat
        /\ q[p].m_read <= q[p].m_written
        /\ StreamReadableSize(q[p]) = q[p].m_written - q[p].m_read
        /\ SumTo(free, p - 1) \in Nat /\ SumTo(free, p) \in Nat /\ free[p] \in Nat
    <3>1. p - 1 \in 0 .. len /\ p \in 0 .. len /\ x \in Nat /\ x <= n
      BY <1>1
    <3>2. /\ old(p - 1) \in Nat /\ old(p) \in Nat
          /\ old(p) = old(p - 1) + StreamReadableSize(q[p])
      BY <1>2, <3>1
    <3>3. SumTo(free, p - 1) \in Nat /\ SumTo(free, p) \in Nat /\ free[p] \in Nat
      BY <1>3, <3>1
    <3> QED
      BY <1>7, <3>1, <3>2, <3>3
  <2>3. free[p] > 0
    <3>1. SumTo(free, (p - 1) + 1) = SumTo(free, p - 1) + free[(p - 1) + 1]
      BY <2>2, SumToStep
    <3> QED
      BY <2>1, <2>2, <3>1
  <2>4. \A i \in p + 1 .. len : q[i].m_written = 0
    <3> TAKE i \in p + 1 .. len
    <3>1. i \in 1 .. len /\ p < i
      BY <1>1
    <3> QED
      BY <1>7, <1>8, <2>3, <3>1
  <2>5. B = old(p)
    BY <1>2, <1>13, <2>2, <2>4
  <2>6. taken(p - 1) = SumTo(free, p - 1)
    <3>1. p - 1 < k
      <4> SUFFICES ASSUME k <= p - 1
                   PROVE  FALSE
        BY <1>1
      <4>1. SumTo(free, k) <= SumTo(free, p - 1) /\ SumTo(free, k) \in Nat
        BY <1>1, <1>3, <1>14, <2>2
      <4> QED
        BY <1>1, <1>5, <2>1, <2>2, <4>1
    <3> QED
      BY <1>5, <2>2, <3>1
  <2>7. taken(p) \in Nat /\ x <= taken(p)
    BY <1>1, <1>5, <2>1, <2>2
  <2>8. new(p - 1) = old(p - 1) + SumTo(free, p - 1) /\ new(p) = B + taken(p)
    BY <1>4, <2>2, <2>5, <2>6
  <2>9. /\ B + x \in Nat /\ new(p - 1) < B + x /\ B + x <= new(p)
        /\ q[p].m_read + ((B + x) - new(p - 1)) = q[p].m_written + (x - SumTo(free, p - 1))
    <3> DEFINE from == q[p].m_read
               to == q[p].m_written
               o == old(p - 1)
               s == SumTo(free, p - 1)
               w == new(p - 1)
               t == taken(p)
    <3>1. /\ from \in Nat /\ to \in Nat /\ o \in Nat /\ s \in Nat /\ from <= to
          /\ B = o + (to - from) /\ w = o + s /\ s < x /\ x <= t /\ t \in Nat
          /\ new(p) = B + t /\ x \in Nat
      BY <2>1, <2>2, <2>5, <2>7, <2>8
    <3> HIDE DEF from, to, o, s, w, t
    <3>2. /\ B + x \in Nat /\ w < B + x /\ B + x <= new(p)
          /\ from + ((B + x) - w) = to + (x - s)
      BY <3>1
    <3> QED
      BY <3>2 DEF from, to, s, w
  <2>10. BacklogByte(r, B + x) = r[p].cells[r[p].m_read + ((B + x) - new(p - 1))]
    BY <1>9, <2>9
  <2> QED
    BY <1>6, <2>1, <2>9, <2>10
<1>17. Backlog(r) = B + n
  BY <1>1, <1>2, <1>4, <1>5
<1> QED
  BY <1>1, <1>15, <1>16, <1>17, BytesAppended DEF B, n

LEMMA PeekIsLook ==
  ASSUME NEW Data, NEW q, GoodQueue(Data, q), NEW n \in 0 .. Backlog(q)
  PROVE  /\ peek(q, n) = SubSeq(Bytes(q), 1, n)
         /\ peek(q, n) \in Seq(Data)
         /\ Len(peek(q, n)) = n
<1>1. SoundQueue(Data, q)
  BY GoodIsSound
<1> QED
  BY <1>1, SameReading, FirstBytesPrefix, FirstBytesType

\* prepare adds room and no byte.
LEMMA PrepareBytes ==
  ASSUME NEW Data, NEW q, GoodQueue(Data, q), NEW size \in Nat \ {0}
  PROVE  Bytes(prepare(q, size)) = Bytes(q)
<1> DEFINE n == Larger(size, DEFAULT_BUF_SIZE)
           s == NewStream(n)
<1>1. SoundQueue(Data, q)
  BY GoodIsSound
<1>2. n \in Nat /\ 0 < n
  BY DefaultBufAssumption DEF Larger
<1> HIDE DEF n
<1>3. s \in StreamsOf(CellsOf(Data)) /\ CursorsOK(s) /\ s.m_read = 0 /\ s.m_written = 0
  BY <1>2, NewStreamFits DEF CellsOf
<1> HIDE DEF s
<1>4. SoundStream(Data, s) /\ StreamReadableSize(s) = 0
  BY <1>3 DEF SoundStream, StreamReadableSize
<1>5. Unread(s) \in Seq(Data) /\ Len(Unread(s)) = 0
  BY <1>4, SoundUnread
<1>6. Unread(s) = << >>
  BY <1>5
<1>7. Bytes(q) \in Seq(Data)
  BY <1>1, BytesType
<1>8. Bytes(Append(q, s)) = Bytes(q)
  <2>1. Bytes(Append(q, s)) = Bytes(q) \o Unread(s)
    BY <1>1, <1>4, PushIsPut
  <2> QED
    BY <1>6, <1>7, <2>1, ConcatEmptySeq
<1>9. prepare(q, size) = Append(q, s) \/ prepare(q, size) = q
  BY DEF prepare, n, s
<1> QED
  BY <1>8, <1>9

\* pop is consume, but for the last stream when it is rewound, and then nothing
\* is left to read.
LEMMA PopBytes ==
  ASSUME NEW Data, NEW q, GoodQueue(Data, q), NEW n \in 1 .. Backlog(q)
  PROVE  /\ GoodQueue(Data, pop(q, n))
         /\ Bytes(pop(q, n)) = SubSeq(Bytes(q), n + 1, Len(Bytes(q)))
<1>1. SoundQueue(Data, q) /\ Backlog(q) \in Nat /\ Len(q) \in Nat
  BY GoodIsSound, SumsOfQueue, SoundShape
<1>2. n \in Nat /\ 0 < n /\ n <= getReadableSize(q)
  BY <1>1, SameReading
<1>3. GoodQueue(Data, pop(q, n))
  BY <1>2, PopGood
<1>4. Bytes(consume(q, n)) = SubSeq(Bytes(q), n + 1, Len(Bytes(q)))
  BY <1>1, SentIsTake
<1> DEFINE k == StopAt(UnreadSizes(q), n)
           s == StreamConsume(q[k], n - SumTo(UnreadSizes(q), k - 1))
           rest == SubSeq(q, k + 1, Len(q))
<1>5. k \in 1 .. Len(q) /\ SoundStream(Data, s)
  BY <1>1, StoppedStream
<1>6. StreamReadableSize(s) \in Nat
  BY <1>5, SoundUnread
<1>7. consume(q, n) = IF StreamReadableSize(s) = 0 THEN rest ELSE << s >> \o rest
  BY <1>2 DEF consume
<1>8. pop(q, n) =
        IF StreamReadableSize(s) > 0 THEN << s >> \o rest
        ELSE IF k = Len(q) /\ StreamAllocSize(s) = DEFAULT_BUF_SIZE THEN << StreamReset(s) >>
        ELSE rest
  BY SameReading DEF pop
<1> HIDE DEF s, k
<1>9. CASE StreamReadableSize(s) = 0 /\ k = Len(q) /\ StreamAllocSize(s) = DEFAULT_BUF_SIZE
  <2> DEFINE t == StreamReset(s)
             r == << t >>
  <2>1. pop(q, n) = r
    BY <1>8, <1>9
  <2>2. SoundQueue(Data, r)
    BY <1>3, <2>1, GoodIsSound
  <2>3. StreamReadableSize(t) = 0
    BY DEF StreamReset, StreamReadableSize
  <2>4. Len(r) = 1 /\ r[1] = t
    OBVIOUS
  <2> HIDE DEF r, t
  <2>5. Backlog(r) = 0
    <3>1. /\ SumTo(UnreadSizes(r), 0) = 0
          /\ \A i \in 1 .. Len(r) :
               SumTo(UnreadSizes(r), i) = SumTo(UnreadSizes(r), i - 1) + StreamReadableSize(r[i])
          /\ Backlog(r) = SumTo(UnreadSizes(r), Len(r))
      BY <2>2, SumsOfQueue
    <3>2. PICK one \in 1 .. Len(r) : one = 1 /\ one - 1 = 0
      BY <2>4
    <3>3. SumTo(UnreadSizes(r), one) = SumTo(UnreadSizes(r), one - 1) + StreamReadableSize(r[one])
      BY <3>1
    <3> QED
      BY <2>3, <2>4, <3>1, <3>2, <3>3
  <2>6. Bytes(r) = << >>
    BY <2>2, <2>5, BytesType
  <2>7. Bytes(consume(q, n)) = << >>
    <3>1. rest = << >>
      <4>1. k + 1 > Len(q) /\ k + 1 \in Nat
        BY <1>1, <1>5, <1>9
      <4> QED
        BY <1>1, <4>1 DEF SoundQueue
    <3>2. Backlog(<< >>) = 0 /\ SoundQueue(Data, << >>)
      BY EmptySound
    <3>3. Bytes(<< >>) = << >>
      BY <3>2, BytesType
    <3> QED
      BY <1>7, <1>9, <3>1, <3>3
  <2> QED
    BY <1>3, <1>4, <2>1, <2>6, <2>7
<1>10. CASE ~(StreamReadableSize(s) = 0 /\ k = Len(q) /\ StreamAllocSize(s) = DEFAULT_BUF_SIZE)
  <2>1. pop(q, n) = consume(q, n)
    BY <1>6, <1>7, <1>8, <1>10
  <2> QED
    BY <1>3, <1>4, <2>1
<1> QED
  BY <1>9, <1>10

\* The front stream holds the first bytes, and the others hold the rest.
LEMMA FrontBytes ==
  ASSUME NEW Data, NEW q, SoundQueue(Data, q), q # << >>
  PROVE  /\ SoundQueue(Data, Tail(q))
         /\ SoundStream(Data, Head(q))
         /\ StreamReadableSize(Head(q)) \in 0 .. Backlog(q)
         /\ Unread(Head(q)) = SubSeq(Bytes(q), 1, StreamReadableSize(Head(q)))
         /\ Bytes(Tail(q)) = SubSeq(Bytes(q), StreamReadableSize(Head(q)) + 1, Len(Bytes(q)))
<1> DEFINE s == Head(q)
           r == Tail(q)
           m == StreamReadableSize(s)
<1>1. q \in Seq(StreamsOf(CellsOf(Data))) /\ Len(q) \in Nat /\ Len(q) >= 1
  <2>1. q \in Seq(StreamsOf(CellsOf(Data)))
    BY DEF SoundQueue
  <2> QED
    BY <2>1
<1>2. SoundQueue(Data, q) /\ SoundQueue(Data, r) /\ Len(q) \in Nat /\ Len(q) >= 1
  <2>1. r = SubSeq(q, 1 + 1, Len(q))
    BY <1>1
  <2>2. PICK one \in 1 .. Len(q) : one = 1
    BY <1>1
  <2>3. SoundQueue(Data, SubSeq(q, one + 1, Len(q)))
    BY RestOfQueue
  <2> QED
    BY <1>1, <2>1, <2>2, <2>3
<1>3. /\ s = q[1] /\ Len(r) = Len(q) - 1 /\ \A i \in 1 .. Len(r) : r[i] = q[1 + i]
  BY <1>2 DEF SoundQueue
<1> HIDE DEF s, r
<1>4. SoundStream(Data, s) /\ m \in Nat
  BY <1>2, <1>3, SoundShape, SoundUnread
<1>5. /\ SumTo(UnreadSizes(q), 0) = 0
      /\ SumTo(UnreadSizes(q), 1) = m
      /\ Backlog(q) \in Nat /\ Backlog(q) = SumTo(UnreadSizes(q), Len(q))
  <2>1. /\ SumTo(UnreadSizes(q), 0) = 0
        /\ \A i \in 1 .. Len(q) :
             SumTo(UnreadSizes(q), i) = SumTo(UnreadSizes(q), i - 1) + StreamReadableSize(q[i])
        /\ Backlog(q) = SumTo(UnreadSizes(q), Len(q)) /\ Backlog(q) \in Nat
    BY <1>2, SumsOfQueue
  <2>2. PICK one \in 1 .. Len(q) : one = 1 /\ one - 1 = 0
    BY <1>2
  <2>3. SumTo(UnreadSizes(q), one) = SumTo(UnreadSizes(q), one - 1) + StreamReadableSize(q[one])
    BY <2>1
  <2> QED
    BY <1>3, <1>4, <2>1, <2>2, <2>3
<1>6. m \in 0 .. Backlog(q)
  <2> DEFINE sizes == UnreadSizes(q)
             len == Len(q)
  <2>1. len \in Nat /\ \A i \in 1 .. len : sizes[i] \in Nat
    BY <1>2, UnreadSizesAreNat
  <2>2. PICK one \in 0 .. len : one = 1 /\ len \in one .. len
    BY <1>2
  <2> HIDE DEF sizes, len
  <2>3. SumTo(sizes, one) <= SumTo(sizes, len)
    BY <2>1, <2>2, SumToMonotone
  <2> QED
    BY <1>4, <1>5, <2>2, <2>3 DEF sizes, len
<1> HIDE DEF m
<1>7. Shifted(q, r, 1, m)
  <2>1. Len(q) = 1 + Len(r) /\ Len(r) \in Nat
    BY <1>2, <1>3
  <2>2. Len(r) = 0 => SumTo(UnreadSizes(q), 1) = m
    BY <1>5
  <2>3. SumTo(UnreadSizes(q), 1) <= m
    BY <1>4, <1>5
  <2>4. 1 <= Len(r) => StreamReadableSize(r[1]) = SumTo(UnreadSizes(q), 1 + 1) - m
    <3> SUFFICES ASSUME 1 <= Len(r)
                 PROVE  StreamReadableSize(r[1]) = SumTo(UnreadSizes(q), 1 + 1) - m
      OBVIOUS
    <3>1. PICK two \in 1 .. Len(q) : two = 1 + 1 /\ two - 1 = 1
      BY <2>1
    <3>2. SumTo(UnreadSizes(q), two) = SumTo(UnreadSizes(q), two - 1) + StreamReadableSize(q[two])
      BY <1>2, SumsOfQueue
    <3>3. PICK one \in 1 .. Len(r) : one = 1
      BY <2>1
    <3>4. r[1] = q[two]
      BY <1>3, <3>1, <3>3
    <3>5. StreamReadableSize(q[two]) \in Nat
      BY <1>2, SoundShape, SoundUnread
    <3> QED
      BY <1>4, <1>5, <3>1, <3>2, <3>4, <3>5
  <2> QED
    BY <1>3, <2>1, <2>2, <2>3, <2>4 DEF Shifted
<1>8. Bytes(r) = SubSeq(Bytes(q), m + 1, Len(Bytes(q)))
  <2>1. PICK d \in Nat : d = 1
    OBVIOUS
  <2>2. Shifted(q, r, d, m)
    BY <1>7, <2>1
  <2> QED
    BY <1>2, <1>6, <2>2, BytesDropped
<1>9. Unread(s) = SubSeq(Bytes(q), 1, m)
  <2>1. /\ Unread(s) \in Seq(Data) /\ Len(Unread(s)) = m
        /\ \A j \in 1 .. m : Unread(s)[j] = s.cells[s.m_read + j]
    BY <1>4, SoundUnread DEF m
  <2>2. FirstBytes(q, m) = SubSeq(Bytes(q), 1, m)
    BY <1>2, <1>6, FirstBytesPrefix
  <2>3. FirstBytes(q, m) \in Seq(Data) /\ Len(FirstBytes(q, m)) = m
    BY <1>2, <1>6, FirstBytesType
  <2>4. ASSUME NEW j \in 1 .. m
        PROVE  FirstBytes(q, m)[j] = Unread(s)[j]
    <3>1. FirstBytes(q, m)[j] = BacklogByte(q, j)
      BY DEF FirstBytes
    <3>2. PICK one \in 1 .. Len(q) : one = 1 /\ one - 1 = 0
      BY <1>2
    <3>3. /\ j \in Nat
          /\ SumTo(UnreadSizes(q), one - 1) < j
          /\ j <= SumTo(UnreadSizes(q), one)
      BY <1>4, <1>5, <3>2
    <3>4. BacklogByte(q, j) =
            q[one].cells[q[one].m_read + (j - SumTo(UnreadSizes(q), one - 1))]
      BY <1>2, <3>3, BacklogByteAt
    <3>5. j - SumTo(UnreadSizes(q), one - 1) = j
      BY <1>5, <3>2, <3>3
    <3> QED
      BY <1>3, <2>1, <3>1, <3>2, <3>4, <3>5
  <2> QED
    BY <1>4, <2>1, <2>2, <2>3, <2>4, SeqEqual
<1> QED
  BY <1>2, <1>4, <1>6, <1>8, <1>9 DEF m, s, r

LEMMA DetachBytes ==
  ASSUME NEW Data, NEW q, GoodQueue(Data, q), q # << >>
  PROVE  /\ GoodQueue(Data, Tail(q))
         /\ StreamReadableSize(Head(q)) \in 0 .. Backlog(q)
         /\ Unread(Head(q)) = SubSeq(Bytes(q), 1, StreamReadableSize(Head(q)))
         /\ Bytes(Tail(q)) = SubSeq(Bytes(q), StreamReadableSize(Head(q)) + 1, Len(Bytes(q)))
<1>1. SoundQueue(Data, q)
  BY GoodIsSound
<1> QED
  BY <1>1, FrontBytes, DetachGood

-----------------------------------------------------------------------------
(***************************************************************************)
(* What the methods of RecvQueue do to the room for what is to come.       *)
(***************************************************************************)
LEMMA Room ==
  ASSUME NEW Data, NEW q, GoodQueue(Data, q)
  PROVE  /\ Len(q) \in Nat
         /\ q \in Seq(StreamsOf(CellsOf(Data)))
         /\ \A i \in 1 .. Len(q) : /\ q[i] \in StreamsOf(CellsOf(Data))
                                   /\ CursorsOK(q[i])
                                   /\ WritableSizes(q)[i] = StreamWritableSize(q[i])
                                   /\ WritableSizes(q)[i] \in Nat
         /\ getWritableSize(q) = SumTo(WritableSizes(q), Len(q))
         /\ \A k \in 0 .. Len(q) : SumTo(WritableSizes(q), k) \in Nat
         /\ getWritableSize(q) \in Nat
<1> DEFINE free == WritableSizes(q)
           len == Len(q)
<1>1. /\ WellFormed(Data, q) /\ q \in Seq(StreamsOf(CellsOf(Data)))
  BY DEF GoodQueue, WellFormed
<1>2. /\ len \in Nat
      /\ \A i \in 1 .. len : q[i] \in StreamsOf(CellsOf(Data)) /\ CursorsOK(q[i])
  BY <1>1, QueueShape
<1>3. /\ Len(free) = len
      /\ \A i \in 1 .. len : free[i] = StreamWritableSize(q[i]) /\ free[i] \in Nat
  BY <1>1, WritableSizesAreNat
<1>4. getWritableSize(q) = SumTo(free, len)
  BY <1>3 DEF getWritableSize, Total
<1> HIDE DEF free, len
<1>5. \A k \in 0 .. len : SumTo(free, k) \in Nat
  BY <1>2, <1>3, SumToNat
<1>6. len \in 0 .. len
  BY <1>2
<1> QED
  BY <1>1, <1>2, <1>3, <1>4, <1>5, <1>6 DEF free, len

\* A queue whose streams have no more room than those behind the d-th of another.
LEMMA LessRoom ==
  ASSUME NEW Data, NEW q, GoodQueue(Data, q), NEW r, GoodQueue(Data, r), NEW d \in Nat,
         Len(q) = d + Len(r),
         \A i \in 1 .. Len(r) : StreamWritableSize(r[i]) <= StreamWritableSize(q[d + i])
  PROVE  getWritableSize(r) <= getWritableSize(q)
<1> DEFINE old == WritableSizes(q)
           new == WritableSizes(r)
           n == Len(r)
<1>1. /\ n \in Nat /\ Len(q) = d + n
      /\ \A i \in 1 .. d + n : old[i] = StreamWritableSize(q[i]) /\ old[i] \in Nat
      /\ \A i \in 1 .. n : new[i] = StreamWritableSize(r[i]) /\ new[i] \in Nat
      /\ getWritableSize(q) = SumTo(old, d + n) /\ getWritableSize(q) \in Nat
      /\ getWritableSize(r) = SumTo(new, n) /\ getWritableSize(r) \in Nat
      /\ \A k \in 0 .. d + n : SumTo(old, k) \in Nat
  BY Room
<1>2. \A i \in 1 .. n : new[i] <= old[d + i]
  <2> TAKE i \in 1 .. n
  <2>1. d + i \in 1 .. d + n
    BY <1>1
  <2> QED
    BY <1>1, <2>1
<1>3. SumTo(old, d) \in Nat
  <2>1. d \in 0 .. d + n
    BY <1>1
  <2> QED
    BY <1>1, <2>1
<1> HIDE DEF old, new, n
<1>4. SumTo(new, n) + SumTo(old, d) <= SumTo(old, d + n)
  BY <1>1, <1>2, SumToBelow
<1> QED
  BY <1>1, <1>3, <1>4

\* After prepare there is room for what was asked for, and what is added is one
\* buffer at most.
LEMMA PrepareRoom ==
  ASSUME NEW Data, NEW q, GoodQueue(Data, q), NEW size \in Nat \ {0}
  PROVE  /\ GoodQueue(Data, prepare(q, size))
         /\ prepare(q, size) # << >>
         /\ size <= getWritableSize(prepare(q, size))
         /\ \/ prepare(q, size) = q
            \/ getWritableSize(prepare(q, size)) < size + AllocSize(Larger(size, DEFAULT_BUF_SIZE))
<1> DEFINE n == Larger(size, DEFAULT_BUF_SIZE)
           s == NewStream(n)
           r == Append(q, s)
           old == WritableSizes(q)
           new == WritableSizes(r)
           len == Len(q)
<1>1. GoodQueue(Data, prepare(q, size))
  BY PrepareGood
<1>2. n \in Nat /\ size <= n /\ 0 < n
  BY DefaultBufAssumption DEF Larger
<1>3. prepare(q, size) = IF q = << >> \/ getWritableSize(q) < size THEN r ELSE q
  BY DEF prepare
<1>4. /\ len \in Nat /\ q \in Seq(StreamsOf(CellsOf(Data)))
      /\ \A i \in 1 .. len : old[i] = StreamWritableSize(q[i])
      /\ getWritableSize(q) = SumTo(old, len) /\ getWritableSize(q) \in Nat
  BY Room
<1> HIDE DEF n
<1>5. StreamWritableSize(s) = AllocSize(n) /\ AllocSize(n) \in Nat /\ n <= AllocSize(n)
  <2>1. AllocSize(n) \in Nat /\ n <= AllocSize(n)
    BY <1>2, AllocSizeFits
  <2>2. NewCells(AllocSize(n)) \in [1 .. AllocSize(n) -> {Uninit}]
    BY DEF NewCells
  <2>3. Len(NewCells(AllocSize(n))) = AllocSize(n)
    BY <2>1, <2>2, FunctionIsSeq
  <2> QED
    BY <2>1, <2>3 DEF NewStream, StreamWritableSize, StreamAllocSize
<1>6. s \in StreamsOf(CellsOf(Data))
  BY <1>2, NewStreamFits DEF CellsOf
<1> HIDE DEF s
<1>7. CASE ~(q = << >> \/ getWritableSize(q) < size)
  BY <1>1, <1>3, <1>4, <1>7
<1>8. CASE q = << >> \/ getWritableSize(q) < size
  <2>1. prepare(q, size) = r
    BY <1>3, <1>8
  <2>2. /\ Len(r) = len + 1
        /\ \A i \in 1 .. len : r[i] = q[i]
        /\ r[len + 1] = s
    BY <1>4, <1>6, AppendProperties
  <2> HIDE DEF r
  <2>3. /\ \A i \in 1 .. len + 1 : new[i] = StreamWritableSize(r[i])
        /\ getWritableSize(r) = SumTo(new, len + 1)
    BY <1>1, <2>1, <2>2, Room
  <2> HIDE DEF old, new, len
  <2>4. getWritableSize(r) = getWritableSize(q) + AllocSize(n)
    <3>1. \A i \in 1 .. len : old[i] = new[i]
      BY <1>4, <2>2, <2>3
    <3>2. SumTo(old, len) = SumTo(new, len)
      <4>1. \A k \in 0 .. len : SumTo(old, k) = SumTo(new, k)
        BY <1>4, <3>1, SumToAgree
      <4> QED
        BY <1>4, <4>1
    <3>3. SumTo(new, len + 1) = SumTo(new, len) + new[len + 1]
      BY <1>4, SumToStep
    <3>4. new[len + 1] = AllocSize(n)
      <4>1. len + 1 \in 1 .. len + 1
        BY <1>4
      <4> QED
        BY <1>5, <2>2, <2>3, <4>1
    <3> QED
      BY <1>4, <2>3, <3>2, <3>3, <3>4
  <2>5. getWritableSize(q) < size
    <3>1. q = << >> => len = 0
      BY DEF len
    <3>2. q = << >> => getWritableSize(q) = 0
      BY <1>4, <3>1, SumToZero
    <3> QED
      BY <1>8, <3>2
  <2>6. r # << >>
    BY <1>4, <2>2
  <2> QED
    BY <1>1, <1>2, <1>4, <1>5, <2>1, <2>4, <2>5, <2>6 DEF n
<1> QED
  BY <1>7, <1>8

\* A completed read takes room and makes none.
LEMMA FilledRoom ==
  ASSUME NEW Data, NEW q, GoodQueue(Data, q), NEW r, GoodQueue(Data, r),
         NEW bytes \in Seq(Data), NEW k \in Nat, Filled(q, r, bytes, k)
  PROVE  getWritableSize(r) <= getWritableSize(q)
<1>1. /\ \A i \in 1 .. Len(q) : WritableSizes(q)[i] \in Nat
      /\ \A m \in 0 .. Len(q) : SumTo(WritableSizes(q), m) \in Nat
      /\ \A i \in 1 .. Len(q) : CursorsOK(q[i]) /\ q[i] \in StreamsOf(CellsOf(Data))
      /\ Len(q) \in Nat
  BY Room
<1>2. Len(r) = Len(q) /\ k \in 1 .. Len(q)
  BY DEF Filled
<1>3. ASSUME NEW i \in 1 .. Len(r)
      PROVE  StreamWritableSize(r[i]) <= StreamWritableSize(q[i])
  <2> DEFINE part == SumTo(WritableSizes(q), k - 1)
             n == Len(bytes)
  <2>1. /\ i < k => r[i].m_written = q[i].m_written + WritableSizes(q)[i]
        /\ i = k => r[i].m_written = q[i].m_written + (n - part)
        /\ i > k => r[i].m_written = q[i].m_written
        /\ Len(r[i].cells) = Len(q[i].cells)
        /\ part < n
    BY <1>2 DEF Filled
  <2>2. part \in Nat /\ WritableSizes(q)[i] \in Nat /\ n \in Nat
    BY <1>1, <1>2
  <2>3. q[i].m_written \in Nat /\ Len(q[i].cells) \in Nat
    BY <1>1, <1>2 DEF CursorsOK, StreamsOf
  <2> HIDE DEF part, n
  <2>4. r[i].m_written \in Nat /\ q[i].m_written <= r[i].m_written
    BY <1>1, <1>2, <2>1, <2>2, <2>3
  <2> QED
    BY <2>1, <2>3, <2>4 DEF StreamWritableSize, StreamAllocSize
<1>4. PICK d \in Nat : d = 0
  OBVIOUS
<1>5. Len(q) = d + Len(r) /\ \A i \in 1 .. Len(r) : d + i = i
  BY <1>1, <1>2, <1>4
<1> QED
  BY <1>3, <1>5, LessRoom

\* pop makes no room, but for the default buffer that it rewinds.
LEMMA PopRoom ==
  ASSUME NEW Data, NEW q, GoodQueue(Data, q), NEW n \in 1 .. Backlog(q)
  PROVE  \/ getWritableSize(pop(q, n)) <= getWritableSize(q)
         \/ getWritableSize(pop(q, n)) = DEFAULT_BUF_SIZE
<1> DEFINE k == StopAt(UnreadSizes(q), n)
           s == StreamConsume(q[k], n - SumTo(UnreadSizes(q), k - 1))
           rest == SubSeq(q, k + 1, Len(q))
           r == pop(q, n)
<1>1. GoodQueue(Data, r) /\ SoundQueue(Data, q)
  BY PopBytes, GoodIsSound
<1>2. /\ k \in 1 .. Len(q)
      /\ s.cells = q[k].cells /\ s.m_written = q[k].m_written
      /\ s \in StreamsOf(CellsOf(Data))
  BY <1>1, StoppedStream DEF SoundStream
<1>3. r = IF StreamReadableSize(s) > 0 THEN << s >> \o rest
          ELSE IF k = Len(q) /\ StreamAllocSize(s) = DEFAULT_BUF_SIZE THEN << StreamReset(s) >>
          ELSE rest
  BY SameReading DEF pop
<1>4. Len(q) \in Nat /\ q \in Seq(StreamsOf(CellsOf(Data)))
  BY Room
<1>5. StreamWritableSize(s) = StreamWritableSize(q[k])
  BY <1>2 DEF StreamWritableSize, StreamAllocSize
<1> HIDE DEF s, k, r
<1>6. /\ rest \in Seq(StreamsOf(CellsOf(Data)))
      /\ Len(rest) = Len(q) - k
      /\ \A i \in 1 .. Len(rest) : rest[i] = q[k + i]
  BY <1>1, <1>2, RestOfQueue DEF SoundQueue
<1>7. \A i \in 1 .. Len(q) : StreamWritableSize(q[i]) \in Nat
  BY Room
<1>8. CASE r = rest
  <2>1. k \in Nat /\ Len(q) = k + Len(r)
    BY <1>2, <1>4, <1>6, <1>8
  <2>2. \A i \in 1 .. Len(r) : StreamWritableSize(r[i]) <= StreamWritableSize(q[k + i])
    <3> TAKE i \in 1 .. Len(r)
    <3>1. r[i] = q[k + i] /\ k + i \in 1 .. Len(q)
      BY <1>2, <1>4, <1>6, <1>8
    <3> QED
      BY <1>7, <3>1
  <2> QED
    BY <1>1, <2>1, <2>2, LessRoom DEF r
<1>9. CASE r = << s >> \o rest
  <2> DEFINE d == k - 1
  <2>1. /\ Len(r) = Len(q) - k + 1
        /\ r[1] = s
        /\ \A i \in 2 .. Len(q) - k + 1 : r[i] = q[k + i - 1]
    BY <1>2, <1>4, <1>9, FrontAndRest
  <2>2. d \in Nat /\ Len(q) = d + Len(r) /\ Len(r) \in Nat
    BY <1>2, <1>4, <2>1
  <2>3. ASSUME NEW i \in 1 .. Len(r)
        PROVE  StreamWritableSize(r[i]) <= StreamWritableSize(q[d + i])
    <3>1. CASE i = 1
      <4>1. d + i = k /\ r[i] = s
        BY <1>2, <2>1, <3>1
      <4> QED
        BY <1>2, <1>5, <1>7, <4>1
    <3>2. CASE i # 1
      <4>1. i \in 2 .. Len(q) - k + 1 /\ k + i - 1 = d + i /\ d + i \in 1 .. Len(q)
        BY <1>2, <1>4, <2>1, <2>2, <3>2
      <4> QED
        BY <1>7, <2>1, <4>1
    <3> QED
      BY <3>1, <3>2
  <2> HIDE DEF d
  <2> QED
    BY <1>1, <2>2, <2>3, LessRoom DEF r
<1>10. CASE r = << StreamReset(s) >> /\ StreamAllocSize(s) = DEFAULT_BUF_SIZE
  <2>1. PICK one \in Nat : one = 1 /\ one = 0 + 1 /\ one \in 1 .. one
    OBVIOUS
  <2>2. Len(r) = one /\ r[one] = StreamReset(s)
    BY <1>10, <2>1
  <2>3. StreamWritableSize(StreamReset(s)) = DEFAULT_BUF_SIZE
    BY <1>10, DefaultBufAssumption DEF StreamReset, StreamWritableSize, StreamAllocSize
  <2>4. /\ getWritableSize(r) = SumTo(WritableSizes(r), one)
        /\ WritableSizes(r)[one] = StreamWritableSize(r[one])
    <3>1. /\ getWritableSize(r) = SumTo(WritableSizes(r), Len(r))
          /\ \A i \in 1 .. Len(r) : WritableSizes(r)[i] = StreamWritableSize(r[i])
      BY <1>1, Room
    <3>2. one \in 1 .. Len(r)
      BY <2>1, <2>2
    <3> QED
      BY <2>2, <3>1, <3>2
  <2>5. SumTo(WritableSizes(r), 0 + 1) = SumTo(WritableSizes(r), 0) + WritableSizes(r)[0 + 1]
    BY SumToStep
  <2>6. SumTo(WritableSizes(r), 0) = 0
    BY SumToZero
  <2>7. getWritableSize(r) = DEFAULT_BUF_SIZE
    BY <2>1, <2>2, <2>3, <2>4, <2>5, <2>6, DefaultBufAssumption
  <2> QED
    BY <2>7 DEF r
<1> QED
  BY <1>3, <1>8, <1>9, <1>10
=============================================================================
