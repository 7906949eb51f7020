-------------------------------- MODULE Sums --------------------------------
(***************************************************************************)
(* Running totals of a sequence of sizes. The loops of RecvQueue.cpp walk  *)
(* a deque of streams from the front and count bytes down; these two       *)
(* operators say where such a loop stops.                                  *)
(***************************************************************************)
EXTENDS Integers, Sequences

\* sizes[1] + ... + sizes[n]
SumTo(sizes, n) ==
  LET sum[i \in 0 .. n] == IF i = 0 THEN 0 ELSE sum[i - 1] + sizes[i]
  IN  sum[n]

Total(sizes) == SumTo(sizes, Len(sizes))

\* The place of the size-th byte: the first k with sizes[1] + ... + sizes[k]
\* at least size, for size in 1 .. Total(sizes).
StopAt(sizes, size) ==
  CHOOSE k \in DOMAIN sizes : SumTo(sizes, k - 1) < size /\ size <= SumTo(sizes, k)
=============================================================================
