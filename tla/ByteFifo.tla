------------------------------ MODULE ByteFifo ------------------------------
(***************************************************************************)
(* What a byte queue of LibraryNet promises: the bytes that were put in    *)
(* come out once each, in the order they were put in, until clear. The     *)
(* bytes put in are numbered 1, 2, 3, ..., so that a lost, repeated or     *)
(* swapped byte is visible.                                                *)
(***************************************************************************)
EXTENDS Integers, Sequences

VARIABLES
  fifo,       \* the bytes in the queue
  arrived,    \* how many bytes have been put in
  got         \* what the last call that returned bytes returned

fifoVars == << fifo, arrived, got >>

FifoInit == fifo = << >> /\ arrived = 0 /\ got = << >>

Put(n) ==
  /\ fifo' = fifo \o [i \in 1 .. n |-> arrived + i]
  /\ arrived' = arrived + n
  /\ UNCHANGED got

Look(n) ==
  /\ got' = SubSeq(fifo, 1, n)
  /\ UNCHANGED << fifo, arrived >>

Drop(n) ==
  /\ fifo' = SubSeq(fifo, n + 1, Len(fifo))
  /\ UNCHANGED << arrived, got >>

Take(n) ==
  /\ got' = SubSeq(fifo, 1, n)
  /\ fifo' = SubSeq(fifo, n + 1, Len(fifo))
  /\ UNCHANGED arrived

Forget ==
  /\ fifo' = << >>
  /\ got' = << >>
  /\ UNCHANGED arrived

FifoNext ==
  \/ \E n \in 1 .. (arrived' - arrived) : Put(n)
  \/ \E n \in 1 .. Len(fifo) : Look(n) \/ Drop(n) \/ Take(n)
  \/ Forget

FifoSpec == FifoInit /\ [][FifoNext]_fifoVars
=============================================================================
