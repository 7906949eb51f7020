--------------------------- MODULE SendQueueSpec ----------------------------
(***************************************************************************)
(* A SendQueue in use: messages are pushed as streams or as raw data, and  *)
(* the completion handler of a write consumes as many bytes as the socket  *)
(* took, which need not end where a stream ends. The bytes pushed are      *)
(* numbered 1, 2, 3, ...                                                   *)
(***************************************************************************)
EXTENDS SendQueue

CONSTANTS
  Chunks,      \* the sizes that are pushed
  MaxPushed    \* a bound on the bytes that are pushed

ASSUME ChunksAssumption == Chunks \subseteq Nat
ASSUME MaxPushedAssumption == MaxPushed \in Nat

VARIABLES
  sendQueue,   \* SendQueue::m_StreamQueue
  pushed,      \* how many bytes have been pushed
  written      \* the bytes of the last completed write, none after clear

vars == << sendQueue, pushed, written >>

Byte == Nat \ {0}

Init == sendQueue = << >> /\ pushed = 0 /\ written = << >>

Fresh(n) == [i \in 1 .. n |-> pushed + i]

Push(n) ==
  /\ pushed + n <= MaxPushed
  /\ \/ sendQueue' = pushData(sendQueue, Fresh(n))
     \/ \E spare \in Chunks :          \* a stream whose buffer is larger than its content
          sendQueue' = push(sendQueue, StreamWrite(NewStream(n + spare), Fresh(n)))
  /\ pushed' = pushed + n
  /\ UNCHANGED written

Sent(n) ==
  /\ n <= Backlog(sendQueue)
  /\ written' = FirstBytes(sendQueue, n)
  /\ sendQueue' = consume(sendQueue, n)
  /\ UNCHANGED pushed

Clear ==
  /\ sendQueue' = << >>
  /\ written' = << >>
  /\ UNCHANGED pushed

Next ==
  \/ \E n \in Chunks : Push(n)
  \/ \E n \in 1 .. MaxPushed : Sent(n)
  \/ Clear

Spec == Init /\ [][Next]_vars

-----------------------------------------------------------------------------
\* Types and cursor bounds of the streams that wait to be sent.
TypeOK ==
  /\ sendQueue \in Seq(StreamsOf(Byte \cup {Uninit}))
  /\ \A i \in DOMAIN sendQueue : CursorsOK(sendQueue[i])
  /\ pushed \in Nat
  /\ written \in Seq(Byte)

\* The assertion in the loop of consume (SendQueue.cpp:32): no stream the loop
\* visits is already read to its end, however much the socket takes at once.
ConsumeAssertionHolds ==
  \A n \in 1 .. Backlog(sendQueue) : ConsumeAssertion(sendQueue, n)

\* The socket is given the bytes in the order they were pushed, each once, for
\* any split of the backlog into writes.
BacklogFifo == INSTANCE ByteFifo WITH
  fifo <- FirstBytes(sendQueue, Backlog(sendQueue)), arrived <- pushed, got <- written

ImplementsFifo == BacklogFifo!FifoSpec
=============================================================================
