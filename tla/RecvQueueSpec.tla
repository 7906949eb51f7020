--------------------------- MODULE RecvQueueSpec ----------------------------
(***************************************************************************)
(* A RecvQueue in use: one session that prepares room, lets the socket     *)
(* read into it, and reads the bytes out. The session is not part of the   *)
(* repository (TCPSession.h declares it), so it may make any legal call in *)
(* any order. Between the moment the buffers are handed to the socket      *)
(* (StartReceive) and the completion handler (CompleteReceive) the socket  *)
(* owns the free memory: the session may prepare and peek, and must not    *)
(* pop, detach or clear.                                                   *)
(*                                                                         *)
(* The bytes the socket delivers are numbered 1, 2, 3, ...                 *)
(***************************************************************************)
EXTENDS RecvQueue

CONSTANTS
  Requests,     \* the sizes prepare is called with
  MaxArrived    \* a bound on the bytes that arrive

ASSUME RequestsAssumption == Requests \subseteq Nat \ {0}
ASSUME MaxArrivedAssumption == MaxArrived \in Nat

VARIABLES
  recvQueue,    \* RecvQueue::m_StreamQueue
  pending,      \* the buffers of the read in progress, NoRead when there is none
  arrived,      \* how many bytes the socket has delivered
  got           \* the bytes the last peek or detach returned, none after clear

vars == << recvQueue, pending, arrived, got >>

NoRead == << >>

Byte == Nat \ {0}

-----------------------------------------------------------------------------
Init ==
  /\ recvQueue = << >>
  /\ pending = NoRead
  /\ arrived = 0
  /\ got = << >>

Prepare(size) ==
  /\ recvQueue' = prepare(recvQueue, size)
  /\ UNCHANGED << pending, arrived, got >>

StartReceive ==
  /\ pending = NoRead
  /\ getWritableSize(recvQueue) > 0
  /\ pending' = buffers(recvQueue)
  /\ UNCHANGED << recvQueue, arrived, got >>

\* The socket has stored n bytes and the session commits them.
CompleteReceive(n) ==
  /\ pending # NoRead
  /\ n <= Total(BufferSizes(pending))
  /\ arrived + n <= MaxArrived
  /\ recvQueue' = commit(Scatter(recvQueue, pending, [i \in 1 .. n |-> arrived + i]), n)
  /\ pending' = NoRead
  /\ arrived' = arrived + n
  /\ UNCHANGED got

Peek(n) ==
  /\ n <= getReadableSize(recvQueue)
  /\ got' = peek(recvQueue, n)
  /\ UNCHANGED << recvQueue, pending, arrived >>

Pop(n) ==
  /\ pending = NoRead
  /\ n <= getReadableSize(recvQueue)
  /\ recvQueue' = pop(recvQueue, n)
  /\ UNCHANGED << pending, arrived, got >>

Detach(n) ==
  /\ pending = NoRead
  /\ recvQueue # << >>
  /\ detachable(recvQueue, n)
  /\ got' = Unread(Head(recvQueue))
  /\ recvQueue' = AfterDetach(recvQueue)
  /\ UNCHANGED << pending, arrived >>

Clear ==
  /\ pending = NoRead
  /\ recvQueue' = << >>
  /\ got' = << >>
  /\ UNCHANGED << pending, arrived >>

Next ==
  \/ \E size \in Requests : Prepare(size)
  \/ StartReceive
  \/ \E n \in 1 .. MaxArrived :
       CompleteReceive(n) \/ Peek(n) \/ Pop(n) \/ Detach(n)
  \/ Clear

Spec == Init /\ [][Next]_vars

-----------------------------------------------------------------------------
(***************************************************************************)
(* Invariants.                                                             *)
(***************************************************************************)

\* Types, and the bounds every cursor assertion of Stream.h relies on:
\* m_read <= m_written <= the allocated size, for every stream of the queue,
\* and every buffer of a read in progress inside the memory of its stream.
TypeOK ==
  /\ recvQueue \in Seq(StreamsOf(Byte \cup {Uninit}))
  /\ \A i \in DOMAIN recvQueue : CursorsOK(recvQueue[i])
  /\ pending \in Seq([from : Nat, size : Nat])
  /\ Len(pending) <= Len(recvQueue)
  /\ \A i \in DOMAIN pending :
       pending[i].from + pending[i].size <= StreamAllocSize(recvQueue[i])
  /\ arrived \in Nat
  /\ got \in Seq(Byte)

\* The queue stays packed, whatever the order of calls: detachable() and detach()
\* look at front() only, and commit() fills the first room it finds, which is
\* right only because of this (RecvQueue.cpp:47-63, 83-122).
Packed ==
  /\ NoDrainedStream(recvQueue)
  /\ OnlyFrontRead(recvQueue)
  /\ FilledInOrder(recvQueue)
  /\ HasMemory(recvQueue)

\* Whatever the order of calls, a queue that holds bytes holds some in its
\* front stream, so that front() in detachable exists and is never an empty
\* stream in front of the packet (RecvQueue.cpp:113-116, Encoder.cpp:29-35).
FrontReadable ==
  getReadableSize(recvQueue) > 0 =>
    recvQueue # << >> /\ StreamReadableSize(Head(recvQueue)) > 0

\* The memory that waits to be written to stays below one request on top of the
\* largest buffer a request can make: prepare adds only what is missing
\* (RecvQueue.cpp:12-18), however often it is called.
SpareBounded ==
  \E r \in Requests :
    getWritableSize(recvQueue) < r + AllocSize(Larger(r, DEFAULT_BUF_SIZE))

\* Bytes come out of a RecvQueue in the order the socket delivered them, each
\* once and none of them uninitialised, through any interleaving of the calls
\* above and across buffer boundaries.
Fifo == INSTANCE ByteFifo WITH fifo <- Contents(recvQueue)

ImplementsFifo == Fifo!FifoSpec
=============================================================================
