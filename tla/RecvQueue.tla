----------------------------- MODULE RecvQueue ------------------------------
(***************************************************************************)
(* dk::RecvQueue (LibraryNet/RecvQueue.h, RecvQueue.cpp): the deque of     *)
(* streams a TCPSession receives into, as a data type. A queue q is the    *)
(* sequence m_StreamQueue; each operator is the method of its name. An     *)
(* operator's precondition is the assertion of the method it stands for.   *)
(***************************************************************************)
EXTENDS Stream, Sums

CONSTANT DEFAULT_BUF_SIZE    \* RecvQueue::DEFAULT_BUF_SIZE, 4096 in the code

ASSUME DefaultBufAssumption == DEFAULT_BUF_SIZE \in Nat \ {0}

ReadableSizes(q) == [i \in DOMAIN q |-> StreamReadableSize(q[i])]

WritableSizes(q) == [i \in DOMAIN q |-> StreamWritableSize(q[i])]

getReadableSize(q) == Total(ReadableSizes(q))

getWritableSize(q) == Total(WritableSizes(q))

\* A mutant of prepare: the room the queue already has is not looked at.
prepareAlways(q, size) == Append(q, NewStream(Larger(size, DEFAULT_BUF_SIZE)))

\* What is added when the queue cannot take size more bytes.
prepare(q, size) ==
  IF q = << >> \/ getWritableSize(q) < size
  THEN Append(q, NewStream(Larger(size, DEFAULT_BUF_SIZE)))
  ELSE q

\* A mutant of buffers: the socket is given the readable part of a stream.
buffersFromRead(q) ==
  [i \in DOMAIN q |-> [from |-> q[i].m_read, size |-> StreamWritableSize(q[i])]]

\* The free memory handed to the socket: for each stream where it begins and
\* how much there is. The code leaves out streams without room, which a
\* scatter read skips as well.
buffers(q) ==
  [i \in DOMAIN q |-> [from |-> q[i].m_written, size |-> StreamWritableSize(q[i])]]

BufferSizes(bufs) == [i \in DOMAIN bufs |-> bufs[i].size]

\* What the socket does with buffers it was given: bytes are stored in the
\* first buffer until it is full, then in the next. Share is what the i-th gets.
Share(bufs, bytes, i) ==
  LET before == SumTo(BufferSizes(bufs), i - 1)
      upTo == SumTo(BufferSizes(bufs), i)
  IN  SubSeq(bytes, before + 1, IF upTo < Len(bytes) THEN upTo ELSE Len(bytes))

Scatter(q, bufs, bytes) ==
  [i \in DOMAIN q |->
     IF i \in DOMAIN bufs THEN Store(q[i], bufs[i].from, Share(bufs, bytes, i)) ELSE q[i]]

\* A mutant of commit: what the streams before the last one took is not deducted.
commitWhole(q, size) ==
  LET k == StopAt(WritableSizes(q), size)
  IN  [i \in DOMAIN q |->
         IF i < k THEN StreamCommit(q[i], StreamWritableSize(q[i]))
         ELSE IF i = k THEN StreamCommit(q[i], size)
         ELSE q[i]]

\* size in 1 .. getWritableSize(q): streams are filled from the front.
commit(q, size) ==
  LET k == StopAt(WritableSizes(q), size)
      last == size - SumTo(WritableSizes(q), k - 1)
  IN  [i \in DOMAIN q |->
         IF i < k THEN StreamCommit(q[i], StreamWritableSize(q[i]))
         ELSE IF i = k THEN StreamCommit(q[i], last)
         ELSE q[i]]

\* The j-th unread byte.
ByteAt(q, j) ==
  LET k == StopAt(ReadableSizes(q), j)
  IN  Unread(q[k])[j - SumTo(ReadableSizes(q), k - 1)]

\* size in 0 .. getReadableSize(q)
peek(q, size) == [j \in 1 .. size |-> ByteAt(q, j)]

\* Everything the queue holds, in the order a reader gets it.
Contents(q) == peek(q, getReadableSize(q))

\* A mutant of pop: the last stream is kept as it is, not rewound or erased.
popKeepsLast(q, size) ==
  LET k == StopAt(ReadableSizes(q), size)
      s == StreamConsume(q[k], size - SumTo(ReadableSizes(q), k - 1))
      rest == SubSeq(q, k + 1, Len(q))
  IN  IF StreamReadableSize(s) > 0 \/ k = Len(q) THEN << s >> \o rest ELSE rest

\* A mutant of pop: a default buffer is rewound wherever it is in the queue.
popRewindsAny(q, size) ==
  LET k == StopAt(ReadableSizes(q), size)
      s == StreamConsume(q[k], size - SumTo(ReadableSizes(q), k - 1))
      rest == SubSeq(q, k + 1, Len(q))
  IN  IF StreamReadableSize(s) > 0 THEN << s >> \o rest
      ELSE IF StreamAllocSize(s) = DEFAULT_BUF_SIZE THEN << StreamReset(s) >> \o rest
      ELSE rest

\* size in 1 .. getReadableSize(q). Streams read to their end are erased, but
\* the last of the queue is rewound when it has the default capacity.
pop(q, size) ==
  LET k == StopAt(ReadableSizes(q), size)
      s == StreamConsume(q[k], size - SumTo(ReadableSizes(q), k - 1))
      rest == SubSeq(q, k + 1, Len(q))
  IN  IF StreamReadableSize(s) > 0 THEN << s >> \o rest
      ELSE IF k = Len(q) /\ StreamAllocSize(s) = DEFAULT_BUF_SIZE THEN << StreamReset(s) >>
      ELSE rest

\* A mutant of detachable: a stream that holds more than the packet will do.
detachableLonger(q, size) == StreamReadableSize(Head(q)) >= size

\* q # << >>: the code takes front() of the deque without looking.
detachable(q, size) == StreamReadableSize(Head(q)) = size

\* detach() returns Head(q) and leaves this behind.
AfterDetach(q) == Tail(q)

-----------------------------------------------------------------------------
\* What a queue in use looks like. No stream that has been written to is left
\* read to its end, only the front stream may be partly read, a stream is
\* written to only when the streams before it are full, and none is without
\* memory.
NoDrainedStream(q) == \A i \in DOMAIN q : q[i].m_written > 0 => q[i].m_read < q[i].m_written
OnlyFrontRead(q) == \A i \in DOMAIN q : i > 1 => q[i].m_read = 0
FilledInOrder(q) ==
  \A i, j \in DOMAIN q : i < j /\ q[j].m_written > 0 => StreamWritableSize(q[i]) = 0
HasMemory(q) == \A i \in DOMAIN q : StreamAllocSize(q[i]) > 0
=============================================================================
