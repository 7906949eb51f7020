----------------------------- MODULE SendQueue ------------------------------
(***************************************************************************)
(* dk::SendQueue (LibraryNet/SendQueue.h, SendQueue.cpp): the deque of     *)
(* streams that wait to be written to the socket, as a data type. A queue  *)
(* q is the sequence m_StreamQueue.                                        *)
(***************************************************************************)
EXTENDS Stream, Sums

UnreadSizes(q) == [i \in DOMAIN q |-> StreamReadableSize(q[i])]

\* The bytes the queue still has to send.
Backlog(q) == Total(UnreadSizes(q))

\* The j-th of them.
BacklogByte(q, j) ==
  LET k == StopAt(UnreadSizes(q), j)
  IN  Unread(q[k])[j - SumTo(UnreadSizes(q), k - 1)]

\* The first n bytes of the backlog, in the order the socket is given them.
FirstBytes(q, n) == [j \in 1 .. n |-> BacklogByte(q, j)]

\* A mutant of push: the stream overtakes those that wait.
pushInFront(q, s) == << s >> \o q

\* push(const Stream&)
push(q, s) == Append(q, s)

\* push(data, size) and push(std::string): the data is copied to a new stream.
pushData(q, bytes) == Append(q, StreamOf(bytes))

\* A mutant of consume: what the streams before the last one had is not deducted.
consumeWhole(q, size) ==
  IF size = 0
  THEN q
  ELSE LET k == StopAt(UnreadSizes(q), size)
           s == StreamConsume(q[k], size)
           rest == SubSeq(q, k + 1, Len(q))
       IN  IF StreamReadableSize(s) = 0 THEN rest ELSE << s >> \o rest

\* A mutant of consume: a stream read to its end stays at the front.
consumeKeepsFront(q, size) ==
  IF size = 0
  THEN q
  ELSE LET k == StopAt(UnreadSizes(q), size)
           s == StreamConsume(q[k], size - SumTo(UnreadSizes(q), k - 1))
       IN  << s >> \o SubSeq(q, k + 1, Len(q))

\* consume(size), size in 0 .. Backlog(q): streams are read from the front and
\* removed once read to their end.
consume(q, size) ==
  IF size = 0
  THEN q
  ELSE LET k == StopAt(UnreadSizes(q), size)
           s == StreamConsume(q[k], size - SumTo(UnreadSizes(q), k - 1))
           rest == SubSeq(q, k + 1, Len(q))
       IN  IF StreamReadableSize(s) = 0 THEN rest ELSE << s >> \o rest

\* assert(0 < readableSize), for every stream the loop of consume(size) visits.
ConsumeAssertion(q, size) ==
  \A i \in 1 .. StopAt(UnreadSizes(q), size) : StreamReadableSize(q[i]) > 0
=============================================================================
