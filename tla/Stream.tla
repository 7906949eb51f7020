------------------------------- MODULE Stream -------------------------------
(***************************************************************************)
(* dk::Stream and the dk::StreamBuf under it (LibraryBase/Stream.h,        *)
(* StreamBuf.h, StreamVerifier.cpp), as a data type: a stream is a record  *)
(*                                                                         *)
(*    cells      the StreamBuf's memory, Len(cells) = getAllocSize()       *)
(*    m_read     how many bytes have been read                             *)
(*    m_written  how many bytes have been written                          *)
(*                                                                         *)
(* A cell nothing has been written to holds Uninit: malloc and realloc     *)
(* leave whatever was there, and no property may depend on it. A byte is   *)
(* never looked into, so the modules that use streams choose what it is.   *)
(*                                                                         *)
(* The buffer is owned by one stream here; streams that share a buffer     *)
(* through the shared_ptr of the copy constructor are not in this module.  *)
(***************************************************************************)
EXTENDS Integers, Sequences

CONSTANTS
  MIN_ALLOC_SIZE,    \* StreamBuf::MIN_ALLOC_SIZE, 64 in the code
  Uninit             \* the content of a cell nothing has been written to

ASSUME MinAllocAssumption == MIN_ALLOC_SIZE \in Nat \ {0}

\* Every stream whose cells are taken from a set.
StreamsOf(Cell) == [cells : Seq(Cell), m_read : Nat, m_written : Nat]

Larger(m, n) == IF m < n THEN n ELSE m

\* StreamBuf::nextPow2: the least power of two that holds size bytes. There is
\* exactly one power of two from need up to 2 * need - 1.
nextPow2(size) ==
  LET need == Larger(size, MIN_ALLOC_SIZE)
      pow[k \in 0 .. need] == IF k = 0 THEN 1 ELSE 2 * pow[k - 1]
  IN  CHOOSE p \in need .. (2 * need - 1) : \E k \in 0 .. need : p = pow[k]

\* StreamBuf::allocate: a request for nothing leaves the buffer without memory.
AllocSize(size) == IF 0 < size THEN nextPow2(size) ELSE 0

NewCells(n) == [i \in 1 .. n |-> Uninit]

\* Stream(std::size_t)
NewStream(size) == [cells |-> NewCells(AllocSize(size)), m_read |-> 0, m_written |-> 0]

StreamAllocSize(s) == Len(s.cells)

StreamReadableSize(s) == s.m_written - s.m_read

StreamWritableSize(s) == StreamAllocSize(s) - s.m_written

\* Stream::getReadableBuffer and peek: the bytes written and not yet read.
Unread(s) == SubSeq(s.cells, s.m_read + 1, s.m_written)

StreamCommit(s, n) == [s EXCEPT !.m_written = @ + n]

StreamConsume(s, n) == [s EXCEPT !.m_read = @ + n]

StreamReset(s) == [cells |-> s.cells, m_read |-> 0, m_written |-> 0]

\* memcpy: cells with bytes from the (at + 1)-th on.
Overwrite(cells, at, bytes) ==
  [i \in DOMAIN cells |-> IF i \in at + 1 .. at + Len(bytes) THEN bytes[i - at] ELSE cells[i]]

Store(s, at, bytes) == [s EXCEPT !.cells = Overwrite(@, at, bytes)]

\* OStreamVerifier::verify: grow the buffer when size more bytes do not fit.
\* realloc keeps what the buffer held.
VerifyWritable(s, size) ==
  IF StreamWritableSize(s) < size
  THEN [s EXCEPT !.cells = @ \o NewCells(AllocSize(s.m_written + size) - Len(@))]
  ELSE s

\* Stream::write(data, size)
StreamWrite(s, bytes) ==
  StreamCommit(Store(VerifyWritable(s, Len(bytes)), s.m_written, bytes), Len(bytes))

\* Stream::write(size): room that is left for somebody to fill in later.
StreamSkip(s, size) == StreamCommit(VerifyWritable(s, size), size)

\* Stream(data, size)
StreamOf(bytes) == StreamWrite(NewStream(Len(bytes)), bytes)

\* The cursors Stream's own assertions demand (Stream.h:86,106,112).
CursorsOK(s) ==
  /\ s.m_read \in Nat
  /\ s.m_written \in Nat
  /\ s.m_read <= s.m_written
  /\ s.m_written <= StreamAllocSize(s)
=============================================================================
