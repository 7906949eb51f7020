------------------------------ MODULE Encoder -------------------------------
(***************************************************************************)
(* dk::Encoder (LibraryNet/Encoder.h, Encoder.cpp) with the NullEncoder of *)
(* TCPService.h: how a message becomes a packet and a packet becomes a     *)
(* message again. A packet is                                              *)
(*                                                                         *)
(*    size field | header | message number | body                          *)
(*                                                                         *)
(* and its size field counts what comes after it. A message m is           *)
(* [id, len, reserved]: its bytes are the pairs <<id, 1>>, <<id, 2>>, ...  *)
(* (first the message number, then len bytes of body), and reserved is     *)
(* what TCPMessage::reserve was called with.                               *)
(***************************************************************************)
EXTENDS RecvQueue

CONSTANTS
  SIZE_LEN,      \* sizeof(uint32_t)
  NO_LEN,        \* sizeof(TCPMessageNo)
  HEADER_LEN,    \* getHeaderSize(), the sizeof of the packet header
  UINT32_MAX     \* the largest value of the size field

ASSUME EncoderAssumption ==
  /\ SIZE_LEN \in Nat \ {0}
  /\ NO_LEN \in Nat \ {0}
  /\ HEADER_LEN \in Nat
  /\ UINT32_MAX \in Nat

\* A mutant of minimumSize: the size field is counted as part of what it counts.
minimumSizeOfPacket == SIZE_LEN + NO_LEN + HEADER_LEN

minimumSize == NO_LEN + HEADER_LEN

minimumPacketSize == SIZE_LEN + minimumSize

\* The bytes of a size field that holds the value v.
SizeField(v) == [i \in 1 .. SIZE_LEN |-> << "size", v, i >>]

\* The value of four bytes read as a size. Bytes that setSize has not written
\* are worth 0, a size that decode rejects: a framing error cannot go unseen.
SizeValue(bytes) ==
  IF \E v \in 0 .. UINT32_MAX : bytes = SizeField(v)
  THEN CHOOSE v \in 0 .. UINT32_MAX : bytes = SizeField(v)
  ELSE 0

NoBytes(m) == [i \in 1 .. NO_LEN |-> << m.id, i >>]

BodyBytes(m) == [i \in 1 .. m.len |-> << m.id, NO_LEN + i >>]

\* What the receiver of m has to find in the stream that decode returns.
MessageBytes(m) == NoBytes(m) \o BodyBytes(m)

setSize(s) == Store(s, 0, SizeField((s.m_written - SIZE_LEN) % (UINT32_MAX + 1)))

\* The header is left as malloc returned it: NullEncoder::doEncode is empty.
encode(m) ==
  LET framed == StreamSkip(StreamSkip(NewStream(m.reserved), SIZE_LEN), HEADER_LEN)
  IN  setSize(StreamWrite(StreamWrite(framed, NoBytes(m)), BodyBytes(m)))

-----------------------------------------------------------------------------
\* The size field of the packet at the front of q, once validateSize has it.
SizeKnown(q) == getReadableSize(q) >= minimumPacketSize

FrontSize(q) == SizeValue(peek(q, SIZE_LEN))

\* A mutant of enough: one byte too many is asked for.
moreThanEnough(q, size) == getReadableSize(q) > size + SIZE_LEN

\* enough(): room for the rest of the packet when it is not there yet.
enough(q, size) == getReadableSize(q) >= size + SIZE_LEN

\* A mutant of MakeRoom: the size field of the packet is forgotten.
MakeRoomForSize(q, size) ==
  IF getReadableSize(q) + getWritableSize(q) < size
  THEN prepare(q, size - getReadableSize(q))
  ELSE q

MakeRoom(q, size) ==
  LET packetSize == size + SIZE_LEN
      readableSize == getReadableSize(q)
  IN  IF readableSize + getWritableSize(q) < packetSize
      THEN prepare(q, packetSize - readableSize)
      ELSE q

\* A stream of its own for a packet that does not fill the front stream.
CopyOut(q, size) == StreamCommit(Store(NewStream(size), 0, peek(q, size)), size)

\* decode(): the outcome, the queue it leaves, and the stream of a packet.
\* detach() hands the front stream over when the packet is all it has left.
decode(q) ==
  LET size == FrontSize(q)
      body == pop(q, SIZE_LEN)
      packet == IF detachable(body, size) THEN Head(body) ELSE CopyOut(body, size)
  IN  CASE ~SizeKnown(q) -> [outcome |-> "nullopt", queue |-> q]
        [] SizeKnown(q) /\ size < minimumSize -> [outcome |-> "throw", queue |-> q]
        [] SizeKnown(q) /\ size >= minimumSize /\ ~enough(q, size)
             -> [outcome |-> "nullopt", queue |-> MakeRoom(q, size)]
        [] OTHER
             -> [outcome |-> "packet",
                 queue |-> IF detachable(body, size) THEN AfterDetach(body) ELSE pop(body, size),
                 stream |-> StreamConsume(packet, HEADER_LEN)]
=============================================================================
