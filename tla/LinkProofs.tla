----------------------------- MODULE LinkProofs -----------------------------
(***************************************************************************)
(* For any buffer sizes, any messages that fit the size field, and any way *)
(* the bytes are split on their way: what decode returns on one side is    *)
(* what was sent on the other (Refinement), decode never throws, and a     *)
(* packet that is not complete has room for the rest.                      *)
(*                                                                         *)
(* None of this is inductive. The invariant it rests on says where the     *)
(* bytes are: the receiving queue, the wire and the sending queue hold, in *)
(* this order, the packets of the messages that have been sent and not     *)
(* received, and nothing else.                                             *)
(***************************************************************************)
EXTENDS Link, QueueProofs

\* What a cell of a stream may hold. The header of a packet is sent as malloc
\* returned it, so Uninit travels as well.
Octet == {Uninit} \cup ({"size"} \X Nat \X Nat) \cup (Nat \X Nat)

-----------------------------------------------------------------------------
(***************************************************************************)
(* Packets.                                                                *)
(***************************************************************************)
LEMMA OctetCells == CellsOf(Octet) = Octet
BY DEF CellsOf, Octet

LEMMA RegroupOctets ==
  \A a, b, c \in Seq(Octet) : a \o b \in Seq(Octet) /\ a \o (b \o c) = (a \o b) \o c
BY Regroup

LEMMA MoveOctets ==
  ASSUME NEW a \in Seq(Octet), NEW n \in 0 .. Len(a), NEW b \in Seq(Octet)
  PROVE  /\ SubSeq(a, 1, n) \in Seq(Octet) /\ Len(SubSeq(a, 1, n)) = n
         /\ SubSeq(a, n + 1, Len(a)) \in Seq(Octet)
         /\ (b \o SubSeq(a, 1, n)) \o SubSeq(a, n + 1, Len(a)) = b \o a
BY MoveOver

LEMMA SizeFieldType ==
  ASSUME NEW v \in Nat
  PROVE  SizeField(v) \in Seq(Octet) /\ Len(SizeField(v)) = SIZE_LEN
<1>1. SIZE_LEN \in Nat
  BY EncoderAssumption
<1>2. SizeField(v) \in [1 .. SIZE_LEN -> Octet]
  BY <1>1 DEF SizeField, Octet
<1> QED
  BY <1>1, <1>2, FunctionIsSeq

\* The four bytes of a size are read back as what was written
\* (Encoder.cpp:54, 66).
LEMMA SizeReadBack ==
  ASSUME NEW v \in 0 .. UINT32_MAX
  PROVE  SizeValue(SizeField(v)) = v
<1>1. ASSUME NEW w \in 0 .. UINT32_MAX, SizeField(v) = SizeField(w)
      PROVE  w = v
  <2>1. PICK one \in 1 .. SIZE_LEN : one = 1
    BY EncoderAssumption
  <2>2. SizeField(v)[one] = << "size", v, one >> /\ SizeField(w)[one] = << "size", w, one >>
    BY <2>1 DEF SizeField
  <2> QED
    BY <1>1, <2>2
<1> QED
  BY <1>1 DEF SizeValue

\* What Send encodes.
Messages == [id : 1 .. MaxMessages, len : Bodies, reserved : Reserves]

LEMMA MessageTypes ==
  ASSUME NEW m \in Messages
  PROVE  /\ NoBytes(m) \in Seq(Octet) /\ Len(NoBytes(m)) = NO_LEN
         /\ BodyBytes(m) \in Seq(Octet) /\ Len(BodyBytes(m)) = m.len
         /\ MessageBytes(m) \in Seq(Octet) /\ Len(MessageBytes(m)) = NO_LEN + m.len
         /\ \A i \in 1 .. NO_LEN : MessageBytes(m)[i] = NoBytes(m)[i]
         /\ \A i \in 1 .. m.len : MessageBytes(m)[NO_LEN + i] = BodyBytes(m)[i]
         /\ m.len \in Nat /\ m.reserved \in Nat /\ m.id \in Nat
<1>1. m.len \in Nat /\ m.reserved \in Nat /\ m.id \in Nat /\ NO_LEN \in Nat
  <2>1. m.id \in 1 .. MaxMessages /\ m.len \in Bodies /\ m.reserved \in Reserves
    BY DEF Messages
  <2>2. m.len \in Nat /\ m.reserved \in Nat
    BY <2>1, LinkAssumption
  <2>3. m.id \in Nat
    <3>1. MaxMessages \in Nat
      BY LinkAssumption
    <3>2. \A i \in 1 .. MaxMessages : i \in Nat
      BY <3>1
    <3> QED
      BY <2>1, <3>2
  <2> QED
    BY <2>2, <2>3, EncoderAssumption
<1>2. NoBytes(m) \in [1 .. NO_LEN -> Octet] /\ BodyBytes(m) \in [1 .. m.len -> Octet]
  BY <1>1 DEF NoBytes, BodyBytes, Octet
<1>3. /\ NoBytes(m) \in Seq(Octet) /\ Len(NoBytes(m)) = NO_LEN
      /\ BodyBytes(m) \in Seq(Octet) /\ Len(BodyBytes(m)) = m.len
  BY <1>1, <1>2, FunctionIsSeq
<1>4. /\ NoBytes(m) \o BodyBytes(m) \in Seq(Octet)
      /\ Len(NoBytes(m) \o BodyBytes(m)) = NO_LEN + m.len
      /\ \A j \in 1 .. NO_LEN + m.len : (NoBytes(m) \o BodyBytes(m))[j] =
           IF j <= NO_LEN THEN NoBytes(m)[j] ELSE BodyBytes(m)[j - NO_LEN]
  <2> DEFINE a == NoBytes(m)
             b == BodyBytes(m)
  <2>1. a \in Seq(Octet) /\ b \in Seq(Octet)
    BY <1>3
  <2> HIDE DEF a, b
  <2>2. /\ a \o b \in Seq(Octet)
        /\ Len(a \o b) = Len(a) + Len(b)
        /\ \A j \in 1 .. Len(a) + Len(b) : (a \o b)[j] = IF j <= Len(a) THEN a[j] ELSE b[j - Len(a)]
    BY <2>1, ConcatProperties
  <2> QED
    BY <1>3, <2>2 DEF a, b
<1>5. \A i \in 1 .. NO_LEN : i \in 1 .. NO_LEN + m.len /\ i <= NO_LEN
  BY <1>1
<1>6. \A i \in 1 .. m.len :
        NO_LEN + i \in 1 .. NO_LEN + m.len /\ ~(NO_LEN + i <= NO_LEN) /\ (NO_LEN + i) - NO_LEN = i
  BY <1>1
<1> QED
  BY <1>1, <1>3, <1>4, <1>5, <1>6 DEF MessageBytes

LEMMA ValueFits ==
  ASSUME NEW m \in Messages
  PROVE  /\ minimumSize + m.len \in 0 .. UINT32_MAX
         /\ (minimumSize + m.len) % (UINT32_MAX + 1) = minimumSize + m.len
         /\ minimumSize \in Nat
         /\ minimumSize = NO_LEN + HEADER_LEN
<1>1. /\ m.len \in Nat /\ minimumSize \in Nat /\ minimumSize = NO_LEN + HEADER_LEN
      /\ minimumSize + m.len <= UINT32_MAX /\ UINT32_MAX \in Nat
  <2>1. m.len \in Bodies
    BY DEF Messages
  <2>2. minimumSize \in Nat /\ minimumSize = NO_LEN + HEADER_LEN /\ UINT32_MAX \in Nat
    BY EncoderAssumption DEF minimumSize
  <2> QED
    BY <2>1, <2>2, LinkAssumption
<1> DEFINE v == minimumSize + m.len
<1>2. v \in 0 .. UINT32_MAX
  BY <1>1
<1> HIDE DEF v
<1>3. v % (UINT32_MAX + 1) = v
  BY <1>1, <1>2
<1> QED
  BY <1>1, <1>2, <1>3 DEF v

\* encode makes a packet that says how long it is and that ends with the bytes of
\* the message, however much was reserved
\* (Encoder.cpp:9-19, 50-55).
LEMMA EncodeShape ==
  ASSUME NEW m \in Messages
  PROVE  /\ SoundStream(Octet, encode(m))
         /\ Len(Unread(encode(m))) = SIZE_LEN + (minimumSize + m.len)
         /\ SubSeq(Unread(encode(m)), 1, SIZE_LEN) = SizeField(minimumSize + m.len)
         /\ SubSeq(Unread(encode(m)), (SIZE_LEN + HEADER_LEN) + 1, Len(Unread(encode(m))))
              = MessageBytes(m)
<1> DEFINE f0 == NewStream(m.reserved)
           f1 == StreamSkip(f0, SIZE_LEN)
           f2 == StreamSkip(f1, HEADER_LEN)
           f3 == StreamWrite(f2, NoBytes(m))
           f4 == StreamWrite(f3, BodyBytes(m))
           v == minimumSize + m.len
           e == Store(f4, 0, SizeField(v))
           at == SIZE_LEN + HEADER_LEN
<1>1. /\ SIZE_LEN \in Nat /\ HEADER_LEN \in Nat /\ NO_LEN \in Nat
      /\ m.len \in Nat /\ m.reserved \in Nat
      /\ NoBytes(m) \in Seq(Octet) /\ Len(NoBytes(m)) = NO_LEN
      /\ BodyBytes(m) \in Seq(Octet) /\ Len(BodyBytes(m)) = m.len
      /\ Uninit \in Octet
  BY EncoderAssumption, MessageTypes DEF Octet
<1>2. v = (NO_LEN + HEADER_LEN) + m.len /\ v \in 0 .. UINT32_MAX /\ v % (UINT32_MAX + 1) = v /\ v \in Nat
  BY <1>1, ValueFits
<1>3. encode(m) = Store(f4, 0, SizeField((f4.m_written - SIZE_LEN) % (UINT32_MAX + 1)))
  BY DEF encode, setSize
<1> HIDE DEF f0, f1, f2, f3, f4, v
<1>4. f0 \in StreamsOf(Octet) /\ CursorsOK(f0) /\ f0.m_read = 0 /\ f0.m_written = 0
  BY <1>1, NewStreamFits DEF f0
<1>5. f1 \in StreamsOf(Octet) /\ CursorsOK(f1) /\ f1.m_read = 0 /\ f1.m_written = SIZE_LEN
  <2>1. /\ StreamSkip(f0, SIZE_LEN) \in StreamsOf(Octet) /\ CursorsOK(StreamSkip(f0, SIZE_LEN))
        /\ StreamSkip(f0, SIZE_LEN).m_read = f0.m_read
        /\ StreamSkip(f0, SIZE_LEN).m_written = f0.m_written + SIZE_LEN
    BY <1>1, <1>4, StreamSkipFits
  <2> QED
    BY <1>1, <1>4, <2>1 DEF f1
<1>6. f2 \in StreamsOf(Octet) /\ CursorsOK(f2) /\ f2.m_read = 0 /\ f2.m_written = at
  <2>1. /\ StreamSkip(f1, HEADER_LEN) \in StreamsOf(Octet) /\ CursorsOK(StreamSkip(f1, HEADER_LEN))
        /\ StreamSkip(f1, HEADER_LEN).m_read = f1.m_read
        /\ StreamSkip(f1, HEADER_LEN).m_written = f1.m_written + HEADER_LEN
    BY <1>1, <1>5, StreamSkipFits
  <2> QED
    BY <1>1, <1>5, <2>1 DEF f2
<1>7. /\ f3 \in StreamsOf(Octet) /\ CursorsOK(f3) /\ f3.m_read = 0
      /\ f3.m_written = at + NO_LEN
      /\ \A i \in 1 .. NO_LEN : f3.cells[at + i] = NoBytes(m)[i]
  <2> DEFINE b == NoBytes(m)
  <2>1. b \in Seq(Octet) /\ Len(b) = NO_LEN
    BY <1>1
  <2> HIDE DEF b
  <2>2. /\ StreamWrite(f2, b) \in StreamsOf(Octet) /\ CursorsOK(StreamWrite(f2, b))
        /\ StreamWrite(f2, b).m_read = f2.m_read
        /\ StreamWrite(f2, b).m_written = f2.m_written + Len(b)
        /\ \A i \in 1 .. Len(b) : StreamWrite(f2, b).cells[f2.m_written + i] = b[i]
    <3>1. f2 \in StreamsOf(Octet) /\ CursorsOK(f2) /\ Uninit \in Octet
      BY <1>1, <1>6
    <3>2. \A s \in StreamsOf(Octet), bytes \in Seq(Octet) : CursorsOK(s) =>
            /\ StreamWrite(s, bytes) \in StreamsOf(Octet) /\ CursorsOK(StreamWrite(s, bytes))
            /\ StreamWrite(s, bytes).m_read = s.m_read
            /\ StreamWrite(s, bytes).m_written = s.m_written + Len(bytes)
            /\ \A i \in 1 .. Len(bytes) : StreamWrite(s, bytes).cells[s.m_written + i] = bytes[i]
      BY <3>1, StreamWriteFits
    <3> QED
      BY <2>1, <3>1, <3>2
  <2> QED
    BY <1>6, <2>1, <2>2 DEF f3, b
<1>8. /\ f4 \in StreamsOf(Octet) /\ CursorsOK(f4) /\ f4.m_read = 0
      /\ f4.m_written = (at + NO_LEN) + m.len
      /\ \A i \in 1 .. NO_LEN : f4.cells[at + i] = NoBytes(m)[i]
      /\ \A i \in 1 .. m.len : f4.cells[(at + NO_LEN) + i] = BodyBytes(m)[i]
  <2> DEFINE b == BodyBytes(m)
  <2>1. b \in Seq(Octet) /\ Len(b) = m.len
    BY <1>1
  <2> HIDE DEF b
  <2>2. /\ StreamWrite(f3, b) \in StreamsOf(Octet) /\ CursorsOK(StreamWrite(f3, b))
        /\ StreamWrite(f3, b).m_read = f3.m_read
        /\ StreamWrite(f3, b).m_written = f3.m_written + Len(b)
        /\ \A i \in 1 .. f3.m_written : StreamWrite(f3, b).cells[i] = f3.cells[i]
        /\ \A i \in 1 .. Len(b) : StreamWrite(f3, b).cells[f3.m_written + i] = b[i]
    <3>1. f3 \in StreamsOf(Octet) /\ CursorsOK(f3) /\ Uninit \in Octet
      BY <1>1, <1>7
    <3>2. \A s \in StreamsOf(Octet), bytes \in Seq(Octet) : CursorsOK(s) =>
            /\ StreamWrite(s, bytes) \in StreamsOf(Octet) /\ CursorsOK(StreamWrite(s, bytes))
            /\ StreamWrite(s, bytes).m_read = s.m_read
            /\ StreamWrite(s, bytes).m_written = s.m_written + Len(bytes)
            /\ \A i \in 1 .. s.m_written : StreamWrite(s, bytes).cells[i] = s.cells[i]
            /\ \A i \in 1 .. Len(bytes) : StreamWrite(s, bytes).cells[s.m_written + i] = bytes[i]
      BY <3>1, StreamWriteFits
    <3> HIDE DEF f3
    <3> QED
      BY <2>1, <3>1, <3>2
  <2>3. \A i \in 1 .. NO_LEN : at + i \in 1 .. f3.m_written
    BY <1>1, <1>7
  <2> QED
    BY <1>7, <2>1, <2>2, <2>3 DEF f4, b
<1>9. encode(m) = e
  <2>1. f4.m_written - SIZE_LEN = v
    BY <1>1, <1>2, <1>8
  <2> QED
    BY <1>2, <1>3, <2>1
<1>10. /\ e \in StreamsOf(Octet) /\ e.m_read = 0 /\ e.m_written = SIZE_LEN + v
       /\ CursorsOK(e)
       /\ \A i \in 1 .. SIZE_LEN : e.cells[i] = SizeField(v)[i]
       /\ \A i \in 1 .. NO_LEN : e.cells[at + i] = NoBytes(m)[i]
       /\ \A i \in 1 .. m.len : e.cells[(at + NO_LEN) + i] = BodyBytes(m)[i]
  <2> DEFINE b == SizeField(v)
  <2>1. b \in Seq(Octet) /\ Len(b) = SIZE_LEN
    BY <1>2, SizeFieldType
  <2> HIDE DEF b
  <2>2. PICK zero \in Nat : zero = 0
    OBVIOUS
  <2>3. /\ Store(f4, zero, b) \in StreamsOf(Octet)
        /\ Store(f4, zero, b).m_read = f4.m_read
        /\ Store(f4, zero, b).m_written = f4.m_written
        /\ Len(Store(f4, zero, b).cells) = Len(f4.cells)
        /\ \A i \in 1 .. Len(f4.cells) :
             Store(f4, zero, b).cells[i] =
               IF i \in zero + 1 .. zero + Len(b) THEN b[i - zero] ELSE f4.cells[i]
    <3>1. f4 \in StreamsOf(Octet)
      BY <1>8
    <3>2. \A s \in StreamsOf(Octet), bytes \in Seq(Octet) :
            /\ Store(s, zero, bytes) \in StreamsOf(Octet)
            /\ Store(s, zero, bytes).m_read = s.m_read
            /\ Store(s, zero, bytes).m_written = s.m_written
            /\ Len(Store(s, zero, bytes).cells) = Len(s.cells)
            /\ \A i \in 1 .. Len(s.cells) :
                 Store(s, zero, bytes).cells[i] =
                   IF i \in zero + 1 .. zero + Len(bytes) THEN bytes[i - zero] ELSE s.cells[i]
      BY StoreFits
    <3> HIDE DEF e, at
    <3> QED
      BY <2>1, <3>1, <3>2
  <2>4. Store(f4, zero, b) = e
    BY <2>2 DEF b
  <2> HIDE DEF e
  <2>5. Len(f4.cells) \in Nat /\ f4.m_written <= Len(f4.cells) /\ f4.m_written = SIZE_LEN + v
    BY <1>1, <1>2, <1>8 DEF StreamsOf, CursorsOK, StreamAllocSize
  <2>6. \A i \in 1 .. Len(f4.cells) : e.cells[i] = IF i <= SIZE_LEN THEN b[i] ELSE f4.cells[i]
    <3> TAKE i \in 1 .. Len(f4.cells)
    <3>1. /\ (i \in zero + 1 .. zero + Len(b)) <=> i <= SIZE_LEN
          /\ i - zero = i
      BY <1>1, <2>1, <2>2, <2>5
    <3> QED
      BY <2>3, <2>4, <3>1
  <2>7. \A i \in 1 .. SIZE_LEN : e.cells[i] = b[i]
    <3>1. \A i \in 1 .. SIZE_LEN : i \in 1 .. Len(f4.cells) /\ i <= SIZE_LEN
      BY <1>1, <1>2, <2>5
    <3> QED
      BY <2>6, <3>1
  <2>8. \A i \in 1 .. NO_LEN + m.len : e.cells[at + i] = f4.cells[at + i]
    <3>1. \A i \in 1 .. NO_LEN + m.len : at + i \in 1 .. Len(f4.cells) /\ ~(at + i <= SIZE_LEN)
      BY <1>1, <1>8, <2>5
    <3> QED
      BY <2>6, <3>1
  <2>9. /\ \A i \in 1 .. NO_LEN : i \in 1 .. NO_LEN + m.len
        /\ \A i \in 1 .. m.len : NO_LEN + i \in 1 .. NO_LEN + m.len /\ at + (NO_LEN + i) = (at + NO_LEN) + i
    BY <1>1
  <2>10. \A i \in 1 .. m.len : e.cells[(at + NO_LEN) + i] = f4.cells[(at + NO_LEN) + i]
    <3> TAKE i \in 1 .. m.len
    <3>1. e.cells[at + (NO_LEN + i)] = f4.cells[at + (NO_LEN + i)]
      BY <2>8, <2>9
    <3> QED
      BY <2>9, <3>1
  <2>11. CursorsOK(e)
    BY <1>8, <2>3, <2>4, <2>5 DEF CursorsOK, StreamAllocSize
  <2>12. /\ \A i \in 1 .. NO_LEN : e.cells[at + i] = NoBytes(m)[i]
         /\ \A i \in 1 .. m.len : e.cells[(at + NO_LEN) + i] = BodyBytes(m)[i]
    BY <1>8, <2>8, <2>9, <2>10
  <2> QED
    BY <1>8, <2>3, <2>4, <2>5, <2>7, <2>11, <2>12 DEF b
<1> HIDE DEF e
<1>11. SoundStream(Octet, e)
  <2>1. /\ e.cells \in Seq(Octet) /\ Len(e.cells) \in Nat
        /\ e.m_written <= Len(e.cells) /\ e.m_written \in Nat
    BY <1>10 DEF StreamsOf, CursorsOK, StreamAllocSize
  <2>2. \A i \in 0 + 1 .. e.m_written : e.cells[i] \in Octet
    BY <2>1
  <2> QED
    BY <1>10, <2>2, OctetCells DEF SoundStream
<1> DEFINE u == Unread(e)
<1>12. /\ u \in Seq(Octet) /\ Len(u) = SIZE_LEN + v
       /\ \A i \in 1 .. SIZE_LEN + v : u[i] = e.cells[i]
  <2>1. /\ Unread(e) \in Seq(Octet) /\ Len(Unread(e)) = StreamReadableSize(e)
        /\ \A j \in 1 .. StreamReadableSize(e) : Unread(e)[j] = e.cells[e.m_read + j]
    BY <1>11, SoundUnread
  <2>2. /\ StreamReadableSize(e) = SIZE_LEN + v
        /\ \A j \in 1 .. SIZE_LEN + v : e.m_read + j = j
    BY <1>1, <1>2, <1>10 DEF StreamReadableSize
  <2> QED
    BY <2>1, <2>2
<1> HIDE DEF u
<1>13. SubSeq(u, 1, SIZE_LEN) = SizeField(v)
  <2>1. SIZE_LEN \in 0 .. Len(u)
    BY <1>1, <1>2, <1>12
  <2>2. /\ SubSeq(u, 1, SIZE_LEN) \in Seq(Octet) /\ Len(SubSeq(u, 1, SIZE_LEN)) = SIZE_LEN
        /\ \A j \in 1 .. SIZE_LEN : SubSeq(u, 1, SIZE_LEN)[j] = u[j]
    BY <1>12, <2>1, FirstFacts
  <2>3. SizeField(v) \in Seq(Octet) /\ Len(SizeField(v)) = SIZE_LEN
    BY <1>2, SizeFieldType
  <2>4. \A j \in 1 .. SIZE_LEN : j \in 1 .. SIZE_LEN + v
    BY <1>1, <1>2
  <2>5. \A j \in 1 .. SIZE_LEN : SubSeq(u, 1, SIZE_LEN)[j] = SizeField(v)[j]
    BY <1>10, <1>12, <2>2, <2>4
  <2> QED
    BY <2>2, <2>3, <2>5, SeqEqual
<1>14. SubSeq(u, at + 1, Len(u)) = MessageBytes(m)
  <2> DEFINE w == SubSeq(u, at + 1, Len(u))
             b == MessageBytes(m)
  <2>1. at \in 0 .. Len(u) /\ Len(u) - at = NO_LEN + m.len
    <3>1. Len(u) = SIZE_LEN + ((NO_LEN + HEADER_LEN) + m.len)
      BY <1>2, <1>12
    <3> HIDE DEF w, b
    <3> QED
      BY <1>1, <3>1
  <2>2. /\ w \in Seq(Octet) /\ Len(w) = NO_LEN + m.len
        /\ \A j \in 1 .. NO_LEN + m.len : w[j] = u[at + j]
    <3>1. u \in Seq(Octet)
      BY <1>12
    <3> HIDE DEF at
    <3>2. /\ SubSeq(u, at + 1, Len(u)) \in Seq(Octet)
          /\ Len(SubSeq(u, at + 1, Len(u))) = Len(u) - at
          /\ \A j \in 1 .. Len(u) - at : SubSeq(u, at + 1, Len(u))[j] = u[at + j]
      BY <2>1, <3>1, RestFacts
    <3> QED
      BY <2>1, <3>2
  <2>3. /\ b \in Seq(Octet) /\ Len(b) = NO_LEN + m.len
        /\ \A i \in 1 .. NO_LEN : b[i] = NoBytes(m)[i]
        /\ \A i \in 1 .. m.len : b[NO_LEN + i] = BodyBytes(m)[i]
    BY MessageTypes
  <2> HIDE DEF w, b
  <2>4. ASSUME NEW j \in 1 .. NO_LEN + m.len
        PROVE  w[j] = b[j]
    <3>1. at + j \in 1 .. SIZE_LEN + v
      BY <1>1, <1>2
    <3>2. w[j] = e.cells[at + j]
      BY <1>12, <2>2, <3>1
    <3>3. CASE j <= NO_LEN
      <4>1. j \in 1 .. NO_LEN
        BY <1>1, <3>3
      <4> QED
        BY <1>10, <2>3, <3>2, <4>1
    <3>4. CASE ~(j <= NO_LEN)
      <4>1. PICK i \in 1 .. m.len : j = NO_LEN + i /\ (at + NO_LEN) + i = at + j
        <5>1. /\ j - NO_LEN \in 1 .. m.len /\ j = NO_LEN + (j - NO_LEN)
              /\ (at + NO_LEN) + (j - NO_LEN) = at + j
          BY <1>1, <3>4
        <5> QED
          BY <5>1
      <4> QED
        BY <1>10, <2>3, <3>2, <4>1
    <3> QED
      BY <3>3, <3>4
  <2>5. w = b
    BY <2>2, <2>3, <2>4, SeqEqual
  <2> QED
    BY <2>5 DEF w, b
<1> QED
  BY <1>9, <1>11, <1>12, <1>13, <1>14 DEF u, v

-----------------------------------------------------------------------------
(***************************************************************************)
(* decode.                                                                 *)
(***************************************************************************)
\* The stream of its own for a packet holds what the queue holds first.
LEMMA CopyOutBytes ==
  ASSUME NEW q, GoodQueue(Octet, q), NEW n \in 0 .. Backlog(q)
  PROVE  /\ CopyOut(q, n) \in StreamsOf(Octet)
         /\ CursorsOK(CopyOut(q, n))
         /\ Unread(CopyOut(q, n)) = SubSeq(Bytes(q), 1, n)
<1> DEFINE b == peek(q, n)
           f == NewStream(n)
           g == Store(f, 0, b)
           h == StreamCommit(g, n)
<1>1. Backlog(q) \in Nat /\ n \in Nat /\ Uninit \in Octet
  BY GoodIsSound, BytesType DEF Octet
<1>2. b = SubSeq(Bytes(q), 1, n) /\ b \in Seq(Octet) /\ Len(b) = n
  BY PeekIsLook
<1>3. CopyOut(q, n) = h
  BY DEF CopyOut
<1> HIDE DEF b, f
<1>4. /\ f \in StreamsOf(Octet) /\ CursorsOK(f) /\ f.m_read = 0 /\ f.m_written = 0
      /\ n <= Len(f.cells) /\ Len(f.cells) \in Nat
  <2>1. /\ NewStream(n) \in StreamsOf(Octet) /\ CursorsOK(NewStream(n))
        /\ NewStream(n).m_read = 0 /\ NewStream(n).m_written = 0
        /\ n <= StreamAllocSize(NewStream(n))
    BY <1>1, NewStreamFits
  <2> QED
    BY <2>1 DEF f, StreamAllocSize, StreamsOf
<1>5. /\ g \in StreamsOf(Octet) /\ g.m_read = 0 /\ g.m_written = 0
      /\ Len(g.cells) = Len(f.cells)
      /\ \A i \in 1 .. n : g.cells[i] = b[i]
  <2>1. PICK zero \in Nat : zero = 0
    OBVIOUS
  <2>2. \A s \in StreamsOf(Octet), bytes \in Seq(Octet) :
          /\ Store(s, zero, bytes) \in StreamsOf(Octet)
          /\ Store(s, zero, bytes).m_read = s.m_read
          /\ Store(s, zero, bytes).m_written = s.m_written
          /\ Len(Store(s, zero, bytes).cells) = Len(s.cells)
          /\ \A i \in 1 .. Len(s.cells) :
               Store(s, zero, bytes).cells[i] =
                 IF i \in zero + 1 .. zero + Len(bytes) THEN bytes[i - zero] ELSE s.cells[i]
    BY StoreFits
  <2>3. g = Store(f, zero, b)
    BY <2>1
  <2> HIDE DEF g, h
  <2>4. /\ g \in StreamsOf(Octet) /\ g.m_read = f.m_read /\ g.m_written = f.m_written
        /\ Len(g.cells) = Len(f.cells)
        /\ \A i \in 1 .. Len(f.cells) :
             g.cells[i] = IF i \in zero + 1 .. zero + Len(b) THEN b[i - zero] ELSE f.cells[i]
    BY <1>2, <1>4, <2>2, <2>3
  <2>5. \A i \in 1 .. n : i \in 1 .. Len(f.cells) /\ i \in zero + 1 .. zero + Len(b) /\ i - zero = i
    BY <1>1, <1>2, <1>4, <2>1
  <2>6. \A i \in 1 .. n : g.cells[i] = b[i]
    BY <2>4, <2>5
  <2> QED
    BY <1>4, <2>4, <2>6
<1> HIDE DEF g
<1>6. CursorsOK(g) /\ n \in 0 .. StreamWritableSize(g)
  BY <1>1, <1>4, <1>5 DEF CursorsOK, StreamWritableSize, StreamAllocSize, StreamsOf
<1>7. /\ h \in StreamsOf(Octet) /\ CursorsOK(h)
      /\ h = [cells |-> g.cells, m_read |-> g.m_read, m_written |-> g.m_written + n]
  BY <1>5, <1>6, StreamCommitFits
<1>8. h.cells = g.cells /\ h.m_read = 0 /\ StreamReadableSize(h) = n
  BY <1>1, <1>5, <1>7 DEF StreamReadableSize
<1> HIDE DEF h
<1>9. /\ Unread(h) \in Seq(Octet) /\ Len(Unread(h)) = n
      /\ \A j \in 1 .. n : Unread(h)[j] = h.cells[h.m_read + j]
  <2>1. /\ Unread(h) \in Seq(Octet) /\ Len(Unread(h)) = StreamReadableSize(h)
        /\ \A j \in 1 .. StreamReadableSize(h) : Unread(h)[j] = h.cells[h.m_read + j]
    BY <1>7, UnreadFits
  <2> QED
    BY <1>8, <2>1
<1>10. \A j \in 1 .. n : Unread(h)[j] = b[j]
  <2> TAKE j \in 1 .. n
  <2>1. h.m_read + j = j
    BY <1>1, <1>8
  <2> QED
    BY <1>5, <1>8, <1>9, <2>1
<1>11. Unread(h) = b
  BY <1>2, <1>9, <1>10, SeqEqual
<1> QED
  BY <1>2, <1>3, <1>7, <1>11

\* The four ways decode ends.
LEMMA DecodeCases ==
  ASSUME NEW q
  PROVE  LET d == decode(q)
             size == FrontSize(q)
             body == pop(q, SIZE_LEN)
         IN  /\ ~SizeKnown(q) => d = [outcome |-> "nullopt", queue |-> q]
             /\ SizeKnown(q) /\ minimumSize <= size /\ size \in Nat /\ minimumSize \in Nat =>
                  \/ ~enough(q, size) /\ d = [outcome |-> "nullopt", queue |-> MakeRoom(q, size)]
                  \/ /\ enough(q, size)
                     /\ detachable(body, size)
                     /\ d = [outcome |-> "packet", queue |-> Tail(body),
                             stream |-> StreamConsume(Head(body), HEADER_LEN)]
                  \/ /\ enough(q, size)
                     /\ ~detachable(body, size)
                     /\ d = [outcome |-> "packet", queue |-> pop(body, size),
                             stream |-> StreamConsume(CopyOut(body, size), HEADER_LEN)]
<1> DEFINE size == FrontSize(q)
           body == pop(q, SIZE_LEN)
<1>1. ASSUME ~SizeKnown(q)
      PROVE  decode(q) = [outcome |-> "nullopt", queue |-> q]
  BY <1>1 DEF decode
<1>2. ASSUME SizeKnown(q), minimumSize <= size, size \in Nat, minimumSize \in Nat
      PROVE  ~(size < minimumSize) /\ size >= minimumSize
  <2> HIDE DEF size
  <2> QED
    BY <1>2
<1>3. ASSUME SizeKnown(q), minimumSize <= size, size \in Nat, minimumSize \in Nat, ~enough(q, size)
      PROVE  decode(q) = [outcome |-> "nullopt", queue |-> MakeRoom(q, size)]
  BY <1>2, <1>3 DEF decode
<1>4. ASSUME SizeKnown(q), minimumSize <= size, size \in Nat, minimumSize \in Nat, enough(q, size)
      PROVE  decode(q) =
               [outcome |-> "packet",
                queue |-> IF detachable(body, size) THEN AfterDetach(body) ELSE pop(body, size),
                stream |-> StreamConsume(IF detachable(body, size) THEN Head(body)
                                         ELSE CopyOut(body, size), HEADER_LEN)]
  BY <1>2, <1>4, Zenon DEF decode
<1> QED
  BY <1>1, <1>3, <1>4 DEF AfterDetach

\* The queue and the bytes that follow it are a packet u, whose size field says v,
\* and what comes after the packet.
BeginsWith(q, rest, u, v, more) ==
  /\ GoodQueue(Octet, q)
  /\ rest \in Seq(Octet)
  /\ u \in Seq(Octet)
  /\ more \in Seq(Octet)
  /\ v \in 0 .. UINT32_MAX
  /\ minimumSize <= v
  /\ Len(u) = SIZE_LEN + v
  /\ SubSeq(u, 1, SIZE_LEN) = SizeField(v)
  /\ Bytes(q) \o rest = u \o more

\* decode says that the packet is incomplete: no byte is lost, and there is room.
Incomplete(q) ==
  LET d == decode(q)
  IN  /\ GoodQueue(Octet, d.queue)
      /\ d.outcome = "nullopt"
      /\ Bytes(d.queue) = Bytes(q)
      /\ SizeKnown(q) =>
           FrontSize(d.queue) + SIZE_LEN <= getReadableSize(d.queue) + getWritableSize(d.queue)

\* decode returns the message, and the queue begins after the packet.
Complete(q, rest, message, more) ==
  LET d == decode(q)
  IN  /\ GoodQueue(Octet, d.queue)
      /\ d.outcome = "packet"
      /\ Bytes(d.queue) \o rest = more
      /\ Unread(d.stream) = message

LEMMA DecodePacket ==
  ASSUME NEW q, NEW rest, NEW u, NEW v, NEW more, BeginsWith(q, rest, u, v, more)
  PROVE  \/ Incomplete(q)
         \/ Complete(q, rest, SubSeq(u, (SIZE_LEN + HEADER_LEN) + 1, Len(u)), more)
<1> DEFINE d == decode(q)
           c == Bytes(q)
           n == Backlog(q)
           body == pop(q, SIZE_LEN)
<1>0. /\ GoodQueue(Octet, q) /\ rest \in Seq(Octet) /\ u \in Seq(Octet) /\ more \in Seq(Octet)
      /\ v \in 0 .. UINT32_MAX /\ minimumSize <= v /\ Len(u) = SIZE_LEN + v
      /\ SubSeq(u, 1, SIZE_LEN) = SizeField(v)
      /\ Bytes(q) \o rest = u \o more
  BY DEF BeginsWith
<1> USE <1>0
<1>1. /\ SIZE_LEN \in Nat /\ 0 < SIZE_LEN /\ HEADER_LEN \in Nat /\ NO_LEN \in Nat /\ 0 < NO_LEN
      /\ minimumSize \in Nat /\ minimumSize = NO_LEN + HEADER_LEN
      /\ minimumPacketSize = SIZE_LEN + minimumSize
      /\ UINT32_MAX \in Nat /\ v \in Nat /\ Len(u) \in Nat
  BY EncoderAssumption DEF minimumSize, minimumPacketSize
<1>2. /\ SoundQueue(Octet, q) /\ c \in Seq(Octet) /\ Len(c) = n /\ n \in Nat
      /\ getReadableSize(q) = n
  BY GoodIsSound, BytesType, SameReading
<1> HIDE DEF c, n, body
\* The first k bytes of the queue are the first of the packet.
<1>3. ASSUME NEW k \in Nat, k <= n, k <= Len(u)
      PROVE  /\ SubSeq(c, 1, k) = SubSeq(u, 1, k)
             /\ SubSeq(c, k + 1, Len(c)) \o rest = SubSeq(u, k + 1, Len(u)) \o more
  <2>1. k \in 0 .. Len(c) /\ k \in 0 .. Len(u)
    BY <1>1, <1>2, <1>3
  <2>2. /\ SubSeq(c \o rest, 1, k) = SubSeq(c, 1, k)
        /\ SubSeq(c \o rest, k + 1, Len(c \o rest)) = SubSeq(c, k + 1, Len(c)) \o rest
    BY <1>2, <2>1, FirstOfConcat
  <2>3. /\ SubSeq(u \o more, 1, k) = SubSeq(u, 1, k)
        /\ SubSeq(u \o more, k + 1, Len(u \o more)) = SubSeq(u, k + 1, Len(u)) \o more
    BY <2>1, FirstOfConcat
  <2>4. c \o rest = u \o more
    BY DEF c
  <2> QED
    BY <2>2, <2>3, <2>4
\* A queue with the same bytes reads the same size.
<1>4. ASSUME NEW r, GoodQueue(Octet, r), Bytes(r) = c, SIZE_LEN <= n
      PROVE  FrontSize(r) = v
  <2>1. Backlog(r) = n
    <3>1. SoundQueue(Octet, r)
      BY <1>4, GoodIsSound
    <3>2. Len(Bytes(r)) = Backlog(r)
      BY <3>1, BytesType
    <3> QED
      BY <1>2, <1>4, <3>2
  <2>2. SIZE_LEN \in 0 .. Backlog(r)
    BY <1>1, <1>2, <1>4, <2>1
  <2>3. peek(r, SIZE_LEN) = SubSeq(Bytes(r), 1, SIZE_LEN)
    BY <1>4, <2>2, PeekIsLook
  <2>4. SIZE_LEN <= Len(u)
    BY <1>1
  <2>5. peek(r, SIZE_LEN) = SizeField(v)
    BY <1>1, <1>3, <1>4, <2>3, <2>4
  <2> QED
    BY <2>5, SizeReadBack DEF FrontSize
<1>5. CASE ~SizeKnown(q)
  <2>1. d = [outcome |-> "nullopt", queue |-> q]
    BY <1>5, DecodeCases
  <2> QED
    BY <1>5, <2>1 DEF Incomplete
<1>6. CASE SizeKnown(q)
  <2>1. SIZE_LEN <= n
    BY <1>1, <1>2, <1>6 DEF SizeKnown
  <2>2. FrontSize(q) = v
    BY <1>4, <2>1 DEF c
  <2>3. \/ ~enough(q, v) /\ d = [outcome |-> "nullopt", queue |-> MakeRoom(q, v)]
        \/ /\ enough(q, v)
           /\ detachable(body, v)
           /\ d = [outcome |-> "packet", queue |-> Tail(body),
                   stream |-> StreamConsume(Head(body), HEADER_LEN)]
        \/ /\ enough(q, v)
           /\ ~detachable(body, v)
           /\ d = [outcome |-> "packet", queue |-> pop(body, v),
                   stream |-> StreamConsume(CopyOut(body, v), HEADER_LEN)]
    BY <1>1, <1>6, <2>2, DecodeCases DEF body
  <2>4. CASE ~enough(q, v) /\ d = [outcome |-> "nullopt", queue |-> MakeRoom(q, v)]
    <3> DEFINE r == MakeRoom(q, v)
               missing == v + SIZE_LEN - n
    <3>1. n < v + SIZE_LEN /\ missing \in Nat \ {0} /\ n + missing = v + SIZE_LEN
      BY <1>1, <1>2, <2>4 DEF enough
    <3>2. r = IF n + getWritableSize(q) < v + SIZE_LEN THEN prepare(q, missing) ELSE q
      <4>1. /\ getReadableSize(q) = n /\ n \in Nat /\ v \in Nat /\ SIZE_LEN \in Nat
            /\ getWritableSize(q) \in Nat
        BY <1>1, <1>2, Room
      <4>2. r = IF getReadableSize(q) + getWritableSize(q) < v + SIZE_LEN
                THEN prepare(q, (v + SIZE_LEN) - getReadableSize(q)) ELSE q
        BY DEF MakeRoom
      <4> HIDE DEF r
      <4> QED
        BY <4>1, <4>2
    <3>3. getWritableSize(q) \in Nat
      BY Room
    <3> HIDE DEF r, missing
    <3>4. /\ GoodQueue(Octet, r) /\ Bytes(r) = c
          /\ v + SIZE_LEN <= n + getWritableSize(r)
      <4>1. CASE n + getWritableSize(q) < v + SIZE_LEN
        <5>1. r = prepare(q, missing)
          BY <3>2, <4>1
        <5>2. GoodQueue(Octet, r) /\ missing <= getWritableSize(r)
          BY <3>1, <5>1, PrepareRoom
        <5>3. Bytes(r) = c
          BY <3>1, <5>1, PrepareBytes DEF c
        <5>4. getWritableSize(r) \in Nat
          BY <5>2, Room
        <5> QED
          BY <1>1, <1>2, <3>1, <5>2, <5>3, <5>4
      <4>2. CASE ~(n + getWritableSize(q) < v + SIZE_LEN)
        <5>1. r = q
          BY <3>2, <4>2
        <5>2. v + SIZE_LEN <= n + getWritableSize(q)
          BY <1>1, <1>2, <3>3, <4>2
        <5> QED
          BY <5>1, <5>2 DEF c
      <4> QED
        BY <4>1, <4>2
    <3>5. FrontSize(r) = v
      BY <1>4, <2>1, <3>4
    <3>6. getReadableSize(r) = n
      <4>1. SoundQueue(Octet, r)
        BY <3>4, GoodIsSound
      <4>2. Len(Bytes(r)) = Backlog(r)
        BY <4>1, BytesType
      <4> QED
        BY <1>2, <3>4, <4>2, SameReading
    <3>7. d.outcome = "nullopt" /\ d.queue = r
      BY <2>4 DEF r
    <3> HIDE DEF d
    <3> QED
      BY <3>4, <3>5, <3>6, <3>7 DEF c, d, Incomplete
  <2>5. CASE enough(q, v)
    <3>1. SIZE_LEN + v <= n /\ SIZE_LEN \in 1 .. Backlog(q)
      BY <1>1, <1>2, <2>5 DEF enough, n
    <3>2. /\ GoodQueue(Octet, body)
          /\ Bytes(body) = SubSeq(c, SIZE_LEN + 1, Len(c))
      BY <3>1, PopBytes DEF body, c
    <3> DEFINE b == Bytes(body)
               w == SubSeq(u, SIZE_LEN + 1, Len(u))
    <3>3. /\ SoundQueue(Octet, body) /\ b \in Seq(Octet) /\ Len(b) = Backlog(body)
          /\ Backlog(body) \in Nat
      BY <3>2, GoodIsSound, BytesType
    <3>4. Len(b) = n - SIZE_LEN
      <4>1. SIZE_LEN \in 0 .. Len(c)
        BY <1>1, <1>2, <3>1
      <4> QED
        BY <1>2, <3>2, <4>1, RestFacts
    <3>5. w \in Seq(Octet) /\ Len(w) = v
      <4>1. SIZE_LEN \in 0 .. Len(u)
        BY <1>1
      <4>2. SubSeq(u, SIZE_LEN + 1, Len(u)) \in Seq(Octet)
            /\ Len(SubSeq(u, SIZE_LEN + 1, Len(u))) = Len(u) - SIZE_LEN
        BY <4>1, RestFacts
      <4> QED
        BY <1>1, <4>2
    <3>6. b \o rest = w \o more
      <4>1. SIZE_LEN <= Len(u)
        BY <1>1
      <4> QED
        BY <1>1, <1>3, <2>1, <3>2, <4>1
    <3> HIDE DEF b, w
    \* What is left of the queue is the packet without its size, and the rest.
    <3>7. /\ v \in 0 .. Len(b) /\ v \in 1 .. Backlog(body)
          /\ SubSeq(b, 1, v) = w
          /\ SubSeq(b, v + 1, Len(b)) \o rest = more
      <4>1. v \in 0 .. Len(b) /\ v \in 1 .. Backlog(body) /\ v \in 0 .. Len(w)
        BY <1>1, <1>2, <3>1, <3>3, <3>4, <3>5
      <4>2. /\ SubSeq(b \o rest, 1, v) = SubSeq(b, 1, v)
            /\ SubSeq(b \o rest, v + 1, Len(b \o rest)) = SubSeq(b, v + 1, Len(b)) \o rest
        BY <3>3, <4>1, FirstOfConcat
      <4>3. /\ SubSeq(w \o more, 1, v) = SubSeq(w, 1, v)
            /\ SubSeq(w \o more, v + 1, Len(w \o more)) = SubSeq(w, v + 1, Len(w)) \o more
        BY <3>5, <4>1, FirstOfConcat
      <4>4. SubSeq(w, 1, v) = w
        BY <1>1, <3>5
      <4>5. SubSeq(w, v + 1, Len(w)) \o more = more
        <5>1. SubSeq(w, v + 1, Len(w)) = << >>
          BY <1>1, <3>5
        <5> QED
          BY <5>1, ConcatEmptySeq
      <4> QED
        BY <3>6, <4>1, <4>2, <4>3, <4>4, <4>5
    <3>8. ASSUME NEW s, s \in StreamsOf(Octet), CursorsOK(s), Unread(s) = w
          PROVE  Unread(StreamConsume(s, HEADER_LEN)) = SubSeq(u, (SIZE_LEN + HEADER_LEN) + 1, Len(u))
      <4>1. HEADER_LEN \in 0 .. StreamReadableSize(s)
        <5>1. Len(Unread(s)) = StreamReadableSize(s)
          BY <3>8, UnreadFits
        <5> QED
          BY <1>1, <3>5, <3>8, <5>1
      <4>2. Unread(StreamConsume(s, HEADER_LEN)) = SubSeq(w, HEADER_LEN + 1, Len(w))
        BY <3>8, <4>1, ConsumeUnread
      <4>3. SIZE_LEN + HEADER_LEN <= Len(u)
        BY <1>1
      <4>4. SubSeq(w, HEADER_LEN + 1, Len(w)) = SubSeq(u, (SIZE_LEN + HEADER_LEN) + 1, Len(u))
        BY <1>1, <4>3, RestOfRest DEF w
      <4> QED
        BY <4>2, <4>4
    <3>9. CASE /\ detachable(body, v)
               /\ d = [outcome |-> "packet", queue |-> Tail(body),
                       stream |-> StreamConsume(Head(body), HEADER_LEN)]
      <4>1. StreamReadableSize(Head(body)) = v
        BY <3>9 DEF detachable
      <4>2. body # << >>
        <5>1. Backlog(<< >>) = 0
          BY EmptySound
        <5> QED
          BY <3>7, <5>1
      <4>3. /\ GoodQueue(Octet, Tail(body))
            /\ Unread(Head(body)) = w
            /\ Bytes(Tail(body)) \o rest = more
        BY <3>2, <3>7, <4>1, <4>2, DetachBytes DEF b
      <4>4. Head(body) \in StreamsOf(Octet) /\ CursorsOK(Head(body))
        BY <3>3, <4>2, FrontBytes, OctetCells DEF SoundStream
      <4>5. Unread(StreamConsume(Head(body), HEADER_LEN)) = SubSeq(u, (SIZE_LEN + HEADER_LEN) + 1, Len(u))
        BY <3>8, <4>3, <4>4
      <4>6. /\ d.outcome = "packet" /\ d.queue = Tail(body)
            /\ d.stream = StreamConsume(Head(body), HEADER_LEN)
        BY <3>9
      <4> HIDE DEF d
      <4> QED
        BY <4>3, <4>5, <4>6 DEF d, Complete
    <3>10. CASE /\ ~detachable(body, v)
                /\ d = [outcome |-> "packet", queue |-> pop(body, v),
                        stream |-> StreamConsume(CopyOut(body, v), HEADER_LEN)]
      <4>1. v \in 0 .. Backlog(body)
        BY <3>3, <3>7
      <4>2. /\ CopyOut(body, v) \in StreamsOf(Octet) /\ CursorsOK(CopyOut(body, v))
            /\ Unread(CopyOut(body, v)) = w
        BY <3>2, <3>7, <4>1, CopyOutBytes DEF b
      <4>3. /\ GoodQueue(Octet, pop(body, v))
            /\ Bytes(pop(body, v)) \o rest = more
        BY <3>2, <3>7, PopBytes DEF b
      <4>4. Unread(StreamConsume(CopyOut(body, v), HEADER_LEN)) = SubSeq(u, (SIZE_LEN + HEADER_LEN) + 1, Len(u))
        BY <3>8, <4>2
      <4>5. /\ d.outcome = "packet" /\ d.queue = pop(body, v)
            /\ d.stream = StreamConsume(CopyOut(body, v), HEADER_LEN)
        BY <3>10
      <4> HIDE DEF d
      <4> QED
        BY <4>3, <4>4, <4>5 DEF d, Complete
    <3> QED
      BY <2>3, <2>5, <3>9, <3>10
  <2> QED
    BY <2>3, <2>4, <2>5
<1> QED
  BY <1>5, <1>6

-----------------------------------------------------------------------------
(***************************************************************************)
(* The messages on their way: s is what has been sent, and the first d of  *)
(* them have been delivered.                                               *)
(***************************************************************************)
PacketsOf(s, d) == [i \in 1 .. Len(s) - d |-> encode(s[d + i])]
ContentsOf(s, d) == [i \in 1 .. Len(s) - d |-> MessageBytes(s[d + i])]

LEMMA OnTheWay ==
  ASSUME NEW s \in Seq(Messages), NEW d \in 0 .. Len(s)
  PROVE  /\ Len(s) \in Nat /\ d \in Nat /\ Len(s) - d \in Nat
         /\ \A i \in 1 .. Len(s) - d : d + i \in 1 .. Len(s) /\ s[d + i] \in Messages
         /\ SoundQueue(Octet, PacketsOf(s, d))
         /\ PacketsOf(s, d) \in Seq(StreamsOf(Octet)) /\ Len(PacketsOf(s, d)) = Len(s) - d
         /\ \A i \in 1 .. Len(s) - d : PacketsOf(s, d)[i] = encode(s[d + i])
         /\ ContentsOf(s, d) \in Seq(Seq(Octet)) /\ Len(ContentsOf(s, d)) = Len(s) - d
         /\ \A i \in 1 .. Len(s) - d : ContentsOf(s, d)[i] = MessageBytes(s[d + i])
<1> DEFINE n == Len(s) - d
           P == PacketsOf(s, d)
           C == ContentsOf(s, d)
<1>1. Len(s) \in Nat /\ d \in Nat /\ n \in Nat
  OBVIOUS
<1>2. \A i \in 1 .. n : d + i \in 1 .. Len(s) /\ s[d + i] \in Messages
  BY <1>1
<1>3. /\ \A i \in 1 .. n : P[i] = encode(s[d + i]) /\ C[i] = MessageBytes(s[d + i])
      /\ P = [i \in 1 .. n |-> encode(s[d + i])]
      /\ C = [i \in 1 .. n |-> MessageBytes(s[d + i])]
  BY DEF PacketsOf, ContentsOf
<1> HIDE DEF n, P, C
<1>4. \A m \in Messages : SoundStream(Octet, encode(m)) /\ encode(m) \in StreamsOf(Octet)
  BY EncodeShape, OctetCells DEF SoundStream
<1>5. \A m \in Messages : MessageBytes(m) \in Seq(Octet)
  BY MessageTypes
<1>6. P \in [1 .. n -> StreamsOf(Octet)] /\ C \in [1 .. n -> Seq(Octet)]
  BY <1>2, <1>3, <1>4, <1>5
<1>7. P \in Seq(StreamsOf(Octet)) /\ Len(P) = n /\ C \in Seq(Seq(Octet)) /\ Len(C) = n
  BY <1>1, <1>6, FunctionIsSeq
<1>8. SoundQueue(Octet, P)
  <2>1. DOMAIN P = 1 .. n
    BY <1>6
  <2>2. \A i \in 1 .. n : SoundStream(Octet, P[i])
    BY <1>2, <1>3, <1>4
  <2> QED
    BY <1>7, <2>1, <2>2, OctetCells DEF SoundQueue
<1> QED
  BY <1>1, <1>2, <1>3, <1>7, <1>8 DEF n, P, C

LEMMA OneMore ==
  ASSUME NEW s \in Seq(Messages), NEW d \in 0 .. Len(s), NEW m \in Messages
  PROVE  /\ PacketsOf(Append(s, m), d) = Append(PacketsOf(s, d), encode(m))
         /\ ContentsOf(Append(s, m), d) = Append(ContentsOf(s, d), MessageBytes(m))
<1> DEFINE t == Append(s, m)
           n == Len(s) - d
<1>1. /\ t \in Seq(Messages) /\ Len(t) = Len(s) + 1 /\ Len(s) \in Nat
      /\ \A i \in 1 .. Len(s) : t[i] = s[i]
      /\ t[Len(s) + 1] = m
      /\ d \in Nat /\ d \in 0 .. Len(t)
  OBVIOUS
<1> HIDE DEF t
<1>2. /\ n \in Nat /\ Len(t) - d = n + 1 /\ n + 1 \in 1 .. Len(t) - d /\ d + (n + 1) = Len(s) + 1
      /\ \A i \in 1 .. n : i \in 1 .. Len(t) - d /\ d + i \in 1 .. Len(s)
  BY <1>1
<1>3. /\ PacketsOf(s, d) \in Seq(StreamsOf(Octet)) /\ Len(PacketsOf(s, d)) = n
      /\ \A i \in 1 .. n : PacketsOf(s, d)[i] = encode(s[d + i])
      /\ ContentsOf(s, d) \in Seq(Seq(Octet)) /\ Len(ContentsOf(s, d)) = n
      /\ \A i \in 1 .. n : ContentsOf(s, d)[i] = MessageBytes(s[d + i])
  BY OnTheWay
<1>4. /\ PacketsOf(t, d) \in Seq(StreamsOf(Octet)) /\ Len(PacketsOf(t, d)) = Len(t) - d
      /\ \A i \in 1 .. Len(t) - d : PacketsOf(t, d)[i] = encode(t[d + i])
      /\ ContentsOf(t, d) \in Seq(Seq(Octet)) /\ Len(ContentsOf(t, d)) = Len(t) - d
      /\ \A i \in 1 .. Len(t) - d : ContentsOf(t, d)[i] = MessageBytes(t[d + i])
  BY <1>1, OnTheWay
<1> HIDE DEF n
<1>5. /\ \A i \in 1 .. n : PacketsOf(t, d)[i] = PacketsOf(s, d)[i]
                           /\ ContentsOf(t, d)[i] = ContentsOf(s, d)[i]
      /\ PacketsOf(t, d)[n + 1] = encode(m) /\ ContentsOf(t, d)[n + 1] = MessageBytes(m)
  BY <1>1, <1>2, <1>3, <1>4
<1>6. encode(m) \in StreamsOf(Octet) /\ MessageBytes(m) \in Seq(Octet)
  BY EncodeShape, MessageTypes, OctetCells DEF SoundStream
<1>7. PacketsOf(t, d) = Append(PacketsOf(s, d), encode(m))
  <2> DEFINE g == PacketsOf(s, d)
             h == PacketsOf(t, d)
             x == encode(m)
  <2>1. g \in Seq(StreamsOf(Octet)) /\ Len(g) = n
    BY <1>3
  <2>2. h \in Seq(StreamsOf(Octet)) /\ Len(h) = n + 1
    BY <1>2, <1>4
  <2>3. x \in StreamsOf(Octet)
    BY <1>6
  <2>4. (\A i \in 1 .. n : h[i] = g[i]) /\ h[n + 1] = x
    BY <1>5
  <2> HIDE DEF g, h, x
  <2>5. Len(h) = Len(g) + 1 /\ (\A i \in 1 .. Len(g) : h[i] = g[i]) /\ h[Len(g) + 1] = x
    BY <2>1, <2>2, <2>4
  <2>6. h = Append(g, x)
    BY <2>1, <2>2, <2>3, <2>5, AppendAgrees
  <2> QED
    BY <2>6 DEF g, h, x
<1>8. ContentsOf(t, d) = Append(ContentsOf(s, d), MessageBytes(m))
  <2> DEFINE g == ContentsOf(s, d)
             h == ContentsOf(t, d)
             x == MessageBytes(m)
  <2>1. g \in Seq(Seq(Octet)) /\ Len(g) = n
    BY <1>3
  <2>2. h \in Seq(Seq(Octet)) /\ Len(h) = n + 1
    BY <1>2, <1>4
  <2>3. x \in Seq(Octet)
    BY <1>6
  <2>4. (\A i \in 1 .. n : h[i] = g[i]) /\ h[n + 1] = x
    BY <1>5
  <2> HIDE DEF g, h, x
  <2>5. Len(h) = Len(g) + 1 /\ (\A i \in 1 .. Len(g) : h[i] = g[i]) /\ h[Len(g) + 1] = x
    BY <2>1, <2>2, <2>4
  <2>6. h = Append(g, x)
    BY <2>1, <2>2, <2>3, <2>5, AppendAgrees
  <2> QED
    BY <2>6 DEF g, h, x
<1> QED
  BY <1>7, <1>8 DEF t

LEMMA OneLess ==
  ASSUME NEW s \in Seq(Messages), NEW d \in 0 .. Len(s), d # Len(s)
  PROVE  /\ d + 1 \in 0 .. Len(s) /\ d + 1 \in 1 .. Len(s)
         /\ PacketsOf(s, d) # << >>
         /\ Head(PacketsOf(s, d)) = encode(s[d + 1])
         /\ Tail(PacketsOf(s, d)) = PacketsOf(s, d + 1)
         /\ ContentsOf(s, d) # << >>
         /\ Head(ContentsOf(s, d)) = MessageBytes(s[d + 1])
         /\ Tail(ContentsOf(s, d)) = ContentsOf(s, d + 1)
<1> DEFINE e == d + 1
           n == Len(s) - e
<1>1. /\ e \in 0 .. Len(s) /\ e \in 1 .. Len(s) /\ n \in Nat /\ Len(s) - d = n + 1
      /\ 1 \in 1 .. n + 1
      /\ \A i \in 1 .. n : i + 1 \in 1 .. n + 1 /\ d + (i + 1) = e + i
  OBVIOUS
<1>2. /\ PacketsOf(s, d) \in Seq(StreamsOf(Octet)) /\ Len(PacketsOf(s, d)) = n + 1
      /\ \A i \in 1 .. n + 1 : PacketsOf(s, d)[i] = encode(s[d + i])
      /\ ContentsOf(s, d) \in Seq(Seq(Octet)) /\ Len(ContentsOf(s, d)) = n + 1
      /\ \A i \in 1 .. n + 1 : ContentsOf(s, d)[i] = MessageBytes(s[d + i])
  BY <1>1, OnTheWay
<1> HIDE DEF e
<1>3. /\ PacketsOf(s, e) \in Seq(StreamsOf(Octet)) /\ Len(PacketsOf(s, e)) = n
      /\ \A i \in 1 .. n : PacketsOf(s, e)[i] = encode(s[e + i])
      /\ ContentsOf(s, e) \in Seq(Seq(Octet)) /\ Len(ContentsOf(s, e)) = n
      /\ \A i \in 1 .. n : ContentsOf(s, e)[i] = MessageBytes(s[e + i])
  BY <1>1, OnTheWay
<1> HIDE DEF n
<1>4. /\ PacketsOf(s, d)[1] = encode(s[e]) /\ ContentsOf(s, d)[1] = MessageBytes(s[e])
      /\ \A i \in 1 .. n : PacketsOf(s, e)[i] = PacketsOf(s, d)[i + 1]
                           /\ ContentsOf(s, e)[i] = ContentsOf(s, d)[i + 1]
  <2>1. PICK one \in 1 .. n + 1 : one = 1
    BY <1>1
  <2>2. PacketsOf(s, d)[one] = encode(s[d + one]) /\ ContentsOf(s, d)[one] = MessageBytes(s[d + one])
    BY <1>2
  <2>3. d + one = e
    BY <2>1 DEF e
  <2>4. ASSUME NEW i \in 1 .. n
        PROVE  PacketsOf(s, e)[i] = PacketsOf(s, d)[i + 1]
               /\ ContentsOf(s, e)[i] = ContentsOf(s, d)[i + 1]
    <3>1. PICK k \in 1 .. n + 1 : k = i + 1 /\ d + k = e + i
      BY <1>1
    <3>2. PacketsOf(s, d)[k] = encode(s[e + i]) /\ ContentsOf(s, d)[k] = MessageBytes(s[e + i])
      BY <1>2, <3>1
    <3> QED
      BY <1>3, <3>1, <3>2
  <2> QED
    BY <2>1, <2>2, <2>3, <2>4
<1>5. PacketsOf(s, e) = Tail(PacketsOf(s, d))
  BY <1>2, <1>3, <1>4, TailAgrees
<1>6. ContentsOf(s, e) = Tail(ContentsOf(s, d))
  BY <1>2, <1>3, <1>4, TailAgrees
<1>7. /\ PacketsOf(s, d) # << >> /\ Head(PacketsOf(s, d)) = PacketsOf(s, d)[1]
      /\ ContentsOf(s, d) # << >> /\ Head(ContentsOf(s, d)) = ContentsOf(s, d)[1]
  BY <1>1, <1>2
<1> QED
  BY <1>1, <1>4, <1>5, <1>6, <1>7 DEF e

LEMMA NoneOnTheWay ==
  PacketsOf(<< >>, Len(<< >>)) = << >> /\ ContentsOf(<< >>, Len(<< >>)) = << >>
<1>1. << >> \in Seq(Messages) /\ Len(<< >>) = 0 /\ 0 \in 0 .. Len(<< >>) /\ Len(<< >>) - 0 = 0
  OBVIOUS
<1>2. /\ PacketsOf(<< >>, 0) \in Seq(StreamsOf(Octet)) /\ Len(PacketsOf(<< >>, 0)) = Len(<< >>) - 0
      /\ ContentsOf(<< >>, 0) \in Seq(Seq(Octet)) /\ Len(ContentsOf(<< >>, 0)) = Len(<< >>) - 0
  BY <1>1, OnTheWay
<1> QED
  BY <1>1, <1>2

-----------------------------------------------------------------------------
(***************************************************************************)
(* The inductive invariant: every byte of a packet that has not been       *)
(* delivered is in the receiving queue, on the wire or in the sending      *)
(* queue, in the order of sending, and no other byte is.                   *)
(***************************************************************************)
Conserved ==
  Bytes(recvQueue) \o (wire \o Bytes(sendQueue)) = Bytes(PacketsOf(sent, Len(delivered)))

IInv ==
  /\ sent \in Seq(Messages)
  /\ delivered \in Seq(Seq(Octet))
  /\ Len(delivered) <= Len(sent)
  /\ Len(sent) <= messages
  /\ messages \in 0 .. MaxMessages
  /\ breaks \in 0 .. MaxBreaks
  /\ failed = FALSE
  /\ GoodQueue(Octet, recvQueue)
  /\ SoundQueue(Octet, sendQueue)
  /\ wire \in Seq(Octet)
  /\ Conserved

LEMMA Streams ==
  ASSUME IInv
  PROVE  /\ Bytes(recvQueue) \in Seq(Octet)
         /\ Bytes(sendQueue) \in Seq(Octet)
         /\ wire \in Seq(Octet)
         /\ wire \o Bytes(sendQueue) \in Seq(Octet)
         /\ Len(delivered) \in 0 .. Len(sent)
         /\ Len(sent) \in Nat
         /\ SoundQueue(Octet, PacketsOf(sent, Len(delivered)))
         /\ Bytes(PacketsOf(sent, Len(delivered))) \in Seq(Octet)
<1>1. SoundQueue(Octet, recvQueue) /\ SoundQueue(Octet, sendQueue) /\ wire \in Seq(Octet)
  BY GoodIsSound DEF IInv
<1>2. Bytes(recvQueue) \in Seq(Octet) /\ Bytes(sendQueue) \in Seq(Octet)
  BY <1>1, BytesType
<1>3. wire \o Bytes(sendQueue) \in Seq(Octet)
  BY <1>1, <1>2, ConcatProperties
<1>4. sent \in Seq(Messages) /\ Len(delivered) \in 0 .. Len(sent) /\ Len(sent) \in Nat
  BY DEF IInv
<1>5. SoundQueue(Octet, PacketsOf(sent, Len(delivered)))
  BY <1>4, OnTheWay
<1> QED
  BY <1>1, <1>2, <1>3, <1>4, <1>5, BytesType

\* What the next call of decode does: it says that a packet is incomplete and
\* leaves room for it, or returns the message that is due.
LEMMA DecodeNext ==
  ASSUME IInv
  PROVE  LET n == Len(delivered)
         IN  \/ Incomplete(recvQueue)
             \/ /\ n # Len(sent)
                /\ Complete(recvQueue, wire \o Bytes(sendQueue),
                            MessageBytes(sent[n + 1]), Bytes(PacketsOf(sent, n + 1)))
<1> DEFINE n == Len(delivered)
           P == PacketsOf(sent, n)
           rest == wire \o Bytes(sendQueue)
<1>1. /\ Bytes(recvQueue) \in Seq(Octet) /\ rest \in Seq(Octet)
      /\ sent \in Seq(Messages) /\ n \in 0 .. Len(sent) /\ Len(sent) \in Nat
      /\ SoundQueue(Octet, P) /\ GoodQueue(Octet, recvQueue)
      /\ Bytes(recvQueue) \o rest = Bytes(P)
  BY Streams DEF IInv, Conserved
<1> HIDE DEF n, P, rest
<1>2. CASE n = Len(sent)
  <2>1. Len(P) = 0
    <3>1. Len(PacketsOf(sent, n)) = Len(sent) - n
      BY <1>1, OnTheWay
    <3> QED
      BY <1>1, <1>2, <3>1 DEF P
  <2>2. Len(Bytes(P)) = 0
    <3>1. P = << >>
      BY <1>1, <2>1 DEF SoundQueue
    <3>2. Backlog(<< >>) = 0 /\ Len(Bytes(P)) = Backlog(P)
      BY <1>1, EmptySound, BytesType
    <3> QED
      BY <3>1, <3>2
  <2>3. Len(Bytes(recvQueue)) = 0
    <3>1. Len(Bytes(recvQueue) \o rest) = Len(Bytes(recvQueue)) + Len(rest)
      BY <1>1, ConcatProperties
    <3>2. Len(Bytes(recvQueue)) \in Nat /\ Len(rest) \in Nat
      BY <1>1
    <3> QED
      BY <1>1, <2>2, <3>1, <3>2
  <2>4. getReadableSize(recvQueue) = 0
    <3>1. SoundQueue(Octet, recvQueue)
      BY <1>1, GoodIsSound
    <3>2. Len(Bytes(recvQueue)) = Backlog(recvQueue)
      BY <3>1, BytesType
    <3> QED
      BY <2>3, <3>2, SameReading
  <2>5. ~SizeKnown(recvQueue)
    <3>1. minimumPacketSize \in Nat /\ 0 < minimumPacketSize
      BY EncoderAssumption DEF minimumPacketSize, minimumSize
    <3> QED
      BY <2>4, <3>1 DEF SizeKnown
  <2>6. decode(recvQueue) = [outcome |-> "nullopt", queue |-> recvQueue]
    BY <2>5, DecodeCases
  <2> QED
    BY <1>1, <2>5, <2>6 DEF Incomplete
<1>3. CASE n # Len(sent)
  <2> DEFINE m == sent[n + 1]
             u == Unread(encode(m))
             v == minimumSize + m.len
             more == Bytes(PacketsOf(sent, n + 1))
  <2>1. /\ n + 1 \in 0 .. Len(sent) /\ n + 1 \in 1 .. Len(sent)
        /\ P # << >> /\ Head(P) = encode(m) /\ Tail(P) = PacketsOf(sent, n + 1)
    BY <1>1, <1>3, OneLess DEF P
  <2>2. m \in Messages
    BY <1>1, <2>1
  <2> HIDE DEF m
  <2>3. /\ Len(u) = SIZE_LEN + v
        /\ SubSeq(u, 1, SIZE_LEN) = SizeField(v)
        /\ SubSeq(u, (SIZE_LEN + HEADER_LEN) + 1, Len(u)) = MessageBytes(m)
        /\ v \in 0 .. UINT32_MAX /\ minimumSize <= v
    <3>1. /\ minimumSize + m.len \in 0 .. UINT32_MAX /\ minimumSize \in Nat /\ m.len \in Nat
      BY <2>2, ValueFits, MessageTypes
    <3> QED
      BY <2>2, <3>1, EncodeShape
  <2>4. u \in Seq(Octet) /\ more \in Seq(Octet) /\ Bytes(P) = u \o more
    <3>1. /\ SoundQueue(Octet, Tail(P)) /\ SoundStream(Octet, Head(P))
          /\ StreamReadableSize(Head(P)) \in 0 .. Backlog(P)
          /\ Unread(Head(P)) = SubSeq(Bytes(P), 1, StreamReadableSize(Head(P)))
          /\ Bytes(Tail(P)) = SubSeq(Bytes(P), StreamReadableSize(Head(P)) + 1, Len(Bytes(P)))
      BY <1>1, <2>1, FrontBytes
    <3>2. Bytes(P) \in Seq(Octet) /\ Len(Bytes(P)) = Backlog(P)
      BY <1>1, BytesType
    <3>3. SubSeq(Bytes(P), 1, StreamReadableSize(Head(P)))
            \o SubSeq(Bytes(P), StreamReadableSize(Head(P)) + 1, Len(Bytes(P))) = Bytes(P)
      BY <3>1, <3>2, FirstAndRest
    <3>4. Unread(Head(P)) \in Seq(Octet) /\ Bytes(Tail(P)) \in Seq(Octet)
      BY <3>1, SoundUnread, BytesType
    <3> QED
      BY <2>1, <3>1, <3>3, <3>4
  <2> HIDE DEF u, v, more
  <2>5. Bytes(recvQueue) \o rest = u \o more
    BY <1>1, <2>4
  <2>6. BeginsWith(recvQueue, rest, u, v, more)
    BY <1>1, <2>3, <2>4, <2>5 DEF BeginsWith
  <2>7. \/ Incomplete(recvQueue)
        \/ Complete(recvQueue, rest, MessageBytes(m), more)
    BY <2>3, <2>6, DecodePacket
  <2> QED
    BY <1>3, <2>7 DEF n, rest, more, m
<1> QED
  BY <1>2, <1>3

LEMMA NothingThere == Bytes(<< >>) = << >>
<1>1. SoundQueue(Octet, << >>) /\ Backlog(<< >>) = 0
  BY EmptySound
<1>2. Bytes(<< >>) \in Seq(Octet) /\ Len(Bytes(<< >>)) = 0
  BY <1>1, BytesType
<1> QED
  BY <1>2

-----------------------------------------------------------------------------
(***************************************************************************)
(* The initial state and the steps.                                        *)
(***************************************************************************)
LEMMA InitIInv == Init => IInv
<1> SUFFICES ASSUME Init
             PROVE  IInv
  OBVIOUS
<1>1. /\ sent = << >> /\ delivered = << >> /\ wire = << >>
      /\ sendQueue = << >> /\ recvQueue = << >>
      /\ failed = FALSE /\ messages = 0 /\ breaks = 0
  BY DEF Init
<1>2. Len(sent) = 0 /\ Len(delivered) = 0 /\ sent \in Seq(Messages) /\ delivered \in Seq(Seq(Octet))
  BY <1>1
<1>3. /\ GoodQueue(Octet, recvQueue) /\ SoundQueue(Octet, sendQueue)
      /\ Bytes(recvQueue) = << >> /\ Bytes(sendQueue) = << >>
  BY <1>1, EmptyGood, EmptySound, NothingThere
<1>4. wire \in Seq(Octet)
  BY <1>1
<1>5. Conserved
  <2>2. Bytes(PacketsOf(sent, Len(delivered))) = << >>
    BY <1>1, NoneOnTheWay, NothingThere
  <2>3. << >> \o (<< >> \o << >>) = << >>
    OBVIOUS
  <2> QED
    BY <1>1, <1>3, <2>2, <2>3 DEF Conserved
<1>6. 0 \in 0 .. MaxMessages /\ 0 \in 0 .. MaxBreaks
  BY LinkAssumption
<1> QED
  BY <1>1, <1>2, <1>3, <1>4, <1>5, <1>6 DEF IInv

LEMMA SendStep ==
  ASSUME IInv, NEW len \in Bodies, NEW reserved \in Reserves, Send(len, reserved)
  PROVE  /\ IInv'
         /\ Len(delivered') = Len(delivered)
         /\ \E m \in Messages : sent' = Append(sent, m)
<1> DEFINE m == [id |-> messages + 1, len |-> len, reserved |-> reserved]
           n == Len(delivered)
<1>1. /\ messages < MaxMessages /\ sent' = Append(sent, m)
      /\ sendQueue' = Append(sendQueue, encode(m)) /\ messages' = messages + 1
      /\ wire' = wire /\ recvQueue' = recvQueue /\ delivered' = delivered
      /\ failed' = failed /\ breaks' = breaks
  BY DEF Send, push
<1>2. messages \in 0 .. MaxMessages /\ messages + 1 \in 1 .. MaxMessages /\ messages + 1 \in 0 .. MaxMessages
  <2>1. MaxMessages \in Nat
    BY LinkAssumption
  <2> QED
    BY <1>1, <2>1 DEF IInv
<1>3. m \in Messages
  BY <1>2 DEF Messages
<1> HIDE DEF m
<1>4. SoundStream(Octet, encode(m)) /\ Unread(encode(m)) \in Seq(Octet)
  BY <1>3, EncodeShape, SoundUnread
<1>5. /\ Bytes(recvQueue) \in Seq(Octet) /\ Bytes(sendQueue) \in Seq(Octet) /\ wire \in Seq(Octet)
      /\ wire \o Bytes(sendQueue) \in Seq(Octet)
      /\ n \in 0 .. Len(sent) /\ Len(sent) \in Nat
      /\ SoundQueue(Octet, PacketsOf(sent, n))
  BY Streams
<1>6. sent \in Seq(Messages) /\ SoundQueue(Octet, sendQueue) /\ Conserved
  BY DEF IInv
<1>7. SoundQueue(Octet, sendQueue') /\ Bytes(sendQueue') = Bytes(sendQueue) \o Unread(encode(m))
  BY <1>1, <1>4, <1>6, PushGood, PushIsPut
<1>8. PacketsOf(sent', n) = Append(PacketsOf(sent, n), encode(m))
  BY <1>1, <1>3, <1>5, <1>6, OneMore
<1>9. Bytes(PacketsOf(sent', n)) = Bytes(PacketsOf(sent, n)) \o Unread(encode(m))
  BY <1>4, <1>5, <1>8, PushIsPut
<1>10. Conserved'
  <2> DEFINE c == Bytes(recvQueue)
             b == Bytes(sendQueue)
             u == Unread(encode(m))
             w == wire
  <2>1. c \in Seq(Octet) /\ b \in Seq(Octet) /\ u \in Seq(Octet) /\ w \in Seq(Octet) /\ w \o b \in Seq(Octet)
    BY <1>4, <1>5
  <2> HIDE DEF c, b, u, w
  <2>2. c \o (w \o (b \o u)) = (c \o (w \o b)) \o u
    <3>1. w \o (b \o u) = (w \o b) \o u
      BY <2>1, RegroupOctets
    <3>2. c \o ((w \o b) \o u) = (c \o (w \o b)) \o u
      BY <2>1, RegroupOctets
    <3> QED
      BY <3>1, <3>2
  <2>3. c \o (w \o b) = Bytes(PacketsOf(sent, n))
    BY <1>6 DEF Conserved, c, w, b
  <2>4. /\ Bytes(recvQueue') = c /\ wire' = w /\ Bytes(sendQueue') = b \o u
        /\ Len(delivered') = n
    BY <1>1, <1>7 DEF c, w, b, u
  <2>5. Bytes(PacketsOf(sent', n)) = Bytes(PacketsOf(sent, n)) \o u
    BY <1>9 DEF u
  <2>6. Bytes(recvQueue') \o (wire' \o Bytes(sendQueue')) = Bytes(PacketsOf(sent', Len(delivered')))
    BY <2>2, <2>3, <2>4, <2>5
  <2> QED
    BY <2>6 DEF Conserved, Bytes
<1>11. /\ sent' \in Seq(Messages) /\ Len(sent') = Len(sent) + 1
  BY <1>1, <1>3, <1>6
<1>12. /\ delivered' \in Seq(Seq(Octet)) /\ Len(delivered') <= Len(sent') /\ Len(sent') <= messages'
  <2>1. Len(sent) <= messages /\ delivered \in Seq(Seq(Octet))
    BY DEF IInv
  <2> QED
    BY <1>1, <1>2, <1>5, <1>11, <2>1
<1>13. /\ messages' \in 0 .. MaxMessages /\ breaks' \in 0 .. MaxBreaks /\ failed' = FALSE
       /\ GoodQueue(Octet, recvQueue') /\ wire' \in Seq(Octet)
  BY <1>1, <1>2 DEF IInv
<1>14. IInv'
  BY <1>7, <1>10, <1>11, <1>12, <1>13 DEF IInv
<1> QED
  BY <1>1, <1>3, <1>14

LEMMA TransmitStep ==
  ASSUME IInv, NEW n \in 1 .. Backlog(sendQueue), Transmit(n)
  PROVE  IInv' /\ sent' = sent /\ delivered' = delivered
<1> DEFINE f == FirstBytes(sendQueue, n)
           b == Bytes(sendQueue)
           r == consume(sendQueue, n)
<1>1. /\ wire' = wire \o f /\ sendQueue' = r
      /\ sent' = sent /\ recvQueue' = recvQueue /\ delivered' = delivered /\ failed' = failed
      /\ messages' = messages /\ breaks' = breaks
  BY DEF Transmit
<1>2. SoundQueue(Octet, sendQueue) /\ wire \in Seq(Octet) /\ b \in Seq(Octet) /\ Len(b) = Backlog(sendQueue)
  BY BytesType DEF IInv
<1>3. /\ f = SubSeq(b, 1, n) /\ Bytes(r) = SubSeq(b, n + 1, Len(b))
      /\ SoundQueue(Octet, r)
  BY <1>2, SentIsTake, ConsumeGood
<1> HIDE DEF f, b, r
<1>4. n \in 0 .. Len(b)
  BY <1>2, BytesType
<1>5. /\ f \in Seq(Octet) /\ (wire \o f) \o Bytes(r) = wire \o b
  BY <1>2, <1>3, <1>4, MoveOctets
<1>6. wire' \in Seq(Octet)
  BY <1>1, <1>2, <1>5, RegroupOctets
<1>7. Conserved'
  <2>1. Bytes(recvQueue) \o (wire \o b) = Bytes(PacketsOf(sent, Len(delivered)))
    BY DEF IInv, Conserved, b
  <2>2. Bytes(recvQueue') \o (wire' \o Bytes(sendQueue')) = Bytes(PacketsOf(sent', Len(delivered')))
    BY <1>1, <1>5, <2>1
  <2> QED
    BY <2>2 DEF Conserved, Bytes
<1>8. IInv'
  BY <1>1, <1>3, <1>6, <1>7 DEF IInv
<1> QED
  BY <1>1, <1>8

LEMMA ReceiveStep ==
  ASSUME IInv, NEW request \in Requests, NEW n \in 1 .. Len(wire), Receive(request, n)
  PROVE  IInv' /\ sent' = sent /\ delivered' = delivered
<1> DEFINE q == prepare(recvQueue, request)
           bytes == SubSeq(wire, 1, n)
           left == SubSeq(wire, n + 1, Len(wire))
           r == commit(Scatter(q, buffers(q), bytes), n)
           b == Bytes(sendQueue)
           c == Bytes(recvQueue)
<1>1. /\ n <= getWritableSize(q)
      /\ recvQueue' = r /\ wire' = left
      /\ sent' = sent /\ sendQueue' = sendQueue /\ delivered' = delivered /\ failed' = failed
      /\ messages' = messages /\ breaks' = breaks
  BY DEF Receive
<1>2. /\ GoodQueue(Octet, recvQueue) /\ wire \in Seq(Octet) /\ b \in Seq(Octet) /\ c \in Seq(Octet)
      /\ n \in 0 .. Len(wire) /\ n \in Nat /\ 0 < n
  <2>1. wire \in Seq(Octet) /\ b \in Seq(Octet) /\ c \in Seq(Octet)
    BY Streams
  <2>2. GoodQueue(Octet, recvQueue)
    BY DEF IInv
  <2>3. Len(wire) \in Nat
    BY <2>1
  <2> HIDE DEF q, b, c, r
  <2> QED
    BY <2>1, <2>2, <2>3
<1>3. GoodQueue(Octet, q) /\ Bytes(q) = c
  <2>1. request \in Nat \ {0}
    BY LinkAssumption
  <2> QED
    BY <1>2, <2>1, PrepareGood, PrepareBytes
<1>4. /\ bytes \in Seq(Octet) /\ Len(bytes) = n /\ left \in Seq(Octet)
      /\ (c \o bytes) \o left = c \o wire
  BY <1>2, MoveOctets
<1> HIDE DEF q, bytes, left, b, c
<1>5. GoodQueue(Octet, r) /\ Bytes(r) = c \o bytes
  <2>1. FreshBuffers(q, buffers(q))
    <3>1. WellFormed(Octet, q)
      BY <1>3 DEF GoodQueue
    <3> QED
      BY <3>1, BuffersFresh
  <2>2. Total(BufferSizes(buffers(q))) = getWritableSize(q)
    <3>1. BufferSizes(buffers(q)) = WritableSizes(q)
      BY DEF BufferSizes, buffers, WritableSizes
    <3> QED
      BY <3>1 DEF getWritableSize
  <2> DEFINE bufs == buffers(q)
  <2>3. 0 < Len(bytes) /\ Len(bytes) <= Total(BufferSizes(bufs))
    BY <1>1, <1>2, <1>4, <2>2
  <2> HIDE DEF bufs
  <2>4. FreshBuffers(q, bufs)
    BY <2>1 DEF bufs
  <2>5. /\ GoodQueue(Octet, commit(Scatter(q, bufs, bytes), Len(bytes)))
        /\ \E k \in Nat : Filled(q, commit(Scatter(q, bufs, bytes), Len(bytes)), bytes, k)
    BY <1>3, <1>4, <2>3, <2>4, CompleteGood
  <2>6. commit(Scatter(q, bufs, bytes), Len(bytes)) = r
    BY <1>4 DEF bufs
  <2> HIDE DEF r
  <2>7. PICK k \in Nat : Filled(q, r, bytes, k)
    BY <2>5, <2>6
  <2>8. GoodQueue(Octet, r)
    BY <2>5, <2>6
  <2>9. Bytes(r) = Bytes(q) \o bytes
    BY <1>3, <1>4, <2>7, <2>8, FilledBytes
  <2> QED
    BY <1>3, <2>8, <2>9
<1> HIDE DEF r
<1>6. Conserved'
  <2>1. c \o (wire \o b) = Bytes(PacketsOf(sent, Len(delivered)))
    BY DEF IInv, Conserved, b, c
  <2>2. (c \o bytes) \o (left \o b) = c \o (wire \o b)
    <3>1. c \o bytes \in Seq(Octet)
      BY <1>2, <1>4, RegroupOctets
    <3>2. (c \o bytes) \o (left \o b) = ((c \o bytes) \o left) \o b
      BY <1>2, <1>4, <3>1, RegroupOctets
    <3>3. c \o (wire \o b) = (c \o wire) \o b
      BY <1>2, RegroupOctets
    <3> QED
      BY <1>4, <3>2, <3>3
  <2>3. Bytes(recvQueue') \o (wire' \o Bytes(sendQueue')) = Bytes(PacketsOf(sent', Len(delivered')))
    BY <1>1, <1>5, <2>1, <2>2 DEF b
  <2> QED
    BY <2>3 DEF Conserved, Bytes
<1>7. IInv'
  BY <1>1, <1>4, <1>5, <1>6 DEF IInv
<1> QED
  BY <1>1, <1>7

LEMMA DecodeStep ==
  ASSUME IInv, Decode
  PROVE  /\ IInv'
         /\ sent' = sent
         /\ \/ delivered' = delivered
            \/ /\ Len(delivered) # Len(sent)
               /\ delivered' = Append(delivered, MessageBytes(sent[Len(delivered) + 1]))
<1> DEFINE d == decode(recvQueue)
           n == Len(delivered)
           rest == wire \o Bytes(sendQueue)
<1>1. /\ recvQueue' = d.queue /\ failed' = (d.outcome = "throw")
      /\ delivered' = IF d.outcome = "packet" THEN Append(delivered, Unread(d.stream)) ELSE delivered
      /\ sent' = sent /\ sendQueue' = sendQueue /\ wire' = wire
      /\ messages' = messages /\ breaks' = breaks
  BY DEF Decode
<1>2. /\ sent \in Seq(Messages) /\ delivered \in Seq(Seq(Octet))
      /\ n \in 0 .. Len(sent) /\ n \in Nat /\ Len(sent) \in Nat
      /\ Bytes(recvQueue) \o rest = Bytes(PacketsOf(sent, n))
  BY Streams DEF IInv, Conserved
<1>3. CASE Incomplete(recvQueue)
  <2>1. GoodQueue(Octet, d.queue) /\ d.outcome = "nullopt" /\ Bytes(d.queue) = Bytes(recvQueue)
    BY <1>3 DEF Incomplete
  <2>2. delivered' = delivered /\ failed' = FALSE /\ GoodQueue(Octet, recvQueue')
    BY <1>1, <2>1
  <2>3. Conserved'
    <3>1. Bytes(recvQueue') \o (wire' \o Bytes(sendQueue')) = Bytes(PacketsOf(sent', Len(delivered')))
      BY <1>1, <1>2, <2>1, <2>2
    <3> QED
      BY <3>1 DEF Conserved, Bytes
  <2>4. IInv'
    BY <1>1, <2>2, <2>3 DEF IInv
  <2> QED
    BY <1>1, <2>2, <2>4
<1>4. CASE /\ n # Len(sent)
           /\ Complete(recvQueue, rest, MessageBytes(sent[n + 1]), Bytes(PacketsOf(sent, n + 1)))
  <2> DEFINE message == MessageBytes(sent[n + 1])
  <2>1. /\ GoodQueue(Octet, d.queue) /\ d.outcome = "packet"
        /\ Bytes(d.queue) \o rest = Bytes(PacketsOf(sent, n + 1))
        /\ Unread(d.stream) = message
    BY <1>4 DEF Complete
  <2>2. message \in Seq(Octet)
    <3>1. n + 1 \in 1 .. Len(sent)
      BY <1>2, <1>4
    <3>2. sent[n + 1] \in Messages
      BY <1>2, <3>1
    <3> QED
      BY <3>2, MessageTypes
  <2>3. delivered' = Append(delivered, message) /\ failed' = FALSE /\ GoodQueue(Octet, recvQueue')
    BY <1>1, <2>1
  <2> HIDE DEF message
  <2>4. delivered' \in Seq(Seq(Octet)) /\ Len(delivered') = n + 1 /\ n + 1 <= Len(sent)
    BY <1>2, <1>4, <2>2, <2>3
  <2>5. Conserved'
    <3>1. Bytes(recvQueue') \o (wire' \o Bytes(sendQueue')) = Bytes(PacketsOf(sent', Len(delivered')))
      BY <1>1, <2>1, <2>4
    <3> QED
      BY <3>1 DEF Conserved, Bytes
  <2>6. IInv'
    BY <1>1, <2>3, <2>4, <2>5 DEF IInv
  <2> QED
    BY <1>1, <1>4, <2>3, <2>6 DEF message
<1> QED
  BY <1>3, <1>4, DecodeNext

LEMMA DisconnectStep ==
  ASSUME IInv, Disconnect
  PROVE  IInv' /\ sent' = << >> /\ delivered' = << >>
<1>1. /\ breaks < MaxBreaks /\ breaks' = breaks + 1
      /\ sendQueue' = << >> /\ recvQueue' = << >> /\ wire' = << >>
      /\ sent' = << >> /\ delivered' = << >> /\ failed' = FALSE /\ messages' = messages
  BY DEF Disconnect
<1>2. breaks' \in 0 .. MaxBreaks /\ messages' \in 0 .. MaxMessages
  <2>1. MaxBreaks \in Nat
    BY LinkAssumption
  <2> QED
    BY <1>1, <2>1 DEF IInv
<1>3. /\ Len(sent') = 0 /\ Len(delivered') = 0 /\ sent' \in Seq(Messages)
      /\ delivered' \in Seq(Seq(Octet)) /\ wire' \in Seq(Octet) /\ Len(sent') <= messages'
  BY <1>1, <1>2
<1>4. GoodQueue(Octet, recvQueue') /\ SoundQueue(Octet, sendQueue')
  BY <1>1, EmptyGood, EmptySound
<1>5. Conserved'
  <2>1. Bytes(recvQueue') = << >> /\ Bytes(sendQueue') = << >> /\ wire' = << >>
    BY <1>1, NothingThere
  <2>2. Bytes(PacketsOf(sent', Len(delivered'))) = << >>
    BY <1>1, NoneOnTheWay, NothingThere
  <2>3. << >> \o (<< >> \o << >>) = << >>
    OBVIOUS
  <2>4. Bytes(recvQueue') \o (wire' \o Bytes(sendQueue')) = Bytes(PacketsOf(sent', Len(delivered')))
    BY <2>1, <2>2, <2>3
  <2> QED
    BY <2>4 DEF Conserved, Bytes
<1>6. IInv'
  BY <1>1, <1>2, <1>3, <1>4, <1>5 DEF IInv
<1> QED
  BY <1>1, <1>6

-----------------------------------------------------------------------------
(***************************************************************************)
(* The theorems.                                                           *)
(***************************************************************************)
LEMMA NextIInv == IInv /\ [Next]_vars => IInv'
<1> SUFFICES ASSUME IInv, [Next]_vars
             PROVE  IInv'
  OBVIOUS
<1>1. ASSUME NEW len \in Bodies, NEW reserved \in Reserves, Send(len, reserved)
      PROVE  IInv'
  BY <1>1, SendStep
<1>2. ASSUME NEW n \in 1 .. Backlog(sendQueue), Transmit(n)
      PROVE  IInv'
  BY <1>2, TransmitStep
<1>3. ASSUME NEW request \in Requests, NEW n \in 1 .. Len(wire), Receive(request, n)
      PROVE  IInv'
  BY <1>3, ReceiveStep
<1>4. CASE Decode
  BY <1>4, DecodeStep
<1>5. CASE Disconnect
  BY <1>5, DisconnectStep
<1>6. CASE UNCHANGED vars
  BY <1>6 DEF vars, IInv, Conserved, Bytes
<1> QED
  BY <1>1, <1>2, <1>3, <1>4, <1>5, <1>6 DEF Next, TransmitSome, ReceiveSome

\* Through every split of the bytes, whatever encode, consume, commit, pop and
\* detach do to the streams, no byte of a packet is lost, doubled or moved.
THEOREM Inductive == Spec => []IInv
BY InitIInv, NextIInv, PTL DEF Spec

LEMMA IInvTypeOK == IInv => TypeOK
<1> SUFFICES ASSUME IInv
             PROVE  TypeOK
  OBVIOUS
<1>1. SoundQueue(Octet, sendQueue) /\ SoundQueue(Octet, recvQueue)
  BY GoodIsSound DEF IInv
<1>2. /\ \A i \in DOMAIN sendQueue : CursorsOK(sendQueue[i])
      /\ \A i \in DOMAIN recvQueue : CursorsOK(recvQueue[i])
  BY <1>1 DEF SoundQueue, SoundStream
<1> QED
  BY <1>2 DEF IInv, TypeOK

\* The cursors of every stream of the two queues stay within its memory, and no
\* more messages are delivered than were sent, through every interleaving of
\* encode, consume, commit, pop and detach (Stream.h:86,106,112).
THEOREM TypeCorrect == Spec => []TypeOK
BY Inductive, IInvTypeOK, PTL

LEMMA IInvNeverThrows == IInv => NeverThrows
BY DEF IInv, NeverThrows

\* decode never throws at a packet that encode has made, however the bytes were
\* split and whatever the header holds: the four bytes it reads as a size are
\* always those of a size field (Encoder.cpp:57-75).
THEOREM FrameNeverLost == Spec => []NeverThrows
BY Inductive, IInvNeverThrows, PTL

LEMMA IInvRoom == IInv => RoomForTheRest
<1> SUFFICES ASSUME IInv, decode(recvQueue).outcome = "nullopt", SizeKnown(recvQueue)
             PROVE  FrontSize(decode(recvQueue).queue) + SIZE_LEN
                      <= getReadableSize(decode(recvQueue).queue)
                           + getWritableSize(decode(recvQueue).queue)
  BY DEF RoomForTheRest
<1>1. Incomplete(recvQueue)
  BY DecodeNext DEF Complete
<1> QED
  BY <1>1 DEF Incomplete

\* When decode says that a packet is incomplete, the queue can take what is
\* missing of it (Encoder.cpp:77-91).
THEOREM RestFits == Spec => []RoomForTheRest
BY Inductive, IInvRoom, PTL

\* The sequence the refinement calls channel.
LEMMA ChannelIs ==
  [i \in 1 .. Len(sent) - Len(delivered) |-> MessageBytes(sent[Len(delivered) + i])]
    = ContentsOf(sent, Len(delivered))
BY DEF ContentsOf

LEMMA InitImplements == Init => Channel!ChannelInit
BY ChannelIs, NoneOnTheWay DEF Init, Channel!ChannelInit

LEMMA StepImplements ==
  IInv /\ [Next]_vars => [Channel!ChannelNext]_Channel!channelVars
<1> SUFFICES ASSUME IInv, [Next]_vars
             PROVE  [Channel!ChannelNext]_Channel!channelVars
  OBVIOUS
<1> DEFINE n == Len(delivered)
           Same == sent' = sent /\ delivered' = delivered
           channelNow == [i \in 1 .. Len(sent) - Len(delivered) |-> MessageBytes(sent[Len(delivered) + i])]
<1>1. /\ sent \in Seq(Messages) /\ delivered \in Seq(Seq(Octet))
      /\ n \in 0 .. Len(sent) /\ n \in Nat /\ Len(sent) \in Nat
  BY Streams DEF IInv
<1>2. channelNow = ContentsOf(sent, n) /\ channelNow' = ContentsOf(sent', Len(delivered'))
  BY DEF ContentsOf
<1>3. ASSUME Same
      PROVE  UNCHANGED Channel!channelVars
  BY <1>3 DEF Channel!channelVars
<1>4. ASSUME NEW len \in Bodies, NEW reserved \in Reserves, Send(len, reserved)
      PROVE  Channel!ChannelNext
  <2>1. delivered' = delivered
    BY <1>4 DEF Send
  <2>2. PICK m \in Messages : sent' = Append(sent, m)
    BY <1>4, SendStep
  <2>3. channelNow' = Append(channelNow, MessageBytes(m))
    <3>1. ContentsOf(sent', n) = Append(ContentsOf(sent, n), MessageBytes(m))
      BY <1>1, <2>2, OneMore
    <3> QED
      BY <1>2, <2>1, <3>1
  <2>4. MessageBytes(m) \in {MessageBytes([id |-> id, len |-> l]) : id \in 1 .. MaxMessages, l \in Bodies}
    <3>1. m.id \in 1 .. MaxMessages /\ m.len \in Bodies
      BY DEF Messages
    <3>2. MessageBytes(m) = MessageBytes([id |-> m.id, len |-> m.len])
      BY DEF MessageBytes, NoBytes, BodyBytes
    <3> QED
      BY <3>1, <3>2
  <2> QED
    <3> DEFINE x == MessageBytes(m)
    <3>1. Channel!SendMessage(x)
      BY <2>1, <2>3 DEF Channel!SendMessage
    <3> HIDE DEF x
    <3>2. x \in {MessageBytes([id |-> id, len |-> l]) : id \in 1 .. MaxMessages, l \in Bodies}
      BY <2>4 DEF x
    <3> QED
      BY <3>1, <3>2 DEF Channel!ChannelNext
<1>5. ASSUME Decode, ~Same
      PROVE  Channel!ReceiveMessage
  <2>1. /\ sent' = sent /\ n # Len(sent)
        /\ delivered' = Append(delivered, MessageBytes(sent[n + 1]))
    BY <1>5, DecodeStep
  <2>2. Len(delivered') = n + 1
    <3>1. n + 1 \in 1 .. Len(sent)
      BY <1>1, <2>1
    <3>2. MessageBytes(sent[n + 1]) \in Seq(Octet)
      BY <1>1, <3>1, MessageTypes
    <3> QED
      BY <1>1, <2>1, <3>2
  <2>3. /\ ContentsOf(sent, n) # << >>
        /\ Head(ContentsOf(sent, n)) = MessageBytes(sent[n + 1])
        /\ Tail(ContentsOf(sent, n)) = ContentsOf(sent, n + 1)
    BY <1>1, <2>1, OneLess
  <2>4. /\ channelNow # << >> /\ delivered' = Append(delivered, Head(channelNow))
        /\ channelNow' = Tail(channelNow)
    BY <1>2, <2>1, <2>2, <2>3
  <2> QED
    BY <2>4 DEF Channel!ReceiveMessage
<1>6. CASE Disconnect
  <2>1. sent' = << >> /\ delivered' = << >>
    BY <1>6, DisconnectStep
  <2>2. channelNow' = << >>
    BY <1>2, <2>1, NoneOnTheWay
  <2> QED
    BY <2>1, <2>2 DEF Channel!ChannelNext, Channel!Break
<1>7. ASSUME NEW k \in 1 .. Backlog(sendQueue), Transmit(k)
      PROVE  Same
  BY <1>7, TransmitStep
<1>8. ASSUME NEW request \in Requests, NEW k \in 1 .. Len(wire), Receive(request, k)
      PROVE  Same
  BY <1>8, ReceiveStep
<1>9. ASSUME UNCHANGED vars
      PROVE  Same
  BY <1>9 DEF vars
<1> HIDE DEF Same
<1>10. CASE Decode
  BY <1>3, <1>5, <1>10 DEF Channel!ChannelNext
<1> QED
  BY <1>3, <1>4, <1>6, <1>7, <1>8, <1>9, <1>10 DEF Next, TransmitSome, ReceiveSome

\* What a session dispatches is what the other one sent, message by message and
\* byte by byte: encode, the two queues, the socket and decode together implement
\* a channel that loses nothing until the connection breaks (TCPSession.h,
\* Encoder.cpp, SendQueue.cpp, RecvQueue.cpp).
THEOREM Refinement == Spec => ImplementsChannel
<1>1. IInv /\ IInv' /\ [Next]_vars => [Channel!ChannelNext]_Channel!channelVars
  BY StepImplements
<1> QED
  BY <1>1, InitImplements, Inductive, PTL DEF Spec, ImplementsChannel, Channel!ChannelSpec
=============================================================================
