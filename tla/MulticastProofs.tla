--------------------------- MODULE MulticastProofs --------------------------
(***************************************************************************)
(* For any number of sessions, buffers and messages, each session writes   *)
(* exactly what it was asked to send, although the streams share memory    *)
(* (SessionsIndependent).                                                  *)
(*                                                                         *)
(* The invariant adds what the sharing rests on: the unread bytes of every *)
(* stream were written, the stream in the hands of send still holds the    *)
(* message. Memory is written only where no stream looks (FreshBuffer).    *)
(***************************************************************************)
EXTENDS Multicast, QueueProofs

Octet == Nat \X Nat

Ref == [m_buf : Buffers, m_read : Nat, m_written : Nat]

\* A stream with the memory it refers to.
Deref(mem, x) == [cells |-> mem[x.m_buf], m_read |-> x.m_read, m_written |-> x.m_written]

ViewIn(mem, q) == [i \in DOMAIN q |-> Deref(mem, q[i])]

Memories == [Buffers -> Seq(CellsOf(Octet))]

\* A queue of streams that are sound in a memory.
SoundRefs(mem, q) ==
  /\ q \in Seq(Ref)
  /\ \A i \in 1 .. Len(q) : SoundStream(Octet, Deref(mem, q[i]))

\* A stream that holds a message.
Holds(mem, x, id, len) ==
  /\ x \in Ref
  /\ SoundStream(Octet, Deref(mem, x))
  /\ Unread(Deref(mem, x)) = BytesOf(id, len)

\* What holds of one session: its queue, what it wrote and what it was asked to.
SessionOK(mem, q, w, p) ==
  /\ SoundRefs(mem, q)
  /\ w \in Seq(Octet)
  /\ p \in Seq(Octet)
  /\ w \o Bytes(ViewIn(mem, q)) = p

CallEach ==
  [running : {TRUE}, multi : {FALSE}, id : Nat, len : Lengths, targets : SUBSET Sessions]

CallShared ==
  [running : {TRUE}, multi : {TRUE}, id : Nat, len : Lengths, targets : SUBSET Sessions, stream : Ref]

\* What holds of the call of send.
CallOK(mem, call) ==
  \/ call = Idle
  \/ call \in CallEach
  \/ call \in CallShared /\ Holds(mem, call.stream, call.id, call.len)

IInv ==
  /\ memory \in Memories
  /\ messages \in 0 .. MaxMessages
  /\ closes \in 0 .. MaxCloses
  /\ queues \in [Sessions -> Seq(Ref)]
  /\ wire \in [Sessions -> Seq(Octet)]
  /\ pushed \in [Sessions -> Seq(Octet)]
  /\ \A s \in Sessions : SessionOK(memory, queues[s], wire[s], pushed[s])
  /\ CallOK(memory, sending)

-----------------------------------------------------------------------------
(***************************************************************************)
(* Memory.                                                                 *)
(***************************************************************************)
LEMMA BytesOfType ==
  ASSUME NEW id \in Nat, NEW len \in Lengths
  PROVE  /\ BytesOf(id, len) \in Seq(Octet)
         /\ Len(BytesOf(id, len)) = len
         /\ len \in Nat /\ len <= Capacity /\ Capacity \in Nat
         /\ \A i \in 1 .. len : BytesOf(id, len)[i] = << id, i >> /\ << id, i >> \in Octet
<1>1. len \in Nat /\ len <= Capacity /\ Capacity \in Nat
  BY MulticastAssumption
<1>2. \A i \in 1 .. len : BytesOf(id, len)[i] = << id, i >> /\ << id, i >> \in Octet
  BY <1>1 DEF BytesOf, Octet
<1>3. BytesOf(id, len) \in [1 .. len -> Octet]
  BY <1>2 DEF BytesOf
<1> QED
  BY <1>1, <1>2, <1>3, FunctionIsSeq

LEMMA FillType ==
  ASSUME NEW bytes \in Seq(Octet)
  PROVE  /\ Fill(bytes) \in Seq(CellsOf(Octet))
         /\ Len(Fill(bytes)) = Capacity
         /\ \A c \in 1 .. Capacity : Fill(bytes)[c] = IF c <= Len(bytes) THEN bytes[c] ELSE Uninit
<1>1. Capacity \in Nat /\ Len(bytes) \in Nat
  BY MulticastAssumption
<1>2. ASSUME NEW c \in 1 .. Capacity
      PROVE  (IF c <= Len(bytes) THEN bytes[c] ELSE Uninit) \in CellsOf(Octet)
  <2>1. c <= Len(bytes) => bytes[c] \in Octet
    BY <1>1
  <2> QED
    BY <2>1 DEF CellsOf
<1>3. Fill(bytes) \in [1 .. Capacity -> CellsOf(Octet)]
  BY <1>2 DEF Fill
<1> QED
  BY <1>1, <1>3, FunctionIsSeq DEF Fill

\* A message that has been encoded into a buffer.
LEMMA EncodedHolds ==
  ASSUME NEW mem \in Memories, NEW b \in Buffers, NEW id \in Nat, NEW len \in Lengths,
         mem[b] = Fill(BytesOf(id, len))
  PROVE  Holds(mem, Encoded(b, len), id, len)
<1> DEFINE x == Encoded(b, len)
           s == Deref(mem, x)
           bytes == BytesOf(id, len)
<1>1. /\ bytes \in Seq(Octet) /\ Len(bytes) = len /\ len \in Nat /\ len <= Capacity /\ Capacity \in Nat
      /\ \A i \in 1 .. len : bytes[i] \in Octet
  BY BytesOfType
<1> HIDE DEF bytes
<1>2. x \in Ref /\ x.m_buf = b /\ x.m_read = 0 /\ x.m_written = len
  BY <1>1 DEF Encoded, Ref
<1>3. /\ s = [cells |-> Fill(bytes), m_read |-> 0, m_written |-> len]
      /\ Fill(bytes) \in Seq(CellsOf(Octet)) /\ Len(Fill(bytes)) = Capacity
      /\ \A c \in 1 .. Capacity : Fill(bytes)[c] = IF c <= Len(bytes) THEN bytes[c] ELSE Uninit
  BY <1>1, <1>2, FillType DEF Deref, bytes
<1> HIDE DEF x, s
<1>4. \A i \in 1 .. len : Fill(bytes)[i] = bytes[i]
  BY <1>1, <1>3
<1>5. SoundStream(Octet, s)
  <2>1. s \in StreamsOf(CellsOf(Octet)) /\ CursorsOK(s)
    BY <1>1, <1>3 DEF StreamsOf, CursorsOK, StreamAllocSize
  <2>2. \A i \in s.m_read + 1 .. s.m_written : s.cells[i] \in Octet
    BY <1>1, <1>3, <1>4
  <2> QED
    BY <2>1, <2>2 DEF SoundStream
<1>6. Unread(s) = bytes
  <2>1. /\ Unread(s) \in Seq(Octet) /\ Len(Unread(s)) = StreamReadableSize(s)
        /\ \A j \in 1 .. StreamReadableSize(s) : Unread(s)[j] = s.cells[s.m_read + j]
    BY <1>5, SoundUnread
  <2>2. StreamReadableSize(s) = len /\ \A j \in 1 .. len : s.m_read + j = j
    BY <1>1, <1>3 DEF StreamReadableSize
  <2>3. \A j \in 1 .. len : Unread(s)[j] = bytes[j]
    BY <1>3, <1>4, <2>1, <2>2
  <2> QED
    BY <1>1, <2>1, <2>2, <2>3, SeqEqual
<1> QED
  BY <1>2, <1>5, <1>6 DEF Holds, x, s, bytes

\* What is written to other buffers is not seen.
LEMMA HoldsKept ==
  ASSUME NEW mem, NEW other, NEW x, NEW id, NEW len, Holds(mem, x, id, len),
         other[x.m_buf] = mem[x.m_buf]
  PROVE  Holds(other, x, id, len)
BY DEF Holds, Deref

-----------------------------------------------------------------------------
(***************************************************************************)
(* Queues of streams that share memory.                                    *)
(***************************************************************************)
LEMMA ViewSound ==
  ASSUME NEW mem, NEW q, SoundRefs(mem, q)
  PROVE  /\ SoundQueue(Octet, ViewIn(mem, q))
         /\ Len(ViewIn(mem, q)) = Len(q) /\ Len(q) \in Nat
         /\ \A i \in 1 .. Len(q) : ViewIn(mem, q)[i] = Deref(mem, q[i]) /\ q[i] \in Ref
         /\ ViewIn(mem, q) \in Seq(StreamsOf(CellsOf(Octet)))
         /\ UnreadSizes(ViewIn(mem, q)) = UnreadSizes(q)
         /\ Backlog(ViewIn(mem, q)) = Backlog(q)
<1> DEFINE v == ViewIn(mem, q)
<1>1. q \in Seq(Ref) /\ Len(q) \in Nat /\ DOMAIN q = 1 .. Len(q) /\ \A i \in 1 .. Len(q) : q[i] \in Ref
  BY DEF SoundRefs
<1>2. \A i \in 1 .. Len(q) : v[i] = Deref(mem, q[i])
  BY <1>1 DEF ViewIn
<1>3. \A i \in 1 .. Len(q) :
        SoundStream(Octet, Deref(mem, q[i])) /\ Deref(mem, q[i]) \in StreamsOf(CellsOf(Octet))
  BY DEF SoundRefs, SoundStream
<1>4. v \in [1 .. Len(q) -> StreamsOf(CellsOf(Octet))]
  BY <1>1, <1>3 DEF ViewIn
<1> HIDE DEF v
<1>5. v \in Seq(StreamsOf(CellsOf(Octet))) /\ Len(v) = Len(q)
  BY <1>1, <1>4, FunctionIsSeq
<1>6. SoundQueue(Octet, v)
  BY <1>1, <1>2, <1>3, <1>4, <1>5 DEF SoundQueue
<1>7. UnreadSizes(v) = UnreadSizes(q)
  <2>1. \A i \in 1 .. Len(q) : StreamReadableSize(v[i]) = StreamReadableSize(q[i])
    <3> TAKE i \in 1 .. Len(q)
    <3>1. v[i] = Deref(mem, q[i])
      BY <1>2
    <3>2. /\ Deref(mem, q[i]).m_read = q[i].m_read
          /\ Deref(mem, q[i]).m_written = q[i].m_written
      BY DEF Deref
    <3> QED
      BY <3>1, <3>2 DEF StreamReadableSize
  <2>2. DOMAIN v = DOMAIN q /\ DOMAIN q = 1 .. Len(q)
    BY <1>1, <1>4
  <2> QED
    BY <2>1, <2>2 DEF UnreadSizes
<1> QED
  BY <1>1, <1>2, <1>5, <1>6, <1>7 DEF v, Backlog

LEMMA ViewKept ==
  ASSUME NEW mem, NEW other, NEW q, SoundRefs(mem, q),
         \A i \in 1 .. Len(q) : other[q[i].m_buf] = mem[q[i].m_buf]
  PROVE  ViewIn(other, q) = ViewIn(mem, q) /\ SoundRefs(other, q)
<1>1. q \in Seq(Ref) /\ DOMAIN q = 1 .. Len(q)
  BY DEF SoundRefs
<1>2. \A i \in 1 .. Len(q) : Deref(other, q[i]) = Deref(mem, q[i])
  BY DEF Deref
<1> QED
  BY <1>1, <1>2 DEF ViewIn, SoundRefs

LEMMA ViewPush ==
  ASSUME NEW mem, NEW q, SoundRefs(mem, q), NEW x \in Ref, SoundStream(Octet, Deref(mem, x))
  PROVE  /\ SoundRefs(mem, Append(q, x))
         /\ ViewIn(mem, Append(q, x)) = Append(ViewIn(mem, q), Deref(mem, x))
<1> DEFINE r == Append(q, x)
<1>1. /\ q \in Seq(Ref) /\ Len(q) \in Nat
      /\ \A i \in 1 .. Len(q) : SoundStream(Octet, Deref(mem, q[i]))
  BY DEF SoundRefs
<1>2. /\ r \in Seq(Ref) /\ Len(r) = Len(q) + 1
      /\ \A i \in 1 .. Len(q) : r[i] = q[i]
      /\ r[Len(q) + 1] = x
  BY <1>1
<1> HIDE DEF r
<1>3. \A i \in 1 .. Len(r) : i \in 1 .. Len(q) \/ i = Len(q) + 1
  BY <1>1, <1>2
<1>4. SoundRefs(mem, r)
  BY <1>1, <1>2, <1>3 DEF SoundRefs
<1>5. /\ ViewIn(mem, q) \in Seq(StreamsOf(CellsOf(Octet))) /\ Len(ViewIn(mem, q)) = Len(q)
      /\ \A i \in 1 .. Len(q) : ViewIn(mem, q)[i] = Deref(mem, q[i])
  BY ViewSound
<1>6. /\ ViewIn(mem, r) \in Seq(StreamsOf(CellsOf(Octet))) /\ Len(ViewIn(mem, r)) = Len(r)
      /\ \A i \in 1 .. Len(r) : ViewIn(mem, r)[i] = Deref(mem, r[i])
  BY <1>4, ViewSound
<1>7. Len(q) + 1 \in 1 .. Len(r) /\ \A i \in 1 .. Len(q) : i \in 1 .. Len(r)
  BY <1>1, <1>2
<1>8. /\ \A i \in 1 .. Len(q) : ViewIn(mem, r)[i] = ViewIn(mem, q)[i]
      /\ ViewIn(mem, r)[Len(q) + 1] = Deref(mem, x)
  BY <1>2, <1>5, <1>6, <1>7
<1>9. Deref(mem, x) \in StreamsOf(CellsOf(Octet))
  BY DEF SoundStream
<1>10. ViewIn(mem, r) = Append(ViewIn(mem, q), Deref(mem, x))
  BY <1>2, <1>5, <1>6, <1>8, <1>9, AppendAgrees
<1> QED
  BY <1>4, <1>10 DEF r

\* A queue is known by its streams.
LEMMA ViewAgrees ==
  ASSUME NEW mem, NEW r \in Seq(Ref), NEW v, SoundQueue(Octet, v), Len(v) = Len(r),
         \A i \in 1 .. Len(r) : v[i] = Deref(mem, r[i])
  PROVE  SoundRefs(mem, r) /\ ViewIn(mem, r) = v
<1>1. /\ v \in Seq(StreamsOf(CellsOf(Octet)))
      /\ \A i \in 1 .. Len(v) : SoundStream(Octet, v[i])
  BY SoundShape DEF SoundQueue
<1>2. SoundRefs(mem, r)
  BY <1>1 DEF SoundRefs
<1>3. /\ ViewIn(mem, r) \in Seq(StreamsOf(CellsOf(Octet))) /\ Len(ViewIn(mem, r)) = Len(r)
      /\ \A i \in 1 .. Len(r) : ViewIn(mem, r)[i] = Deref(mem, r[i])
  BY <1>2, ViewSound
<1>4. \A i \in 1 .. Len(v) : ViewIn(mem, r)[i] = v[i]
  BY <1>3
<1>5. ViewIn(mem, r) = v
  BY <1>1, <1>3, <1>4, SeqEqual
<1> QED
  BY <1>2, <1>5

\* Reading a stream moves its cursor and nothing else.
LEMMA ReadDeref ==
  ASSUME NEW mem, NEW x \in Ref, NEW n \in Nat
  PROVE  /\ StreamConsume(x, n) \in Ref
         /\ StreamConsume(x, n).m_buf = x.m_buf
         /\ StreamConsume(Deref(mem, x), n) = Deref(mem, StreamConsume(x, n))
         /\ StreamReadableSize(StreamConsume(Deref(mem, x), n)) = StreamReadableSize(StreamConsume(x, n))
BY DEF Ref, Deref, StreamConsume, StreamReadableSize

\* Consuming from a queue of references is consuming from what they refer to.
LEMMA ViewConsume ==
  ASSUME NEW mem, NEW q, SoundRefs(mem, q), NEW n \in 1 .. Backlog(q)
  PROVE  /\ SoundRefs(mem, consume(q, n))
         /\ ViewIn(mem, consume(q, n)) = consume(ViewIn(mem, q), n)
<1> DEFINE v == ViewIn(mem, q)
           k == StopAt(UnreadSizes(q), n)
           m == n - SumTo(UnreadSizes(q), k - 1)
           s == StreamConsume(q[k], m)
           t == StreamConsume(v[k], m)
           rest == SubSeq(q, k + 1, Len(q))
           left == SubSeq(v, k + 1, Len(v))
           r == consume(q, n)
           w == consume(v, n)
<1>1. /\ SoundQueue(Octet, v) /\ Len(v) = Len(q) /\ Len(q) \in Nat
      /\ \A i \in 1 .. Len(q) : v[i] = Deref(mem, q[i]) /\ q[i] \in Ref
      /\ v \in Seq(StreamsOf(CellsOf(Octet)))
      /\ UnreadSizes(v) = UnreadSizes(q) /\ Backlog(v) = Backlog(q)
  BY ViewSound
<1>2. q \in Seq(Ref)
  BY DEF SoundRefs
<1> HIDE DEF v
<1>3. n \in Nat /\ n # 0 /\ n \in 1 .. Backlog(v)
  BY <1>1, SumsOfQueue
<1>4. r = IF StreamReadableSize(s) = 0 THEN rest ELSE << s >> \o rest
  BY <1>3 DEF consume
<1>5. w = IF StreamReadableSize(t) = 0 THEN left ELSE << t >> \o left
  BY <1>1, <1>3 DEF consume
<1>6. k = StopAt(UnreadSizes(v), n) /\ t = StreamConsume(v[k], n - SumTo(UnreadSizes(v), k - 1))
  BY <1>1
<1>7. /\ k \in 1 .. Len(v)
      /\ SumTo(UnreadSizes(v), k - 1) \in Nat
      /\ SumTo(UnreadSizes(v), k - 1) < n
      /\ SoundStream(Octet, t)
  <2> HIDE DEF k, t
  <2> QED
    BY <1>1, <1>3, <1>6, StoppedStream
<1>8. k \in 1 .. Len(q) /\ m \in Nat
  BY <1>1, <1>3, <1>7
<1> HIDE DEF k, m
<1>9. /\ s \in Ref /\ s.m_buf = q[k].m_buf
      /\ t = Deref(mem, s)
      /\ StreamReadableSize(t) = StreamReadableSize(s)
  <2>1. q[k] \in Ref /\ v[k] = Deref(mem, q[k])
    BY <1>1, <1>8
  <2>2. \A x \in Ref : \A c \in Nat :
          /\ StreamConsume(x, c) \in Ref
          /\ StreamConsume(x, c).m_buf = x.m_buf
          /\ StreamConsume(Deref(mem, x), c) = Deref(mem, StreamConsume(x, c))
          /\ StreamReadableSize(StreamConsume(Deref(mem, x), c)) = StreamReadableSize(StreamConsume(x, c))
    BY ReadDeref
  <2> QED
    BY <1>8, <2>1, <2>2
<1>10. SoundQueue(Octet, w)
  BY <1>1, <1>3, ConsumeGood
<1> HIDE DEF s, t, r, w
<1>11. /\ rest \in Seq(Ref) /\ Len(rest) = Len(q) - k
       /\ \A i \in 1 .. Len(q) - k : rest[i] = q[k + i]
  <2>1. \A i \in k + 1 .. Len(q) : q[i] \in Ref
    BY <1>1, <1>8
  <2>2. /\ rest \in Seq(Ref)
        /\ Len(rest) = IF k + 1 <= Len(q) THEN Len(q) - (k + 1) + 1 ELSE 0
        /\ \A i \in 1 .. Len(q) - (k + 1) + 1 : rest[i] = q[(k + 1) + i - 1]
    BY <1>1, <1>2, <1>8, <2>1, SubSeqProperties
  <2> HIDE DEF rest
  <2>3. Len(q) - (k + 1) + 1 = Len(q) - k /\ \A i \in 1 .. Len(q) - k : (k + 1) + i - 1 = k + i
    BY <1>1, <1>8
  <2>4. Len(rest) = Len(q) - k
    BY <1>1, <1>8, <2>2
  <2> QED
    BY <2>2, <2>3, <2>4
<1>12. /\ Len(left) = Len(q) - k
       /\ \A i \in 1 .. Len(q) - k : left[i] = v[k + i]
  <2>1. k \in 1 .. Len(v)
    BY <1>1, <1>8
  <2>2. /\ Len(SubSeq(v, k + 1, Len(v))) = Len(v) - k
        /\ \A i \in 1 .. Len(v) - k : SubSeq(v, k + 1, Len(v))[i] = v[k + i]
    BY <1>1, <2>1, RestOfQueue
  <2> QED
    BY <1>1, <2>2
<1>13. CASE StreamReadableSize(t) = 0
  <2>1. r = rest /\ w = left
    BY <1>4, <1>5, <1>9, <1>13
  <2> HIDE DEF rest, left
  <2>2. \A i \in 1 .. Len(r) : k + i \in 1 .. Len(q) /\ r[i] = q[k + i] /\ w[i] = v[k + i]
    BY <1>1, <1>8, <1>11, <1>12, <2>1
  <2>3. \A i \in 1 .. Len(r) : w[i] = Deref(mem, r[i])
    BY <1>1, <2>2
  <2>4. r \in Seq(Ref) /\ Len(w) = Len(r)
    BY <1>11, <1>12, <2>1
  <2>5. SoundRefs(mem, r) /\ ViewIn(mem, r) = w
    BY <1>10, <2>3, <2>4, ViewAgrees
  <2> QED
    BY <2>5 DEF r, w, v
<1>14. CASE StreamReadableSize(t) # 0
  <2>1. r = << s >> \o rest /\ w = << t >> \o left
    BY <1>4, <1>5, <1>9, <1>14
  <2>2. /\ r \in Seq(Ref) /\ Len(r) = Len(q) - k + 1 /\ r[1] = s
        /\ \A i \in 2 .. Len(q) - k + 1 : r[i] = q[k + i - 1]
    BY <1>2, <1>8, <1>9, <2>1, FrontAndRest
  <2>3. t \in StreamsOf(CellsOf(Octet)) /\ k \in 1 .. Len(v)
    BY <1>1, <1>7, <1>8 DEF SoundStream
  <2>4. /\ Len(w) = Len(v) - k + 1 /\ w[1] = t
        /\ \A i \in 2 .. Len(v) - k + 1 : w[i] = v[k + i - 1]
    BY <1>1, <2>1, <2>3, FrontAndRest
  <2> HIDE DEF rest, left
  <2>5. \A i \in 1 .. Len(r) : i = 1 \/ i \in 2 .. Len(q) - k + 1
    BY <1>1, <1>8, <2>2
  <2>6. \A i \in 2 .. Len(q) - k + 1 : k + i - 1 \in 1 .. Len(q)
    BY <1>1, <1>8
  <2>7. Len(w) = Len(r) /\ \A i \in 2 .. Len(q) - k + 1 : w[i] = v[k + i - 1]
    BY <1>1, <2>2, <2>4
  <2>8. \A i \in 1 .. Len(r) : w[i] = Deref(mem, r[i])
    BY <1>1, <1>9, <2>2, <2>4, <2>5, <2>6, <2>7
  <2>9. SoundRefs(mem, r) /\ ViewIn(mem, r) = w
    BY <1>10, <2>2, <2>7, <2>8, ViewAgrees
  <2> QED
    BY <2>9 DEF r, w, v
<1> QED
  BY <1>13, <1>14

-----------------------------------------------------------------------------
(***************************************************************************)
(* One session.                                                            *)
(***************************************************************************)
\* Nothing changes for a session when the memory its streams refer to does not.
LEMMA SessionKept ==
  ASSUME NEW mem, NEW other, NEW q, NEW w, NEW p, SessionOK(mem, q, w, p),
         \A i \in 1 .. Len(q) : other[q[i].m_buf] = mem[q[i].m_buf]
  PROVE  SessionOK(other, q, w, p)
<1>1. SoundRefs(mem, q)
  BY DEF SessionOK
<1>2. ViewIn(other, q) = ViewIn(mem, q) /\ SoundRefs(other, q)
  BY <1>1, ViewKept
<1> QED
  BY <1>2 DEF SessionOK

LEMMA SessionPush ==
  ASSUME NEW mem, NEW q, NEW w, NEW p, SessionOK(mem, q, w, p),
         NEW id \in Nat, NEW len \in Lengths, NEW x, Holds(mem, x, id, len)
  PROVE  SessionOK(mem, Append(q, x), w, p \o BytesOf(id, len))
<1> DEFINE v == ViewIn(mem, q)
           r == Append(q, x)
           u == BytesOf(id, len)
           y == Deref(mem, x)
<1>1. /\ SoundRefs(mem, q)
      /\ w \in Seq(Octet) /\ p \in Seq(Octet) /\ w \o Bytes(v) = p
  BY DEF SessionOK
<1>2. x \in Ref /\ SoundStream(Octet, y) /\ Unread(y) = u
  BY DEF Holds
<1>3. SoundRefs(mem, r) /\ ViewIn(mem, r) = Append(v, y)
  BY <1>1, <1>2, ViewPush
<1>4. u \in Seq(Octet)
  BY BytesOfType
<1>5. SoundQueue(Octet, v)
  BY <1>1, ViewSound
<1> HIDE DEF v, r, u, y
<1>6. Bytes(Append(v, y)) = Bytes(v) \o u /\ Bytes(v) \in Seq(Octet)
  BY <1>2, <1>5, PushIsPut, BytesType
<1>7. w \o (Bytes(v) \o u) = (w \o Bytes(v)) \o u /\ (w \o Bytes(v)) \o u \in Seq(Octet)
  <2> DEFINE all == Bytes(v)
  <2>1. \A a, b, c \in Seq(Octet) : a \o (b \o c) = (a \o b) \o c
    BY Regroup
  <2>2. \A a, b \in Seq(Octet) : a \o b \in Seq(Octet)
    BY ConcatProperties
  <2>3. w \in Seq(Octet) /\ all \in Seq(Octet) /\ u \in Seq(Octet)
    BY <1>1, <1>4, <1>6
  <2> HIDE DEF all
  <2>4. w \o all \in Seq(Octet)
    BY <2>2, <2>3
  <2> DEFINE both == w \o all
  <2>5. both \o u \in Seq(Octet) /\ w \o (all \o u) = both \o u
    BY <2>1, <2>2, <2>3, <2>4
  <2> QED
    BY <2>5 DEF all
<1>8. w \o Bytes(ViewIn(mem, r)) = p \o u /\ p \o u \in Seq(Octet)
  BY <1>1, <1>3, <1>6, <1>7
<1>9. SessionOK(mem, r, w, p \o u)
  BY <1>1, <1>3, <1>8 DEF SessionOK
<1> QED
  BY <1>9 DEF r, u

LEMMA SessionTransmit ==
  ASSUME NEW mem, NEW q, NEW w, NEW p, SessionOK(mem, q, w, p),
         NEW n \in 1 .. Backlog(q)
  PROVE  /\ SessionOK(mem, consume(q, n), w \o FirstBytes(ViewIn(mem, q), n), p)
         /\ w \o FirstBytes(ViewIn(mem, q), n) \in Seq(Octet)
<1> DEFINE v == ViewIn(mem, q)
           r == consume(q, n)
           f == FirstBytes(v, n)
<1>1. /\ SoundRefs(mem, q)
      /\ w \in Seq(Octet) /\ p \in Seq(Octet) /\ w \o Bytes(v) = p
  BY DEF SessionOK
<1>2. SoundQueue(Octet, v) /\ Backlog(v) = Backlog(q)
  BY <1>1, ViewSound
<1>3. SoundRefs(mem, r) /\ ViewIn(mem, r) = consume(v, n)
  BY <1>1, ViewConsume
<1> HIDE DEF v, r
<1>4. n \in 1 .. Backlog(v)
  BY <1>2
<1>5. f = SubSeq(Bytes(v), 1, n) /\ Bytes(consume(v, n)) = SubSeq(Bytes(v), n + 1, Len(Bytes(v)))
  BY <1>2, <1>4, SentIsTake
<1>6. Bytes(v) \in Seq(Octet) /\ n \in 0 .. Len(Bytes(v))
  BY <1>2, <1>4, BytesType
<1> HIDE DEF f
<1>7. f \in Seq(Octet) /\ (w \o f) \o Bytes(consume(v, n)) = w \o Bytes(v)
  <2>1. /\ SubSeq(Bytes(v), 1, n) \in Seq(Octet)
        /\ (w \o SubSeq(Bytes(v), 1, n)) \o SubSeq(Bytes(v), n + 1, Len(Bytes(v))) = w \o Bytes(v)
    BY <1>1, <1>6, MoveOver
  <2> QED
    BY <1>5, <2>1
<1>8. w \o f \in Seq(Octet)
  BY <1>1, <1>7
<1>9. SessionOK(mem, r, w \o f, p)
  BY <1>1, <1>3, <1>7, <1>8 DEF SessionOK
<1> QED
  BY <1>8, <1>9 DEF r, f, v

LEMMA SessionEmpty ==
  ASSUME NEW mem
  PROVE  SessionOK(mem, << >>, << >>, << >>)
<1>1. << >> \in Seq(Ref) /\ Len(<< >>) = 0 /\ << >> \in Seq(Octet)
  OBVIOUS
<1>2. SoundRefs(mem, << >>)
  BY <1>1 DEF SoundRefs
<1>3. SoundQueue(Octet, << >>) /\ Backlog(<< >>) = 0
  BY EmptySound
<1>4. ViewIn(mem, << >>) = << >>
  <2>1. ViewIn(mem, << >>) \in Seq(StreamsOf(CellsOf(Octet))) /\ Len(ViewIn(mem, << >>)) = Len(<< >>)
    BY <1>2, ViewSound
  <2> QED
    BY <1>1, <2>1, EmptySeq
<1>5. Bytes(<< >>) \in Seq(Octet) /\ Len(Bytes(<< >>)) = 0
  BY <1>3, BytesType
<1>6. Bytes(<< >>) = << >> /\ << >> \o Bytes(<< >>) = << >>
  BY <1>5, EmptySeq
<1> QED
  BY <1>1, <1>2, <1>4, <1>6 DEF SessionOK

-----------------------------------------------------------------------------
(***************************************************************************)
(* The call of send.                                                       *)
(***************************************************************************)
LEMMA CopiedSame ==
  ASSUME NEW x \in Ref
  PROVE  Copied(x) = x
BY DEF Copied, Ref

LEMMA ViewIs ==
  ASSUME NEW q
  PROVE  View(q) = ViewIn(memory, q)
BY DEF View, ViewIn, Deref

LEMMA CallCases ==
  ASSUME NEW mem, NEW call, CallOK(mem, call)
  PROVE  /\ ~call.running => call = Idle
         /\ call.running /\ ~call.multi => call \in CallEach
         /\ call.running /\ call.multi =>
              /\ call \in CallShared
              /\ Holds(mem, call.stream, call.id, call.len)
<1>1. CASE call = Idle
  <2>1. call.running = FALSE
    BY <1>1 DEF Idle
  <2> QED
    BY <1>1, <2>1
<1>2. CASE call \in CallEach
  <2>1. call.running = TRUE /\ call.multi = FALSE
    BY <1>2 DEF CallEach
  <2> QED
    BY <1>2, <2>1
<1>3. CASE call \in CallShared /\ Holds(mem, call.stream, call.id, call.len)
  <2>1. call.running = TRUE /\ call.multi = TRUE
    BY <1>3 DEF CallShared
  <2> QED
    BY <1>3, <2>1
<1> QED
  BY <1>1, <1>2, <1>3 DEF CallOK

LEMMA CallKept ==
  ASSUME NEW mem, NEW other, NEW call, CallOK(mem, call),
         \A b \in HeldBySend(call) : other[b] = mem[b]
  PROVE  CallOK(other, call)
<1>1. CASE call = Idle \/ call \in CallEach
  BY <1>1 DEF CallOK
<1>2. CASE call \in CallShared /\ Holds(mem, call.stream, call.id, call.len)
  <2>1. other[call.stream.m_buf] = mem[call.stream.m_buf]
    BY <1>2 DEF HeldBySend, CallShared
  <2>2. Holds(other, call.stream, call.id, call.len)
    BY <1>2, <2>1, HoldsKept
  <2> QED
    BY <1>2, <2>2 DEF CallOK
<1> QED
  BY <1>1, <1>2 DEF CallOK

\* One target less.
LEMMA CallServed ==
  ASSUME NEW mem, NEW call, CallOK(mem, call), call.running, NEW s
  PROVE  CallOK(mem, [call EXCEPT !.targets = @ \ {s}])
<1> DEFINE next == [call EXCEPT !.targets = @ \ {s}]
<1>1. CASE call.multi
  <2>1. call \in CallShared /\ Holds(mem, call.stream, call.id, call.len)
    BY <1>1, CallCases
  <2>2. /\ next \in CallShared /\ next.stream = call.stream
        /\ next.id = call.id /\ next.len = call.len
    BY <2>1 DEF CallShared
  <2> QED
    BY <2>1, <2>2 DEF CallOK
<1>2. CASE ~call.multi
  <2>1. call \in CallEach
    BY <1>2, CallCases
  <2>2. next \in CallEach
    BY <2>1 DEF CallEach
  <2> QED
    BY <2>2 DEF CallOK
<1> QED
  BY <1>1, <1>2

-----------------------------------------------------------------------------
(***************************************************************************)
(* Memory that no stream refers to may be written.                         *)
(***************************************************************************)
\* What the streams of a call and of the queues see is the same in two memories.
SameSeen(mem, other, call, qs) ==
  /\ \A a \in HeldBySend(call) : other[a] = mem[a]
  /\ \A s \in Sessions : \A i \in 1 .. Len(qs[s]) : other[qs[s][i].m_buf] = mem[qs[s][i].m_buf]

EncodedInto(old, mem, b, id, len) == mem = [old EXCEPT ![b] = Fill(BytesOf(id, len))]

LEMMA FreshBuffer ==
  ASSUME NEW old \in Memories, NEW call, NEW qs \in [Sessions -> Seq(Ref)], CallOK(old, call),
         NEW b \in Buffers \ Referenced(call, qs),
         NEW id \in Nat, NEW len \in Lengths,
         NEW mem, EncodedInto(old, mem, b, id, len)
  PROVE  /\ mem \in Memories
         /\ SameSeen(old, mem, call, qs)
         /\ Holds(mem, Encoded(b, len), id, len)
         /\ Encoded(b, len) \in Ref
<1>1. BytesOf(id, len) \in Seq(Octet)
  BY BytesOfType
<1>2. Fill(BytesOf(id, len)) \in Seq(CellsOf(Octet))
  BY <1>1, FillType
<1>3. /\ mem \in Memories /\ mem[b] = Fill(BytesOf(id, len))
      /\ \A a \in Buffers : a # b => mem[a] = old[a]
  BY <1>2 DEF Memories, EncodedInto
<1>4. Holds(mem, Encoded(b, len), id, len)
  BY <1>3, EncodedHolds
<1>5. ASSUME NEW a \in HeldBySend(call)
      PROVE  mem[a] = old[a]
  <2>1. a = call.stream.m_buf /\ call.running /\ call.multi
    BY <1>5 DEF HeldBySend
  <2>2. call \in CallShared
    BY <2>1, CallCases
  <2>3. a \in Buffers
    BY <2>1, <2>2 DEF CallShared, Ref
  <2>4. a # b
    BY <1>5 DEF Referenced
  <2> QED
    BY <1>3, <2>3, <2>4
<1>6. ASSUME NEW s \in Sessions, NEW i \in 1 .. Len(qs[s])
      PROVE  mem[qs[s][i].m_buf] = old[qs[s][i].m_buf]
  <2>1. qs[s] \in Seq(Ref) /\ DOMAIN qs[s] = 1 .. Len(qs[s]) /\ qs[s][i] \in Ref
    BY <1>6
  <2>2. qs[s][i].m_buf \in Buffers
    BY <2>1 DEF Ref
  <2>3. qs[s][i].m_buf # b
    BY <2>1 DEF Referenced
  <2> QED
    BY <1>3, <2>2, <2>3
<1> QED
  BY <1>3, <1>4, <1>5, <1>6 DEF Holds, SameSeen

\* Where the streams see the same, what holds of the sessions and the call goes on.
LEMMA SeenKept ==
  ASSUME NEW old, NEW mem, NEW call, NEW qs, NEW ws, NEW ps, CallOK(old, call),
         \A s \in Sessions : SessionOK(old, qs[s], ws[s], ps[s]),
         SameSeen(old, mem, call, qs)
  PROVE  /\ CallOK(mem, call)
         /\ \A s \in Sessions : SessionOK(mem, qs[s], ws[s], ps[s])
<1>1. CallOK(mem, call)
  BY CallKept DEF SameSeen
<1>2. ASSUME NEW s \in Sessions
      PROVE  SessionOK(mem, qs[s], ws[s], ps[s])
  <2>1. SessionOK(old, qs[s], ws[s], ps[s])
    OBVIOUS
  <2>2. \A i \in 1 .. Len(qs[s]) : mem[qs[s][i].m_buf] = old[qs[s][i].m_buf]
    BY DEF SameSeen
  <2> QED
    BY <2>1, <2>2, SessionKept
<1> QED
  BY <1>1, <1>2

-----------------------------------------------------------------------------
(***************************************************************************)
(* The steps.                                                              *)
(***************************************************************************)
LEMMA BeginSharedStep ==
  ASSUME IInv, NEW targets \in SUBSET Sessions, NEW len \in Lengths, BeginShared(targets, len)
  PROVE  IInv'
<1> DEFINE id == messages + 1
<1>1. PICK b \in Buffers \ Referenced(sending, queues) :
        /\ memory' = [memory EXCEPT ![b] = Fill(BytesOf(id, len))]
        /\ sending' = [running |-> TRUE, multi |-> TRUE, id |-> id, len |-> len,
                       targets |-> targets, stream |-> Encoded(b, len)]
  BY DEF BeginShared
<1>2. /\ memory \in Memories /\ queues \in [Sessions -> Seq(Ref)] /\ CallOK(memory, sending)
      /\ \A s \in Sessions : SessionOK(memory, queues[s], wire[s], pushed[s])
      /\ messages \in 0 .. MaxMessages
      /\ messages < MaxMessages /\ messages' = messages + 1 /\ MaxMessages \in Nat
      /\ UNCHANGED << queues, wire, pushed, closes >>
  BY MulticastAssumption DEF IInv, BeginShared
<1>3. id \in Nat
  BY <1>2
<1>4. messages' \in 0 .. MaxMessages
  BY <1>2
<1> HIDE DEF id
<1>5. /\ memory' \in Memories
      /\ SameSeen(memory, memory', sending, queues)
      /\ Holds(memory', Encoded(b, len), id, len)
      /\ Encoded(b, len) \in Ref
  <2>1. EncodedInto(memory, memory', b, id, len)
    BY <1>1 DEF EncodedInto
  <2> QED
    BY <1>2, <1>3, <2>1, FreshBuffer
<1>6. \A s \in Sessions : SessionOK(memory', queues[s], wire[s], pushed[s])
  BY <1>2, <1>5, SeenKept
<1>7. CallOK(memory', sending')
  <2> DEFINE x == Encoded(b, len)
  <2>1. x \in Ref /\ Holds(memory', x, id, len)
    BY <1>5
  <2> HIDE DEF x
  <2>2. sending' = [running |-> TRUE, multi |-> TRUE, id |-> id, len |-> len,
                    targets |-> targets, stream |-> x]
    BY <1>1 DEF x
  <2>3. /\ sending' \in CallShared /\ sending'.stream = x /\ sending'.id = id /\ sending'.len = len
    BY <1>3, <2>1, <2>2 DEF CallShared
  <2> QED
    BY <2>1, <2>3 DEF CallOK
<1>8. \A s \in Sessions : SessionOK(memory', queues'[s], wire'[s], pushed'[s])
  BY <1>2, <1>6
<1>9. /\ closes' \in 0 .. MaxCloses
      /\ queues' \in [Sessions -> Seq(Ref)]
      /\ wire' \in [Sessions -> Seq(Octet)]
      /\ pushed' \in [Sessions -> Seq(Octet)]
  BY <1>2 DEF IInv
<1> QED
  BY <1>4, <1>5, <1>7, <1>8, <1>9 DEF IInv

LEMMA BeginEachStep ==
  ASSUME IInv, NEW targets \in SUBSET Sessions, NEW len \in Lengths, BeginEach(targets, len)
  PROVE  IInv'
<1>1. /\ messages \in 0 .. MaxMessages /\ messages < MaxMessages /\ messages' = messages + 1
      /\ UNCHANGED << memory, queues, wire, pushed, closes >>
      /\ sending' = [running |-> TRUE, multi |-> FALSE, id |-> messages + 1, len |-> len,
                     targets |-> targets]
  BY DEF IInv, BeginEach
<1>2. MaxMessages \in Nat
  BY MulticastAssumption
<1>3. messages' \in 0 .. MaxMessages /\ messages + 1 \in Nat
  BY <1>1, <1>2
<1>4. sending' \in CallEach
  BY <1>1, <1>3 DEF CallEach
<1>5. CallOK(memory', sending')
  BY <1>4 DEF CallOK
<1> QED
  BY <1>1, <1>3, <1>5 DEF IInv

\* One session is pushed a stream and the others see nothing of it.
LEMMA PushStep ==
  ASSUME IInv, NEW s \in Sessions, sending.running,
         NEW x, Holds(memory', x, sending.id, sending.len),
         memory' \in Memories, SameSeen(memory, memory', sending, queues),
         queues' = [queues EXCEPT ![s] = Append(@, x)],
         sending' = [sending EXCEPT !.targets = @ \ {s}],
         Asked(s),
         UNCHANGED << wire, messages, closes >>
  PROVE  IInv'
<1> DEFINE id == sending.id
           len == sending.len
<1>1. /\ queues \in [Sessions -> Seq(Ref)] /\ wire \in [Sessions -> Seq(Octet)]
      /\ pushed \in [Sessions -> Seq(Octet)]
      /\ messages' \in 0 .. MaxMessages /\ closes' \in 0 .. MaxCloses
      /\ CallOK(memory, sending)
      /\ \A t \in Sessions : SessionOK(memory, queues[t], wire[t], pushed[t])
  BY DEF IInv
<1>2. id \in Nat /\ len \in Lengths
  <2>1. CASE sending.multi
    <3>1. sending \in CallShared
      BY <1>1, <2>1, CallCases
    <3> QED
      BY <3>1 DEF CallShared
  <2>2. CASE ~sending.multi
    <3>1. sending \in CallEach
      BY <1>1, <2>2, CallCases
    <3> QED
      BY <3>1 DEF CallEach
  <2> QED
    BY <2>1, <2>2
<1>3. /\ CallOK(memory', sending)
      /\ \A t \in Sessions : SessionOK(memory', queues[t], wire[t], pushed[t])
  BY <1>1, SeenKept
<1>4. SessionOK(memory', Append(queues[s], x), wire[s], pushed[s] \o BytesOf(id, len))
  <2>1. SessionOK(memory', queues[s], wire[s], pushed[s])
    BY <1>3
  <2> HIDE DEF id, len
  <2>2. Holds(memory', x, id, len)
    BY DEF id, len
  <2> QED
    BY <1>2, <2>1, <2>2, SessionPush
<1>5. /\ x \in Ref /\ BytesOf(id, len) \in Seq(Octet)
  BY <1>2, BytesOfType DEF Holds
<1>6. /\ queues' = [queues EXCEPT ![s] = Append(queues[s], x)]
      /\ pushed' = [pushed EXCEPT ![s] = pushed[s] \o BytesOf(id, len)]
      /\ wire' = wire
  BY <1>1 DEF Asked
<1> HIDE DEF id, len
<1>7. Append(queues[s], x) \in Seq(Ref) /\ pushed[s] \o BytesOf(id, len) \in Seq(Octet)
  BY <1>1, <1>4, <1>5 DEF SessionOK
<1>8. queues' \in [Sessions -> Seq(Ref)] /\ pushed' \in [Sessions -> Seq(Octet)]
  BY <1>1, <1>6, <1>7
<1>9. \A t \in Sessions : SessionOK(memory', queues'[t], wire'[t], pushed'[t])
  <2> TAKE t \in Sessions
  <2>1. CASE t = s
    <3>1. /\ queues'[t] = Append(queues[s], x) /\ wire'[t] = wire[s]
          /\ pushed'[t] = pushed[s] \o BytesOf(id, len)
      BY <1>1, <1>6, <2>1
    <3> QED
      BY <1>4, <3>1
  <2>2. CASE t # s
    <3>1. queues'[t] = queues[t] /\ wire'[t] = wire[t] /\ pushed'[t] = pushed[t]
      BY <1>1, <1>6, <2>2
    <3> QED
      BY <1>3, <3>1
  <2> QED
    BY <2>1, <2>2
<1>10. CallOK(memory', sending')
  BY <1>3, CallServed
<1> QED
  BY <1>1, <1>6, <1>8, <1>9, <1>10 DEF IInv

LEMMA PushSharedStep ==
  ASSUME IInv, NEW s \in Sessions, PushShared(s)
  PROVE  IInv'
<1> DEFINE x == sending.stream
<1>1. /\ sending.running /\ sending.multi
      /\ queues' = [queues EXCEPT ![s] = push(@, Copied(x))]
      /\ sending' = [sending EXCEPT !.targets = @ \ {s}]
      /\ Asked(s)
      /\ UNCHANGED << memory, wire, messages, closes >>
  BY DEF PushShared
<1>2. CallOK(memory, sending) /\ memory \in Memories
  BY DEF IInv
<1>3. Holds(memory, x, sending.id, sending.len)
  BY <1>1, <1>2, CallCases
<1>4. x \in Ref
  BY <1>3 DEF Holds
<1>5. Copied(x) = x
  BY <1>4, CopiedSame
<1> HIDE DEF x
<1>6. queues' = [queues EXCEPT ![s] = Append(@, x)]
  BY <1>1, <1>5 DEF push
<1>7. Holds(memory', x, sending.id, sending.len)
  BY <1>1, <1>3
<1>8. memory' \in Memories /\ SameSeen(memory, memory', sending, queues)
  BY <1>1, <1>2 DEF SameSeen
<1> QED
  BY <1>1, <1>6, <1>7, <1>8, PushStep

LEMMA PushOwnStep ==
  ASSUME IInv, NEW s \in Sessions, PushOwn(s)
  PROVE  IInv'
<1> DEFINE id == sending.id
           len == sending.len
<1>1. /\ sending.running /\ ~sending.multi
      /\ sending' = [sending EXCEPT !.targets = @ \ {s}]
      /\ Asked(s)
      /\ UNCHANGED << wire, messages, closes >>
  BY DEF PushOwn
<1>2. PICK b \in Buffers \ Referenced(sending, queues) :
        /\ memory' = [memory EXCEPT ![b] = Fill(BytesOf(id, len))]
        /\ queues' = [queues EXCEPT ![s] = push(@, Encoded(b, len))]
  BY DEF PushOwn
<1>3. CallOK(memory, sending) /\ memory \in Memories /\ queues \in [Sessions -> Seq(Ref)]
  BY DEF IInv
<1>4. id \in Nat /\ len \in Lengths
  <2>1. sending \in CallEach
    BY <1>1, <1>3, CallCases
  <2> QED
    BY <2>1 DEF CallEach
<1>5. EncodedInto(memory, memory', b, id, len)
  BY <1>2 DEF EncodedInto
<1> DEFINE x == Encoded(b, len)
<1>6. /\ memory' \in Memories
      /\ SameSeen(memory, memory', sending, queues)
      /\ Holds(memory', x, id, len)
  <2> HIDE DEF id, len
  <2> QED
    BY <1>3, <1>4, <1>5, FreshBuffer
<1>7. queues' = [queues EXCEPT ![s] = Append(@, x)]
  BY <1>2 DEF push
<1> HIDE DEF x
<1>8. Holds(memory', x, sending.id, sending.len)
  BY <1>6
<1> HIDE DEF id, len
<1> QED
  BY <1>1, <1>6, <1>7, <1>8, PushStep

LEMMA ReturnStep ==
  ASSUME IInv, Return
  PROVE  IInv'
<1>1. sending' = Idle /\ UNCHANGED << memory, queues, wire, pushed, messages, closes >>
  BY DEF Return
<1>2. CallOK(memory', sending')
  BY <1>1 DEF CallOK
<1> QED
  BY <1>1, <1>2 DEF IInv

LEMMA TransmitStep ==
  ASSUME IInv, NEW s \in Sessions, NEW n \in 1 .. (MaxMessages * Capacity), Transmit(s, n)
  PROVE  IInv'
<1> DEFINE q == consume(queues[s], n)
           w == wire[s] \o FirstBytes(ViewIn(memory, queues[s]), n)
<1>1. /\ n <= Backlog(queues[s])
      /\ wire' = [wire EXCEPT ![s] = wire[s] \o FirstBytes(View(queues[s]), n)]
      /\ queues' = [queues EXCEPT ![s] = q]
      /\ UNCHANGED << memory, sending, pushed, messages, closes >>
  BY DEF Transmit
<1>2. /\ queues \in [Sessions -> Seq(Ref)] /\ wire \in [Sessions -> Seq(Octet)]
      /\ pushed \in [Sessions -> Seq(Octet)]
      /\ \A t \in Sessions : SessionOK(memory, queues[t], wire[t], pushed[t])
      /\ memory \in Memories
      /\ messages \in 0 .. MaxMessages /\ closes \in 0 .. MaxCloses
      /\ CallOK(memory, sending)
  BY DEF IInv
<1>3. wire' = [wire EXCEPT ![s] = w]
  BY <1>1, ViewIs
<1>4. n \in 1 .. Backlog(queues[s])
  <2>1. n \in Nat /\ 1 <= n
    BY MulticastAssumption
  <2>2. Backlog(queues[s]) \in Nat
    <3>1. SoundRefs(memory, queues[s])
      BY <1>2 DEF SessionOK
    <3>2. /\ SoundQueue(Octet, ViewIn(memory, queues[s]))
          /\ Backlog(ViewIn(memory, queues[s])) = Backlog(queues[s])
      BY <3>1, ViewSound
    <3> QED
      BY <3>2, SumsOfQueue
  <2> QED
    BY <1>1, <2>1, <2>2
<1>5. SessionOK(memory, q, w, pushed[s]) /\ w \in Seq(Octet)
  BY <1>2, <1>4, SessionTransmit
<1>6. q \in Seq(Ref)
  BY <1>5 DEF SessionOK, SoundRefs
<1> HIDE DEF q, w
<1>7. /\ queues' \in [Sessions -> Seq(Ref)] /\ wire' \in [Sessions -> Seq(Octet)]
      /\ pushed' \in [Sessions -> Seq(Octet)]
  BY <1>1, <1>2, <1>3, <1>5, <1>6
<1>8. \A t \in Sessions : SessionOK(memory, queues'[t], wire'[t], pushed'[t])
  <2> TAKE t \in Sessions
  <2>1. CASE t = s
    <3>1. queues'[t] = q /\ wire'[t] = w /\ pushed'[t] = pushed[s]
      BY <1>1, <1>2, <1>3, <2>1
    <3> QED
      BY <1>5, <3>1
  <2>2. CASE t # s
    <3>1. queues'[t] = queues[t] /\ wire'[t] = wire[t] /\ pushed'[t] = pushed[t]
      BY <1>1, <1>2, <1>3, <2>2
    <3> QED
      BY <1>2, <3>1
  <2> QED
    BY <2>1, <2>2
<1>9. /\ CallOK(memory, sending') /\ UNCHANGED memory
      /\ messages' \in 0 .. MaxMessages /\ closes' \in 0 .. MaxCloses
  BY <1>1, <1>2
<1> QED
  BY <1>2, <1>7, <1>8, <1>9 DEF IInv

LEMMA CloseStep ==
  ASSUME IInv, NEW s \in Sessions, Close(s)
  PROVE  IInv'
<1>1. /\ closes < MaxCloses /\ closes' = closes + 1
      /\ queues' = [queues EXCEPT ![s] = << >>]
      /\ wire' = [wire EXCEPT ![s] = << >>]
      /\ pushed' = [pushed EXCEPT ![s] = << >>]
      /\ UNCHANGED << memory, sending, messages >>
  BY DEF Close
<1>2. /\ queues \in [Sessions -> Seq(Ref)] /\ wire \in [Sessions -> Seq(Octet)]
      /\ pushed \in [Sessions -> Seq(Octet)]
      /\ \A t \in Sessions : SessionOK(memory, queues[t], wire[t], pushed[t])
      /\ memory \in Memories
      /\ messages \in 0 .. MaxMessages /\ closes \in 0 .. MaxCloses
      /\ CallOK(memory, sending)
  BY DEF IInv
<1>3. closes' \in 0 .. MaxCloses /\ messages' \in 0 .. MaxMessages
  BY <1>1, <1>2, MulticastAssumption
<1>4. /\ queues' \in [Sessions -> Seq(Ref)] /\ wire' \in [Sessions -> Seq(Octet)]
      /\ pushed' \in [Sessions -> Seq(Octet)]
  <2>1. << >> \in Seq(Ref) /\ << >> \in Seq(Octet)
    OBVIOUS
  <2> QED
    BY <1>1, <1>2, <2>1
<1>5. \A t \in Sessions : SessionOK(memory, queues'[t], wire'[t], pushed'[t])
  <2> TAKE t \in Sessions
  <2>1. CASE t = s
    <3>1. queues'[t] = << >> /\ wire'[t] = << >> /\ pushed'[t] = << >>
      BY <1>1, <1>2, <2>1
    <3> QED
      BY <3>1, SessionEmpty
  <2>2. CASE t # s
    <3>1. queues'[t] = queues[t] /\ wire'[t] = wire[t] /\ pushed'[t] = pushed[t]
      BY <1>1, <1>2, <2>2
    <3> QED
      BY <1>2, <3>1
  <2> QED
    BY <2>1, <2>2
<1>6. CallOK(memory, sending') /\ UNCHANGED memory
  BY <1>1, <1>2
<1> QED
  BY <1>2, <1>3, <1>4, <1>5, <1>6 DEF IInv

LEMMA Start ==
  ASSUME Init
  PROVE  IInv
<1>1. /\ memory = [b \in Buffers |-> Fill(<< >>)] /\ sending = Idle
      /\ queues = [s \in Sessions |-> << >>] /\ wire = [s \in Sessions |-> << >>]
      /\ pushed = [s \in Sessions |-> << >>] /\ messages = 0 /\ closes = 0
  BY DEF Init
<1>2. << >> \in Seq(Octet) /\ << >> \in Seq(Ref)
  OBVIOUS
<1>3. Fill(<< >>) \in Seq(CellsOf(Octet))
  BY <1>2, FillType
<1>4. memory \in Memories
  BY <1>1, <1>3 DEF Memories
<1>5. \A s \in Sessions : SessionOK(memory, queues[s], wire[s], pushed[s])
  BY <1>1, SessionEmpty
<1>6. messages \in 0 .. MaxMessages /\ closes \in 0 .. MaxCloses
  BY <1>1, MulticastAssumption
<1>7. CallOK(memory, sending)
  BY <1>1 DEF CallOK
<1>8. queues \in [Sessions -> Seq(Ref)] /\ wire \in [Sessions -> Seq(Octet)] /\ pushed \in [Sessions -> Seq(Octet)]
  BY <1>1, <1>2
<1> QED
  BY <1>1, <1>4, <1>5, <1>6, <1>7, <1>8 DEF IInv

-----------------------------------------------------------------------------
(***************************************************************************)
(* The theorems.                                                           *)
(***************************************************************************)
LEMMA NextIInv == IInv /\ [Next]_vars => IInv'
<1> SUFFICES ASSUME IInv, [Next]_vars
             PROVE  IInv'
  OBVIOUS
<1>1. CASE UNCHANGED vars
  BY <1>1 DEF IInv, vars
<1>2. CASE Next
  <2>1. ASSUME NEW targets \in SUBSET Sessions, NEW len \in Lengths,
               BeginShared(targets, len) \/ BeginEach(targets, len)
        PROVE  IInv'
    BY <2>1, BeginSharedStep, BeginEachStep
  <2>2. ASSUME NEW s \in Sessions, PushShared(s) \/ PushOwn(s) \/ Close(s)
        PROVE  IInv'
    BY <2>2, PushSharedStep, PushOwnStep, CloseStep
  <2>3. ASSUME NEW s \in Sessions, NEW n \in 1 .. (MaxMessages * Capacity), Transmit(s, n)
        PROVE  IInv'
    BY <2>3, TransmitStep
  <2> QED
    BY <1>2, <2>1, <2>2, <2>3, ReturnStep DEF Next
<1> QED
  BY <1>1, <1>2

\* What the sharing of memory rests on holds in every reachable state, for any
\* number of sessions, buffers and messages (TCPSession.h:59-87).
THEOREM Inductive == Spec => []IInv
BY Start, NextIInv, PTL DEF Spec

LEMMA IInvTypeOK == IInv => TypeOK
<1> SUFFICES ASSUME IInv
             PROVE  TypeOK
  OBVIOUS
<1>1. ASSUME NEW s \in Sessions, NEW i \in DOMAIN queues[s]
      PROVE  CursorsOK(View(queues[s])[i])
  <2>1. SoundRefs(memory, queues[s])
    BY DEF IInv, SessionOK
  <2>2. i \in 1 .. Len(queues[s])
    BY <2>1 DEF SoundRefs
  <2>3. /\ ViewIn(memory, queues[s])[i] = Deref(memory, queues[s][i])
        /\ SoundStream(Octet, Deref(memory, queues[s][i]))
    BY <2>1, <2>2, ViewSound DEF SoundRefs
  <2> QED
    BY <2>3, ViewIs DEF SoundStream
<1> QED
  BY <1>1 DEF IInv, TypeOK

\* The cursors of every stream stay within the memory the stream refers to, also
\* of those that share it (Stream.h:106, 112).
THEOREM TypeCorrect == Spec => []TypeOK
BY Inductive, IInvTypeOK, PTL

LEMMA IInvIndependent == IInv => SessionsIndependent
<1> SUFFICES ASSUME IInv, NEW s \in Sessions
             PROVE  wire[s] \o FirstBytes(View(queues[s]), Backlog(queues[s])) = pushed[s]
  BY DEF SessionsIndependent
<1> DEFINE v == ViewIn(memory, queues[s])
<1>1. SoundRefs(memory, queues[s]) /\ wire[s] \o Bytes(v) = pushed[s]
  BY DEF IInv, SessionOK
<1>2. Backlog(v) = Backlog(queues[s]) /\ View(queues[s]) = v
  BY <1>1, ViewSound, ViewIs
<1> HIDE DEF v
<1>3. Bytes(v) = FirstBytes(v, Backlog(v))
  BY DEF Bytes
<1> QED
  BY <1>1, <1>2, <1>3

\* Each session writes exactly what it was asked to send, whole and in order,
\* although others read the same memory at another pace, are pushed the message
\* later, or close (TCPSession.h:63-67).
THEOREM SessionsKeptApart == Spec => []SessionsIndependent
BY Inductive, IInvIndependent, PTL
=============================================================================
