-------------------------- MODULE FlatBufferProofs --------------------------
(***************************************************************************)
(* FlatBufferSpec, for every schema, every content and every size of the   *)
(* first allocation.                                                       *)
(*                                                                         *)
(* Offsets count from the end of the allocation, so what is said about a   *)
(* vector is said about FromEnd(v, k), its byte at a distance k from the   *)
(* end: growth moves every byte and leaves its distance alone. From the    *)
(* operators up, w follows v in one of these ways:                         *)
(*                                                                         *)
(*    Kept(v, w)          the buffer of v is the end of that of w          *)
(*    SamePad(v, w)       the scratch pads are the same                    *)
(*    Prefixed(v, w, s)   Kept and SamePad, with the bytes of s in front   *)
(*    Above(v, w)         Kept and SamePad, with bytes in front            *)
(*    Extended(v, w)      Kept, with bytes in front                        *)
(*                                                                         *)
(* and c follows the builder b in one of these: Wrote(b, c), the buffer is *)
(* Above, and Grew(b, c, n), it is Extended and the scratch pad holds n    *)
(* FieldLocs above vtable offsets that have been written (PadOK).          *)
(*                                                                         *)
(* What a reader finds is said in the same terms: Holds(v, off, bytes),    *)
(* the bytes lie at a distance from the end. An object lies in the buffer  *)
(* as its type says (VectorHolds, TableHolds), in slots that hold a        *)
(* scalar or the way to an object (SlotHolds), and a table by way of a     *)
(* vtable (VTableAt). While a table is built, its fields are where the     *)
(* FieldLocs of the scratch pad say (PadHolds); EndTable turns these into  *)
(* a vtable. Lies says this of the whole state, for K the offsets of the   *)
(* vtables that tables refer to, known those in the scratch pad, and locs  *)
(* the FieldLocs. AlignInv says what minalign knows of all that.           *)
(***************************************************************************)
EXTENDS FlatBufferSpec, WellFoundedInduction, TLAPS

Byte == 0 .. BYTE - 1

Cell == Byte \cup {Uninit}

IsVector(v) ==
  /\ v \in [buf : Seq(Cell), cur : Nat, scratch : Nat]
  /\ v.scratch <= v.cur /\ v.cur <= Len(v.buf)

\* The byte of a vector at a distance from the end of its allocation.
FromEnd(v, k) == v.buf[Len(v.buf) - k + 1]

\* What is in the buffer of v is in that of w, where it was.
Kept(v, w) ==
  /\ size(v) <= size(w)
  /\ \A k \in 1 .. size(v) : FromEnd(w, k) = FromEnd(v, k)

\* v and w have the same scratch pad.
SamePad(v, w) ==
  /\ w.scratch = v.scratch
  /\ \A i \in 1 .. v.scratch : w.buf[i] = v.buf[i]

-----------------------------------------------------------------------------
(***************************************************************************)
(* vector_downward.                                                        *)
(***************************************************************************)
LEMMA FunctionIsSeq ==
  ASSUME NEW S, NEW n \in Nat, NEW f \in [1 .. n -> S]
  PROVE  f \in Seq(S) /\ Len(f) = n
OBVIOUS

LEMMA VectorTypes ==
  ASSUME NEW v, IsVector(v)
  PROVE  /\ v.buf \in Seq(Cell) /\ Len(v.buf) \in Nat /\ v.cur \in Nat /\ v.scratch \in Nat
         /\ v.buf \in [1 .. Len(v.buf) -> Cell]
         /\ v = [buf |-> v.buf, cur |-> v.cur, scratch |-> v.scratch]
         /\ size(v) \in Nat /\ size(v) = Len(v.buf) - v.cur
         /\ unused_buffer_size(v) \in Nat /\ unused_buffer_size(v) = v.cur - v.scratch
BY DEF IsVector, size, unused_buffer_size

LEMMA RoundedUp ==
  ASSUME NEW n \in Nat, NEW align \in Nat \ {0}
  PROVE  RoundUp(n, align) \in Nat /\ n <= RoundUp(n, align)
<1> DEFINE m == n + align - 1
           q == m \div align
<1>1. m \in Nat /\ m + 1 = n + align
  OBVIOUS
<1> HIDE DEF m
<1>2. q \in Int /\ m < align * q + align /\ q >= 0
  BY <1>1
<1> HIDE DEF q
<1>3. q * align = align * q /\ q * align \in Int /\ q * align >= 0
  BY <1>2
<1>4. RoundUp(n, align) = q * align
  BY DEF RoundUp, q, m
<1> DEFINE r == align * q
<1>5. r \in Int /\ r >= 0 /\ m < r + align /\ RoundUp(n, align) = r
  BY <1>2, <1>3, <1>4
<1> HIDE DEF r
<1> QED
  BY <1>1, <1>5

LEMMA Reallocated ==
  ASSUME NEW v, IsVector(v), NEW len \in Nat
  PROVE  /\ IsVector(reallocate(v, len))
         /\ size(reallocate(v, len)) = size(v)
         /\ Kept(v, reallocate(v, len)) /\ SamePad(v, reallocate(v, len))
         /\ len <= unused_buffer_size(reallocate(v, len))
<1> DEFINE old_reserved == Len(v.buf)
           growth == Biggest(len, IF old_reserved # 0 THEN old_reserved \div 2 ELSE initial_size)
           reserved == RoundUp(old_reserved + growth, buffer_minalign)
           w == reallocate(v, len)
<1>1. /\ old_reserved \in Nat /\ v.cur \in Nat /\ v.scratch \in Nat /\ size(v) \in Nat
      /\ size(v) = old_reserved - v.cur
      /\ v.scratch <= v.cur /\ v.cur <= old_reserved
  BY VectorTypes DEF IsVector
<1>2. growth \in Nat /\ len <= growth
  <2> HIDE DEF old_reserved
  <2>1. old_reserved \div 2 \in Nat /\ initial_size \in Nat
    BY <1>1, VectorAssumption
  <2> DEFINE half == IF old_reserved # 0 THEN old_reserved \div 2 ELSE initial_size
  <2>2. half \in Nat
    BY <2>1
  <2>3. growth = Biggest(len, half)
    OBVIOUS
  <2> HIDE DEF half, growth
  <2> QED
    BY <2>2, <2>3 DEF Biggest
<1> HIDE DEF growth
<1>3. reserved \in Nat /\ old_reserved + len <= reserved
  <2>1. old_reserved + growth \in Nat
    BY <1>1, <1>2
  <2> HIDE DEF old_reserved
  <2>2. reserved \in Nat /\ old_reserved + growth <= reserved
    BY <2>1, RoundedUp, VectorAssumption
  <2> HIDE DEF reserved
  <2> QED
    BY <1>1, <1>2, <2>2
<1>4. w = [buf |-> memcpy_downward(v.buf, reserved, size(v), v.scratch),
           cur |-> reserved - size(v), scratch |-> v.scratch]
  BY DEF reallocate, growth
<1> HIDE DEF reserved, w
<1>5. /\ w.buf = [i \in 1 .. reserved |->
                   CASE i > reserved - size(v) -> v.buf[i - reserved + old_reserved]
                     [] i <= v.scratch -> v.buf[i]
                     [] OTHER -> Uninit]
      /\ w.cur = reserved - size(v) /\ w.scratch = v.scratch
  BY <1>4 DEF memcpy_downward
<1> HIDE DEF old_reserved
<1>6. w.buf \in [1 .. reserved -> Cell]
  <2>1. \A i \in 1 .. reserved : i > reserved - size(v) => i - reserved + old_reserved \in 1 .. old_reserved
    BY <1>1, <1>3
  <2>2. v.buf \in [1 .. old_reserved -> Cell]
    BY VectorTypes DEF old_reserved
  <2>3. \A i \in 1 .. reserved : i <= v.scratch => i \in 1 .. old_reserved
    BY <1>1, <1>3
  <2>4. Uninit \in Cell
    BY DEF Cell
  <2> QED
    BY <1>1, <1>3, <1>5, <2>1, <2>2, <2>3, <2>4
<1>7. w.buf \in Seq(Cell) /\ Len(w.buf) = reserved
  BY <1>3, <1>6, FunctionIsSeq
<1>8. /\ w.cur \in Nat /\ w.scratch <= w.cur /\ w.cur <= reserved
      /\ reserved - w.cur = size(v) /\ len <= w.cur - w.scratch
  BY <1>1, <1>3, <1>5
<1>9. IsVector(w)
  <2>1. w = [buf |-> w.buf, cur |-> w.cur, scratch |-> w.scratch]
    BY <1>4
  <2> QED
    BY <1>1, <1>5, <1>7, <1>8, <2>1 DEF IsVector
<1>10. size(w) = size(v) /\ len <= unused_buffer_size(w)
  BY <1>7, <1>8 DEF size, unused_buffer_size
<1>11. ASSUME NEW k \in 1 .. size(v)
       PROVE  FromEnd(w, k) = FromEnd(v, k)
  <2>1. reserved - k + 1 \in 1 .. reserved /\ reserved - k + 1 > reserved - size(v)
    BY <1>1, <1>3
  <2>2. (reserved - k + 1) - reserved + old_reserved = old_reserved - k + 1
    BY <1>1, <1>3
  <2>3. \A i \in 1 .. reserved : i > reserved - size(v) => w.buf[i] = v.buf[i - reserved + old_reserved]
    BY <1>1, <1>3, <1>5
  <2>4. FromEnd(w, k) = w.buf[reserved - k + 1]
    BY <1>7 DEF FromEnd
  <2>5. FromEnd(v, k) = v.buf[old_reserved - k + 1]
    BY DEF FromEnd, old_reserved
  <2> QED
    BY <2>1, <2>2, <2>3, <2>4, <2>5
<1>12. ASSUME NEW i \in 1 .. v.scratch
       PROVE  w.buf[i] = v.buf[i]
  BY <1>1, <1>3, <1>5
<1> QED
  BY <1>1, <1>5, <1>9, <1>10, <1>11, <1>12 DEF Kept, SamePad, w

LEMMA SpaceEnsured ==
  ASSUME NEW v, IsVector(v), NEW len \in Nat
  PROVE  /\ IsVector(ensure_space(v, len))
         /\ size(ensure_space(v, len)) = size(v)
         /\ Kept(v, ensure_space(v, len)) /\ SamePad(v, ensure_space(v, len))
         /\ len <= unused_buffer_size(ensure_space(v, len))
<1>1. CASE len > unused_buffer_size(v)
  BY <1>1, Reallocated DEF ensure_space
<1>2. CASE ~(len > unused_buffer_size(v))
  <2>1. unused_buffer_size(v) \in Nat /\ size(v) \in Nat
    BY VectorTypes
  <2> QED
    BY <1>2, <2>1 DEF ensure_space, Kept, SamePad
<1> QED
  BY <1>1, <1>2

LEMMA PutGives ==
  ASSUME NEW v, IsVector(v), NEW at \in Nat, NEW bytes \in Seq(Cell), at + Len(bytes) <= Len(v.buf)
  PROVE  /\ IsVector(Put(v, at, bytes))
         /\ Len(Put(v, at, bytes).buf) = Len(v.buf)
         /\ Put(v, at, bytes).cur = v.cur /\ Put(v, at, bytes).scratch = v.scratch
         /\ \A i \in 1 .. Len(v.buf) : i \in at + 1 .. at + Len(bytes) =>
              Put(v, at, bytes).buf[i] = bytes[i - at]
         /\ \A i \in 1 .. Len(v.buf) : i \notin at + 1 .. at + Len(bytes) =>
              Put(v, at, bytes).buf[i] = v.buf[i]
<1> DEFINE w == Put(v, at, bytes)
           n == Len(v.buf)
           f == [i \in 1 .. n |-> IF i \in at + 1 .. at + Len(bytes) THEN bytes[i - at] ELSE v.buf[i]]
<1>1. n \in Nat /\ Len(bytes) \in Nat /\ v.buf \in [1 .. n -> Cell]
  BY VectorTypes
<1>2. w = [buf |-> f, cur |-> v.cur, scratch |-> v.scratch]
  <2>1. v = [buf |-> v.buf, cur |-> v.cur, scratch |-> v.scratch] /\ DOMAIN v.buf = 1 .. n
    BY VectorTypes
  <2>2. [v EXCEPT !.buf = f] = [buf |-> f, cur |-> v.cur, scratch |-> v.scratch]
    <3> HIDE DEF f
    <3> QED
      BY <2>1
  <2>3. w = [v EXCEPT !.buf = f]
    <3> HIDE DEF n
    <3> QED
      BY <2>1 DEF Put
  <2> QED
    BY <2>2, <2>3
<1>3. f \in [1 .. n -> Cell]
  <2>1. \A i \in at + 1 .. at + Len(bytes) : bytes[i - at] \in Cell
    <3> SUFFICES ASSUME NEW i \in at + 1 .. at + Len(bytes)
                 PROVE  bytes[i - at] \in Cell
      OBVIOUS
    <3>1. i - at \in 1 .. Len(bytes)
      BY <1>1
    <3> QED
      BY <3>1
  <2> QED
    BY <1>1, <2>1
<1> HIDE DEF f, w
<1>4. f \in Seq(Cell) /\ Len(f) = n
  <2> HIDE DEF n
  <2> QED
    BY <1>1, <1>3, FunctionIsSeq
<1>5. w.buf = f /\ w.cur = v.cur /\ w.scratch = v.scratch
  BY <1>2
<1>6. IsVector(w)
  BY <1>2, <1>4, <1>5 DEF IsVector
<1>7. \A i \in 1 .. n : i \in at + 1 .. at + Len(bytes) => f[i] = bytes[i - at]
  BY DEF f
<1>8. \A i \in 1 .. n : i \notin at + 1 .. at + Len(bytes) => f[i] = v.buf[i]
  BY DEF f
<1> QED
  BY <1>4, <1>5, <1>6, <1>7, <1>8 DEF w

\* bytes have been written in front of the buffer of v.
Prefixed(v, w, bytes) ==
  /\ IsVector(w)
  /\ size(w) = size(v) + Len(bytes)
  /\ Kept(v, w) /\ SamePad(v, w)
  /\ \A i \in 1 .. Len(bytes) : FromEnd(w, size(w) + 1 - i) = bytes[i]

LEMMA PushGives ==
  ASSUME NEW v, IsVector(v), NEW bytes \in Seq(Cell)
  PROVE  Prefixed(v, push(v, bytes), bytes)
<1> DEFINE n == Len(bytes)
           u == ensure_space(v, n)
           m == make_space(v, n)
           w == push(v, bytes)
<1>1. n \in Nat
  OBVIOUS
<1>2. /\ IsVector(m) /\ size(m) = size(v) + n /\ Kept(v, m) /\ SamePad(v, m)
      /\ m.cur + n <= Len(m.buf)
  <2>1. CASE n = 0
    <3>1. m = v
      BY <2>1 DEF make_space
    <3> QED
      BY <2>1, <3>1, VectorTypes DEF Kept, SamePad, IsVector
  <2>2. CASE n # 0
    <3>1. /\ IsVector(u) /\ size(u) = size(v) /\ Kept(v, u) /\ SamePad(v, u)
          /\ n <= unused_buffer_size(u)
      <4> HIDE DEF n
      <4> QED
        BY <1>1, SpaceEnsured DEF u
    <3>2. m = [u EXCEPT !.cur = @ - n]
      BY <2>2 DEF make_space
    <3> HIDE DEF n, u, m
    <3>3. /\ u = [buf |-> u.buf, cur |-> u.cur, scratch |-> u.scratch]
          /\ u.buf \in Seq(Cell) /\ Len(u.buf) \in Nat /\ u.cur \in Nat /\ u.scratch \in Nat
          /\ size(u) = Len(u.buf) - u.cur /\ unused_buffer_size(u) = u.cur - u.scratch
          /\ u.cur <= Len(u.buf)
          /\ size(v) \in Nat
      BY <3>1, VectorTypes DEF IsVector
    <3>4. m = [buf |-> u.buf, cur |-> u.cur - n, scratch |-> u.scratch]
      BY <3>2, <3>3
    <3>5. m.buf = u.buf /\ m.cur = u.cur - n /\ m.scratch = u.scratch
      BY <3>4
    <3>6. m.cur \in Nat /\ m.scratch <= m.cur /\ m.cur <= Len(m.buf)
      BY <1>1, <3>1, <3>3, <3>5
    <3>7. IsVector(m)
      BY <3>3, <3>4, <3>5, <3>6 DEF IsVector
    <3>8. size(m) = size(v) + n
      BY <1>1, <3>1, <3>3, <3>5 DEF size
    <3>9. Kept(v, m)
      <4>1. \A k \in 1 .. size(v) : FromEnd(m, k) = FromEnd(u, k)
        BY <3>5 DEF FromEnd
      <4>2. \A k \in 1 .. size(v) : FromEnd(u, k) = FromEnd(v, k)
        BY <3>1 DEF Kept
      <4>3. size(v) <= size(m)
        BY <1>1, <3>3, <3>8
      <4> QED
        BY <4>1, <4>2, <4>3 DEF Kept
    <3>10. SamePad(v, m)
      BY <3>1, <3>5 DEF SamePad
    <3>11. m.cur + n <= Len(m.buf)
      BY <1>1, <3>3, <3>5
    <3> QED
      BY <3>7, <3>8, <3>9, <3>10, <3>11 DEF m, n
  <2> QED
    BY <2>1, <2>2
<1>3. w = Put(m, m.cur, bytes)
  BY DEF push
<1> HIDE DEF m, w
<1>4. /\ m.cur \in Nat /\ Len(m.buf) \in Nat /\ m.scratch \in Nat /\ m.scratch <= m.cur
      /\ size(m) = Len(m.buf) - m.cur /\ size(v) \in Nat
  BY <1>2, VectorTypes DEF IsVector
<1>5. /\ IsVector(w) /\ Len(w.buf) = Len(m.buf) /\ w.cur = m.cur /\ w.scratch = m.scratch
      /\ \A i \in 1 .. Len(m.buf) : i \in m.cur + 1 .. m.cur + n => w.buf[i] = bytes[i - m.cur]
      /\ \A i \in 1 .. Len(m.buf) : i \notin m.cur + 1 .. m.cur + n => w.buf[i] = m.buf[i]
  <2>1. /\ IsVector(m) /\ bytes \in Seq(Cell) /\ m.cur \in Nat /\ m.cur + Len(bytes) <= Len(m.buf)
        /\ w = Put(m, m.cur, bytes)
    BY <1>2, <1>3, <1>4
  <2> QED
    BY <2>1, PutGives
<1> HIDE DEF n
<1>6. size(w) = size(v) + n
  BY <1>2, <1>4, <1>5 DEF size
<1>7. ASSUME NEW k \in 1 .. size(v)
      PROVE  FromEnd(w, k) = FromEnd(v, k)
  <2>1. Len(m.buf) - k + 1 \in 1 .. Len(m.buf) /\ Len(m.buf) - k + 1 \notin m.cur + 1 .. m.cur + n
    BY <1>1, <1>2, <1>4
  <2>2. FromEnd(w, k) = FromEnd(m, k)
    BY <1>5, <2>1 DEF FromEnd
  <2> QED
    BY <1>2, <2>2 DEF Kept
<1>8. ASSUME NEW i \in 1 .. v.scratch
      PROVE  w.buf[i] = v.buf[i]
  <2>1. i \in 1 .. m.scratch /\ i \in 1 .. Len(m.buf) /\ i \notin m.cur + 1 .. m.cur + n
    BY <1>1, <1>2, <1>4 DEF SamePad
  <2>2. w.buf[i] = m.buf[i]
    BY <1>5, <2>1
  <2> QED
    BY <1>2, <2>2 DEF SamePad
<1>9. ASSUME NEW i \in 1 .. n
      PROVE  FromEnd(w, size(w) + 1 - i) = bytes[i]
  <2>1. size(w) = Len(m.buf) - m.cur
    BY <1>4, <1>5 DEF size
  <2>2. Len(w.buf) - (size(w) + 1 - i) + 1 = m.cur + i
    BY <1>4, <1>5, <2>1
  <2>3. m.cur + i \in 1 .. Len(m.buf) /\ m.cur + i \in m.cur + 1 .. m.cur + n /\ (m.cur + i) - m.cur = i
    <3>1. n \in Nat /\ m.cur + n <= Len(m.buf)
      BY <1>1, <1>2
    <3>2. m.cur \in Nat /\ Len(m.buf) \in Nat /\ i \in 1 .. n
      BY <1>4
    <3> QED
      BY <3>1, <3>2
  <2>4. w.buf[m.cur + i] = bytes[i]
    BY <1>5, <2>3
  <2> QED
    BY <2>2, <2>4 DEF FromEnd
<1>10. Kept(v, w)
  BY <1>1, <1>4, <1>6, <1>7 DEF Kept
<1>11. SamePad(v, w)
  BY <1>2, <1>5, <1>8 DEF SamePad
<1> QED
  BY <1>5, <1>6, <1>9, <1>10, <1>11 DEF Prefixed, n, w

\* w has the bytes of v, and bytes that have been written in front of them.
Above(v, w) ==
  /\ IsVector(w)
  /\ Kept(v, w) /\ SamePad(v, w)
  /\ \A k \in size(v) + 1 .. size(w) : FromEnd(w, k) \in Byte

LEMMA PrefixedIsAbove ==
  ASSUME NEW v, IsVector(v), NEW bytes \in Seq(Byte), NEW w, Prefixed(v, w, bytes)
  PROVE  Above(v, w)
<1>1. size(v) \in Nat /\ size(w) = size(v) + Len(bytes) /\ Len(bytes) \in Nat
  BY VectorTypes DEF Prefixed
<1>2. ASSUME NEW k \in size(v) + 1 .. size(w)
      PROVE  FromEnd(w, k) \in Byte
  <2> DEFINE i == size(w) + 1 - k
  <2>1. i \in 1 .. Len(bytes) /\ size(w) + 1 - i = k
    BY <1>1
  <2>2. FromEnd(w, size(w) + 1 - i) = bytes[i]
    BY <2>1 DEF Prefixed
  <2>3. bytes[i] \in Byte
    BY <2>1
  <2> QED
    BY <2>1, <2>2, <2>3
<1> QED
  BY <1>2 DEF Above, Prefixed

LEMMA AboveItself ==
  ASSUME NEW v, IsVector(v)
  PROVE  Above(v, v)
BY VectorTypes DEF Above, Kept, SamePad

LEMMA AboveTransitive ==
  ASSUME NEW u, IsVector(u), NEW v, Above(u, v), NEW w, Above(v, w)
  PROVE  Above(u, w)
<1>1. size(u) \in Nat /\ size(v) \in Nat /\ size(w) \in Nat /\ size(u) <= size(v) /\ size(v) <= size(w)
  BY VectorTypes DEF Above, Kept
<1>2. ASSUME NEW k \in 1 .. size(u)
      PROVE  FromEnd(w, k) = FromEnd(u, k)
  <2>1. k \in 1 .. size(v)
    BY <1>1
  <2> QED
    BY <2>1 DEF Above, Kept
<1>3. ASSUME NEW k \in size(u) + 1 .. size(w)
      PROVE  FromEnd(w, k) \in Byte
  <2>1. CASE k <= size(v)
    <3>1. k \in 1 .. size(v) /\ k \in size(u) + 1 .. size(v)
      BY <1>1, <2>1
    <3>2. FromEnd(w, k) = FromEnd(v, k)
      BY <3>1 DEF Above, Kept
    <3> QED
      BY <3>1, <3>2 DEF Above
  <2>2. CASE k > size(v)
    <3>1. k \in size(v) + 1 .. size(w)
      BY <1>1, <2>2
    <3> QED
      BY <3>1 DEF Above
  <2> QED
    BY <1>1, <2>1, <2>2
<1>4. SamePad(u, w)
  BY DEF Above, SamePad
<1> QED
  BY <1>1, <1>2, <1>3, <1>4 DEF Above, Kept

LEMMA BytesAreCells == \A bytes \in Seq(Byte) : bytes \in Seq(Cell)
BY DEF Cell

LEMMA PushIsAbove ==
  ASSUME NEW v, IsVector(v), NEW bytes \in Seq(Byte)
  PROVE  /\ Prefixed(v, push(v, bytes), bytes)
         /\ Above(v, push(v, bytes))
<1>1. Prefixed(v, push(v, bytes), bytes)
  BY BytesAreCells, PushGives
<1> QED
  BY <1>1, PrefixedIsAbove

LEMMA FillIsAbove ==
  ASSUME NEW v, IsVector(v), NEW n \in Nat
  PROVE  Above(v, fill(v, n)) /\ size(fill(v, n)) = size(v) + n
<1> DEFINE zeros == [i \in 1 .. n |-> 0]
<1>1. zeros \in [1 .. n -> Byte]
  BY DEF Byte, BYTE
<1> HIDE DEF zeros
<1>2. zeros \in Seq(Byte) /\ Len(zeros) = n
  BY <1>1, FunctionIsSeq
<1>3. fill(v, n) = push(v, zeros)
  BY DEF fill, zeros
<1> QED
  BY <1>2, <1>3, PushIsAbove DEF Prefixed

\* Taking back what has been written in front of v.
LEMMA PopGives ==
  ASSUME NEW v, IsVector(v), NEW w, Above(v, w)
  PROVE  /\ Above(v, pop(w, size(w) - size(v)))
         /\ size(pop(w, size(w) - size(v))) = size(v)
<1> DEFINE n == size(w) - size(v)
           x == pop(w, n)
<1>1. /\ size(v) \in Nat /\ size(w) \in Nat /\ size(v) <= size(w)
      /\ size(w) = Len(w.buf) - w.cur /\ w.cur \in Nat /\ w.scratch \in Nat /\ Len(w.buf) \in Nat
      /\ w.scratch <= w.cur /\ w.cur <= Len(w.buf)
      /\ w = [buf |-> w.buf, cur |-> w.cur, scratch |-> w.scratch] /\ w.buf \in Seq(Cell)
  BY VectorTypes DEF Above, Kept, IsVector
<1>2. x = [buf |-> w.buf, cur |-> w.cur + n, scratch |-> w.scratch]
  <2>1. \A r, c, s, m : pop([buf |-> r, cur |-> c, scratch |-> s], m) = [buf |-> r, cur |-> c + m, scratch |-> s]
    BY DEF pop
  <2> QED
    BY <1>1, <2>1
<1>3. x.buf = w.buf /\ x.cur = w.cur + n /\ x.scratch = w.scratch
  BY <1>2
<1>4. x.cur \in Nat /\ x.scratch <= x.cur /\ x.cur <= Len(x.buf) /\ Len(x.buf) - x.cur = size(v)
  <2>1. /\ n \in Nat /\ n = size(w) - size(v) /\ size(v) \in Nat /\ size(w) = Len(w.buf) - w.cur
        /\ w.cur \in Nat /\ w.scratch \in Nat /\ Len(w.buf) \in Nat /\ w.scratch <= w.cur
    BY <1>1
  <2> HIDE DEF n, x
  <2> QED
    BY <1>3, <2>1
<1> HIDE DEF x
<1>5. IsVector(x)
  BY <1>1, <1>2, <1>3, <1>4 DEF IsVector
<1>6. size(x) = size(v)
  BY <1>4 DEF size
<1>7. Kept(v, x)
  <2>1. \A k \in 1 .. size(v) : FromEnd(x, k) = FromEnd(w, k)
    BY <1>3 DEF FromEnd
  <2> QED
    BY <1>1, <1>6, <2>1 DEF Kept, Above
<1>8. SamePad(v, x)
  BY <1>3 DEF SamePad, Above
<1>9. \A k \in size(v) + 1 .. size(x) : FromEnd(x, k) \in Byte
  BY <1>1, <1>6
<1> QED
  BY <1>5, <1>6, <1>7, <1>8, <1>9 DEF Above, x

-----------------------------------------------------------------------------
(***************************************************************************)
(* Scalars.                                                                *)
(***************************************************************************)
LEMMA ScalarType ==
  ASSUME NEW value \in Int, NEW n \in Nat
  PROVE  Scalar(value, n) \in Seq(Byte) /\ Len(Scalar(value, n)) = n
<1> DEFINE f == [i \in 1 .. n |->
                   CASE i <= 4 -> (value \div Place[i]) % BYTE
                     [] i > 4 /\ value >= 0 -> 0
                     [] OTHER -> BYTE - 1]
<1>1. ASSUME NEW i \in 1 .. 4
      PROVE  (value \div Place[i]) % BYTE \in Byte
  <2>1. Place[i] \in {1, 256, 65536, 16777216}
    BY DEF Place
  <2> DEFINE q == value \div Place[i]
  <2>2. q \in Int
    BY <2>1
  <2> HIDE DEF q
  <2>3. q % BYTE \in Byte
    BY <2>2 DEF BYTE, Byte
  <2> QED
    BY <2>3 DEF q
<1>2. 0 \in Byte /\ BYTE - 1 \in Byte
  BY DEF BYTE, Byte
<1>3. f \in [1 .. n -> Byte]
  <2> SUFFICES ASSUME NEW i \in 1 .. n
               PROVE  f[i] \in Byte
    BY Zenon
  <2>1. CASE i <= 4
    <3>1. i \in 1 .. 4
      BY <2>1
    <3>2. f[i] = (value \div Place[i]) % BYTE
      BY <2>1
    <3> QED
      BY <1>1, <3>1, <3>2
  <2>2. CASE ~(i <= 4)
    <3>1. f[i] = 0 \/ f[i] = BYTE - 1
      BY <2>2
    <3> QED
      BY <1>2, <3>1
  <2> QED
    BY <2>1, <2>2
<1>4. Scalar(value, n) = f
  BY DEF Scalar
<1> HIDE DEF f
<1> QED
  BY <1>3, <1>4, FunctionIsSeq

LEMMA PaddingType ==
  ASSUME NEW n \in Nat, NEW align \in Nat \ {0}
  PROVE  PaddingBytes(n, align) \in Nat
<1> DEFINE m == -n
<1>1. m \in Int
  OBVIOUS
<1> HIDE DEF m
<1>2. m % align \in 0 .. align - 1
  BY <1>1
<1> QED
  BY <1>2 DEF PaddingBytes, m

-----------------------------------------------------------------------------
(***************************************************************************)
(* The builder.                                                            *)
(***************************************************************************)
IsBuilder(b) ==
  /\ b \in [buf : [buf : Seq(Cell), cur : Nat, scratch : Nat],
            num_field_loc : Nat, max_voffset : Nat, nested : BOOLEAN, finished : BOOLEAN,
            minalign : Nat \ {0}, pool : SUBSET Nat]
  /\ IsVector(b.buf)

\* What has been built is kept, and the scratch pad and the pool are as they were.
Wrote(b, c) ==
  /\ IsBuilder(c)
  /\ Above(b.buf, c.buf)
  /\ c.num_field_loc = b.num_field_loc /\ c.max_voffset = b.max_voffset
  /\ c.pool = b.pool

LEMMA WroteTransitive ==
  ASSUME NEW b, IsBuilder(b), NEW c, Wrote(b, c), NEW d, Wrote(c, d)
  PROVE  Wrote(b, d)
<1>1. Above(b.buf, d.buf)
  BY AboveTransitive DEF Wrote, IsBuilder
<1> QED
  BY <1>1 DEF Wrote

\* A builder with other bytes and another alignment.
With(b, v, align) == [b EXCEPT !.buf = v, !.minalign = align]

LEMMA WithBytes ==
  ASSUME NEW b, IsBuilder(b), NEW v, Above(b.buf, v), NEW align \in Nat \ {0}
  PROVE  /\ Wrote(b, With(b, v, align)) /\ With(b, v, align).buf = v
         /\ Wrote(b, [b EXCEPT !.buf = v])
         /\ [b EXCEPT !.buf = v].buf = v
<1>1. IsVector(v) /\ v \in [buf : Seq(Cell), cur : Nat, scratch : Nat]
  BY DEF Above, IsVector
<1> QED
  BY <1>1 DEF Wrote, IsBuilder, With

LEMMA BuilderSize ==
  ASSUME NEW b, IsBuilder(b)
  PROVE  GetSize(b) \in Nat /\ GetSize(b) = size(b.buf) /\ IsVector(b.buf) /\ b.minalign \in Nat \ {0}
BY VectorTypes DEF GetSize, IsBuilder

LEMMA FillBuilder ==
  ASSUME NEW b, IsBuilder(b), NEW align \in Nat \ {0}, NEW n \in Nat
  PROVE  /\ Wrote(b, [TrackMinAlign(b, align) EXCEPT !.buf = fill(@, n)])
         /\ GetSize([TrackMinAlign(b, align) EXCEPT !.buf = fill(@, n)]) = GetSize(b) + n
<1> DEFINE m == Biggest(b.minalign, align)
           v == fill(b.buf, n)
           c == [b EXCEPT !.minalign = m]
<1>1. m \in Nat \ {0}
  BY BuilderSize DEF Biggest
<1>2. Above(b.buf, v) /\ size(v) = size(b.buf) + n
  BY BuilderSize, FillIsAbove
<1>3. TrackMinAlign(b, align) = c
  BY DEF TrackMinAlign
<1>4. [c EXCEPT !.buf = fill(@, n)] = With(b, v, m)
  BY DEF IsBuilder, With
<1> HIDE DEF m, v, c
<1>5. Wrote(b, With(b, v, m)) /\ With(b, v, m).buf = v
  BY <1>1, <1>2, WithBytes
<1> QED
  BY <1>2, <1>3, <1>4, <1>5 DEF GetSize

LEMMA AlignWrites ==
  ASSUME NEW b, IsBuilder(b), NEW align \in Nat \ {0}
  PROVE  /\ Wrote(b, Align(b, align))
         /\ GetSize(Align(b, align)) = GetSize(b) + PaddingBytes(GetSize(b), align)
<1>1. PaddingBytes(GetSize(b), align) \in Nat
  BY BuilderSize, PaddingType
<1>2. Align(b, align) = [TrackMinAlign(b, align) EXCEPT !.buf = fill(@, PaddingBytes(GetSize(b), align))]
  BY DEF Align, GetSize, TrackMinAlign, IsBuilder
<1> QED
  BY <1>1, <1>2, FillBuilder

LEMMA PreAlignWrites ==
  ASSUME NEW b, IsBuilder(b), NEW align \in Nat \ {0}, NEW len \in Nat
  PROVE  /\ Wrote(b, PreAlign(b, len, align))
         /\ GetSize(PreAlign(b, len, align)) =
              GetSize(b) + (IF len = 0 THEN 0 ELSE PaddingBytes(GetSize(b) + len, align))
<1>1. CASE len = 0
  BY <1>1, BuilderSize, AboveItself DEF PreAlign, Wrote, IsBuilder
<1>2. CASE len # 0
  <2>1. PaddingBytes(GetSize(b) + len, align) \in Nat
    <3>1. GetSize(b) + len \in Nat
      BY BuilderSize
    <3> QED
      BY <3>1, PaddingType
  <2>2. PreAlign(b, len, align) =
          [TrackMinAlign(b, align) EXCEPT !.buf = fill(@, PaddingBytes(GetSize(b) + len, align))]
    BY <1>2 DEF PreAlign, GetSize, TrackMinAlign, IsBuilder
  <2> QED
    BY <1>2, <2>1, <2>2, FillBuilder
<1> QED
  BY <1>1, <1>2

LEMMA PushBytesWrites ==
  ASSUME NEW b, IsBuilder(b), NEW bytes \in Seq(Byte)
  PROVE  /\ Wrote(b, PushBytes(b, bytes))
         /\ Prefixed(b.buf, PushBytes(b, bytes).buf, bytes)
         /\ GetSize(PushBytes(b, bytes)) = GetSize(b) + Len(bytes)
<1> DEFINE v == push(b.buf, bytes)
<1>1. Prefixed(b.buf, v, bytes) /\ Above(b.buf, v)
  BY BuilderSize, PushIsAbove
<1>2. PushBytes(b, bytes) = [b EXCEPT !.buf = v]
  BY DEF PushBytes
<1> HIDE DEF v
<1>3. Wrote(b, [b EXCEPT !.buf = v]) /\ [b EXCEPT !.buf = v].buf = v
  BY <1>1, WithBytes, BuilderSize
<1> QED
  BY <1>1, <1>2, <1>3 DEF Prefixed, GetSize

LEMMA PushElementWrites ==
  ASSUME NEW b, IsBuilder(b), NEW bytes \in Seq(Byte) \ {<< >>}
  PROVE  /\ Wrote(b, PushElement(b, bytes))
         /\ Prefixed(Align(b, Len(bytes)).buf, PushElement(b, bytes).buf, bytes)
         /\ GetSize(PushElement(b, bytes)) =
              GetSize(b) + PaddingBytes(GetSize(b), Len(bytes)) + Len(bytes)
<1> DEFINE n == Len(bytes)
           c == Align(b, n)
<1>1. n \in Nat \ {0}
  OBVIOUS
<1>2. PushElement(b, bytes) = PushBytes(c, bytes)
  BY DEF PushElement
<1>3. Wrote(b, c) /\ GetSize(c) = GetSize(b) + PaddingBytes(GetSize(b), n)
  <2> HIDE DEF n
  <2> QED
    BY <1>1, AlignWrites
<1> HIDE DEF c
<1>4. /\ Wrote(c, PushBytes(c, bytes))
      /\ Prefixed(c.buf, PushBytes(c, bytes).buf, bytes)
      /\ GetSize(PushBytes(c, bytes)) = GetSize(c) + n
  BY <1>3, PushBytesWrites DEF Wrote
<1>5. Wrote(b, PushBytes(c, bytes))
  BY <1>3, <1>4, WroteTransitive
<1> QED
  BY <1>2, <1>3, <1>4, <1>5 DEF c

LEMMA ScalarIsElement ==
  ASSUME NEW value \in Int
  PROVE  Scalar(value, UOFFSET) \in Seq(Byte) \ {<< >>} /\ Len(Scalar(value, UOFFSET)) = 4
<1> DEFINE s == Scalar(value, UOFFSET)
<1>1. s \in Seq(Byte) /\ Len(s) = 4
  BY ScalarType DEF UOFFSET
<1> HIDE DEF s
<1>2. Len(<< >>) = 0
  OBVIOUS
<1>3. s # << >>
  BY <1>1, <1>2
<1> QED
  BY <1>1, <1>3 DEF s

LEMMA PushOffsetWrites ==
  ASSUME NEW b, IsBuilder(b), NEW off \in Int
  PROVE  /\ Wrote(b, PushOffset(b, off))
         /\ GetSize(PushOffset(b, off)) \in Nat
<1> DEFINE c == Align(b, UOFFSET)
           value == GetSize(c) - off + UOFFSET
<1>1. Wrote(b, c)
  BY AlignWrites DEF UOFFSET
<1>2. IsBuilder(c) /\ GetSize(c) \in Nat
  BY <1>1, BuilderSize DEF Wrote
<1>3. PushOffset(b, off) = PushElement(c, Scalar(value, UOFFSET))
  BY DEF PushOffset
<1> HIDE DEF c
<1>4. value \in Int
  BY <1>2 DEF UOFFSET
<1> HIDE DEF value
<1>5. Wrote(c, PushElement(c, Scalar(value, UOFFSET)))
  BY <1>2, <1>4, ScalarIsElement, PushElementWrites
<1>6. Wrote(b, PushOffset(b, off))
  BY <1>1, <1>3, <1>5, WroteTransitive
<1> QED
  BY <1>6, BuilderSize DEF Wrote

-----------------------------------------------------------------------------
(***************************************************************************)
(* What lies at an offset.                                                 *)
(***************************************************************************)
Holds(v, off, bytes) ==
  /\ off \in Nat /\ Len(bytes) <= off /\ off <= size(v)
  /\ \A i \in 1 .. Len(bytes) : FromEnd(v, off + 1 - i) = bytes[i]

LEMMA PrefixHeld ==
  ASSUME NEW v, IsVector(v), NEW bytes \in Seq(Cell), NEW w, Prefixed(v, w, bytes)
  PROVE  Holds(w, size(w), bytes)
<1>1. size(v) \in Nat /\ size(w) \in Nat /\ size(w) = size(v) + Len(bytes) /\ Len(bytes) \in Nat
  BY VectorTypes DEF Prefixed
<1> QED
  BY <1>1 DEF Holds, Prefixed

LEMMA HeldStays ==
  ASSUME NEW v, IsVector(v), NEW bytes \in Seq(Cell), NEW off, Holds(v, off, bytes),
         NEW w, IsVector(w), Kept(v, w)
  PROVE  Holds(w, off, bytes)
<1>1. /\ size(v) \in Nat /\ size(w) \in Nat /\ size(v) <= size(w)
      /\ off \in Nat /\ Len(bytes) \in Nat /\ Len(bytes) <= off /\ off <= size(v)
  BY VectorTypes DEF Kept, Holds
<1>2. ASSUME NEW i \in 1 .. Len(bytes)
      PROVE  FromEnd(w, off + 1 - i) = bytes[i]
  <2>1. off + 1 - i \in 1 .. size(v)
    BY <1>1
  <2>2. FromEnd(w, off + 1 - i) = FromEnd(v, off + 1 - i)
    BY <2>1 DEF Kept
  <2> QED
    BY <2>2 DEF Holds
<1> QED
  BY <1>1, <1>2 DEF Holds

LEMMA HeldIsAt ==
  ASSUME NEW v, IsVector(v), NEW bytes \in Seq(Cell), NEW off, Holds(v, off, bytes)
  PROVE  At(v, off, Len(bytes)) = bytes
<1> DEFINE n == Len(v.buf)
           m == Len(bytes)
           x == At(v, off, m)
<1>1. /\ n \in Nat /\ m \in Nat /\ off \in Nat /\ m <= off /\ off <= n
      /\ v.buf \in Seq(Cell)
  BY VectorTypes DEF Holds, IsVector
<1>2. x = SubSeq(v.buf, n - off + 1, n - off + m)
  BY DEF At
<1>3. n - off + 1 \in 1 .. n + 1 /\ n - off + m \in 0 .. n /\ (n - off + m) - (n - off + 1) + 1 = m
  BY <1>1
<1> HIDE DEF n, m, x
<1>4. x \in Seq(Cell) /\ Len(x) = m
  BY <1>1, <1>2, <1>3 DEF n
<1>5. ASSUME NEW i \in 1 .. m
      PROVE  x[i] = bytes[i]
  <2>1. x[i] = v.buf[n - off + i]
    <3>1. x[i] = v.buf[(n - off + 1) + i - 1]
      BY <1>1, <1>2, <1>3 DEF n
    <3>2. (n - off + 1) + i - 1 = n - off + i
      BY <1>1
    <3> QED
      BY <3>1, <3>2
  <2>2. n - (off + 1 - i) + 1 = n - off + i
    BY <1>1
  <2>3. FromEnd(v, off + 1 - i) = bytes[i]
    BY DEF Holds, m
  <2> QED
    BY <2>1, <2>2, <2>3 DEF FromEnd, n
<1> QED
  BY <1>4, <1>5 DEF m, x

-----------------------------------------------------------------------------
(***************************************************************************)
(* Strings.                                                                *)
(***************************************************************************)
\* The string at an offset: its length, and behind it its characters.
IsString(v, off, chars) ==
  /\ Holds(v, off, Scalar(Len(chars), UOFFSET))
  /\ Holds(v, off - UOFFSET, chars)

\* The lengths an int32_t has room for.
Short(n) == n \in Nat /\ n \div Place[4] < BYTE \div 2

LEMMA SignedBack ==
  ASSUME NEW n, Short(n)
  PROVE  Signed32(Scalar(n, UOFFSET)) = n
<1> DEFINE s == Scalar(n, UOFFSET)
           a == n \div 256
           b == n \div 65536
           c == n \div 16777216
<1>1. n \in Nat /\ c < 128
  BY DEF Short, Place, BYTE
<1>2. s[1] = n % 256 /\ s[2] = a % 256 /\ s[3] = b % 256 /\ s[4] = c % 256
  <2>1. \A i \in 1 .. 4 : s[i] = (n \div Place[i]) % 256
    BY <1>1 DEF Scalar, UOFFSET, BYTE
  <2>2. s[1] = (n \div 1) % 256 /\ s[2] = (n \div 256) % 256
        /\ s[3] = (n \div 65536) % 256 /\ s[4] = (n \div 16777216) % 256
    BY <2>1 DEF Place
  <2>3. n \div 1 = n
    BY <1>1
  <2> QED
    BY <2>2, <2>3
<1>3. n = 256 * a + (n % 256)
  BY <1>1
<1>4. a = 256 * b + (a % 256)
  BY <1>1
<1>5. b = 256 * c + (b % 256)
  BY <1>1
<1>6. c % 256 = c /\ a \in Nat /\ b \in Nat /\ c \in Nat
  BY <1>1
<1>7. s[4] = c /\ 2 * s[4] < 256
  BY <1>1, <1>2, <1>6
<1>8. Signed32(s) = s[1] + 256 * s[2] + 65536 * s[3] + 16777216 * s[4]
  BY <1>7 DEF Signed32, Place, BYTE
<1>9. n % 256 \in Nat /\ a % 256 \in Nat /\ b % 256 \in Nat
  BY <1>1
<1> HIDE DEF s, a, b, c
<1> QED
  BY <1>1, <1>2, <1>3, <1>4, <1>5, <1>6, <1>7, <1>8, <1>9 DEF s

LEMMA StringReads ==
  ASSUME NEW v, IsVector(v), NEW chars \in Seq(Byte), Short(Len(chars)),
         NEW off, IsString(v, off, chars)
  PROVE  PooledString(v, off) = chars
<1> DEFINE s == Scalar(Len(chars), UOFFSET)
<1>1. s \in Seq(Cell) /\ Len(s) = UOFFSET /\ chars \in Seq(Cell)
  <2>1. Scalar(Len(chars), UOFFSET) \in Seq(Byte) /\ Len(Scalar(Len(chars), UOFFSET)) = 4
    BY ScalarIsElement
  <2> QED
    BY <2>1, BytesAreCells DEF UOFFSET
<1>2. Signed32(s) = Len(chars)
  BY SignedBack
<1>3. Holds(v, off, s) /\ Holds(v, off - UOFFSET, chars)
  BY DEF IsString
<1> HIDE DEF s
<1>4. At(v, off, UOFFSET) = s
  BY <1>1, <1>3, HeldIsAt
<1>5. At(v, off - UOFFSET, Len(chars)) = chars
  BY <1>1, <1>3, HeldIsAt
<1> QED
  BY <1>2, <1>4, <1>5 DEF PooledString

LEMMA StringStays ==
  ASSUME NEW v, IsVector(v), NEW chars \in Seq(Byte), NEW off, IsString(v, off, chars),
         NEW w, Above(v, w)
  PROVE  IsString(w, off, chars)
<1>1. Scalar(Len(chars), UOFFSET) \in Seq(Cell) /\ chars \in Seq(Cell)
  BY ScalarIsElement, BytesAreCells
<1>2. IsVector(w) /\ Kept(v, w)
  BY DEF Above
<1> QED
  BY <1>1, <1>2, HeldStays DEF IsString

LEMMA NoPadding ==
  ASSUME NEW n \in Nat, NEW len \in Nat
  PROVE  PaddingBytes(n + PaddingBytes(n + len, 4) + len, 4) = 0
<1> DEFINE p == (-(n + len)) % 4
<1>1. p \in Nat /\ (n + p + len) % 4 = 0
  OBVIOUS
<1>2. PaddingBytes(n + len, 4) = p
  BY DEF PaddingBytes
<1> HIDE DEF p
<1>3. (-(n + p + len)) % 4 = 0
  BY <1>1
<1> QED
  BY <1>2, <1>3 DEF PaddingBytes

LEMMA CreateStringWrites ==
  ASSUME NEW b, IsBuilder(b), NEW chars \in Seq(Byte)
  PROVE  /\ Wrote(b, CreateString(b, chars))
         /\ IsString(CreateString(b, chars).buf, GetSize(CreateString(b, chars)), chars)
<1> DEFINE len == Len(chars)
           c1 == PreAlign(b, len + 1, UOFFSET)
           c2 == PushBytes(c1, << 0 >>)
           c3 == PushBytes(c2, chars)
           s == Scalar(len, UOFFSET)
           c4 == PushElement(c3, s)
<1>1. len \in Nat /\ len + 1 \in Nat /\ len + 1 # 0 /\ UOFFSET = 4 /\ GetSize(b) \in Nat
  BY BuilderSize DEF UOFFSET
<1>2. CreateString(b, chars) = c4
  BY DEF CreateString
<1>3. s \in Seq(Byte) \ {<< >>} /\ Len(s) = 4 /\ << 0 >> \in Seq(Byte) /\ Len(<< 0 >>) = 1
  <2>1. 0 \in Byte
    BY DEF Byte, BYTE
  <2> QED
    BY <1>1, <2>1, ScalarIsElement
<1> HIDE DEF s, len
<1>4. Wrote(b, c1) /\ GetSize(c1) = GetSize(b) + PaddingBytes(GetSize(b) + (len + 1), 4)
  BY <1>1, PreAlignWrites
<1> HIDE DEF c1
<1>5. Wrote(c1, c2) /\ GetSize(c2) = GetSize(c1) + 1
  BY <1>3, <1>4, PushBytesWrites DEF Wrote
<1> HIDE DEF c2
<1>6. Wrote(c2, c3) /\ GetSize(c3) = GetSize(c2) + len /\ Prefixed(c2.buf, c3.buf, chars)
  BY <1>5, PushBytesWrites DEF Wrote, len
<1> HIDE DEF c3
<1>7. Wrote(b, c3) /\ IsBuilder(c2) /\ IsBuilder(c3)
  <2>1. Wrote(b, c2)
    BY <1>4, <1>5, WroteTransitive
  <2> QED
    BY <1>6, <2>1, WroteTransitive DEF Wrote
<1>8. /\ Wrote(c3, c4) /\ Prefixed(Align(c3, 4).buf, c4.buf, s)
      /\ GetSize(c4) = GetSize(c3) + PaddingBytes(GetSize(c3), 4) + 4
  BY <1>3, <1>7, PushElementWrites
<1>9. GetSize(c4) = GetSize(c3) + 4
  <2> DEFINE p == PaddingBytes(GetSize(b) + (len + 1), 4)
  <2>1. p \in Nat
    <3>1. GetSize(b) + (len + 1) \in Nat /\ 4 \in Nat \ {0}
      BY <1>1
    <3> QED
      BY <3>1, PaddingType
  <2>2. PaddingBytes(GetSize(b) + p + (len + 1), 4) = 0
    BY <1>1, NoPadding
  <2> HIDE DEF p
  <2>3. GetSize(c3) = GetSize(b) + p + (len + 1)
    BY <1>1, <1>4, <1>5, <1>6, <2>1 DEF p
  <2>4. GetSize(c3) \in Nat
    BY <1>7, BuilderSize
  <2> QED
    BY <1>8, <2>2, <2>3, <2>4
<1> HIDE DEF c4
<1>10. /\ IsVector(c2.buf) /\ IsVector(c3.buf) /\ IsVector(c4.buf) /\ IsVector(Align(c3, 4).buf)
       /\ GetSize(c3) \in Nat /\ Kept(c3.buf, c4.buf)
       /\ s \in Seq(Cell) /\ chars \in Seq(Cell)
  <2>1. IsBuilder(c4) /\ IsBuilder(Align(c3, 4))
    BY <1>7, <1>8, AlignWrites DEF Wrote
  <2> QED
    BY <1>3, <1>7, <1>8, <2>1, BuilderSize, BytesAreCells DEF Wrote, Above
<1>11. Holds(c4.buf, GetSize(c4), s)
  BY <1>8, <1>10, PrefixHeld DEF GetSize
<1>12. Holds(c4.buf, GetSize(c4) - UOFFSET, chars)
  <2>1. Holds(c3.buf, GetSize(c3), chars)
    BY <1>6, <1>10, PrefixHeld DEF GetSize
  <2>2. GetSize(c4) - UOFFSET = GetSize(c3)
    BY <1>1, <1>9, <1>10
  <2> QED
    BY <1>10, <2>1, <2>2, HeldStays
<1> QED
  BY <1>2, <1>7, <1>8, <1>11, <1>12, WroteTransitive DEF IsString, s, len

\* Every offset in the pool is that of a string.
PoolOK(b) ==
  \A off \in b.pool : \E chars \in Seq(Byte) : Short(Len(chars)) /\ IsString(b.buf, off, chars)

LEMMA SharedStringWrites ==
  ASSUME NEW b, IsBuilder(b), PoolOK(b), NEW chars \in Seq(Byte), Short(Len(chars)),
         NEW shared, shared = CreateSharedString(b, chars)
  PROVE  /\ IsBuilder(shared.builder)
         /\ Above(b.buf, shared.builder.buf)
         /\ shared.builder.num_field_loc = b.num_field_loc
         /\ shared.builder.max_voffset = b.max_voffset
         /\ IsString(shared.builder.buf, shared.off, chars)
         /\ shared.off \in Nat
         /\ shared.builder.pool \subseteq b.pool \cup {shared.off}
<1> DEFINE c == CreateString(b, chars)
           hits == {off \in b.pool : PooledString(c.buf, off) = chars}
           first == CHOOSE off \in hits : TRUE
           popped == pop(c.buf, size(c.buf) - size(b.buf))
<1>1. /\ Wrote(b, c) /\ IsBuilder(c) /\ Above(b.buf, c.buf) /\ IsVector(b.buf) /\ IsVector(c.buf)
      /\ IsString(c.buf, GetSize(c), chars) /\ GetSize(c) \in Nat
      /\ c.pool = b.pool /\ c.num_field_loc = b.num_field_loc /\ c.max_voffset = b.max_voffset
  BY CreateStringWrites, BuilderSize DEF Wrote
<1>2. shared = IF hits # {}
               THEN [builder |-> [c EXCEPT !.buf = pop(@, size(@) - GetSize(b))], off |-> first]
               ELSE [builder |-> [c EXCEPT !.pool = @ \cup {GetSize(c)}], off |-> GetSize(c)]
  BY DEF CreateSharedString
<1> HIDE DEF c
<1>3. CASE hits # {}
  <2>1. shared.builder = [c EXCEPT !.buf = popped] /\ shared.off = first
    BY <1>2, <1>3 DEF GetSize
  <2>2. first \in b.pool /\ PooledString(c.buf, first) = chars
    BY <1>3
  <2>3. Above(b.buf, popped)
    BY <1>1, PopGives
  <2> HIDE DEF first, popped, hits
  <2>4. popped \in [buf : Seq(Cell), cur : Nat, scratch : Nat] /\ IsVector(popped)
    BY <2>3 DEF Above, IsVector
  <2>5. /\ IsBuilder(shared.builder) /\ shared.builder.buf = popped
        /\ shared.builder.pool = c.pool /\ shared.builder.num_field_loc = c.num_field_loc
        /\ shared.builder.max_voffset = c.max_voffset
    BY <1>1, <2>1, <2>4 DEF IsBuilder
  <2>6. PICK s \in Seq(Byte) : Short(Len(s)) /\ IsString(b.buf, first, s)
    BY <2>2 DEF PoolOK
  <2>7. IsString(c.buf, first, s)
    BY <1>1, <2>6, StringStays
  <2>8. PooledString(c.buf, first) = s
    BY <1>1, <2>6, <2>7, StringReads
  <2>9. IsString(popped, first, chars)
    BY <1>1, <2>2, <2>3, <2>6, <2>8, StringStays
  <2>10. first \in Nat
    BY <2>2 DEF IsBuilder
  <2> QED
    BY <1>1, <2>1, <2>2, <2>3, <2>5, <2>9, <2>10
<1>4. CASE hits = {}
  <2>1. shared.builder = [c EXCEPT !.pool = @ \cup {GetSize(c)}] /\ shared.off = GetSize(c)
    BY <1>2, <1>4
  <2> HIDE DEF hits
  <2>2. /\ IsBuilder(shared.builder) /\ shared.builder.buf = c.buf
        /\ shared.builder.pool = c.pool \cup {GetSize(c)}
        /\ shared.builder.num_field_loc = c.num_field_loc
        /\ shared.builder.max_voffset = c.max_voffset
    <3> DEFINE p == c.pool \cup {GetSize(c)}
    <3>1. p \in SUBSET Nat
      BY <1>1 DEF IsBuilder
    <3>2. shared.builder = [c EXCEPT !.pool = p]
      BY <2>1
    <3> HIDE DEF p
    <3>3. /\ IsBuilder(shared.builder) /\ shared.builder.buf = c.buf
          /\ shared.builder.pool = p /\ shared.builder.num_field_loc = c.num_field_loc
          /\ shared.builder.max_voffset = c.max_voffset
      BY <1>1, <3>1, <3>2 DEF IsBuilder
    <3> QED
      BY <3>3 DEF p
  <2> QED
    BY <1>1, <2>1, <2>2
<1> QED
  BY <1>3, <1>4

-----------------------------------------------------------------------------
(***************************************************************************)
(* Vectors.                                                                *)
(***************************************************************************)
LEMMA WroteItself ==
  ASSUME NEW b, IsBuilder(b)
  PROVE  Wrote(b, b)
BY BuilderSize, AboveItself DEF Wrote

LEMMA NestedWrites ==
  ASSUME NEW b, IsBuilder(b), NEW nested \in BOOLEAN
  PROVE  /\ Wrote(b, [b EXCEPT !.nested = nested])
         /\ [b EXCEPT !.nested = nested].buf = b.buf
BY BuilderSize, AboveItself DEF Wrote, IsBuilder

LEMMA StartVectorWrites ==
  ASSUME NEW b, IsBuilder(b), NEW len \in Nat, NEW elemsize \in Nat \ {0}
  PROVE  Wrote(b, StartVector(b, len, elemsize))
<1> DEFINE n == len * elemsize
           c == PreAlign(b, n, UOFFSET)
           d == PreAlign(c, n, elemsize)
<1>1. n \in Nat /\ UOFFSET \in Nat \ {0}
  BY DEF UOFFSET
<1>2. StartVector(b, len, elemsize) = [d EXCEPT !.nested = TRUE]
  BY DEF StartVector
<1> HIDE DEF n
<1>3. Wrote(b, c)
  BY <1>1, PreAlignWrites
<1> HIDE DEF c
<1>4. Wrote(c, d)
  BY <1>1, <1>3, PreAlignWrites DEF Wrote
<1> HIDE DEF d
<1>5. Wrote(b, d) /\ IsBuilder(d)
  BY <1>3, <1>4, WroteTransitive DEF Wrote
<1>6. Wrote(d, [d EXCEPT !.nested = TRUE])
  BY <1>5, NestedWrites
<1> QED
  BY <1>2, <1>5, <1>6, WroteTransitive

LEMMA EndVectorWrites ==
  ASSUME NEW b, IsBuilder(b), NEW len \in Nat
  PROVE  Wrote(b, EndVector(b, len))
<1> DEFINE c == [b EXCEPT !.nested = FALSE]
<1>1. Wrote(b, c) /\ IsBuilder(c)
  BY NestedWrites DEF Wrote
<1>2. EndVector(b, len) = PushElement(c, Scalar(len, UOFFSET))
  BY DEF EndVector
<1> HIDE DEF c
<1>3. Wrote(c, PushElement(c, Scalar(len, UOFFSET)))
  BY <1>1, ScalarIsElement, PushElementWrites
<1> QED
  BY <1>1, <1>2, <1>3, WroteTransitive

LEMMA ElementIndex ==
  ASSUME NEW n \in Nat, NEW m \in Nat \ {0}, NEW i \in 1 .. n * m
  PROVE  (i - 1) \div m + 1 \in 1 .. n /\ ((i - 1) % m) + 1 \in 1 .. m
<1> DEFINE q == (i - 1) \div m
           r == (i - 1) % m
<1>1. n * m \in Int /\ i \in Int /\ 1 <= i /\ i - 1 < n * m
  OBVIOUS
<1>2. q \in Int /\ r \in 0 .. m - 1 /\ m * q <= i - 1
  BY <1>1
<1>3. q >= 0
  BY <1>1
<1> HIDE DEF q, r
<1>4. CASE q >= n
  <2>1. m * q >= n * m
    BY <1>2, <1>4
  <2>2. m * q \in Int
    BY <1>2
  <2> DEFINE x == m * q
             y == n * m
  <2> HIDE DEF x, y
  <2>3. x >= y /\ x <= i - 1 /\ i - 1 < y /\ x \in Int /\ y \in Int
    BY <1>1, <1>2, <2>1, <2>2 DEF x, y
  <2> QED
    BY <1>1, <2>3
<1>5. CASE q < n
  BY <1>2, <1>3, <1>5 DEF q, r
<1> QED
  BY <1>2, <1>4, <1>5

LEMMA CreateVectorWrites ==
  ASSUME NEW b, IsBuilder(b), NEW elemsize \in Nat \ {0}, NEW elements \in Seq([1 .. elemsize -> Byte])
  PROVE  Wrote(b, CreateVector(b, elements, elemsize))
<1> DEFINE n == Len(elements)
           bytes == [i \in 1 .. n * elemsize |->
                       elements[(i - 1) \div elemsize + 1][((i - 1) % elemsize) + 1]]
           c == StartVector(b, n, elemsize)
           d == PushBytes(c, bytes)
<1>1. n \in Nat /\ n * elemsize \in Nat
  OBVIOUS
<1>2. bytes \in [1 .. n * elemsize -> Byte]
  <2> SUFFICES ASSUME NEW i \in 1 .. n * elemsize
               PROVE  elements[(i - 1) \div elemsize + 1][((i - 1) % elemsize) + 1] \in Byte
    OBVIOUS
  <2> DEFINE j == (i - 1) \div elemsize + 1
             k == ((i - 1) % elemsize) + 1
  <2>1. j \in 1 .. n /\ k \in 1 .. elemsize
    <3> HIDE DEF n
    <3> QED
      BY <1>1, ElementIndex
  <2> HIDE DEF j, k
  <2>2. elements[j] \in [1 .. elemsize -> Byte]
    BY <2>1
  <2>3. elements[j][k] \in Byte
    BY <2>1, <2>2
  <2> QED
    BY <2>3 DEF j, k
<1>3. CreateVector(b, elements, elemsize) = EndVector(d, n)
  BY DEF CreateVector
<1> HIDE DEF n, bytes
<1>4. bytes \in Seq(Byte)
  BY <1>1, <1>2, FunctionIsSeq
<1>5. Wrote(b, c)
  BY <1>1, StartVectorWrites
<1> HIDE DEF c
<1>6. Wrote(c, d)
  BY <1>4, <1>5, PushBytesWrites DEF Wrote
<1> HIDE DEF d
<1>7. Wrote(b, d) /\ IsBuilder(d)
  BY <1>5, <1>6, WroteTransitive DEF Wrote
<1>8. Wrote(d, EndVector(d, n))
  BY <1>1, <1>7, EndVectorWrites
<1> QED
  BY <1>3, <1>7, <1>8, WroteTransitive

-----------------------------------------------------------------------------
(***************************************************************************)
(* The scratch pad.                                                        *)
(***************************************************************************)
LEMMA ScratchPushGives ==
  ASSUME NEW v, IsVector(v), NEW bytes \in Seq(Cell), NEW w, w = scratch_push_small(v, bytes)
  PROVE  /\ IsVector(w) /\ size(w) = size(v) /\ Kept(v, w)
         /\ w.scratch = v.scratch + Len(bytes)
         /\ \A i \in 1 .. v.scratch : w.buf[i] = v.buf[i]
         /\ \A i \in 1 .. Len(bytes) : w.buf[v.scratch + i] = bytes[i]
<1> DEFINE n == Len(bytes)
           u == ensure_space(v, n)
           p == Put(u, u.scratch, bytes)
<1>1. n \in Nat /\ v.scratch \in Nat /\ size(v) \in Nat
  BY VectorTypes
<1>2. /\ IsVector(u) /\ size(u) = size(v) /\ Kept(v, u) /\ SamePad(v, u)
      /\ n <= unused_buffer_size(u)
  <2> HIDE DEF n
  <2> QED
    BY <1>1, SpaceEnsured
<1>3. w = [p EXCEPT !.scratch = @ + n]
  BY DEF scratch_push_small
<1> HIDE DEF u
<1>4. /\ Len(u.buf) \in Nat /\ u.cur \in Nat /\ u.scratch \in Nat /\ u.scratch + n <= u.cur
      /\ u.cur <= Len(u.buf) /\ size(u) = Len(u.buf) - u.cur /\ u.scratch = v.scratch
  BY <1>1, <1>2, VectorTypes DEF IsVector, SamePad
<1>5. /\ IsVector(p) /\ Len(p.buf) = Len(u.buf) /\ p.cur = u.cur /\ p.scratch = u.scratch
      /\ \A i \in 1 .. Len(u.buf) : i \in u.scratch + 1 .. u.scratch + n => p.buf[i] = bytes[i - u.scratch]
      /\ \A i \in 1 .. Len(u.buf) : i \notin u.scratch + 1 .. u.scratch + n => p.buf[i] = u.buf[i]
  <2>1. u.scratch + Len(bytes) <= Len(u.buf)
    BY <1>4
  <2> QED
    BY <1>2, <1>4, <2>1, PutGives
<1> HIDE DEF n, p
<1>6. w = [buf |-> p.buf, cur |-> p.cur, scratch |-> p.scratch + n] /\ p.buf \in Seq(Cell)
  <2>1. w = [p EXCEPT !.scratch = p.scratch + n]
    BY <1>3
  <2>2. p \in [buf : Seq(Cell), cur : Nat, scratch : Nat]
    BY <1>5 DEF IsVector
  <2> QED
    BY <2>1, <2>2
<1>7. w.buf = p.buf /\ w.cur = u.cur /\ w.scratch = u.scratch + n
  BY <1>5, <1>6
<1>8. IsVector(w)
  BY <1>1, <1>4, <1>5, <1>6, <1>7 DEF IsVector
<1>9. size(w) = size(v)
  BY <1>2, <1>4, <1>5, <1>7 DEF size
<1>10. ASSUME NEW k \in 1 .. size(v)
       PROVE  FromEnd(w, k) = FromEnd(v, k)
  <2>1. /\ Len(u.buf) - k + 1 \in 1 .. Len(u.buf)
        /\ Len(u.buf) - k + 1 \notin u.scratch + 1 .. u.scratch + n
    BY <1>1, <1>2, <1>4
  <2>2. FromEnd(w, k) = FromEnd(u, k)
    BY <1>5, <1>7, <2>1 DEF FromEnd
  <2> QED
    BY <1>2, <2>2 DEF Kept
<1>11. ASSUME NEW i \in 1 .. v.scratch
       PROVE  w.buf[i] = v.buf[i]
  <2>1. i \in 1 .. Len(u.buf) /\ i \notin u.scratch + 1 .. u.scratch + n
    BY <1>1, <1>4
  <2> QED
    BY <1>2, <1>5, <1>7, <2>1 DEF SamePad
<1>12. ASSUME NEW i \in 1 .. n
       PROVE  w.buf[v.scratch + i] = bytes[i]
  <2>1. /\ v.scratch + i \in 1 .. Len(u.buf) /\ v.scratch + i \in u.scratch + 1 .. u.scratch + n
        /\ (v.scratch + i) - u.scratch = i
    <3>1. /\ n \in Nat /\ u.scratch \in Nat /\ Len(u.buf) \in Nat /\ u.scratch + n <= Len(u.buf)
          /\ u.scratch = v.scratch
      BY <1>1, <1>4
    <3> QED
      BY <3>1
  <2> QED
    BY <1>5, <1>7, <2>1
<1> QED
  BY <1>1, <1>4, <1>7, <1>8, <1>9, <1>10, <1>11, <1>12 DEF Kept, n

LEMMA ScratchPopGives ==
  ASSUME NEW v, IsVector(v), NEW n \in Nat, n <= v.scratch
  PROVE  /\ IsVector(scratch_pop(v, n)) /\ size(scratch_pop(v, n)) = size(v)
         /\ scratch_pop(v, n).scratch = v.scratch - n
         /\ scratch_pop(v, n).buf = v.buf
<1> DEFINE w == scratch_pop(v, n)
<1>1. /\ v = [buf |-> v.buf, cur |-> v.cur, scratch |-> v.scratch]
      /\ v.buf \in Seq(Cell) /\ Len(v.buf) \in Nat /\ v.cur \in Nat /\ v.scratch \in Nat
      /\ v.scratch <= v.cur /\ v.cur <= Len(v.buf)
  BY VectorTypes DEF IsVector
<1>2. w = [buf |-> v.buf, cur |-> v.cur, scratch |-> v.scratch - n]
  <2>1. w = [v EXCEPT !.scratch = v.scratch - n]
    BY DEF scratch_pop
  <2>2. v \in [buf : Seq(Cell), cur : Nat, scratch : Nat]
    BY DEF IsVector
  <2> HIDE DEF w
  <2> QED
    BY <2>1, <2>2
<1> HIDE DEF w
<1>3. w.buf = v.buf /\ w.cur = v.cur /\ w.scratch = v.scratch - n
  BY <1>2
<1>4. IsVector(w)
  BY <1>1, <1>2, <1>3 DEF IsVector
<1> QED
  BY <1>3, <1>4 DEF size, w

LEMMA AbovePopped ==
  ASSUME NEW v, IsVector(v), NEW w, Above(v, w), NEW n \in Nat, n <= v.scratch
  PROVE  Above(scratch_pop(v, n), scratch_pop(w, n))
<1> DEFINE x == scratch_pop(v, n)
           y == scratch_pop(w, n)
<1>1. IsVector(w) /\ w.scratch = v.scratch /\ v.scratch \in Nat
  BY VectorTypes DEF Above, SamePad
<1>2. IsVector(x) /\ size(x) = size(v) /\ x.scratch = v.scratch - n /\ x.buf = v.buf
  BY ScratchPopGives
<1>3. IsVector(y) /\ size(y) = size(w) /\ y.scratch = w.scratch - n /\ y.buf = w.buf
  BY <1>1, ScratchPopGives
<1> HIDE DEF x, y
<1>4. /\ \A k : FromEnd(x, k) = FromEnd(v, k)
      /\ \A k : FromEnd(y, k) = FromEnd(w, k)
  BY <1>2, <1>3 DEF FromEnd
<1>5. Kept(x, y)
  BY <1>2, <1>3, <1>4 DEF Above, Kept
<1>6. SamePad(x, y)
  <2>1. \A i \in 1 .. x.scratch : i \in 1 .. v.scratch
    BY <1>1, <1>2
  <2> QED
    BY <1>1, <1>2, <1>3, <2>1 DEF Above, SamePad
<1>7. \A k \in size(x) + 1 .. size(y) : FromEnd(y, k) \in Byte
  BY <1>2, <1>3, <1>4 DEF Above
<1> QED
  BY <1>3, <1>5, <1>6, <1>7 DEF Above, x, y

\* The offsets of vtables in the scratch pad are bytes, and so are the members of
\* the FieldLocs above them, if not their padding.
PadOK(v, fields) ==
  /\ fields * FIELD_LOC <= v.scratch
  /\ \A i \in 1 .. v.scratch - fields * FIELD_LOC : v.buf[i] \in Byte
  /\ \A i \in 1 .. fields : \A k \in 1 .. 6 : v.buf[v.scratch - i * FIELD_LOC + k] \in Byte

LEMMA PadStays ==
  ASSUME NEW v, IsVector(v), NEW fields \in Nat, PadOK(v, fields), NEW w, SamePad(v, w)
  PROVE  PadOK(w, fields)
<1>1. v.scratch \in Nat /\ w.scratch = v.scratch /\ FIELD_LOC = 8
  BY VectorTypes DEF SamePad, FIELD_LOC
<1>2. \A i \in 1 .. v.scratch - fields * FIELD_LOC : i \in 1 .. v.scratch
  BY <1>1
<1>3. \A i \in 1 .. fields : \A k \in 1 .. 6 : v.scratch - i * FIELD_LOC + k \in 1 .. v.scratch
  BY <1>1 DEF PadOK
<1> QED
  BY <1>1, <1>2, <1>3 DEF PadOK, SamePad

\* What has been built is kept.
Extended(v, w) ==
  /\ IsVector(w)
  /\ Kept(v, w)
  /\ \A k \in size(v) + 1 .. size(w) : FromEnd(w, k) \in Byte

LEMMA AboveIsExtended == \A v, w : Above(v, w) => Extended(v, w)
BY DEF Above, Extended

LEMMA ExtendedTransitive ==
  ASSUME NEW u, IsVector(u), NEW v, Extended(u, v), NEW w, Extended(v, w)
  PROVE  Extended(u, w)
<1>1. size(u) \in Nat /\ size(v) \in Nat /\ size(w) \in Nat /\ size(u) <= size(v) /\ size(v) <= size(w)
  BY VectorTypes DEF Extended, Kept
<1>2. ASSUME NEW k \in 1 .. size(u)
      PROVE  FromEnd(w, k) = FromEnd(u, k)
  <2>1. k \in 1 .. size(v)
    BY <1>1
  <2> QED
    BY <2>1 DEF Extended, Kept
<1>3. ASSUME NEW k \in size(u) + 1 .. size(w)
      PROVE  FromEnd(w, k) \in Byte
  <2>1. CASE k <= size(v)
    <3>1. k \in 1 .. size(v) /\ k \in size(u) + 1 .. size(v)
      BY <1>1, <2>1
    <3>2. FromEnd(w, k) = FromEnd(v, k)
      BY <3>1 DEF Extended, Kept
    <3> QED
      BY <3>1, <3>2 DEF Extended
  <2>2. CASE k > size(v)
    <3>1. k \in size(v) + 1 .. size(w)
      BY <1>1, <2>2
    <3> QED
      BY <3>1 DEF Extended
  <2> QED
    BY <1>1, <2>1, <2>2
<1> QED
  BY <1>1, <1>2, <1>3 DEF Extended, Kept

-----------------------------------------------------------------------------
(***************************************************************************)
(* Tables.                                                                 *)
(***************************************************************************)
\* A step of the builder that keeps what has been built, with so many FieldLocs.
Grew(b, c, fields) ==
  /\ IsBuilder(c)
  /\ Extended(b.buf, c.buf)
  /\ PadOK(c.buf, fields)
  /\ c.num_field_loc = fields
  /\ c.pool = b.pool

LEMMA WroteGrew ==
  ASSUME NEW b, IsBuilder(b), PadOK(b.buf, b.num_field_loc), NEW c, Wrote(b, c)
  PROVE  Grew(b, c, b.num_field_loc)
<1>1. b.num_field_loc \in Nat /\ IsVector(b.buf)
  BY DEF IsBuilder
<1>2. PadOK(c.buf, b.num_field_loc)
  BY <1>1, PadStays DEF Wrote, Above
<1> QED
  BY <1>2, AboveIsExtended DEF Grew, Wrote

LEMMA Joined ==
  ASSUME NEW S, NEW p \in Seq(S), NEW q \in Seq(S)
  PROVE  /\ p \o q \in Seq(S) /\ Len(p \o q) = Len(p) + Len(q)
         /\ \A k \in 1 .. Len(p) : (p \o q)[k] = p[k]
         /\ \A k \in 1 .. Len(q) : (p \o q)[Len(p) + k] = q[k]
OBVIOUS

LEMMA ElementType ==
  ASSUME NEW S, NEW s \in Seq(S)
  PROVE  \A k \in 1 .. Len(s) : s[k] \in S
OBVIOUS

LEMMA FieldLocBytes ==
  ASSUME NEW off \in Int, NEW voffset \in Nat, NEW loc,
         loc = Scalar(off, UOFFSET) \o Scalar(voffset, VOFFSET) \o << Uninit, Uninit >>
  PROVE  loc \in Seq(Cell) /\ Len(loc) = 8 /\ \A k \in 1 .. 6 : loc[k] \in Byte
<1> DEFINE p == Scalar(off, UOFFSET)
           q == Scalar(voffset, VOFFSET)
           r == << Uninit, Uninit >>
           s == p \o q
<1>1. p \in Seq(Byte) /\ Len(p) = 4
  BY ScalarType DEF UOFFSET
<1>2. q \in Seq(Byte) /\ Len(q) = 2
  <2>1. voffset \in Int /\ 2 \in Nat
    OBVIOUS
  <2> QED
    BY <2>1, ScalarType DEF VOFFSET
<1>3. r \in Seq(Cell) /\ Len(r) = 2
  BY DEF Cell
<1>4. loc = s \o r
  OBVIOUS
<1> HIDE DEF p, q, r
<1>5. s \in Seq(Byte) /\ Len(s) = 6
  <2>1. s \in Seq(Byte) /\ Len(s) = Len(p) + Len(q)
    BY <1>1, <1>2, Joined, Zenon
  <2> HIDE DEF s
  <2> QED
    BY <1>1, <1>2, <2>1
<1> HIDE DEF s
<1>6. s \in Seq(Cell)
  BY <1>5, BytesAreCells
<1>7. s \o r \in Seq(Cell) /\ Len(s \o r) = 8 /\ \A k \in 1 .. 6 : (s \o r)[k] = s[k]
  <2>1. /\ s \o r \in Seq(Cell) /\ Len(s \o r) = Len(s) + Len(r)
        /\ \A k \in 1 .. Len(s) : (s \o r)[k] = s[k]
    <3>1. s \in Seq(Cell) /\ r \in Seq(Cell)
      BY <1>3, <1>6
    <3> QED
      BY <3>1, Joined
  <2> QED
    BY <1>3, <1>5, <2>1
<1>8. \A k \in 1 .. 6 : s[k] \in Byte
  <2>1. \A k \in 1 .. Len(s) : s[k] \in Byte
    BY <1>5, ElementType, Zenon
  <2> QED
    BY <1>5, <2>1
<1> QED
  BY <1>4, <1>7, <1>8

LEMMA TrackFieldGrew ==
  ASSUME NEW b, IsBuilder(b), PadOK(b.buf, b.num_field_loc), NEW voffset \in Nat, NEW off \in Int
  PROVE  Grew(b, TrackField(b, voffset, off), b.num_field_loc + 1)
<1> DEFINE loc == Scalar(off, UOFFSET) \o Scalar(voffset, VOFFSET) \o << Uninit, Uninit >>
           v == scratch_push_small(b.buf, loc)
           max == Biggest(b.max_voffset, voffset)
           n == b.num_field_loc
           c == TrackField(b, voffset, off)
<1>1. loc \in Seq(Cell) /\ Len(loc) = 8 /\ \A k \in 1 .. 6 : loc[k] \in Byte
  BY FieldLocBytes
<1>2. c = [b EXCEPT !.buf = v, !.num_field_loc = n + 1, !.max_voffset = max]
  BY DEF TrackField
<1> HIDE DEF loc
<1>3. IsVector(b.buf) /\ b.buf.scratch \in Nat /\ n \in Nat /\ b.max_voffset \in Nat
  BY BuilderSize, VectorTypes DEF IsBuilder
<1>4. /\ IsVector(v) /\ size(v) = size(b.buf) /\ Kept(b.buf, v)
      /\ v.scratch = b.buf.scratch + 8
      /\ \A i \in 1 .. b.buf.scratch : v.buf[i] = b.buf.buf[i]
      /\ \A i \in 1 .. 8 : v.buf[b.buf.scratch + i] = loc[i]
  <2> HIDE DEF v
  <2>1. v = scratch_push_small(b.buf, loc)
    BY DEF v
  <2> DEFINE u == b.buf
  <2>2. IsVector(u) /\ loc \in Seq(Cell) /\ v = scratch_push_small(u, loc)
    BY <1>1, <1>3, <2>1
  <2> HIDE DEF u
  <2>3. /\ IsVector(v) /\ size(v) = size(u) /\ Kept(u, v)
        /\ v.scratch = u.scratch + Len(loc)
        /\ \A i \in 1 .. u.scratch : v.buf[i] = u.buf[i]
        /\ \A i \in 1 .. Len(loc) : v.buf[u.scratch + i] = loc[i]
    BY <2>2, ScratchPushGives
  <2> QED
    BY <1>1, <2>3 DEF u
<1>5. max \in Nat
  BY <1>3 DEF Biggest
<1> HIDE DEF v, max, c
<1>6. v \in [buf : Seq(Cell), cur : Nat, scratch : Nat]
  BY <1>4 DEF IsVector
<1>7. IsBuilder(c) /\ c.buf = v /\ c.num_field_loc = n + 1 /\ c.pool = b.pool
  <2>1. n + 1 \in Nat
    BY <1>3
  <2> DEFINE m == n + 1
  <2>2. c = [b EXCEPT !.buf = v, !.num_field_loc = m, !.max_voffset = max]
    BY <1>2
  <2> HIDE DEF m, n
  <2>3. m \in Nat
    BY <2>1 DEF m
  <2>4. IsBuilder(c) /\ c.buf = v /\ c.num_field_loc = m /\ c.pool = b.pool
    BY <1>4, <1>5, <1>6, <2>2, <2>3 DEF IsBuilder
  <2> QED
    BY <2>4 DEF m
<1>8. Extended(b.buf, v)
  <2>1. size(b.buf) \in Nat
    BY <1>3, VectorTypes
  <2> QED
    BY <1>4, <2>1 DEF Extended
<1>9. PadOK(v, n + 1)
  <2> DEFINE old == b.buf.scratch
  <2>1. FIELD_LOC = 8 /\ old \in Nat /\ n * 8 <= old /\ v.scratch = old + 8
    BY <1>3, <1>4 DEF FIELD_LOC, PadOK
  <2>2. (n + 1) * 8 <= v.scratch /\ v.scratch - (n + 1) * 8 = old - n * 8
    BY <1>3, <2>1
  <2>3. ASSUME NEW i \in 1 .. old - n * 8
        PROVE  v.buf[i] \in Byte
    <3>1. i \in 1 .. old
      BY <1>3, <2>1
    <3> QED
      BY <1>4, <2>1, <3>1 DEF PadOK
  <2>4. ASSUME NEW i \in 1 .. n + 1, NEW k \in 1 .. 6
        PROVE  v.buf[v.scratch - i * 8 + k] \in Byte
    <3>1. CASE i = 1
      <4>1. v.scratch - i * 8 + k = old + k /\ k \in 1 .. 8
        BY <2>1, <3>1
      <4> QED
        BY <1>1, <1>4, <4>1
    <3>2. CASE i # 1
      <4> DEFINE j == i - 1
      <4>1. j \in 1 .. n /\ i = j + 1
        BY <1>3, <3>2
      <4> HIDE DEF j
      <4>2. v.scratch - i * 8 + k = old - j * 8 + k /\ old - j * 8 + k \in 1 .. old
        BY <1>3, <2>1, <4>1
      <4>3. b.buf.buf[old - j * 8 + k] \in Byte
        BY <2>1, <4>1 DEF PadOK
      <4> QED
        BY <1>4, <4>2, <4>3
    <3> QED
      BY <3>1, <3>2
  <2> QED
    BY <2>1, <2>2, <2>3, <2>4 DEF PadOK
<1> QED
  BY <1>7, <1>8, <1>9 DEF Grew, c

LEMMA GrewTransitive ==
  ASSUME NEW b, IsBuilder(b), NEW n, NEW c, Grew(b, c, n), NEW m, NEW d, Grew(c, d, m)
  PROVE  Grew(b, d, m)
<1>1. Extended(b.buf, d.buf)
  BY ExtendedTransitive DEF Grew, IsBuilder
<1> QED
  BY <1>1 DEF Grew

LEMMA TrackedGrew ==
  ASSUME NEW b, IsBuilder(b), PadOK(b.buf, b.num_field_loc), NEW c, Wrote(b, c),
         NEW voffset \in Nat
  PROVE  Grew(b, TrackField(c, voffset, GetSize(c)), b.num_field_loc + 1)
<1>1. Grew(b, c, b.num_field_loc)
  BY WroteGrew
<1>2. IsBuilder(c) /\ c.num_field_loc = b.num_field_loc /\ PadOK(c.buf, c.num_field_loc)
  BY <1>1 DEF Grew
<1>3. GetSize(c) \in Int
  BY <1>2, BuilderSize
<1>4. Grew(c, TrackField(c, voffset, GetSize(c)), b.num_field_loc + 1)
  BY <1>2, <1>3, TrackFieldGrew
<1> QED
  BY <1>1, <1>4, GrewTransitive

LEMMA AddElementGrew ==
  ASSUME NEW b, IsBuilder(b), PadOK(b.buf, b.num_field_loc), NEW voffset \in Nat,
         NEW bytes \in Seq(Byte) \ {<< >>}, NEW default
  PROVE  \E n \in Nat : Grew(b, AddElement(b, voffset, bytes, default), n)
<1>1. b.num_field_loc \in Nat /\ b.num_field_loc + 1 \in Nat
  BY DEF IsBuilder
<1>2. Grew(b, b, b.num_field_loc)
  BY WroteItself, WroteGrew
<1>3. Grew(b, TrackField(PushElement(b, bytes), voffset, GetSize(PushElement(b, bytes))), b.num_field_loc + 1)
  BY PushElementWrites, TrackedGrew
<1> QED
  BY <1>1, <1>2, <1>3 DEF AddElement

LEMMA AddOffsetGrew ==
  ASSUME NEW b, IsBuilder(b), PadOK(b.buf, b.num_field_loc), NEW voffset \in Nat, NEW off \in Int
  PROVE  \E n \in Nat : Grew(b, AddOffset(b, voffset, off), n)
<1>1. b.num_field_loc + 1 \in Nat
  BY DEF IsBuilder
<1>2. Grew(b, TrackField(PushOffset(b, off), voffset, GetSize(PushOffset(b, off))), b.num_field_loc + 1)
  BY PushOffsetWrites, TrackedGrew
<1> QED
  BY <1>1, <1>2 DEF AddOffset

LEMMA ScratchNumber ==
  ASSUME NEW v, IsVector(v), NEW at \in Nat, at + 4 <= v.scratch,
         \A k \in 1 .. 4 : v.buf[at + k] \in Byte
  PROVE  Signed32(ScratchAt(v, at, UOFFSET)) \in Int
<1> DEFINE s == ScratchAt(v, at, UOFFSET)
<1>1. v.buf \in Seq(Cell) /\ at + 4 <= Len(v.buf) /\ Len(v.buf) \in Nat
  BY VectorTypes DEF IsVector
<1>2. s = SubSeq(v.buf, at + 1, at + 4)
  BY DEF ScratchAt, UOFFSET
<1> HIDE DEF s
<1>3. \A k \in 1 .. 4 : s[k] = v.buf[at + k]
  <2>1. \A k \in 1 .. 4 : s[k] = v.buf[(at + 1) + k - 1] /\ (at + 1) + k - 1 = at + k
    BY <1>1, <1>2
  <2> QED
    BY <2>1
<1>4. s[1] \in Byte /\ s[2] \in Byte /\ s[3] \in Byte /\ s[4] \in Byte
  BY <1>3
<1>5. Signed32(s) \in Int
  <2> DEFINE d == IF 2 * s[4] < 256 THEN s[4] ELSE s[4] - 256
  <2>1. s[1] \in Int /\ s[2] \in Int /\ s[3] \in Int /\ s[4] \in Int
    <3>1. \A x \in Byte : x \in Int
      BY DEF Byte
    <3> QED
      BY <1>4, <3>1
  <2>2. d \in Int
    BY <2>1
  <2>3. Place[2] = 256 /\ Place[3] = 65536 /\ Place[4] = 16777216
    BY DEF Place
  <2>4. Signed32(s) = s[1] + Place[2] * s[2] + Place[3] * s[3] + Place[4] * d
    BY DEF Signed32, BYTE
  <2> HIDE DEF d
  <2> QED
    BY <2>1, <2>2, <2>3, <2>4
<1> QED
  BY <1>5 DEF s

LEMMA FieldLocsType ==
  ASSUME NEW b, IsBuilder(b), PadOK(b.buf, b.num_field_loc)
  PROVE  \A f \in FieldLocs(b) : f.off \in Int
<1> DEFINE v == b.buf
           n == b.num_field_loc
           place(i) == v.scratch - i * FIELD_LOC
           loc(i) == [off |-> Signed32(ScratchAt(v, place(i), UOFFSET)),
                      id |-> Unsigned16(ScratchAt(v, place(i) + UOFFSET, VOFFSET))]
<1>1. FieldLocs(b) = {loc(i) : i \in 1 .. n}
  BY DEF FieldLocs
<1>2. /\ IsVector(v) /\ v.scratch \in Nat /\ n \in Nat /\ FIELD_LOC = 8
      /\ n * 8 <= v.scratch
      /\ \A i \in 1 .. n : \A k \in 1 .. 6 : v.buf[v.scratch - i * 8 + k] \in Byte
  BY BuilderSize, VectorTypes DEF IsBuilder, PadOK, FIELD_LOC
<1>3. ASSUME NEW i \in 1 .. n
      PROVE  Signed32(ScratchAt(v, place(i), UOFFSET)) \in Int
  <2> DEFINE at == v.scratch - i * 8
  <2>1. at \in Nat /\ at + 4 <= v.scratch /\ \A k \in 1 .. 4 : v.buf[at + k] \in Byte
    BY <1>2
  <2>2. place(i) = at
    BY <1>2
  <2> HIDE DEF at, v
  <2>3. Signed32(ScratchAt(v, at, UOFFSET)) \in Int
    BY <1>2, <2>1, ScratchNumber
  <2> QED
    BY <2>2, <2>3
<1> HIDE DEF v, n, place
<1>4. \A i \in 1 .. n : loc(i).off \in Int
  BY <1>3
<1> QED
  BY <1>1, <1>4

LEMMA VTableType ==
  ASSUME NEW fields, \A f \in fields : f.off \in Int,
         NEW vtsize \in Nat, NEW loc \in Int, NEW start \in Int
  PROVE  /\ VTable(fields, vtsize, loc, start) \in Seq(Byte)
         /\ Len(VTable(fields, vtsize, loc, start)) = vtsize
<1> DEFINE slot(at) == CASE at = 0 -> vtsize
                         [] at = VOFFSET -> loc - start
                         [] at > VOFFSET /\ \E f \in fields : f.id = at
                              -> loc - (CHOOSE f \in fields : f.id = at).off
                         [] OTHER -> 0
           vt == [i \in 1 .. vtsize |->
                    Scalar(slot(((i - 1) \div VOFFSET) * VOFFSET), VOFFSET)[((i - 1) % VOFFSET) + 1]]
<1>1. VTable(fields, vtsize, loc, start) = vt
  BY DEF VTable
<1>2. ASSUME NEW at \in Int
      PROVE  slot(at) \in Int
  <2>1. CASE at = 0
    <3>1. slot(at) = vtsize
      BY <2>1 DEF VOFFSET
    <3> QED
      BY <3>1
  <2>2. CASE at = VOFFSET
    <3>1. slot(at) = loc - start
      BY <2>2 DEF VOFFSET
    <3> QED
      BY <3>1
  <2>3. CASE at > VOFFSET /\ \E f \in fields : f.id = at
    <3> DEFINE g == CHOOSE f \in fields : f.id = at
    <3>1. g \in fields
      BY <2>3
    <3>2. slot(at) = loc - g.off
      BY <2>3 DEF VOFFSET
    <3> HIDE DEF g, slot
    <3>3. g.off \in Int
      BY <3>1
    <3> QED
      BY <3>2, <3>3
  <2>4. CASE at # 0 /\ at # VOFFSET /\ ~(at > VOFFSET /\ \E f \in fields : f.id = at)
    <3>1. slot(at) = 0
      BY <2>4
    <3> QED
      BY <3>1
  <2> QED
    BY <2>1, <2>2, <2>3, <2>4
<1> HIDE DEF slot
<1>3. vt \in [1 .. vtsize -> Byte]
  <2> SUFFICES ASSUME NEW i \in 1 .. vtsize
               PROVE  Scalar(slot(((i - 1) \div VOFFSET) * VOFFSET), VOFFSET)[((i - 1) % VOFFSET) + 1] \in Byte
    OBVIOUS
  <2> DEFINE at == ((i - 1) \div VOFFSET) * VOFFSET
             k == ((i - 1) % VOFFSET) + 1
             s == Scalar(slot(at), VOFFSET)
  <2>1. at \in Int /\ k \in 1 .. 2
    BY DEF VOFFSET
  <2> HIDE DEF at, k
  <2>2. slot(at) \in Int /\ VOFFSET \in Nat /\ VOFFSET = 2
    BY <1>2, <2>1 DEF VOFFSET
  <2>3. s \in Seq(Byte) /\ Len(s) = 2
    BY <2>2, ScalarType
  <2> HIDE DEF s
  <2>4. s[k] \in Byte
    BY <2>1, <2>3
  <2> QED
    BY <2>4 DEF s, at, k
<1> HIDE DEF vt
<1> QED
  BY <1>1, <1>3, FunctionIsSeq

LEMMA ClearOffsetsGives ==
  ASSUME NEW b, IsBuilder(b), PadOK(b.buf, b.num_field_loc)
  PROVE  /\ IsBuilder(ClearOffsets(b)) /\ ClearOffsets(b).num_field_loc = 0
         /\ ClearOffsets(b).buf = scratch_pop(b.buf, b.num_field_loc * FIELD_LOC)
         /\ ClearOffsets(b).pool = b.pool
         /\ PadOK(ClearOffsets(b).buf, 0)
         /\ Extended(b.buf, ClearOffsets(b).buf) /\ size(ClearOffsets(b).buf) = size(b.buf)
<1> DEFINE n == b.num_field_loc * FIELD_LOC
           v == scratch_pop(b.buf, n)
           c == ClearOffsets(b)
<1>1. n \in Nat /\ n <= b.buf.scratch /\ IsVector(b.buf) /\ b.buf.scratch \in Nat /\ size(b.buf) \in Nat
  BY BuilderSize, VectorTypes DEF IsBuilder, FIELD_LOC, PadOK
<1>2. c = [b EXCEPT !.buf = v, !.num_field_loc = 0, !.max_voffset = 0]
  BY DEF ClearOffsets
<1>3. IsVector(v) /\ size(v) = size(b.buf) /\ v.scratch = b.buf.scratch - n /\ v.buf = b.buf.buf
  <2> HIDE DEF n
  <2> QED
    BY <1>1, ScratchPopGives
<1>4. PadOK(v, 0)
  <2>1. \A i \in 1 .. b.buf.scratch - n : b.buf.buf[i] \in Byte
    BY DEF PadOK
  <2> HIDE DEF n, v
  <2>2. 0 * FIELD_LOC = 0 /\ v.scratch \in Nat
    BY <1>1, <1>3 DEF FIELD_LOC
  <2>3. v.scratch - 0 * FIELD_LOC = b.buf.scratch - n
    BY <1>3, <2>2
  <2> QED
    BY <1>3, <2>1, <2>2, <2>3 DEF PadOK
<1> HIDE DEF v, c, n
<1>5. v \in [buf : Seq(Cell), cur : Nat, scratch : Nat]
  BY <1>3 DEF IsVector
<1>6. IsBuilder(c) /\ c.buf = v /\ c.num_field_loc = 0 /\ c.pool = b.pool
  BY <1>2, <1>3, <1>5 DEF IsBuilder
<1>7. Extended(b.buf, v)
  <2>1. \A k : FromEnd(v, k) = FromEnd(b.buf, k)
    BY <1>3 DEF FromEnd
  <2> QED
    BY <1>1, <1>3, <2>1 DEF Extended, Kept
<1> QED
  BY <1>3, <1>4, <1>6, <1>7 DEF c, v, n

\* EndTable goes back to the beginning of the table, which is 4 bytes that do not
\* belong to what was there before.
LEMMA PutBackExtends ==
  ASSUME NEW u, IsVector(u), NEW v, Extended(u, v), NEW loc \in Nat,
         NEW bytes \in Seq(Byte), size(u) + Len(bytes) <= loc, loc <= size(v)
  PROVE  Extended(u, PutAt(v, loc, bytes)) /\ SamePad(v, PutAt(v, loc, bytes))
<1> DEFINE n == Len(v.buf)
           at == n - loc
           w == PutAt(v, loc, bytes)
<1>1. /\ IsVector(v) /\ n \in Nat /\ v.cur \in Nat /\ v.scratch \in Nat /\ size(u) \in Nat
      /\ size(v) = n - v.cur /\ v.scratch <= v.cur /\ v.cur <= n
      /\ size(u) <= size(v)
  BY VectorTypes DEF Extended, IsVector, Kept
<1>2. at \in Nat /\ at + Len(bytes) <= n /\ bytes \in Seq(Cell) /\ Len(bytes) \in Nat
  BY <1>1, BytesAreCells
<1>3. w = Put(v, at, bytes)
  BY DEF PutAt
<1> HIDE DEF at, w
<1>4. /\ IsVector(w) /\ Len(w.buf) = n /\ w.cur = v.cur /\ w.scratch = v.scratch
      /\ \A i \in 1 .. n : i \in at + 1 .. at + Len(bytes) => w.buf[i] = bytes[i - at]
      /\ \A i \in 1 .. n : i \notin at + 1 .. at + Len(bytes) => w.buf[i] = v.buf[i]
  <2>1. /\ IsVector(v) /\ bytes \in Seq(Cell) /\ at \in Nat /\ at + Len(bytes) <= Len(v.buf)
        /\ w = Put(v, at, bytes)
    BY <1>1, <1>2, <1>3
  <2> QED
    BY <2>1, PutGives
<1>5. size(w) = size(v)
  BY <1>1, <1>4 DEF size
<1> HIDE DEF n
<1>6. at = n - loc
  BY DEF at, n
<1>7. ASSUME NEW k \in 1 .. size(v), k <= loc - Len(bytes) \/ k > loc
      PROVE  FromEnd(w, k) = FromEnd(v, k)
  <2>1. n - k + 1 \in 1 .. n /\ n - k + 1 \notin at + 1 .. at + Len(bytes)
    <3>1. n \in Nat /\ size(v) \in Nat /\ size(v) <= n /\ at = n - loc /\ Len(bytes) \in Nat
      BY <1>1, <1>2, <1>6
    <3> QED
      BY <3>1, <1>7
  <2> QED
    BY <1>4, <2>1 DEF FromEnd, n
<1>8. ASSUME NEW k \in 1 .. size(v), ~(k <= loc - Len(bytes) \/ k > loc)
      PROVE  FromEnd(w, k) \in Byte
  <2>1. n - k + 1 \in 1 .. n /\ n - k + 1 \in at + 1 .. at + Len(bytes) /\ (n - k + 1) - at \in 1 .. Len(bytes)
    <3>1. n \in Nat /\ size(v) \in Nat /\ size(v) <= n /\ at = n - loc /\ Len(bytes) \in Nat
      BY <1>1, <1>2, <1>6
    <3> QED
      BY <3>1, <1>8
  <2>2. w.buf[n - k + 1] = bytes[(n - k + 1) - at]
    BY <1>4, <2>1
  <2>3. \A i \in 1 .. Len(bytes) : bytes[i] \in Byte
    BY ElementType
  <2> QED
    BY <1>4, <2>1, <2>2, <2>3 DEF FromEnd
<1>9. Kept(u, w)
  <2>1. ASSUME NEW k \in 1 .. size(u)
        PROVE  FromEnd(w, k) = FromEnd(u, k)
    <3>1. k \in 1 .. size(v) /\ k <= loc - Len(bytes)
      BY <1>1
    <3> QED
      BY <1>7, <3>1 DEF Extended, Kept
  <2> QED
    BY <1>1, <1>5, <2>1 DEF Kept
<1>10. ASSUME NEW k \in size(u) + 1 .. size(w)
       PROVE  FromEnd(w, k) \in Byte
  <2>1. k \in 1 .. size(v) /\ k \in size(u) + 1 .. size(v)
    BY <1>1, <1>5
  <2>2. FromEnd(v, k) \in Byte
    BY <2>1 DEF Extended
  <2> QED
    BY <1>7, <1>8, <2>1, <2>2
<1>11. SamePad(v, w)
  <2>1. ASSUME NEW i \in 1 .. v.scratch
        PROVE  w.buf[i] = v.buf[i]
    <3>1. i \in 1 .. n /\ i \notin at + 1 .. at + Len(bytes)
      BY <1>1, <1>6
    <3> QED
      BY <1>4, <3>1
  <2> QED
    BY <1>4, <2>1 DEF SamePad
<1> QED
  BY <1>4, <1>9, <1>10, <1>11 DEF Extended, w

LEMMA KnownVTablesType ==
  ASSUME NEW v, IsVector(v), PadOK(v, 0)
  PROVE  \A k \in DOMAIN KnownVTables(v) : KnownVTables(v)[k] \in Int
<1>1. v.scratch \in Nat /\ UOFFSET = 4 /\ \A i \in 1 .. v.scratch : v.buf[i] \in Byte
  <2>1. v.scratch \in Nat
    BY VectorTypes
  <2>2. v.scratch - 0 * FIELD_LOC = v.scratch
    BY <2>1 DEF FIELD_LOC
  <2> QED
    BY <2>1, <2>2 DEF PadOK, UOFFSET
<1>2. ASSUME NEW k \in 1 .. v.scratch \div 4
      PROVE  Signed32(ScratchAt(v, (k - 1) * 4, UOFFSET)) \in Int
  <2> DEFINE at == (k - 1) * 4
  <2>1. at \in Nat /\ at + 4 <= v.scratch
    BY <1>1
  <2>2. \A j \in 1 .. 4 : v.buf[at + j] \in Byte
    <3> HIDE DEF at
    <3>1. \A j \in 1 .. 4 : at + j \in 1 .. v.scratch
      BY <1>1, <2>1
    <3> QED
      BY <1>1, <3>1
  <2> HIDE DEF at
  <2> QED
    BY <2>1, <2>2, ScratchNumber DEF at
<1> QED
  BY <1>1, <1>2 DEF KnownVTables

\* One more vtable is remembered.
LEMMA RememberedBytes ==
  ASSUME NEW v, IsVector(v), PadOK(v, 0), NEW bytes \in Seq(Byte),
         NEW w, w = scratch_push_small(v, bytes)
  PROVE  Extended(v, w) /\ PadOK(w, 0) /\ size(w) = size(v)
<1>1. bytes \in Seq(Cell) /\ Len(bytes) \in Nat
  BY BytesAreCells
<1>3. /\ IsVector(w) /\ size(w) = size(v) /\ Kept(v, w)
      /\ w.scratch = v.scratch + Len(bytes)
      /\ \A i \in 1 .. v.scratch : w.buf[i] = v.buf[i]
      /\ \A i \in 1 .. Len(bytes) : w.buf[v.scratch + i] = bytes[i]
  BY <1>1, ScratchPushGives
<1>4. v.scratch \in Nat /\ size(v) \in Nat /\ 0 * FIELD_LOC = 0
  BY VectorTypes DEF FIELD_LOC
<1>5. \A i \in 1 .. v.scratch : v.buf[i] \in Byte
  <2>1. v.scratch - 0 * FIELD_LOC = v.scratch
    BY <1>4
  <2> QED
    BY <2>1 DEF PadOK
<1>6. ASSUME NEW i \in 1 .. w.scratch
      PROVE  w.buf[i] \in Byte
  <2>1. CASE i <= v.scratch
    <3>1. i \in 1 .. v.scratch
      BY <1>3, <1>4, <2>1
    <3> QED
      BY <1>3, <1>5, <3>1
  <2>2. CASE i > v.scratch
    <3> DEFINE j == i - v.scratch
    <3>1. j \in 1 .. Len(bytes) /\ v.scratch + j = i
      BY <1>1, <1>3, <1>4, <2>2
    <3>2. bytes[j] \in Byte
      BY <1>1, <3>1, ElementType
    <3> QED
      BY <1>3, <3>1, <3>2
  <2> QED
    BY <1>1, <1>3, <1>4, <2>1, <2>2
<1>7. PadOK(w, 0)
  <2>1. w.scratch - 0 * FIELD_LOC = w.scratch /\ 0 * FIELD_LOC <= w.scratch
    BY <1>1, <1>3, <1>4
  <2> QED
    BY <1>6, <2>1 DEF PadOK
<1>8. \A k \in size(v) + 1 .. size(w) : FromEnd(w, k) \in Byte
  BY <1>3, <1>4
<1> QED
  BY <1>3, <1>7, <1>8 DEF Extended

LEMMA RememberedExtends ==
  ASSUME NEW v, IsVector(v), PadOK(v, 0), NEW off \in Int,
         NEW w, w = scratch_push_small(v, Scalar(off, UOFFSET))
  PROVE  Extended(v, w) /\ PadOK(w, 0) /\ size(w) = size(v)
BY ScalarIsElement, RememberedBytes

LEMMA LeastIndex ==
  ASSUME NEW S \in SUBSET Nat, S # {}
  PROVE  \E least \in S : \A n \in S : least <= n
<1>1. PICK least \in S : \A n \in S : ~(<< n, least >> \in OpToRel(<, Nat))
  BY WFMin, NatLessThanWellFounded, Zenon
<1>2. OpToRel(<, Nat) = {pair \in Nat \X Nat : pair[1] < pair[2]}
  BY DEF OpToRel
<1>3. \A n \in S : ~(n < least)
  BY <1>1, <1>2
<1> QED
  BY <1>3

\* The vtable a table refers to: the first of those that are the same, or the new one.
LEMMA VTableUsed ==
  ASSUME NEW v, IsVector(v), PadOK(v, 0), NEW vtable, SameVTable(v, vtable) # {}
  PROVE  KnownVTables(v)[CHOOSE k \in SameVTable(v, vtable) :
                           \A j \in SameVTable(v, vtable) : k <= j] \in Int
<1> DEFINE same == SameVTable(v, vtable)
           first == CHOOSE k \in same : \A j \in same : k <= j
<1>1. v.scratch \div UOFFSET \in Int
  BY VectorTypes DEF UOFFSET
<1>2. same \subseteq DOMAIN KnownVTables(v) /\ DOMAIN KnownVTables(v) \subseteq Nat
  BY <1>1 DEF SameVTable, KnownVTables
<1>3. \E k \in same : \A j \in same : k <= j
  <2> HIDE DEF same
  <2>1. same \in SUBSET Nat /\ same # {}
    BY <1>2 DEF same
  <2> QED
    BY <2>1, LeastIndex
<1> HIDE DEF same
<1>4. first \in same
  BY <1>3
<1> HIDE DEF first
<1>5. KnownVTables(v)[first] \in Int
  BY <1>2, <1>4, KnownVTablesType
<1> QED
  BY <1>5 DEF first, same

\* EndTable keeps what was there before the table, and leaves only bytes.
LEMMA EndTableGrew ==
  ASSUME NEW b, IsBuilder(b), PadOK(b.buf, b.num_field_loc), NEW start \in Int
  PROVE  Grew(b, EndTable(b, start), 0) /\ TableOffset(b) \in Nat
<1> DEFINE placed == PushElement(b, Scalar(0, UOFFSET))
           loc == GetSize(placed)
           vtsize == Biggest(b.max_voffset + VOFFSET, FieldIndexToOffset(1))
           vtable == VTable(FieldLocs(b), vtsize, loc, start)
           wrote == PushBytes(placed, vtable)
           pushed == ClearOffsets(wrote)
           same == SameVTable(pushed.buf, vtable)
           vt_use == IF same = {}
                     THEN GetSize(pushed)
                     ELSE KnownVTables(pushed.buf)[CHOOSE k \in same : \A j \in same : k <= j]
           kept == IF same = {}
                   THEN scratch_push_small(pushed.buf, Scalar(vt_use, UOFFSET))
                   ELSE pop(pushed.buf, size(pushed.buf) - loc)
           last == PutAt(kept, loc, Scalar(vt_use - loc, UOFFSET))
<1>1. /\ Wrote(b, placed) /\ loc \in Nat /\ GetSize(b) + 4 <= loc /\ GetSize(b) \in Nat
      /\ IsVector(b.buf) /\ IsVector(placed.buf) /\ IsBuilder(placed) /\ size(placed.buf) = loc
      /\ size(b.buf) = GetSize(b)
  <2> DEFINE zero == Scalar(0, UOFFSET)
  <2>1. zero \in Seq(Byte) \ {<< >>} /\ Len(zero) = 4
    BY ScalarIsElement
  <2> HIDE DEF zero
  <2>2. Wrote(b, PushElement(b, zero))
    BY <2>1, PushElementWrites
  <2>3. GetSize(PushElement(b, zero)) = GetSize(b) + PaddingBytes(GetSize(b), Len(zero)) + Len(zero)
    BY <2>1, PushElementWrites
  <2>4. GetSize(b) \in Nat /\ PaddingBytes(GetSize(b), 4) \in Nat
    BY BuilderSize, PaddingType
  <2>5. IsBuilder(PushElement(b, zero))
    BY <2>2 DEF Wrote
  <2>6. GetSize(PushElement(b, zero)) \in Nat /\ IsVector(PushElement(b, zero).buf)
    BY <2>5, BuilderSize
  <2>7. GetSize(b) + 4 <= GetSize(PushElement(b, zero))
    BY <2>1, <2>3, <2>4
  <2> QED
    BY <2>2, <2>4, <2>5, <2>6, <2>7, BuilderSize DEF zero, GetSize
<1> HIDE DEF placed
<1>2. vtsize \in Nat
  BY DEF Biggest, VOFFSET, FieldIndexToOffset, IsBuilder
<1>3. vtable \in Seq(Byte)
  <2> HIDE DEF loc, vtsize
  <2>1. \A f \in FieldLocs(b) : f.off \in Int
    BY FieldLocsType
  <2>2. loc \in Int
    BY <1>1
  <2> DEFINE fields == FieldLocs(b)
  <2> HIDE DEF fields
  <2>3. VTable(fields, vtsize, loc, start) \in Seq(Byte)
    BY <1>2, <2>1, <2>2, VTableType DEF fields
  <2> QED
    BY <2>3 DEF fields
<1> HIDE DEF vtable
<1>4. Wrote(placed, wrote) /\ IsBuilder(wrote) /\ Above(placed.buf, wrote.buf) /\ IsVector(wrote.buf)
  BY <1>1, <1>3, PushBytesWrites, BuilderSize DEF Wrote
<1> HIDE DEF wrote
<1> DEFINE n == b.num_field_loc * FIELD_LOC
<1>5. /\ PadOK(placed.buf, placed.num_field_loc) /\ PadOK(wrote.buf, wrote.num_field_loc)
      /\ placed.num_field_loc = b.num_field_loc /\ wrote.num_field_loc = b.num_field_loc
      /\ placed.pool = b.pool /\ wrote.pool = b.pool
      /\ Extended(b.buf, placed.buf) /\ Extended(b.buf, wrote.buf)
  <2>1. Grew(b, placed, b.num_field_loc)
    BY <1>1, WroteGrew
  <2>2. Wrote(b, wrote)
    BY <1>1, <1>4, WroteTransitive
  <2>3. Grew(b, wrote, b.num_field_loc)
    BY <2>2, WroteGrew
  <2> QED
    BY <2>1, <2>3 DEF Grew
<1>6. /\ IsBuilder(pushed) /\ pushed.num_field_loc = 0 /\ pushed.pool = b.pool
      /\ pushed.buf = scratch_pop(wrote.buf, n)
      /\ PadOK(pushed.buf, 0) /\ Extended(wrote.buf, pushed.buf) /\ size(pushed.buf) = size(wrote.buf)
  BY <1>4, <1>5, ClearOffsetsGives
<1> HIDE DEF pushed
<1>7. IsVector(pushed.buf) /\ Extended(b.buf, pushed.buf) /\ GetSize(pushed) \in Nat
      /\ GetSize(pushed) = size(pushed.buf) /\ loc <= size(pushed.buf)
  <2>1. Extended(b.buf, pushed.buf)
    BY <1>1, <1>5, <1>6, ExtendedTransitive
  <2>2. loc <= size(wrote.buf)
    BY <1>1, <1>4 DEF Above, Kept
  <2> QED
    BY <1>6, <2>1, <2>2, BuilderSize
<1>8. vt_use \in Int
  <2>1. CASE same = {}
    BY <1>7, <2>1
  <2>2. CASE same # {}
    BY <1>6, <1>7, <2>2, VTableUsed
  <2> QED
    BY <2>1, <2>2
<1> HIDE DEF vt_use
<1>9. Extended(b.buf, kept) /\ PadOK(kept, 0) /\ loc <= size(kept) /\ IsVector(kept)
  <2>1. CASE same = {}
    <3> DEFINE w == scratch_push_small(pushed.buf, Scalar(vt_use, UOFFSET))
    <3>1. kept = w
      BY <2>1
    <3>2. Extended(pushed.buf, w) /\ PadOK(w, 0) /\ size(w) = size(pushed.buf)
      BY <1>6, <1>7, <1>8, RememberedExtends
    <3> HIDE DEF w, kept
    <3>3. Extended(b.buf, w)
      BY <1>1, <1>7, <3>2, ExtendedTransitive
    <3> QED
      BY <1>7, <3>1, <3>2, <3>3 DEF Extended
  <2>2. CASE same # {}
    <3> DEFINE q == pushed.buf
               w == pop(q, size(q) - loc)
               p == scratch_pop(placed.buf, n)
    <3>1. kept = w
      BY <2>2
    <3>2. ClearOffsets(placed).buf = p /\ IsBuilder(ClearOffsets(placed)) /\ PadOK(p, 0)
          /\ Extended(placed.buf, p) /\ size(p) = loc
      <4> HIDE DEF loc
      <4>1. n = placed.num_field_loc * FIELD_LOC
        BY <1>5
      <4>2. PadOK(placed.buf, placed.num_field_loc)
        BY <1>5
      <4>3. IsBuilder(placed) /\ size(placed.buf) = loc
        BY <1>1
      <4>4. /\ IsBuilder(ClearOffsets(placed))
            /\ ClearOffsets(placed).buf = scratch_pop(placed.buf, placed.num_field_loc * FIELD_LOC)
            /\ PadOK(ClearOffsets(placed).buf, 0)
            /\ Extended(placed.buf, ClearOffsets(placed).buf)
            /\ size(ClearOffsets(placed).buf) = size(placed.buf)
        BY <4>2, <4>3, ClearOffsetsGives
      <4> QED
        BY <4>1, <4>3, <4>4
    <3>3. n \in Nat /\ n <= placed.buf.scratch
      BY <1>1, <1>5 DEF PadOK, FIELD_LOC, IsBuilder
    <3> HIDE DEF n, p, q, kept, loc
    <3>4. Above(p, q) /\ IsVector(p)
      <4>1. Above(scratch_pop(placed.buf, n), scratch_pop(wrote.buf, n))
        BY <1>1, <1>4, <3>3, AbovePopped
      <4> QED
        BY <1>6, <3>2, <4>1, BuilderSize DEF p, q
    <3>5. Above(p, w) /\ size(w) = loc
      <4>1. Above(p, pop(q, size(q) - size(p))) /\ size(pop(q, size(q) - size(p))) = size(p)
        BY <3>4, PopGives
      <4> QED
        BY <3>2, <4>1
    <3> HIDE DEF w
    <3>6. SamePad(p, w) /\ IsVector(w)
      BY <3>5 DEF Above
    <3>7. PadOK(w, 0)
      BY <3>2, <3>4, <3>6, PadStays
    <3>8. Extended(p, w)
      BY <3>5, AboveIsExtended
    <3>9. Extended(placed.buf, w)
      BY <1>1, <3>2, <3>8, ExtendedTransitive
    <3>10. Extended(b.buf, w)
      BY <1>1, <1>5, <3>9, ExtendedTransitive
    <3> QED
      BY <1>1, <3>1, <3>5, <3>6, <3>7, <3>10
  <2> QED
    BY <2>1, <2>2
<1> HIDE DEF kept
<1>10. Extended(b.buf, last) /\ PadOK(last, 0) /\ IsVector(last)
  <2> DEFINE bytes == Scalar(vt_use - loc, UOFFSET)
             u == b.buf
  <2>1. vt_use - loc \in Int
    BY <1>1, <1>8
  <2>2. bytes \in Seq(Byte) /\ Len(bytes) = 4
    BY <2>1, ScalarIsElement
  <2>3. IsVector(u) /\ Extended(u, kept) /\ loc \in Nat /\ size(u) + 4 <= loc /\ loc <= size(kept)
    BY <1>1, <1>9
  <2> HIDE DEF bytes, u, loc
  <2>8. size(u) + Len(bytes) <= loc
    BY <2>2, <2>3
  <2>4. Extended(u, PutAt(kept, loc, bytes)) /\ SamePad(kept, PutAt(kept, loc, bytes))
    BY <2>2, <2>3, <2>8, PutBackExtends
  <2>5. PutAt(kept, loc, bytes) = last
    BY DEF bytes
  <2> HIDE DEF last
  <2>6. Extended(u, last) /\ SamePad(kept, last)
    BY <2>4, <2>5
  <2>7. PadOK(last, 0)
    BY <1>9, <2>6, PadStays
  <2> QED
    BY <2>6, <2>7 DEF u, Extended
<1> DEFINE c == [pushed EXCEPT !.buf = last, !.nested = FALSE]
<1>11. EndTable(b, start) = c
  BY DEF EndTable, last, kept, vt_use, pushed, wrote, vtable, placed
<1> HIDE DEF last
<1>12. last \in [buf : Seq(Cell), cur : Nat, scratch : Nat]
  BY <1>10 DEF IsVector
<1>13. IsBuilder(c) /\ c.buf = last /\ c.num_field_loc = 0 /\ c.pool = b.pool
  BY <1>6, <1>10, <1>12 DEF IsBuilder
<1> HIDE DEF c
<1>14. TableOffset(b) = loc
  BY DEF TableOffset, placed
<1> QED
  BY <1>1, <1>10, <1>11, <1>13, <1>14 DEF Grew

\* Finish gives up the scratch pad.
LEMMA FinishGrew ==
  ASSUME NEW b, IsBuilder(b), b.num_field_loc = 0, NEW root \in Int
  PROVE  Grew(b, Finish(b, root), 0) /\ Finish(b, root).max_voffset = b.max_voffset
<1> DEFINE u == b.buf
           v == clear_scratch(u)
           c == [b EXCEPT !.buf = v]
           aligned == PreAlign(c, UOFFSET, b.minalign)
           d == PushOffset(aligned, root)
           e == [d EXCEPT !.finished = TRUE]
<1>1. IsVector(u) /\ b.minalign \in Nat \ {0} /\ UOFFSET \in Nat /\ size(u) \in Nat
      /\ u.scratch \in Nat /\ u.cur \in Nat /\ Len(u.buf) \in Nat /\ u.buf \in Seq(Cell)
      /\ u.cur <= Len(u.buf)
  BY BuilderSize, VectorTypes DEF UOFFSET, IsVector
<1>2. /\ v = [buf |-> u.buf, cur |-> u.cur, scratch |-> 0]
  <2> HIDE DEF u
  <2>1. u = [buf |-> u.buf, cur |-> u.cur, scratch |-> u.scratch]
    BY <1>1, VectorTypes
  <2> QED
    BY <2>1 DEF clear_scratch
<1> HIDE DEF v
<1>3. IsVector(v) /\ Extended(u, v) /\ PadOK(v, 0) /\ v \in [buf : Seq(Cell), cur : Nat, scratch : Nat]
  <2> HIDE DEF u
  <2>1. v \in [buf : Seq(Cell), cur : Nat, scratch : Nat]
    BY <1>1, <1>2
  <2>2. IsVector(v)
    BY <1>1, <1>2, <2>1 DEF IsVector
  <2>3. size(v) = size(u) /\ \A k : FromEnd(v, k) = FromEnd(u, k)
    BY <1>2 DEF size, FromEnd
  <2>4. Extended(u, v)
    BY <1>1, <2>2, <2>3 DEF Extended, Kept
  <2>5. v.scratch = 0 /\ 0 * FIELD_LOC = 0 /\ 0 - 0 = 0
    BY <1>2 DEF FIELD_LOC
  <2>6. PadOK(v, 0)
    BY <2>5 DEF PadOK
  <2> QED
    BY <2>1, <2>2, <2>4, <2>6
<1>4. IsBuilder(c) /\ c.buf = v /\ c.num_field_loc = 0 /\ c.pool = b.pool
      /\ c.max_voffset = b.max_voffset
  BY <1>3 DEF IsBuilder
<1> HIDE DEF c
<1>5. Grew(b, c, 0)
  BY <1>3, <1>4 DEF Grew
<1>6. Wrote(c, aligned)
  BY <1>1, <1>4, PreAlignWrites
<1> HIDE DEF aligned
<1>7. IsBuilder(aligned)
  BY <1>6 DEF Wrote
<1>8. Wrote(aligned, d)
  BY <1>7, PushOffsetWrites
<1>9. Wrote(c, d)
  BY <1>4, <1>6, <1>8, WroteTransitive
<1>10. Grew(c, d, 0)
  <2>1. PadOK(c.buf, c.num_field_loc)
    BY <1>3, <1>4
  <2>2. Grew(c, d, c.num_field_loc)
    BY <1>4, <1>9, <2>1, WroteGrew
  <2> QED
    BY <1>4, <2>2
<1> HIDE DEF d
<1>11. Grew(b, d, 0)
  BY <1>5, <1>10, GrewTransitive
<1>12. IsBuilder(e) /\ e.buf = d.buf /\ e.num_field_loc = d.num_field_loc /\ e.pool = d.pool
       /\ e.max_voffset = d.max_voffset
  BY <1>11 DEF Grew, IsBuilder
<1>13. Finish(b, root) = e
  BY DEF Finish, aligned, c, d, v
<1>14. e.max_voffset = b.max_voffset
  BY <1>4, <1>9, <1>12 DEF Wrote
<1> QED
  BY <1>11, <1>12, <1>13, <1>14 DEF Grew

LEMMA ClearGives ==
  ASSUME NEW b, IsBuilder(b)
  PROVE  /\ IsBuilder(Clear(b)) /\ Clear(b).num_field_loc = 0 /\ Clear(b).pool = {}
         /\ PadOK(Clear(b).buf, 0) /\ size(Clear(b).buf) = 0
         /\ Clear(b).max_voffset = 0 /\ Clear(b).buf.scratch = 0
<1> DEFINE u == b.buf
           v == clear(u)
           c == Clear(b)
<1>1. Len(u.buf) \in Nat /\ u.buf \in [1 .. Len(u.buf) -> Cell]
  BY BuilderSize, VectorTypes
<1> HIDE DEF u
<1> DEFINE f == [i \in DOMAIN u.buf |-> Uninit]
<1>2. f \in Seq(Cell) /\ Len(f) = Len(u.buf)
  <2>1. f \in [1 .. Len(u.buf) -> Cell]
    BY <1>1 DEF Cell
  <2> HIDE DEF f
  <2> QED
    BY <1>1, <2>1, FunctionIsSeq
<1>3. v = [buf |-> f, cur |-> Len(u.buf), scratch |-> 0]
  BY DEF clear
<1> HIDE DEF f, v
<1>4. v \in [buf : Seq(Cell), cur : Nat, scratch : Nat]
  BY <1>1, <1>2, <1>3
<1>5. IsVector(v) /\ size(v) = 0 /\ v.scratch = 0
  BY <1>1, <1>2, <1>3, <1>4 DEF IsVector, size
<1>6. PadOK(v, 0)
  <2>1. 0 * FIELD_LOC = 0 /\ 0 - 0 = 0
    BY DEF FIELD_LOC
  <2> QED
    BY <1>5, <2>1 DEF PadOK
<1>7. c = [EmptyBuilder EXCEPT !.buf = v]
  BY DEF Clear, v, u
<1>8. IsBuilder(c) /\ c.buf = v /\ c.num_field_loc = 0 /\ c.pool = {} /\ c.max_voffset = 0
  <2>1. c = [buf |-> v, num_field_loc |-> 0, max_voffset |-> 0, nested |-> FALSE,
             finished |-> FALSE, minalign |-> 1, pool |-> {}]
    BY <1>7 DEF EmptyBuilder
  <2> HIDE DEF c
  <2> QED
    BY <1>4, <1>5, <2>1 DEF IsBuilder
<1> QED
  BY <1>5, <1>6, <1>8

-----------------------------------------------------------------------------
(***************************************************************************)
(* The invariant.                                                          *)
(***************************************************************************)
\* Every byte of the buffer has been written.
Clean(v) == \A k \in 1 .. size(v) : FromEnd(v, k) \in Byte

BuilderOK(b) ==
  /\ IsBuilder(b)
  /\ PadOK(b.buf, b.num_field_loc)
  /\ Clean(b.buf)
  /\ PoolOK(b)

\* An object that has been written to v.
ObjectOK(v, o) ==
  /\ o.off \in Nat
  /\ o.type = String => o.value \in Strings /\ IsString(v, o.off, o.value)

ObjectsOK(v, written_to) ==
  /\ \E S : written_to \in Seq(S)
  /\ \A i \in 1 .. Len(written_to) : ObjectOK(v, written_to[i])

BuildingOK ==
  \/ building = Nothing
  \/ /\ building = [kind |-> "vector", type |-> building.type, len |-> building.len,
                    elements |-> building.elements]
     /\ building.len \in Nat /\ written < MaxObjects
  \/ /\ building = [kind |-> "table", name |-> building.name, start |-> building.start,
                    added |-> building.added, values |-> building.values]
     /\ building.name \in DOMAIN Tables /\ building.start \in Nat /\ written < MaxObjects
  \/ building = [kind |-> "finished", root |-> building.root]

\* The scratch pad holds FieldLocs only while a table is built.
FieldsOK == building.kind # "table" => builder.num_field_loc = 0

CountOK ==
  /\ written \in Nat
  /\ Len(objects) <= written /\ written <= MaxObjects

BuildInv ==
  /\ BuilderOK(builder)
  /\ ObjectsOK(builder.buf, objects)
  /\ BuildingOK
  /\ FieldsOK
  /\ CountOK

LEMMA StringKept ==
  ASSUME NEW v, IsVector(v), NEW chars \in Seq(Byte), NEW off, IsString(v, off, chars),
         NEW w, Extended(v, w)
  PROVE  IsString(w, off, chars)
<1>1. Scalar(Len(chars), UOFFSET) \in Seq(Cell) /\ chars \in Seq(Cell)
  BY ScalarIsElement, BytesAreCells
<1>2. IsVector(w) /\ Kept(v, w)
  BY DEF Extended
<1> QED
  BY <1>1, <1>2, HeldStays DEF IsString

LEMMA CleanKept ==
  ASSUME NEW v, IsVector(v), Clean(v), NEW w, Extended(v, w)
  PROVE  Clean(w)
<1>1. size(v) \in Nat /\ size(w) \in Nat
  BY VectorTypes DEF Extended
<1>2. ASSUME NEW k \in 1 .. size(w)
      PROVE  FromEnd(w, k) \in Byte
  <2>1. CASE k <= size(v)
    <3>1. k \in 1 .. size(v)
      BY <1>1, <2>1
    <3> QED
      BY <3>1 DEF Extended, Kept, Clean
  <2>2. CASE k > size(v)
    <3>1. k \in size(v) + 1 .. size(w)
      BY <1>1, <2>2
    <3> QED
      BY <3>1 DEF Extended
  <2> QED
    BY <1>1, <2>1, <2>2
<1> QED
  BY <1>2 DEF Clean

LEMMA GrewOK ==
  ASSUME NEW b, BuilderOK(b), NEW n, NEW c, Grew(b, c, n)
  PROVE  BuilderOK(c) /\ c.num_field_loc = n
<1>1. IsBuilder(b) /\ IsVector(b.buf) /\ Extended(b.buf, c.buf) /\ c.pool = b.pool
  BY DEF BuilderOK, IsBuilder, Grew
<1>2. Clean(c.buf)
  BY <1>1, CleanKept DEF BuilderOK
<1>3. PoolOK(c)
  <2> SUFFICES ASSUME NEW off \in b.pool
               PROVE  \E chars \in Seq(Byte) : Short(Len(chars)) /\ IsString(c.buf, off, chars)
    BY <1>1 DEF PoolOK
  <2>1. PICK chars \in Seq(Byte) : Short(Len(chars)) /\ IsString(b.buf, off, chars)
    BY DEF BuilderOK, PoolOK
  <2>2. IsString(c.buf, off, chars)
    BY <1>1, <2>1, StringKept
  <2> QED
    BY <2>1, <2>2
<1> QED
  BY <1>2, <1>3 DEF BuilderOK, Grew

LEMMA StringsAreBytes ==
  \A chars \in Strings : chars \in Seq(Byte) /\ Short(Len(chars))
<1> SUFFICES ASSUME NEW chars \in Strings
             PROVE  chars \in Seq(Byte) /\ Short(Len(chars))
  OBVIOUS
<1>1. chars \in Seq(Byte) /\ Len(chars) \div Place[4] < BYTE \div 2
  BY ObjectsAssumption DEF Byte
<1> QED
  BY <1>1 DEF Short

LEMMA ObjectsKept ==
  ASSUME NEW v, IsVector(v), NEW s, ObjectsOK(v, s), NEW w, Extended(v, w)
  PROVE  ObjectsOK(w, s)
<1> SUFFICES ASSUME NEW i \in 1 .. Len(s)
             PROVE  ObjectOK(w, s[i])
  BY DEF ObjectsOK
<1>1. ObjectOK(v, s[i])
  BY DEF ObjectsOK
<1>2. CASE s[i].type = String
  <2>1. s[i].value \in Seq(Byte) /\ IsString(v, s[i].off, s[i].value)
    BY <1>1, <1>2, StringsAreBytes DEF ObjectOK
  <2>2. IsString(w, s[i].off, s[i].value)
    BY <2>1, StringKept
  <2> QED
    BY <1>1, <2>2 DEF ObjectOK
<1> QED
  BY <1>1, <1>2 DEF ObjectOK

LEMMA ObjectAppended ==
  ASSUME NEW v, NEW s, ObjectsOK(v, s), NEW o, ObjectOK(v, o)
  PROVE  ObjectsOK(v, Append(s, o)) /\ Len(Append(s, o)) = Len(s) + 1
<1>1. PICK S : s \in Seq(S)
  BY DEF ObjectsOK
<1> DEFINE T == S \cup {o}
           t == Append(s, o)
<1>2. s \in Seq(T)
  BY <1>1
<1> HIDE DEF T
<1>3. o \in T
  BY DEF T
<1>4. t \in Seq(T) /\ Len(t) = Len(s) + 1 /\ Len(s) \in Nat /\ t[Len(s) + 1] = o
      /\ \A i \in 1 .. Len(s) : t[i] = s[i]
  BY <1>2, <1>3
<1> HIDE DEF t
<1>5. ASSUME NEW i \in 1 .. Len(t)
      PROVE  ObjectOK(v, t[i])
  <2>1. CASE i \in 1 .. Len(s)
    BY <1>4, <2>1 DEF ObjectsOK
  <2>2. CASE i = Len(s) + 1
    BY <1>4, <2>2
  <2> QED
    BY <1>4, <2>1, <2>2
<1> QED
  BY <1>4, <1>5 DEF ObjectsOK, t

-----------------------------------------------------------------------------
(***************************************************************************)
(* The steps.                                                              *)
(***************************************************************************)
LEMMA GrownStep ==
  ASSUME BuildInv, NEW n, Grew(builder, builder', n)
  PROVE  /\ BuilderOK(builder') /\ builder'.num_field_loc = n
         /\ Extended(builder.buf, builder'.buf) /\ IsVector(builder'.buf)
         /\ ObjectsOK(builder'.buf, objects)
<1>1. BuilderOK(builder) /\ IsVector(builder.buf) /\ ObjectsOK(builder.buf, objects)
  BY DEF BuildInv, BuilderOK, IsBuilder
<1>2. Extended(builder.buf, builder'.buf) /\ IsVector(builder'.buf)
  BY DEF Grew, Extended
<1> QED
  BY <1>1, <1>2, GrewOK, ObjectsKept

\* A step that adds to the table or vector that is being built.
LEMMA BuildingStep ==
  ASSUME BuildInv, NEW n, Grew(builder, builder', n),
         UNCHANGED << objects, written >>, BuildingOK', building'.kind # "table" => n = 0
  PROVE  BuildInv' /\ Extended(builder.buf, builder'.buf)
<1>1. /\ BuilderOK(builder') /\ builder'.num_field_loc = n
      /\ Extended(builder.buf, builder'.buf) /\ ObjectsOK(builder'.buf, objects)
  BY GrownStep
<1>2. FieldsOK'
  BY <1>1 DEF FieldsOK
<1>3. CountOK'
  BY DEF BuildInv, CountOK
<1>4. ObjectsOK(builder'.buf, objects')
  BY <1>1
<1> QED
  BY <1>1, <1>2, <1>3, <1>4 DEF BuildInv

\* A step that completes an object.
LEMMA WrittenStep ==
  ASSUME BuildInv, BuilderOK(builder'), Extended(builder.buf, builder'.buf),
         builder'.num_field_loc = 0, building' = Nothing, written < MaxObjects,
         NEW off, NEW type, NEW value, Written(off, type, value),
         ObjectOK(builder'.buf, [off |-> off, type |-> type, value |-> value])
  PROVE  BuildInv'
<1> DEFINE o == [off |-> off, type |-> type, value |-> value]
<1>1. ObjectsOK(builder'.buf, objects)
  <2>1. IsVector(builder.buf) /\ ObjectsOK(builder.buf, objects)
    BY DEF BuildInv, BuilderOK, IsBuilder
  <2> QED
    BY <2>1, ObjectsKept
<1>2. objects' = Append(objects, o) /\ written' = written + 1
  BY DEF Written
<1>3. ObjectOK(builder'.buf, o)
  OBVIOUS
<1> HIDE DEF o
<1>4. ObjectsOK(builder'.buf, objects') /\ Len(objects') = Len(objects) + 1
  BY <1>1, <1>2, <1>3, ObjectAppended
<1>5. CountOK'
  <2>1. Len(objects) \in Nat
    BY DEF BuildInv, ObjectsOK
  <2> QED
    BY <1>2, <1>4, <2>1, ObjectsAssumption DEF BuildInv, CountOK
<1>6. BuildingOK' /\ FieldsOK'
  BY DEF BuildingOK, FieldsOK
<1> QED
  BY <1>4, <1>5, <1>6 DEF BuildInv

LEMMA Idle ==
  ASSUME BuildInv, building = Nothing
  PROVE  /\ builder.num_field_loc = 0 /\ IsBuilder(builder)
         /\ PadOK(builder.buf, builder.num_field_loc) /\ PoolOK(builder)
BY DEF BuildInv, FieldsOK, Nothing, BuilderOK

LEMMA NotStrings ==
  /\ \A type : VectorOf(type) # String
  /\ \A name : TableOf(name) # String
BY DEF VectorOf, TableOf, String

LEMMA WriteStringStep ==
  ASSUME BuildInv, NEW chars \in Strings, WriteString(chars)
  PROVE  BuildInv' /\ Extended(builder.buf, builder'.buf)
<1>1. /\ building = Nothing /\ building' = building /\ written < MaxObjects
      /\ builder' = CreateString(builder, chars)
      /\ Written(GetSize(builder'), String, chars)
  BY DEF WriteString, Ready
<1>2. chars \in Seq(Byte)
  BY StringsAreBytes
<1>3. Wrote(builder, builder') /\ IsString(builder'.buf, GetSize(builder'), chars)
  BY <1>1, <1>2, Idle, CreateStringWrites
<1>4. Grew(builder, builder', 0)
  BY <1>1, <1>3, Idle, WroteGrew
<1>5. BuilderOK(builder') /\ builder'.num_field_loc = 0 /\ Extended(builder.buf, builder'.buf)
  BY <1>4, GrownStep
<1>6. GetSize(builder') \in Nat
  BY <1>3, BuilderSize DEF Wrote
<1>7. ObjectOK(builder'.buf, [off |-> GetSize(builder'), type |-> String, value |-> chars])
  BY <1>3, <1>6 DEF ObjectOK
<1> QED
  BY <1>1, <1>5, <1>7, WrittenStep

LEMMA WriteSharedStringStep ==
  ASSUME BuildInv, NEW chars \in Strings, WriteSharedString(chars)
  PROVE  BuildInv' /\ Extended(builder.buf, builder'.buf)
<1> DEFINE shared == CreateSharedString(builder, chars)
<1>1. /\ building = Nothing /\ building' = building /\ written < MaxObjects
      /\ builder' = shared.builder
      /\ Written(shared.off, String, chars)
  BY DEF WriteSharedString, Ready
<1>2. chars \in Seq(Byte) /\ Short(Len(chars))
  BY StringsAreBytes
<1>3. /\ IsBuilder(shared.builder)
      /\ Above(builder.buf, shared.builder.buf)
      /\ shared.builder.num_field_loc = builder.num_field_loc
      /\ IsString(shared.builder.buf, shared.off, chars)
      /\ shared.off \in Nat
      /\ shared.builder.pool \subseteq builder.pool \cup {shared.off}
  BY <1>1, <1>2, Idle, SharedStringWrites
<1> HIDE DEF shared
<1>4. /\ IsVector(builder.buf) /\ Extended(builder.buf, builder'.buf)
      /\ SamePad(builder.buf, builder'.buf) /\ builder'.num_field_loc = 0
  BY <1>1, <1>3, Idle, AboveIsExtended DEF IsBuilder, Above
<1>5. PadOK(builder'.buf, 0)
  BY <1>1, <1>4, Idle, PadStays
<1>6. Clean(builder'.buf)
  BY <1>4, CleanKept DEF BuildInv, BuilderOK
<1>7. PoolOK(builder')
  <2> SUFFICES ASSUME NEW off \in builder'.pool
               PROVE  \E c \in Seq(Byte) : Short(Len(c)) /\ IsString(builder'.buf, off, c)
    BY DEF PoolOK
  <2>1. CASE off = shared.off
    BY <1>1, <1>2, <1>3, <2>1
  <2>2. CASE off \in builder.pool
    <3>1. PICK c \in Seq(Byte) : Short(Len(c)) /\ IsString(builder.buf, off, c)
      BY <1>1, <2>2, Idle DEF PoolOK
    <3>2. IsString(builder'.buf, off, c)
      BY <1>4, <3>1, StringKept
    <3> QED
      BY <3>1, <3>2
  <2> QED
    BY <1>1, <1>3, <2>1, <2>2
<1>8. BuilderOK(builder')
  BY <1>1, <1>3, <1>4, <1>5, <1>6, <1>7 DEF BuilderOK
<1>9. ObjectOK(builder'.buf, [off |-> shared.off, type |-> String, value |-> chars])
  BY <1>1, <1>3 DEF ObjectOK
<1> QED
  BY <1>1, <1>4, <1>8, <1>9, WrittenStep

LEMMA WriteScalarsStep ==
  ASSUME BuildInv, NEW v \in ScalarVectors, WriteScalars(v)
  PROVE  BuildInv' /\ Extended(builder.buf, builder'.buf)
<1> DEFINE type == VectorOf([kind |-> "scalar", size |-> v.size])
<1>1. /\ building = Nothing /\ building' = building /\ written < MaxObjects
      /\ builder' = CreateVector(builder, v.elements, v.size)
      /\ Written(GetSize(builder'), type, v.elements)
  BY DEF WriteScalars, Ready
<1>2. v.size \in Nat \ {0} /\ v.elements \in Seq([1 .. v.size -> Byte])
  <2>1. v.size \in {1, 2, 4, 8} /\ v.elements \in Seq([1 .. v.size -> 0 .. BYTE - 1])
    BY ObjectsAssumption
  <2> QED
    BY <2>1 DEF Byte
<1>3. Wrote(builder, builder')
  BY <1>1, <1>2, Idle, CreateVectorWrites
<1>4. Grew(builder, builder', 0)
  BY <1>1, <1>3, Idle, WroteGrew
<1>5. BuilderOK(builder') /\ builder'.num_field_loc = 0 /\ Extended(builder.buf, builder'.buf)
  BY <1>4, GrownStep
<1>6. GetSize(builder') \in Nat
  BY <1>3, BuilderSize DEF Wrote
<1>7. type # String
  BY NotStrings
<1>8. ObjectOK(builder'.buf, [off |-> GetSize(builder'), type |-> type, value |-> v.elements])
  BY <1>6, <1>7 DEF ObjectOK
<1> QED
  BY <1>1, <1>5, <1>8, WrittenStep

LEMMA BeginVectorStep ==
  ASSUME BuildInv, NEW v \in Vectors, BeginVector(v.type, v.len)
  PROVE  BuildInv' /\ Extended(builder.buf, builder'.buf)
<1>1. /\ building = Nothing /\ written < MaxObjects
      /\ builder' = StartVector(builder, v.len, UOFFSET)
      /\ building' = [kind |-> "vector", type |-> v.type, len |-> v.len, elements |-> << >>]
      /\ UNCHANGED << objects, written >>
  BY DEF BeginVector, Ready
<1>2. v.len \in Nat /\ UOFFSET \in Nat \ {0}
  BY ObjectsAssumption DEF UOFFSET
<1>3. Wrote(builder, builder')
  BY <1>1, <1>2, Idle, StartVectorWrites
<1>4. Grew(builder, builder', 0)
  BY <1>1, <1>3, Idle, WroteGrew
<1>5. BuildingOK'
  BY <1>1, <1>2 DEF BuildingOK
<1> QED
  BY <1>1, <1>4, <1>5, BuildingStep

LEMMA OffsetsOK ==
  ASSUME BuildInv, NEW o \in Objects
  PROVE  o.off \in Nat
<1>1. DOMAIN objects = 1 .. Len(objects)
  BY DEF BuildInv, ObjectsOK
<1>2. PICK i \in 1 .. Len(objects) : o = objects[i]
  BY <1>1 DEF Objects
<1> QED
  BY <1>2 DEF BuildInv, ObjectsOK, ObjectOK

\* What the kind of building says about it.
LEMMA BuildingVector ==
  ASSUME BuildInv, building.kind = "vector"
  PROVE  /\ building = [kind |-> "vector", type |-> building.type, len |-> building.len,
                        elements |-> building.elements]
         /\ building.len \in Nat /\ written < MaxObjects
         /\ builder.num_field_loc = 0
BY DEF BuildInv, BuildingOK, FieldsOK, Nothing

LEMMA BuildingTable ==
  ASSUME BuildInv, building.kind = "table"
  PROVE  /\ building = [kind |-> "table", name |-> building.name, start |-> building.start,
                        added |-> building.added, values |-> building.values]
         /\ building.name \in DOMAIN Tables /\ building.start \in Nat /\ written < MaxObjects
BY DEF BuildInv, BuildingOK, Nothing

LEMMA PushItemStep ==
  ASSUME BuildInv, NEW o \in Objects, PushItem(o)
  PROVE  BuildInv' /\ Extended(builder.buf, builder'.buf)
<1>1. /\ building.kind = "vector"
      /\ builder' = PushOffset(builder, o.off)
      /\ building' = [building EXCEPT !.elements = << o.value >> \o @]
      /\ UNCHANGED << objects, written >>
  BY DEF PushItem
<1>2. o.off \in Int /\ IsBuilder(builder) /\ PadOK(builder.buf, builder.num_field_loc)
  BY OffsetsOK DEF BuildInv, BuilderOK
<1>3. Wrote(builder, builder')
  BY <1>1, <1>2, PushOffsetWrites
<1>4. Grew(builder, builder', 0)
  BY <1>1, <1>2, <1>3, BuildingVector, WroteGrew
<1> DEFINE elements == << o.value >> \o building.elements
<1>5. building' = [kind |-> "vector", type |-> building.type, len |-> building.len, elements |-> elements]
  <2>1. building' = [building EXCEPT !.elements = elements]
    BY <1>1
  <2> HIDE DEF elements
  <2> QED
    BY <1>1, <2>1, BuildingVector
<1> HIDE DEF elements
<1>6. BuildingOK'
  BY <1>1, <1>5, BuildingVector DEF BuildingOK
<1> QED
  BY <1>1, <1>4, <1>5, <1>6, BuildingStep

LEMMA FinishVectorStep ==
  ASSUME BuildInv, FinishVector
  PROVE  BuildInv' /\ Extended(builder.buf, builder'.buf)
<1> DEFINE type == VectorOf(building.type)
<1>1. /\ building.kind = "vector" /\ building' = Nothing
      /\ builder' = EndVector(builder, building.len)
      /\ Written(GetSize(builder'), type, building.elements)
  BY DEF FinishVector
<1>2. IsBuilder(builder) /\ PadOK(builder.buf, builder.num_field_loc)
  BY DEF BuildInv, BuilderOK
<1>3. Wrote(builder, builder')
  BY <1>1, <1>2, BuildingVector, EndVectorWrites
<1>4. Grew(builder, builder', 0)
  BY <1>1, <1>2, <1>3, BuildingVector, WroteGrew
<1>5. BuilderOK(builder') /\ builder'.num_field_loc = 0 /\ Extended(builder.buf, builder'.buf)
  BY <1>4, GrownStep
<1>6. GetSize(builder') \in Nat
  BY <1>3, BuilderSize DEF Wrote
<1>7. type # String
  BY NotStrings
<1>8. ObjectOK(builder'.buf, [off |-> GetSize(builder'), type |-> type, value |-> building.elements])
  BY <1>6, <1>7 DEF ObjectOK
<1> QED
  BY <1>1, <1>5, <1>8, BuildingVector, WrittenStep

LEMMA BeginTableStep ==
  ASSUME BuildInv, NEW name \in DOMAIN Tables, BeginTable(name)
  PROVE  BuildInv' /\ Extended(builder.buf, builder'.buf)
<1> DEFINE values == [f \in DOMAIN Tables[name] |->
                        LET field == Tables[name][f]
                        IN  IF field.kind = "scalar" THEN field.default ELSE Absent]
<1>1. /\ building = Nothing /\ written < MaxObjects
      /\ builder' = StartTable(builder)
      /\ building' = [kind |-> "table", name |-> name, start |-> GetSize(builder), added |-> {},
                      values |-> values]
      /\ UNCHANGED << objects, written >>
  BY DEF BeginTable, Ready
<1> HIDE DEF values
<1>2. Wrote(builder, builder')
  BY <1>1, Idle, NestedWrites DEF StartTable
<1>3. Grew(builder, builder', 0)
  BY <1>1, <1>2, Idle, WroteGrew
<1>4. GetSize(builder) \in Nat
  BY <1>1, Idle, BuilderSize
<1>5. BuildingOK'
  BY <1>1, <1>4 DEF BuildingOK
<1> QED
  BY <1>1, <1>3, <1>5, BuildingStep

LEMMA FieldOffset ==
  ASSUME BuildInv, NEW f, Adding(f)
  PROVE  FieldIndexToOffset(f) \in Nat
<1>1. building.name \in DOMAIN Tables /\ f \in DOMAIN Tables[building.name]
  BY BuildingTable DEF Adding
<1>2. f \in Nat
  BY <1>1, ObjectsAssumption
<1> QED
  BY <1>2 DEF FieldIndexToOffset, VOFFSET

LEMMA AddedStep ==
  ASSUME BuildInv, building.kind = "table", NEW f, NEW value, Added(f, value),
         UNCHANGED << objects, written >>, NEW n, Grew(builder, builder', n)
  PROVE  BuildInv' /\ Extended(builder.buf, builder'.buf)
<1> DEFINE added == building.added \cup {f}
           values == [building.values EXCEPT ![f] = value]
<1>1. building' = [kind |-> "table", name |-> building.name, start |-> building.start,
                   added |-> added, values |-> values]
  <2>1. building' = [building EXCEPT !.added = added, !.values = values]
    BY DEF Added
  <2> HIDE DEF added, values
  <2> QED
    BY <2>1, BuildingTable
<1> HIDE DEF added, values
<1>2. BuildingOK'
  BY <1>1, BuildingTable DEF BuildingOK
<1> QED
  BY <1>1, <1>2, BuildingStep

\* The sizes of scalars.
Sizes == {1, 2, 4, 8}

LEMMA ScalarsAreBytes ==
  ASSUME NEW bytes \in Scalars
  PROVE  bytes \in Seq(Byte) \ {<< >>} /\ Len(bytes) \in Sizes
<1>1. bytes \in Seq(Byte) /\ Len(bytes) \in Sizes
  BY ObjectsAssumption DEF Byte, Sizes
<1>2. Len(<< >>) = 0 /\ 0 \notin Sizes
  BY DEF Sizes
<1> QED
  BY <1>1, <1>2

LEMMA AddScalarStep ==
  ASSUME BuildInv, NEW f, NEW bytes \in Scalars, AddScalar(f, bytes)
  PROVE  BuildInv' /\ Extended(builder.buf, builder'.buf)
<1> DEFINE default == Tables[building.name][f].default
<1>1. /\ Adding(f) /\ building.kind = "table"
      /\ builder' = AddElement(builder, FieldIndexToOffset(f), bytes, default)
      /\ Added(f, bytes)
      /\ UNCHANGED << objects, written >>
  BY DEF AddScalar, Adding
<1> HIDE DEF default
<1>2. IsBuilder(builder) /\ PadOK(builder.buf, builder.num_field_loc)
  BY DEF BuildInv, BuilderOK
<1>3. bytes \in Seq(Byte) \ {<< >>}
  BY ScalarsAreBytes
<1>4. FieldIndexToOffset(f) \in Nat
  BY <1>1, FieldOffset
<1>5. \E n \in Nat : Grew(builder, builder', n)
  BY <1>1, <1>2, <1>3, <1>4, AddElementGrew
<1> QED
  BY <1>1, <1>5, AddedStep

LEMMA AddObjectStep ==
  ASSUME BuildInv, NEW f, NEW o \in Objects, AddObject(f, o)
  PROVE  BuildInv' /\ Extended(builder.buf, builder'.buf)
<1>1. /\ Adding(f) /\ building.kind = "table"
      /\ builder' = AddOffset(builder, FieldIndexToOffset(f), o.off)
      /\ Added(f, o.value)
      /\ UNCHANGED << objects, written >>
  BY DEF AddObject, Adding
<1>2. IsBuilder(builder) /\ PadOK(builder.buf, builder.num_field_loc)
  BY DEF BuildInv, BuilderOK
<1>3. o.off \in Int
  BY OffsetsOK
<1>4. FieldIndexToOffset(f) \in Nat
  BY <1>1, FieldOffset
<1>5. \E n \in Nat : Grew(builder, builder', n)
  BY <1>1, <1>2, <1>3, <1>4, AddOffsetGrew
<1> QED
  BY <1>1, <1>5, AddedStep

LEMMA FinishTableStep ==
  ASSUME BuildInv, FinishTable
  PROVE  BuildInv' /\ Extended(builder.buf, builder'.buf)
<1> DEFINE type == TableOf(building.name)
           off == TableOffset(builder)
<1>1. /\ building.kind = "table" /\ building' = Nothing
      /\ builder' = EndTable(builder, building.start)
      /\ Written(off, type, building.values)
  BY DEF FinishTable
<1>2. IsBuilder(builder) /\ PadOK(builder.buf, builder.num_field_loc)
  BY DEF BuildInv, BuilderOK
<1>3. building.start \in Int
  BY <1>1, BuildingTable
<1>4. Grew(builder, builder', 0) /\ off \in Nat
  BY <1>1, <1>2, <1>3, EndTableGrew
<1>5. BuilderOK(builder') /\ builder'.num_field_loc = 0 /\ Extended(builder.buf, builder'.buf)
  BY <1>4, GrownStep
<1>6. type # String
  BY NotStrings
<1>7. ObjectOK(builder'.buf, [off |-> off, type |-> type, value |-> building.values])
  BY <1>4, <1>6 DEF ObjectOK
<1> QED
  BY <1>1, <1>5, <1>7, BuildingTable, WrittenStep

LEMMA FinishMessageStep ==
  ASSUME BuildInv, NEW o \in Objects, FinishMessage(o)
  PROVE  BuildInv' /\ Extended(builder.buf, builder'.buf)
<1>1. /\ building = Nothing
      /\ builder' = Finish(builder, o.off)
      /\ building' = [kind |-> "finished", root |-> o]
      /\ UNCHANGED << objects, written >>
  BY DEF FinishMessage
<1>2. o.off \in Int
  BY OffsetsOK
<1>3. Grew(builder, builder', 0)
  BY <1>1, <1>2, Idle, FinishGrew
<1>4. BuildingOK'
  BY <1>1 DEF BuildingOK
<1> QED
  BY <1>1, <1>3, <1>4, BuildingStep

LEMMA EmptyBuilderOK ==
  ASSUME NEW b, IsBuilder(b), b.num_field_loc = 0, b.pool = {}, PadOK(b.buf, 0), size(b.buf) = 0
  PROVE  BuilderOK(b) /\ ObjectsOK(b.buf, << >>)
<1>1. Clean(b.buf) /\ PoolOK(b)
  BY DEF Clean, PoolOK
<1>2. << >> \in Seq({}) /\ Len(<< >>) = 0
  OBVIOUS
<1>3. ObjectsOK(b.buf, << >>)
  BY <1>2 DEF ObjectsOK
<1> QED
  BY <1>1, <1>3 DEF BuilderOK

LEMMA ReuseStep ==
  ASSUME BuildInv, Reuse
  PROVE  BuildInv'
<1>1. IsBuilder(builder) /\ builder' = Clear(builder) /\ objects' = << >> /\ building' = Nothing
      /\ written' = written
  BY DEF Reuse, BuildInv, BuilderOK
<1>2. BuilderOK(builder') /\ ObjectsOK(builder'.buf, objects') /\ builder'.num_field_loc = 0
  BY <1>1, ClearGives, EmptyBuilderOK
<1>3. CountOK'
  <2>1. Len(objects') = 0 /\ Len(objects) \in Nat
    BY <1>1 DEF BuildInv, ObjectsOK
  <2> QED
    BY <1>1, <2>1, ObjectsAssumption DEF BuildInv, CountOK
<1>4. BuildingOK' /\ FieldsOK'
  BY <1>1, <1>2 DEF BuildingOK, FieldsOK
<1> QED
  BY <1>2, <1>3, <1>4 DEF BuildInv

LEMMA InitBuildInv == Init => BuildInv
<1> SUFFICES ASSUME Init
             PROVE  BuildInv
  OBVIOUS
<1> DEFINE b == EmptyBuilder
           v == EmptyVector
<1>1. v = [buf |-> << >>, cur |-> 0, scratch |-> 0] /\ << >> \in Seq(Cell) /\ Len(<< >>) = 0
  BY DEF EmptyVector
<1> HIDE DEF v
<1>2. v \in [buf : Seq(Cell), cur : Nat, scratch : Nat] /\ v.scratch = 0 /\ size(v) = 0 /\ IsVector(v)
  BY <1>1 DEF IsVector, size
<1>3. b = [buf |-> v, num_field_loc |-> 0, max_voffset |-> 0, nested |-> FALSE,
           finished |-> FALSE, minalign |-> 1, pool |-> {}]
  BY DEF EmptyBuilder, v
<1> HIDE DEF b
<1>4. IsBuilder(b) /\ b.num_field_loc = 0 /\ b.pool = {} /\ b.buf = v
  BY <1>2, <1>3 DEF IsBuilder
<1>5. PadOK(v, 0)
  <2>1. 0 * FIELD_LOC = 0 /\ 0 - 0 = 0
    BY DEF FIELD_LOC
  <2> QED
    BY <1>2, <2>1 DEF PadOK
<1>6. BuilderOK(b) /\ ObjectsOK(b.buf, << >>)
  BY <1>2, <1>4, <1>5, EmptyBuilderOK
<1>7. builder = b /\ objects = << >> /\ building = Nothing /\ written = 0
  BY DEF Init, b
<1>8. CountOK
  BY <1>1, <1>7, ObjectsAssumption DEF CountOK
<1>9. BuildingOK /\ FieldsOK
  BY <1>4, <1>7 DEF BuildingOK, FieldsOK
<1> QED
  BY <1>6, <1>7, <1>8, <1>9 DEF BuildInv

LEMMA NextBuildInv ==
  ASSUME BuildInv, Next
  PROVE  BuildInv' /\ (Reuse \/ Extended(builder.buf, builder'.buf))
<1>1. CASE \E chars \in Strings : WriteString(chars) \/ WriteSharedString(chars)
  BY <1>1, WriteStringStep, WriteSharedStringStep
<1>2. CASE \E v \in ScalarVectors : WriteScalars(v)
  BY <1>2, WriteScalarsStep
<1>3. CASE \E v \in Vectors : BeginVector(v.type, v.len)
  BY <1>3, BeginVectorStep
<1>4. CASE \E o \in Objects : PushItem(o) \/ FinishMessage(o)
  BY <1>4, PushItemStep, FinishMessageStep
<1>5. CASE FinishVector
  BY <1>5, FinishVectorStep
<1>6. CASE \E name \in DOMAIN Tables : BeginTable(name)
  BY <1>6, BeginTableStep
<1>7. CASE building.kind = "table" /\ \E f \in DOMAIN Tables[building.name] :
             (\E bytes \in Scalars : AddScalar(f, bytes)) \/ (\E o \in Objects : AddObject(f, o))
  BY <1>7, AddScalarStep, AddObjectStep
<1>8. CASE FinishTable
  BY <1>8, FinishTableStep
<1>9. CASE Reuse
  BY <1>9, ReuseStep
<1> QED
  BY <1>1, <1>2, <1>3, <1>4, <1>5, <1>6, <1>7, <1>8, <1>9 DEF Next

LEMMA StutterBuildInv ==
  ASSUME BuildInv, UNCHANGED vars
  PROVE  BuildInv'
BY DEF BuildInv, vars, BuildingOK, FieldsOK, CountOK

-----------------------------------------------------------------------------
(***************************************************************************)
(* What a reader finds.                                                    *)
(***************************************************************************)
LEMMA BufferBytes ==
  ASSUME NEW v, IsVector(v)
  PROVE  /\ Len(Buffer(v)) = size(v) /\ DOMAIN Buffer(v) = 1 .. size(v)
         /\ \A i \in 1 .. size(v) : Buffer(v)[i] = FromEnd(v, size(v) - i + 1)
<1> DEFINE buf == v.buf
           cur == v.cur
           n == Len(buf)
<1>1. n \in Nat /\ cur \in Nat /\ cur <= n /\ buf \in Seq(Cell) /\ size(v) = n - cur
  BY VectorTypes DEF IsVector
<1>2. Buffer(v) = SubSeq(buf, cur + 1, n)
  BY DEF Buffer
<1> HIDE DEF buf, cur
<1>3. /\ Len(Buffer(v)) = n - cur /\ DOMAIN Buffer(v) = 1 .. n - cur
      /\ \A i \in 1 .. n - cur : Buffer(v)[i] = buf[cur + 1 + i - 1]
  BY <1>1, <1>2
<1>4. ASSUME NEW i \in 1 .. size(v)
      PROVE  Buffer(v)[i] = FromEnd(v, size(v) - i + 1)
  <2>1. cur + 1 + i - 1 = n - (size(v) - i + 1) + 1
    BY <1>1
  <2>2. FromEnd(v, size(v) - i + 1) = buf[n - (size(v) - i + 1) + 1]
    BY DEF FromEnd, buf
  <2> QED
    BY <1>1, <1>3, <2>1, <2>2
<1> QED
  BY <1>1, <1>3, <1>4

\* What was in the buffer is what is in its last bytes.
LEMMA KeptIsAt ==
  ASSUME NEW v, IsVector(v), NEW w, IsVector(w), Kept(v, w)
  PROVE  At(w, size(v), size(v)) = Buffer(v)
<1> DEFINE k == size(v)
           b == Buffer(v)
<1>1. k \in Nat /\ Len(b) = k /\ b \in Seq(Cell)
  <2>1. v.cur \in Nat /\ v.cur <= Len(v.buf) /\ v.buf \in Seq(Cell) /\ Len(v.buf) \in Nat
    BY VectorTypes DEF IsVector
  <2>2. b \in Seq(Cell)
    BY <2>1 DEF Buffer
  <2> QED
    BY <2>2, VectorTypes, BufferBytes
<1>2. \A i \in 1 .. k : b[i] = FromEnd(v, k - i + 1)
  BY BufferBytes
<1>3. k <= size(w) /\ \A j \in 1 .. k : FromEnd(w, j) = FromEnd(v, j)
  BY DEF Kept
<1> HIDE DEF k, b
<1>4. Holds(w, k, b)
  <2>1. ASSUME NEW i \in 1 .. Len(b)
        PROVE  FromEnd(w, k + 1 - i) = b[i]
    <3>1. k - i + 1 \in 1 .. k /\ k + 1 - i = k - i + 1 /\ i \in 1 .. k
      BY <1>1
    <3> QED
      BY <1>2, <1>3, <3>1
  <2> QED
    BY <1>1, <1>3, <2>1 DEF Holds
<1>5. At(w, k, Len(b)) = b
  BY <1>1, <1>4, HeldIsAt
<1> QED
  BY <1>1, <1>5 DEF k, b

\* An offset, forward or back, is read as it was stored.
LEMMA OffsetBack ==
  ASSUME NEW n \in Int, -MAX_BUFFER_SIZE <= n, n <= MAX_BUFFER_SIZE
  PROVE  Signed32(Scalar(n, UOFFSET)) = n
<1> DEFINE s == Scalar(n, UOFFSET)
           a == n \div 256
           b == n \div 65536
           c == n \div 16777216
<1>1. n \in Int /\ -2147483647 <= n /\ n <= 2147483647
  BY DEF MAX_BUFFER_SIZE
<1>2. s[1] = n % 256 /\ s[2] = a % 256 /\ s[3] = b % 256 /\ s[4] = c % 256
  <2>1. \A i \in 1 .. 4 : s[i] = (n \div Place[i]) % 256
    BY <1>1 DEF Scalar, UOFFSET, BYTE
  <2>2. s[1] = (n \div 1) % 256 /\ s[2] = (n \div 256) % 256
        /\ s[3] = (n \div 65536) % 256 /\ s[4] = (n \div 16777216) % 256
    BY <2>1 DEF Place
  <2>3. n \div 1 = n
    BY <1>1
  <2> QED
    BY <2>2, <2>3
<1>3. n = 256 * a + (n % 256) /\ a \in Int /\ n % 256 \in Nat
  BY <1>1
<1>4. a = 256 * b + (a % 256) /\ b \in Int /\ a % 256 \in Nat
  BY <1>1
<1>5. b = 256 * c + (b % 256) /\ c \in Int /\ b % 256 \in Nat
  BY <1>1
<1>6. -128 <= c /\ c < 128
  BY <1>1
<1> HIDE DEF a, b, c
<1>7. 16777216 * c = 16777216 * (IF 2 * (c % 256) < 256 THEN c % 256 ELSE (c % 256) - 256)
  <2>1. CASE c >= 0
    <3>1. c % 256 = c
      BY <1>5, <1>6, <2>1
    <3> QED
      BY <1>5, <1>6, <2>1, <3>1
  <2>2. CASE c < 0
    <3>1. c % 256 = c + 256
      BY <1>5, <1>6, <2>2
    <3> QED
      BY <1>5, <1>6, <2>2, <3>1
  <2> QED
    BY <1>5, <2>1, <2>2
<1>8. Signed32(s) = (n % 256) + 256 * (a % 256) + 65536 * (b % 256)
                      + 16777216 * (IF 2 * (c % 256) < 256 THEN c % 256 ELSE (c % 256) - 256)
  <2> HIDE DEF s
  <2> QED
    BY <1>2 DEF Signed32, Place, BYTE
<1>9. Signed32(s) = (n % 256) + 256 * (a % 256) + 65536 * (b % 256) + 16777216 * c
  BY <1>7, <1>8
<1> HIDE DEF s
<1> QED
  BY <1>1, <1>3, <1>4, <1>5, <1>9 DEF s

LEMMA VOffsetType ==
  ASSUME NEW n \in Int
  PROVE  Scalar(n, VOFFSET) \in Seq(Byte) /\ Len(Scalar(n, VOFFSET)) = 2
<1>1. 2 \in Nat
  OBVIOUS
<1> QED
  BY <1>1, ScalarType DEF VOFFSET

\* A voffset_t is read as it was stored.
LEMMA VOffsetBack ==
  ASSUME NEW n \in Nat, n < BYTE * BYTE
  PROVE  /\ Unsigned16(Scalar(n, VOFFSET)) = n
         /\ Scalar(n, VOFFSET) \in Seq(Byte) /\ Len(Scalar(n, VOFFSET)) = 2
<1> DEFINE s == Scalar(n, VOFFSET)
           a == n \div 256
<1>1. s[1] = n % 256 /\ s[2] = a % 256
  <2>1. \A i \in 1 .. 2 : s[i] = (n \div Place[i]) % 256
    BY DEF Scalar, VOFFSET, BYTE
  <2>2. s[1] = (n \div 1) % 256 /\ s[2] = (n \div 256) % 256
    BY <2>1 DEF Place
  <2>3. n \div 1 = n
    OBVIOUS
  <2> QED
    BY <2>2, <2>3
<1>2. n = 256 * a + (n % 256) /\ a \in Int /\ n % 256 \in Nat /\ n % 256 < 256
  OBVIOUS
<1> HIDE DEF a
<1>3. a >= 0 /\ a < 256
  BY <1>2 DEF BYTE
<1>4. a % 256 = a
  BY <1>2, <1>3
<1> HIDE DEF s
<1>5. Unsigned16(s) = n
  BY <1>1, <1>2, <1>4 DEF Unsigned16, BYTE
<1>6. Scalar(n, VOFFSET) \in Seq(Byte) /\ Len(Scalar(n, VOFFSET)) = 2
  BY VOffsetType
<1> QED
  BY <1>5, <1>6 DEF s

LEMMA UnsignedOfTwo ==
  ASSUME NEW bytes \in Seq(Byte), Len(bytes) = 2
  PROVE  Unsigned16(bytes) \in Nat /\ Unsigned16(bytes) < BYTE * BYTE
<1>1. bytes[1] \in Byte /\ bytes[2] \in Byte
  <2>1. \A k \in 1 .. Len(bytes) : bytes[k] \in Byte
    BY ElementType
  <2>2. 1 \in 1 .. Len(bytes) /\ 2 \in 1 .. Len(bytes)
    OBVIOUS
  <2> QED
    BY <2>1, <2>2
<1> DEFINE p == bytes[1]
           q == bytes[2]
<1>2. p \in 0 .. 255 /\ q \in 0 .. 255
  BY <1>1 DEF Byte, BYTE
<1>3. Unsigned16(bytes) = p + 256 * q
  BY DEF Unsigned16, BYTE
<1> HIDE DEF p, q
<1> QED
  BY <1>2, <1>3 DEF BYTE

\* Part of what is held.
LEMMA PartHeld ==
  ASSUME NEW v, IsVector(v), NEW bytes \in Seq(Byte), NEW off, Holds(v, off, bytes),
         NEW at \in Nat, NEW n \in Nat, at + n <= Len(bytes)
  PROVE  /\ Holds(v, off - at, SubSeq(bytes, at + 1, at + n))
         /\ SubSeq(bytes, at + 1, at + n) \in Seq(Byte)
         /\ Len(SubSeq(bytes, at + 1, at + n)) = n
<1> DEFINE part == SubSeq(bytes, at + 1, at + n)
<1>1. off \in Nat /\ Len(bytes) \in Nat /\ Len(bytes) <= off /\ off <= size(v)
  BY DEF Holds
<1>2. /\ part \in Seq(Byte) /\ Len(part) = n
      /\ \A i \in 1 .. n : part[i] = bytes[at + i]
  OBVIOUS
<1> HIDE DEF part
<1>3. ASSUME NEW i \in 1 .. n
      PROVE  FromEnd(v, off - at + 1 - i) = part[i]
  <2>1. at + i \in 1 .. Len(bytes) /\ off + 1 - (at + i) = off - at + 1 - i
    BY <1>1
  <2>2. FromEnd(v, off + 1 - (at + i)) = bytes[at + i]
    BY <2>1, Zenon DEF Holds
  <2> QED
    BY <1>2, <2>1, <2>2
<1>4. off - at \in Nat /\ n <= off - at /\ off - at <= size(v)
  <2>1. size(v) \in Nat
    BY VectorTypes
  <2> QED
    BY <1>1, <2>1
<1> QED
  BY <1>2, <1>3, <1>4 DEF Holds, part

\* What is held is what a reader finds at the position.
LEMMA HeldIsRead ==
  ASSUME NEW v, IsVector(v), NEW bytes \in Seq(Byte), NEW off, Holds(v, off, bytes)
  PROVE  /\ Bytes(Buffer(v), size(v) - off, Len(bytes)) = bytes
         /\ Inside(Buffer(v), size(v) - off, Len(bytes))
<1> DEFINE data == Buffer(v)
           n == size(v)
           m == Len(bytes)
           x == Bytes(data, n - off, m)
<1>1. n \in Nat /\ m \in Nat /\ off \in Nat /\ m <= off /\ off <= n
  BY VectorTypes DEF Holds
<1>2. data \in Seq(Cell) /\ Len(data) = n /\ \A i \in 1 .. n : data[i] = FromEnd(v, n - i + 1)
  <2>1. v.buf \in Seq(Cell) /\ v.cur \in Nat /\ v.cur <= Len(v.buf)
    BY VectorTypes DEF IsVector
  <2>2. SubSeq(v.buf, v.cur + 1, Len(v.buf)) \in Seq(Cell)
    BY <2>1
  <2> QED
    BY <2>2, BufferBytes DEF Buffer
<1>3. x = SubSeq(data, n - off + 1, n - off + m)
  BY DEF Bytes
<1>4. Inside(data, n - off, m)
  <2> HIDE DEF data, n, m, x
  <2> QED
    BY <1>1, <1>2 DEF Inside
<1> HIDE DEF data, n, m, x
<1>5. x \in Seq(Cell) /\ Len(x) = m /\ \A i \in 1 .. m : x[i] = data[n - off + i]
  <2>1. n - off + 1 \in 1 .. n + 1 /\ n - off + m \in 0 .. n /\ (n - off + m) - (n - off + 1) + 1 = m
    BY <1>1
  <2>2. x \in Seq(Cell) /\ Len(x) = m
    BY <1>1, <1>2, <1>3, <2>1
  <2>3. ASSUME NEW i \in 1 .. m
        PROVE  x[i] = data[n - off + i]
    <3> DEFINE first == n - off + 1
               last == n - off + m
    <3>1. /\ x = SubSeq(data, first, last) /\ first \in Int /\ last \in Int
          /\ i \in 1 .. last - first + 1 /\ first + i - 1 = n - off + i
      BY <1>1, <1>3, <2>1
    <3> HIDE DEF first, last
    <3>2. x[i] = data[first + i - 1]
      BY <1>2, <3>1
    <3> QED
      BY <3>1, <3>2
  <2> QED
    BY <2>2, <2>3
<1>6. ASSUME NEW i \in 1 .. m
      PROVE  x[i] = bytes[i]
  <2>1. n - off + i \in 1 .. n /\ n - (n - off + i) + 1 = off + 1 - i
    BY <1>1
  <2>2. x[i] = FromEnd(v, off + 1 - i)
    BY <1>2, <1>5, <2>1
  <2> QED
    BY <2>2 DEF Holds, m
<1>7. x = bytes
  BY <1>5, <1>6, BytesAreCells DEF m
<1> QED
  BY <1>4, <1>7 DEF x, m, n, data

\* An offset that is held is what a reader finds.
LEMMA OffsetIsRead ==
  ASSUME NEW v, IsVector(v), NEW off, NEW n \in Int, -MAX_BUFFER_SIZE <= n, n <= MAX_BUFFER_SIZE,
         Holds(v, off, Scalar(n, UOFFSET))
  PROVE  /\ Offset(Buffer(v), size(v) - off) = n
         /\ Inside(Buffer(v), size(v) - off, UOFFSET)
<1> DEFINE s == Scalar(n, UOFFSET)
<1>1. s \in Seq(Byte) /\ Len(s) = UOFFSET /\ Signed32(s) = n
  BY ScalarIsElement, OffsetBack DEF UOFFSET
<1>2. Holds(v, off, s)
  OBVIOUS
<1> HIDE DEF s
<1>3. Bytes(Buffer(v), size(v) - off, Len(s)) = s /\ Inside(Buffer(v), size(v) - off, Len(s))
  BY <1>1, <1>2, HeldIsRead
<1> QED
  BY <1>1, <1>3 DEF Offset

-----------------------------------------------------------------------------
(***************************************************************************)
(* How vectors and tables lie in a buffer, among the objects of S and the  *)
(* vtables at the offsets K.                                               *)
(***************************************************************************)
\* A scalar, or an offset to an object of S, at a multiple of its size from the end.
SlotHolds(v, off, type, value, S) ==
  /\ off % ElementSize(type) = 0
  /\ IF type.kind = "scalar"
     THEN value \in Seq(Byte) /\ Len(value) = type.size /\ Holds(v, off, value)
     ELSE \E o \in S :
            /\ o.type = type /\ o.value = value /\ o.off \in Nat /\ o.off < off
            /\ Holds(v, off, Scalar(off - o.off, UOFFSET))

VectorHolds(v, o, S) ==
  /\ Len(o.value) \in Nat /\ Len(o.value) <= o.off
  /\ Holds(v, o.off, Scalar(Len(o.value), UOFFSET))
  /\ \A i \in 1 .. Len(o.value) :
       SlotHolds(v, o.off - UOFFSET - (i - 1) * ElementSize(o.type.of), o.type.of, o.value[i], S)

VTableAt(v, off, t) ==
  /\ t \in Seq(Byte) /\ 4 <= Len(t) /\ Len(t) < BYTE * BYTE /\ Len(t) % 2 = 0
  /\ SubSeq(t, 1, VOFFSET) = Scalar(Len(t), VOFFSET)
  /\ Holds(v, off, t)

\* The entry of a vtable, 0 beyond its end.
Entry(t, at) == IF at < Len(t) THEN Unsigned16(SubSeq(t, at + 1, at + VOFFSET)) ELSE 0

FieldHolds(v, loc, place, field, value, S) ==
  IF place # 0
  THEN SlotHolds(v, loc - place, field, value, S)
  ELSE value = IF field.kind = "scalar" THEN field.default ELSE Absent

TableHolds(v, o, K, S) ==
  \E vt \in K, t \in Seq(Byte) :
    /\ VTableAt(v, vt, t)
    /\ Holds(v, o.off, Scalar(vt - o.off, UOFFSET))
    /\ \A f \in DOMAIN Tables[o.type.name] :
         FieldHolds(v, o.off, Entry(t, FieldIndexToOffset(f)), Tables[o.type.name][f], o.value[f], S)

LEMMA SlotIsFound ==
  ASSUME IsVector(builder.buf), size(builder.buf) < MAX_BUFFER_SIZE,
         NEW off, NEW type, NEW value, SlotHolds(builder.buf, off, type, value, Objects)
  PROVE  Found(size(builder.buf) - off, type, value)
<1> DEFINE v == builder.buf
<1>1. Data = Buffer(v) /\ size(v) \in Nat /\ Len(Data) = size(v)
  <2>1. Data = Buffer(v)
    BY DEF Data
  <2> QED
    BY <2>1, BufferBytes, VectorTypes
<1> HIDE DEF v
<1>2. IsVector(v) /\ size(v) < MAX_BUFFER_SIZE /\ SlotHolds(v, off, type, value, Objects)
  BY DEF v
<1>3. CASE type.kind = "scalar"
  <2>1. value \in Seq(Byte) /\ Len(value) = type.size /\ Holds(v, off, value)
    BY <1>2, <1>3 DEF SlotHolds
  <2>2. /\ Bytes(Data, size(v) - off, Len(value)) = value
        /\ Inside(Data, size(v) - off, Len(value))
    BY <1>1, <1>2, <2>1, HeldIsRead
  <2> QED
    BY <1>3, <2>1, <2>2 DEF Found, ElementSize, v
<1>4. CASE type.kind # "scalar"
  <2>1. PICK o \in Objects :
          /\ o.type = type /\ o.value = value /\ o.off \in Nat /\ o.off < off
          /\ Holds(v, off, Scalar(off - o.off, UOFFSET))
    BY <1>2, <1>4 DEF SlotHolds
  <2>2. off \in Nat /\ off <= size(v)
    BY <2>1 DEF Holds
  <2> DEFINE n == off - o.off
  <2>3. n \in Int /\ n <= MAX_BUFFER_SIZE /\ -MAX_BUFFER_SIZE <= n
    BY <1>1, <1>2, <2>1, <2>2 DEF MAX_BUFFER_SIZE
  <2>4. Holds(v, off, Scalar(n, UOFFSET))
    BY <2>1
  <2> HIDE DEF n
  <2>5. /\ Offset(Data, size(v) - off) = n
        /\ Inside(Data, size(v) - off, UOFFSET)
    BY <1>1, <1>2, <2>3, <2>4, OffsetIsRead
  <2>6. size(v) - off + Offset(Data, size(v) - off) = Position(o)
    BY <1>1, <2>1, <2>2, <2>5 DEF Position, n
  <2> QED
    BY <1>4, <2>1, <2>5, <2>6 DEF Found, ElementSize, v
<1> QED
  BY <1>3, <1>4

LEMMA VectorIsRead ==
  ASSUME IsVector(builder.buf), size(builder.buf) < MAX_BUFFER_SIZE,
         NEW o, VectorHolds(builder.buf, o, Objects)
  PROVE  /\ Inside(Data, Position(o), UOFFSET) /\ Offset(Data, Position(o)) = Len(o.value)
         /\ \A i \in 1 .. Len(o.value) :
              Found(Position(o) + UOFFSET + (i - 1) * ElementSize(o.type.of), o.type.of, o.value[i])
<1> DEFINE v == builder.buf
           len == Len(o.value)
<1>1. Data = Buffer(v) /\ size(v) \in Nat /\ Position(o) = size(v) - o.off
  <2>1. Data = Buffer(v)
    BY DEF Data
  <2> QED
    BY <2>1, BufferBytes, VectorTypes DEF Position
<1>2. IsVector(v) /\ size(v) < MAX_BUFFER_SIZE
  OBVIOUS
<1>3. len \in Nat /\ len <= o.off /\ o.off \in Nat /\ o.off <= size(v) /\ Holds(v, o.off, Scalar(len, UOFFSET))
  BY DEF VectorHolds, Holds
<1>4. \A i \in 1 .. len :
        SlotHolds(v, o.off - UOFFSET - (i - 1) * ElementSize(o.type.of), o.type.of, o.value[i], Objects)
  BY DEF VectorHolds
<1>5. Inside(Data, Position(o), UOFFSET) /\ Offset(Data, Position(o)) = len
  <2> HIDE DEF v, len
  <2>1. len \in Int /\ -MAX_BUFFER_SIZE <= len /\ len <= MAX_BUFFER_SIZE
    BY <1>1, <1>2, <1>3 DEF MAX_BUFFER_SIZE
  <2> QED
    BY <1>1, <1>2, <1>3, <2>1, OffsetIsRead
<1>6. ASSUME NEW i \in 1 .. len
      PROVE  Found(Position(o) + UOFFSET + (i - 1) * ElementSize(o.type.of), o.type.of, o.value[i])
  <2> DEFINE es == ElementSize(o.type.of)
             off == o.off - UOFFSET - (i - 1) * es
  <2>1. SlotHolds(v, off, o.type.of, o.value[i], Objects)
    BY <1>4
  <2>2. es \in Nat
    BY <2>1 DEF SlotHolds, ElementSize, UOFFSET
  <2> HIDE DEF es
  <2>3. (i - 1) * es \in Int
    BY <1>3, <2>2
  <2>4. Position(o) + UOFFSET + (i - 1) * es = size(v) - off
    BY <1>1, <1>3, <2>3 DEF UOFFSET
  <2>5. Found(size(v) - off, o.type.of, o.value[i])
    BY <2>1, SlotIsFound DEF v
  <2> HIDE DEF off
  <2> QED
    BY <2>4, <2>5 DEF es
<1> QED
  BY <1>5, <1>6

LEMMA FieldOffsets ==
  ASSUME NEW name \in DOMAIN Tables, NEW f \in DOMAIN Tables[name]
  PROVE  /\ FieldIndexToOffset(f) \in Nat /\ FieldIndexToOffset(f) % 2 = 0
         /\ 4 <= FieldIndexToOffset(f) /\ FieldIndexToOffset(f) + 4 <= BYTE * BYTE
         /\ FieldIndexToOffset(f) = 2 * f + 2 /\ f \in Nat
<1>1. f \in 1 .. MAX_FIELDS
  BY ObjectsAssumption, Zenon
<1>2. MAX_FIELDS \in Nat /\ 2 * MAX_FIELDS + 6 <= BYTE * BYTE
  BY DEF MAX_FIELDS, BYTE
<1>3. f \in Nat /\ 1 <= f /\ f <= MAX_FIELDS
  BY <1>1, <1>2
<1>4. FieldIndexToOffset(f) = 2 * f + 2
  BY <1>3 DEF FieldIndexToOffset, VOFFSET
<1> DEFINE most == BYTE * BYTE
<1>5. 2 * f + 6 <= most /\ most \in Int
  BY <1>2, <1>3 DEF BYTE
<1> HIDE DEF most
<1>6. 2 * f + 2 + 4 <= most /\ (2 * f + 2) % 2 = 0 /\ 2 * f + 2 \in Nat /\ 4 <= 2 * f + 2
  BY <1>3, <1>5
<1> QED
  BY <1>3, <1>4, <1>6 DEF most

\* The entries of a vtable are what a reader finds.
LEMMA VTableIsRead ==
  ASSUME NEW v, IsVector(v), NEW off, NEW t, VTableAt(v, off, t),
         NEW data, data = Buffer(v)
  PROVE  /\ VOffset(data, size(v) - off) = Len(t)
         /\ Bytes(data, size(v) - off, Len(t)) = t
         /\ \A at \in Nat : at % 2 = 0 /\ at < Len(t) =>
              VOffset(data, size(v) - off + at) = Entry(t, at)
<1>1. /\ t \in Seq(Byte) /\ Len(t) \in Nat /\ 4 <= Len(t) /\ Len(t) < BYTE * BYTE /\ Len(t) % 2 = 0
      /\ SubSeq(t, 1, VOFFSET) = Scalar(Len(t), VOFFSET) /\ Holds(v, off, t)
  BY DEF VTableAt
<1>2. Bytes(data, size(v) - off, Len(t)) = t
  BY <1>1, HeldIsRead
<1>3. off \in Nat /\ size(v) \in Nat
  BY <1>1, VectorTypes DEF Holds
<1>4. ASSUME NEW at \in Nat, at + 2 <= Len(t)
      PROVE  VOffset(data, size(v) - off + at) = Unsigned16(SubSeq(t, at + 1, at + VOFFSET))
  <2> DEFINE p == SubSeq(t, at + 1, at + 2)
  <2>1. Holds(v, off - at, p) /\ p \in Seq(Byte) /\ Len(p) = 2
    <3> DEFINE n == 2
    <3>1. n \in Nat /\ at + n <= Len(t) /\ p = SubSeq(t, at + 1, at + n)
      BY <1>4
    <3> HIDE DEF n, p
    <3>2. t \in Seq(Byte) /\ Holds(v, off, t)
      BY <1>1
    <3>3. /\ Holds(v, off - at, SubSeq(t, at + 1, at + n))
          /\ SubSeq(t, at + 1, at + n) \in Seq(Byte)
          /\ Len(SubSeq(t, at + 1, at + n)) = n
      BY <3>1, <3>2, PartHeld, Zenon
    <3> QED
      BY <3>1, <3>3 DEF n
  <2> HIDE DEF p
  <2>2. Bytes(data, size(v) - (off - at), 2) = p
    BY <2>1, HeldIsRead
  <2>3. size(v) - (off - at) = size(v) - off + at
    BY <1>3
  <2> QED
    BY <2>2, <2>3 DEF VOffset, VOFFSET, p
<1>5. VOffset(data, size(v) - off) = Len(t)
  <2>1. VOffset(data, size(v) - off + 0) = Unsigned16(SubSeq(t, 0 + 1, 0 + VOFFSET))
    BY <1>1, <1>4
  <2>2. size(v) - off + 0 = size(v) - off /\ 0 + 1 = 1 /\ 0 + VOFFSET = VOFFSET
    BY <1>3 DEF VOFFSET
  <2>3. VOffset(data, size(v) - off) = Unsigned16(SubSeq(t, 1, VOFFSET))
    BY <2>1, <2>2
  <2> QED
    BY <1>1, <2>3, VOffsetBack
<1>6. ASSUME NEW at \in Nat, at % 2 = 0, at < Len(t)
      PROVE  VOffset(data, size(v) - off + at) = Entry(t, at)
  <2>1. at + 2 <= Len(t)
    BY <1>1, <1>6
  <2> QED
    BY <1>4, <1>6, <2>1 DEF Entry
<1> QED
  BY <1>2, <1>5, <1>6

LEMMA VTableIsFound ==
  ASSUME IsVector(builder.buf), size(builder.buf) < MAX_BUFFER_SIZE,
         NEW o, NEW vt, NEW t, VTableAt(builder.buf, vt, t),
         Holds(builder.buf, o.off, Scalar(vt - o.off, UOFFSET))
  PROVE  VTableOf(o) = size(builder.buf) - vt /\ VTableBytes(o) = t
<1> DEFINE v == builder.buf
<1>1. Data = Buffer(v) /\ size(v) \in Nat /\ Position(o) = size(v) - o.off
  <2>1. Data = Buffer(v)
    BY DEF Data
  <2> QED
    BY <2>1, BufferBytes, VectorTypes DEF Position
<1>2. /\ IsVector(v) /\ size(v) < MAX_BUFFER_SIZE /\ VTableAt(v, vt, t)
      /\ Holds(v, o.off, Scalar(vt - o.off, UOFFSET))
  OBVIOUS
<1> HIDE DEF v
<1>3. vt \in Nat /\ vt <= size(v) /\ o.off \in Nat /\ o.off <= size(v)
  BY <1>2 DEF VTableAt, Holds
<1>4. VTableOf(o) = size(v) - vt
  <2> DEFINE n == vt - o.off
  <2>1. n \in Int /\ -MAX_BUFFER_SIZE <= n /\ n <= MAX_BUFFER_SIZE
    BY <1>1, <1>2, <1>3 DEF MAX_BUFFER_SIZE
  <2>2. Holds(v, o.off, Scalar(n, UOFFSET))
    BY <1>2
  <2> HIDE DEF n
  <2>3. Offset(Data, size(v) - o.off) = n
    BY <1>1, <1>2, <2>1, <2>2, OffsetIsRead
  <2> QED
    BY <1>1, <1>3, <2>3 DEF VTableOf, GetVTable, n
<1>5. VOffset(Data, size(v) - vt) = Len(t) /\ Bytes(Data, size(v) - vt, Len(t)) = t
  BY <1>1, <1>2, VTableIsRead
<1> QED
  BY <1>4, <1>5 DEF VTableBytes, v

\* A field of a table is in the slot its vtable leads to.
LEMMA FieldIsInSlot ==
  ASSUME IsVector(builder.buf), size(builder.buf) < MAX_BUFFER_SIZE,
         NEW o, NEW K, TableHolds(builder.buf, o, K, Objects), o.type.name \in DOMAIN Tables,
         NEW f \in DOMAIN Tables[o.type.name]
  PROVE  LET field == Tables[o.type.name][f]
             place == GetOptionalFieldOffset(Data, Position(o), FieldIndexToOffset(f))
         IN  IF place # 0
             THEN \E off : /\ SlotHolds(builder.buf, off, field, o.value[f], Objects)
                          /\ Position(o) + place = size(builder.buf) - off
             ELSE o.value[f] = IF field.kind = "scalar" THEN field.default ELSE Absent
<1> DEFINE v == builder.buf
           field == Tables[o.type.name][f]
           at == FieldIndexToOffset(f)
           place == GetOptionalFieldOffset(Data, Position(o), at)
<1>1. Data = Buffer(v) /\ size(v) \in Nat /\ Position(o) = size(v) - o.off
  <2>1. Data = Buffer(v)
    BY DEF Data
  <2> QED
    BY <2>1, BufferBytes, VectorTypes DEF Position
<1>2. IsVector(v) /\ size(v) < MAX_BUFFER_SIZE
  OBVIOUS
<1>3. PICK vt \in K, t \in Seq(Byte) :
        /\ VTableAt(v, vt, t)
        /\ Holds(v, o.off, Scalar(vt - o.off, UOFFSET))
        /\ \A g \in DOMAIN Tables[o.type.name] :
             FieldHolds(v, o.off, Entry(t, FieldIndexToOffset(g)), Tables[o.type.name][g], o.value[g], Objects)
  BY DEF TableHolds
<1>4. FieldHolds(v, o.off, Entry(t, at), field, o.value[f], Objects)
  BY <1>3
<1>5. at \in Nat /\ at % 2 = 0
  BY FieldOffsets
<1>6. vt \in Nat /\ vt <= size(v) /\ o.off \in Nat /\ o.off <= size(v)
  BY <1>3 DEF VTableAt, Holds
<1> HIDE DEF v, at, field
<1>7. GetVTable(Data, Position(o)) = size(v) - vt
  BY <1>2, <1>3, VTableIsFound DEF VTableOf, v
<1>8. /\ VOffset(Data, size(v) - vt) = Len(t)
      /\ at < Len(t) => VOffset(Data, size(v) - vt + at) = Entry(t, at)
  BY <1>1, <1>2, <1>3, <1>5, VTableIsRead
<1>9. place = Entry(t, at)
  <2>1. CASE at < Len(t)
    BY <1>7, <1>8, <2>1 DEF GetOptionalFieldOffset
  <2>2. CASE ~(at < Len(t))
    BY <1>7, <1>8, <2>2 DEF GetOptionalFieldOffset, Entry
  <2> QED
    BY <2>1, <2>2
<1> HIDE DEF place
<1>10. CASE place # 0
  <2> DEFINE off == o.off - place
  <2>1. SlotHolds(v, off, field, o.value[f], Objects)
    BY <1>4, <1>9, <1>10 DEF FieldHolds
  <2>3. place \in Int
    <3>1. Len(t) \in Nat /\ t \in Seq(Byte) /\ Len(t) % 2 = 0
      BY <1>3 DEF VTableAt
    <3>2. at < Len(t)
      BY <1>9, <1>10 DEF Entry
    <3>3. at + 2 <= Len(t)
      BY <1>5, <3>1, <3>2
    <3> DEFINE p == SubSeq(t, at + 1, at + 2)
    <3>4. p \in Seq(Byte) /\ Len(p) = 2
      BY <1>5, <3>1, <3>3
    <3>5. Entry(t, at) = Unsigned16(p)
      BY <3>2 DEF Entry, VOFFSET
    <3> HIDE DEF p
    <3> QED
      BY <1>9, <3>4, <3>5, UnsignedOfTwo
  <2>4. Position(o) + place = size(v) - off
    BY <1>1, <1>6, <2>3
  <2> HIDE DEF off
  <2> QED
    BY <1>10, <2>1, <2>4 DEF place, field, at, v
<1>11. CASE place = 0
  <2>1. o.value[f] = IF field.kind = "scalar" THEN field.default ELSE Absent
    BY <1>4, <1>9, <1>11 DEF FieldHolds
  <2> QED
    BY <1>11, <2>1 DEF place, field, at
<1> QED
  BY <1>10, <1>11

LEMMA TableIsRead ==
  ASSUME IsVector(builder.buf), size(builder.buf) < MAX_BUFFER_SIZE,
         NEW o, NEW K, TableHolds(builder.buf, o, K, Objects), o.type.name \in DOMAIN Tables,
         NEW f \in DOMAIN Tables[o.type.name]
  PROVE  LET field == Tables[o.type.name][f]
             place == GetOptionalFieldOffset(Data, Position(o), FieldIndexToOffset(f))
         IN  IF place # 0
             THEN Found(Position(o) + place, field, o.value[f])
             ELSE o.value[f] = IF field.kind = "scalar" THEN field.default ELSE Absent
<1> DEFINE field == Tables[o.type.name][f]
           place == GetOptionalFieldOffset(Data, Position(o), FieldIndexToOffset(f))
<1>1. IF place # 0
      THEN \E off : /\ SlotHolds(builder.buf, off, field, o.value[f], Objects)
                   /\ Position(o) + place = size(builder.buf) - off
      ELSE o.value[f] = IF field.kind = "scalar" THEN field.default ELSE Absent
  BY FieldIsInSlot
<1> HIDE DEF field, place
<1>2. CASE place # 0
  <2>1. PICK off : /\ SlotHolds(builder.buf, off, field, o.value[f], Objects)
                   /\ Position(o) + place = size(builder.buf) - off
    BY <1>1, <1>2
  <2>2. Found(size(builder.buf) - off, field, o.value[f])
    BY <2>1, SlotIsFound
  <2> QED
    BY <1>2, <2>1, <2>2 DEF field, place
<1>3. CASE place = 0
  BY <1>1, <1>3 DEF field, place
<1> QED
  BY <1>2, <1>3

-----------------------------------------------------------------------------
(***************************************************************************)
(* What has been written stays as it is.                                   *)
(***************************************************************************)
LEMMA OffsetHeldStays ==
  ASSUME NEW v, IsVector(v), NEW off, NEW n \in Int, Holds(v, off, Scalar(n, UOFFSET)),
         NEW w, IsVector(w), Kept(v, w)
  PROVE  Holds(w, off, Scalar(n, UOFFSET))
<1>1. Scalar(n, UOFFSET) \in Seq(Cell)
  BY ScalarIsElement, BytesAreCells
<1> QED
  BY <1>1, HeldStays

LEMMA SlotStays ==
  ASSUME NEW v, IsVector(v), NEW w, IsVector(w), Kept(v, w), NEW S, NEW T, S \subseteq T,
         NEW off, NEW type, NEW value, SlotHolds(v, off, type, value, S)
  PROVE  SlotHolds(w, off, type, value, T)
<1>0. off % ElementSize(type) = 0
  BY DEF SlotHolds
<1>1. CASE type.kind = "scalar"
  <2>1. value \in Seq(Byte) /\ Len(value) = type.size /\ Holds(v, off, value)
    BY <1>1 DEF SlotHolds
  <2>2. value \in Seq(Cell)
    BY <2>1, BytesAreCells
  <2>3. Holds(w, off, value)
    BY <2>1, <2>2, HeldStays
  <2> QED
    BY <1>0, <1>1, <2>1, <2>3 DEF SlotHolds
<1>2. CASE type.kind # "scalar"
  <2>1. PICK o \in S :
          /\ o.type = type /\ o.value = value /\ o.off \in Nat /\ o.off < off
          /\ Holds(v, off, Scalar(off - o.off, UOFFSET))
    BY <1>2 DEF SlotHolds
  <2>2. off \in Nat
    BY <2>1 DEF Holds
  <2>3. off - o.off \in Int
    BY <2>1, <2>2
  <2>4. Holds(w, off, Scalar(off - o.off, UOFFSET))
    BY <2>1, <2>3, OffsetHeldStays
  <2>5. o \in T
    OBVIOUS
  <2> QED
    BY <1>0, <1>2, <2>1, <2>4, <2>5 DEF SlotHolds
<1> QED
  BY <1>1, <1>2

LEMMA VectorStays ==
  ASSUME NEW v, IsVector(v), NEW w, IsVector(w), Kept(v, w), NEW S, NEW T, S \subseteq T,
         NEW o, VectorHolds(v, o, S)
  PROVE  VectorHolds(w, o, T)
<1>1. Len(o.value) \in Nat /\ Len(o.value) <= o.off
  BY DEF VectorHolds
<1>2. Holds(w, o.off, Scalar(Len(o.value), UOFFSET))
  <2>1. Len(o.value) \in Int /\ Holds(v, o.off, Scalar(Len(o.value), UOFFSET))
    BY <1>1 DEF VectorHolds
  <2> QED
    BY <2>1, OffsetHeldStays
<1>3. ASSUME NEW i \in 1 .. Len(o.value)
      PROVE  SlotHolds(w, o.off - UOFFSET - (i - 1) * ElementSize(o.type.of), o.type.of, o.value[i], T)
  <2>1. SlotHolds(v, o.off - UOFFSET - (i - 1) * ElementSize(o.type.of), o.type.of, o.value[i], S)
    BY DEF VectorHolds
  <2> QED
    BY <2>1, SlotStays
<1> QED
  BY <1>1, <1>2, <1>3 DEF VectorHolds

LEMMA VTableStays ==
  ASSUME NEW v, IsVector(v), NEW w, IsVector(w), Kept(v, w), NEW off, NEW t, VTableAt(v, off, t)
  PROVE  VTableAt(w, off, t)
<1>1. t \in Seq(Cell) /\ Holds(v, off, t)
  BY BytesAreCells DEF VTableAt
<1>2. Holds(w, off, t)
  BY <1>1, HeldStays
<1> QED
  BY <1>2 DEF VTableAt

LEMMA TableStays ==
  ASSUME NEW v, IsVector(v), NEW w, IsVector(w), Kept(v, w), NEW S, NEW T, S \subseteq T,
         NEW K, NEW L, K \subseteq L, NEW o, TableHolds(v, o, K, S)
  PROVE  TableHolds(w, o, L, T)
<1>1. PICK vt \in K, t \in Seq(Byte) :
        /\ VTableAt(v, vt, t)
        /\ Holds(v, o.off, Scalar(vt - o.off, UOFFSET))
        /\ \A f \in DOMAIN Tables[o.type.name] :
             FieldHolds(v, o.off, Entry(t, FieldIndexToOffset(f)), Tables[o.type.name][f], o.value[f], S)
  BY DEF TableHolds
<1>2. vt \in L /\ VTableAt(w, vt, t)
  BY <1>1, VTableStays
<1>3. Holds(w, o.off, Scalar(vt - o.off, UOFFSET))
  <2>1. vt \in Nat /\ o.off \in Nat
    BY <1>1 DEF VTableAt, Holds
  <2>2. vt - o.off \in Int
    BY <2>1
  <2> QED
    BY <1>1, <2>2, OffsetHeldStays
<1>4. ASSUME NEW f \in DOMAIN Tables[o.type.name]
      PROVE  FieldHolds(w, o.off, Entry(t, FieldIndexToOffset(f)), Tables[o.type.name][f], o.value[f], T)
  <2> DEFINE place == Entry(t, FieldIndexToOffset(f))
  <2>1. FieldHolds(v, o.off, place, Tables[o.type.name][f], o.value[f], S)
    BY <1>1
  <2> HIDE DEF place
  <2>2. CASE place # 0
    <3>1. SlotHolds(v, o.off - place, Tables[o.type.name][f], o.value[f], S)
      BY <2>1, <2>2 DEF FieldHolds
    <3>2. SlotHolds(w, o.off - place, Tables[o.type.name][f], o.value[f], T)
      BY <3>1, SlotStays
    <3> QED
      BY <2>2, <3>2 DEF FieldHolds, place
  <2>3. CASE place = 0
    BY <2>1, <2>3 DEF FieldHolds, place
  <2> QED
    BY <2>2, <2>3
<1> QED
  BY <1>1, <1>2, <1>3, <1>4 DEF TableHolds

\* K are the vtables of v, no two of them the same.
VTablesOK(v, K) ==
  /\ \A p \in K : \E t \in Seq(Byte) : VTableAt(v, p, t)
  /\ \A p, q \in K : \A t \in Seq(Byte) : VTableAt(v, p, t) /\ VTableAt(v, q, t) => p = q

LEMMA VTableUnique ==
  ASSUME NEW v, IsVector(v), NEW off, NEW t, VTableAt(v, off, t), NEW u, VTableAt(v, off, u)
  PROVE  t = u
<1> DEFINE data == Buffer(v)
<1>1. data = Buffer(v)
  OBVIOUS
<1> HIDE DEF data
<1>2. /\ VOffset(data, size(v) - off) = Len(t)
      /\ Bytes(data, size(v) - off, Len(t)) = t
  BY <1>1, VTableIsRead
<1>3. /\ VOffset(data, size(v) - off) = Len(u)
      /\ Bytes(data, size(v) - off, Len(u)) = u
  BY <1>1, VTableIsRead
<1> QED
  BY <1>2, <1>3

LEMMA VTablesStay ==
  ASSUME NEW v, IsVector(v), NEW w, IsVector(w), Kept(v, w), NEW K, VTablesOK(v, K)
  PROVE  VTablesOK(w, K)
<1>1. ASSUME NEW p \in K
      PROVE  \E t \in Seq(Byte) : VTableAt(w, p, t)
  <2>1. PICK t \in Seq(Byte) : VTableAt(v, p, t)
    BY DEF VTablesOK
  <2>2. VTableAt(w, p, t)
    BY <2>1, VTableStays
  <2> QED
    BY <2>2
<1>2. ASSUME NEW p \in K, NEW q \in K, NEW t \in Seq(Byte), VTableAt(w, p, t), VTableAt(w, q, t)
      PROVE  p = q
  <2>1. PICK r \in Seq(Byte) : VTableAt(v, p, r)
    BY DEF VTablesOK
  <2>2. PICK s \in Seq(Byte) : VTableAt(v, q, s)
    BY DEF VTablesOK
  <2>3. VTableAt(w, p, r) /\ VTableAt(w, q, s)
    BY <2>1, <2>2, VTableStays
  <2>4. r = t /\ s = t
    BY <1>2, <2>3, VTableUnique
  <2> QED
    BY <2>1, <2>2, <2>4 DEF VTablesOK
<1> QED
  BY <1>1, <1>2 DEF VTablesOK

\* An object among the objects of S, with its vtable in K.
ObjectLies(v, o, K, S) ==
  \/ o.type = String
  \/ \E t : o.type = VectorOf(t) /\ VectorHolds(v, o, S)
  \/ \E name \in DOMAIN Tables : o.type = TableOf(name) /\ TableHolds(v, o, K, S)

LEMMA ObjectStays ==
  ASSUME NEW v, IsVector(v), NEW w, IsVector(w), Kept(v, w), NEW S, NEW T, S \subseteq T,
         NEW K, NEW L, K \subseteq L, NEW o, ObjectLies(v, o, K, S)
  PROVE  ObjectLies(w, o, L, T)
<1>1. CASE o.type = String
  BY <1>1 DEF ObjectLies
<1>2. CASE \E t : o.type = VectorOf(t) /\ VectorHolds(v, o, S)
  BY <1>2, VectorStays DEF ObjectLies
<1>3. CASE \E name \in DOMAIN Tables : o.type = TableOf(name) /\ TableHolds(v, o, K, S)
  BY <1>3, TableStays DEF ObjectLies
<1> QED
  BY <1>1, <1>2, <1>3 DEF ObjectLies

-----------------------------------------------------------------------------
(***************************************************************************)
(* What the scratch pad holds.                                             *)
(***************************************************************************)
InPad(v, at, bytes) ==
  /\ at \in Nat /\ at + Len(bytes) <= v.scratch
  /\ \A i \in 1 .. Len(bytes) : v.buf[at + i] = bytes[i]

LEMMA PadIsRead ==
  ASSUME NEW v, IsVector(v), NEW at, NEW bytes \in Seq(Byte), InPad(v, at, bytes)
  PROVE  ScratchAt(v, at, Len(bytes)) = bytes
<1> DEFINE m == Len(bytes)
           x == ScratchAt(v, at, m)
<1>1. /\ v.buf \in Seq(Cell) /\ at \in Nat /\ m \in Nat /\ at + m <= Len(v.buf) /\ Len(v.buf) \in Nat
  BY VectorTypes DEF IsVector, InPad
<1>2. x = SubSeq(v.buf, at + 1, at + m)
  BY DEF ScratchAt
<1> HIDE DEF m, x
<1>3. x \in Seq(Cell) /\ Len(x) = m
  BY <1>1, <1>2
<1>4. ASSUME NEW i \in 1 .. m
      PROVE  x[i] = bytes[i]
  <2> DEFINE first == at + 1
             last == at + m
  <2>1. /\ x = SubSeq(v.buf, first, last) /\ first \in Nat /\ last \in Nat
        /\ 1 <= first /\ last <= Len(v.buf)
        /\ i \in 1 .. last - first + 1 /\ first + i - 1 = at + i
    BY <1>1, <1>2
  <2> HIDE DEF first, last
  <2>2. x[i] = v.buf[first + i - 1]
    BY <1>1, <2>1
  <2>3. v.buf[at + i] = bytes[i]
    BY DEF InPad, m
  <2> QED
    BY <2>1, <2>2, <2>3
<1> QED
  BY <1>3, <1>4, BytesAreCells DEF m, x

LEMMA InPadStays ==
  ASSUME NEW v, IsVector(v), NEW w, IsVector(w), NEW m \in Nat, m <= w.scratch,
         \A i \in 1 .. m : w.buf[i] = v.buf[i],
         NEW at, NEW bytes \in Seq(Byte), InPad(v, at, bytes), at + Len(bytes) <= m
  PROVE  InPad(w, at, bytes)
<1>1. at \in Nat /\ Len(bytes) \in Nat /\ w.scratch \in Nat
  BY VectorTypes DEF InPad
<1>2. ASSUME NEW i \in 1 .. Len(bytes)
      PROVE  w.buf[at + i] = bytes[i]
  <2>1. at + i \in 1 .. m
    BY <1>1
  <2> QED
    BY <2>1 DEF InPad
<1>3. at + Len(bytes) <= w.scratch
  BY <1>1
<1> QED
  BY <1>1, <1>2, <1>3 DEF InPad

\* The offsets of the vtables, and above them the FieldLocs.
PadHolds(v, known, locs) ==
  /\ known \in Seq(Nat) /\ locs \in Seq([off : Nat, id : Nat])
  /\ v.scratch = 4 * Len(known) + 8 * Len(locs)
  /\ \A k \in 1 .. Len(known) : InPad(v, 4 * (k - 1), Scalar(known[k], UOFFSET))
  /\ \A j \in 1 .. Len(locs) :
       /\ InPad(v, 4 * Len(known) + 8 * (j - 1), Scalar(locs[j].off, UOFFSET))
       /\ InPad(v, 4 * Len(known) + 8 * (j - 1) + 4, Scalar(locs[j].id, VOFFSET))

LEMMA PadTypes ==
  ASSUME NEW v, NEW known, NEW locs, PadHolds(v, known, locs)
  PROVE  /\ Len(known) \in Nat /\ Len(locs) \in Nat
         /\ \A k \in 1 .. Len(known) :
              /\ known[k] \in Nat
              /\ Scalar(known[k], UOFFSET) \in Seq(Byte) /\ Len(Scalar(known[k], UOFFSET)) = 4
         /\ \A j \in 1 .. Len(locs) :
              /\ locs[j].off \in Nat /\ locs[j].id \in Nat
              /\ locs[j] = [off |-> locs[j].off, id |-> locs[j].id]
              /\ Scalar(locs[j].off, UOFFSET) \in Seq(Byte) /\ Len(Scalar(locs[j].off, UOFFSET)) = 4
              /\ Scalar(locs[j].id, VOFFSET) \in Seq(Byte) /\ Len(Scalar(locs[j].id, VOFFSET)) = 2
<1>1. known \in Seq(Nat) /\ locs \in Seq([off : Nat, id : Nat])
  BY DEF PadHolds
<1>2. Len(known) \in Nat /\ Len(locs) \in Nat
  BY <1>1
<1>3. \A k \in 1 .. Len(known) : known[k] \in Nat
  BY <1>1, ElementType
<1>4. \A j \in 1 .. Len(locs) : locs[j] \in [off : Nat, id : Nat]
  BY <1>1, ElementType
<1>5. \A n \in Nat : n \in Int
  OBVIOUS
<1>6. ASSUME NEW k \in 1 .. Len(known)
      PROVE  Scalar(known[k], UOFFSET) \in Seq(Byte) /\ Len(Scalar(known[k], UOFFSET)) = 4
  BY <1>3, <1>5, ScalarIsElement
<1>7. ASSUME NEW j \in 1 .. Len(locs)
      PROVE  /\ locs[j].off \in Nat /\ locs[j].id \in Nat
             /\ locs[j] = [off |-> locs[j].off, id |-> locs[j].id]
             /\ Scalar(locs[j].off, UOFFSET) \in Seq(Byte) /\ Len(Scalar(locs[j].off, UOFFSET)) = 4
             /\ Scalar(locs[j].id, VOFFSET) \in Seq(Byte) /\ Len(Scalar(locs[j].id, VOFFSET)) = 2
  <2>1. locs[j] \in [off : Nat, id : Nat]
    BY <1>4
  <2>2. /\ locs[j].off \in Nat /\ locs[j].id \in Nat
        /\ locs[j] = [off |-> locs[j].off, id |-> locs[j].id]
    BY <2>1
  <2>3. locs[j].off \in Int /\ locs[j].id \in Int
    BY <1>5, <2>2
  <2> QED
    BY <2>2, <2>3, ScalarIsElement, VOffsetType
<1> QED
  BY <1>2, <1>3, <1>6, <1>7

\* The start of the pad stays, with as many FieldLocs as are left.
LEMMA PadHoldsStays ==
  ASSUME NEW v, IsVector(v), NEW known, NEW locs, PadHolds(v, known, locs),
         NEW w, IsVector(w), SamePad(v, w)
  PROVE  PadHolds(w, known, locs)
<1>1. /\ w.scratch = v.scratch /\ v.scratch \in Nat
      /\ \A i \in 1 .. v.scratch : w.buf[i] = v.buf[i]
  BY VectorTypes DEF SamePad
<1>2. ASSUME NEW at, NEW bytes \in Seq(Byte), InPad(v, at, bytes)
      PROVE  InPad(w, at, bytes)
  <2>1. at + Len(bytes) <= v.scratch
    BY <1>2 DEF InPad
  <2> QED
    BY <1>1, <1>2, <2>1, InPadStays
<1>3. \A k \in 1 .. Len(known) : InPad(w, 4 * (k - 1), Scalar(known[k], UOFFSET))
  BY <1>2, PadTypes DEF PadHolds
<1>4. ASSUME NEW j \in 1 .. Len(locs)
      PROVE  /\ InPad(w, 4 * Len(known) + 8 * (j - 1), Scalar(locs[j].off, UOFFSET))
             /\ InPad(w, 4 * Len(known) + 8 * (j - 1) + 4, Scalar(locs[j].id, VOFFSET))
  BY <1>2, PadTypes DEF PadHolds
<1> QED
  BY <1>1, <1>3, <1>4 DEF PadHolds

LEMMA PadPopped ==
  ASSUME NEW v, IsVector(v), NEW known, NEW locs, PadHolds(v, known, locs),
         NEW w, w = scratch_pop(v, Len(locs) * FIELD_LOC)
  PROVE  IsVector(w) /\ PadHolds(w, known, << >>)
<1> DEFINE n == Len(locs) * FIELD_LOC
           m == 4 * Len(known)
<1>1. n \in Nat /\ m \in Nat /\ v.scratch = m + n /\ n <= v.scratch
  BY PadTypes DEF PadHolds, FIELD_LOC
<1> HIDE DEF n
<1>2. IsVector(w) /\ w.scratch = m /\ w.buf = v.buf
  <2>1. IsVector(w) /\ w.scratch = v.scratch - n /\ w.buf = v.buf
    BY <1>1, ScratchPopGives DEF n
  <2> QED
    BY <1>1, <2>1
<1>3. ASSUME NEW k \in 1 .. Len(known)
      PROVE  InPad(w, 4 * (k - 1), Scalar(known[k], UOFFSET))
  <2> DEFINE bytes == Scalar(known[k], UOFFSET)
  <2>1. bytes \in Seq(Byte) /\ Len(bytes) = 4 /\ Len(known) \in Nat
    BY PadTypes
  <2>2. 4 * (k - 1) + 4 <= m
    BY <2>1
  <2>3. InPad(v, 4 * (k - 1), bytes)
    BY DEF PadHolds
  <2> HIDE DEF bytes, m
  <2> DEFINE at == 4 * (k - 1)
  <2>4. InPad(v, at, bytes) /\ at + Len(bytes) <= m
    BY <2>1, <2>2, <2>3
  <2> HIDE DEF at
  <2>5. m <= w.scratch /\ \A i \in 1 .. m : w.buf[i] = v.buf[i]
    BY <1>1, <1>2
  <2>6. InPad(w, at, bytes)
    BY <1>1, <1>2, <2>1, <2>4, <2>5, InPadStays
  <2> QED
    BY <2>6 DEF at, bytes
<1>4. Len(<< >>) = 0 /\ << >> \in Seq([off : Nat, id : Nat])
  OBVIOUS
<1>5. w.scratch = 4 * Len(known) + 8 * Len(<< >>)
  BY <1>1, <1>2, <1>4
<1> QED
  BY <1>2, <1>3, <1>4, <1>5 DEF PadHolds

\* The end of what has been pushed to the pad.
LEMMA InPadEnd ==
  ASSUME NEW v, IsVector(v), NEW w, IsVector(w), NEW all \in Seq(Cell),
         w.scratch = v.scratch + Len(all),
         \A i \in 1 .. Len(all) : w.buf[v.scratch + i] = all[i],
         NEW n \in Nat, NEW bytes \in Seq(Byte), n + Len(bytes) <= Len(all),
         \A i \in 1 .. Len(bytes) : all[n + i] = bytes[i]
  PROVE  InPad(w, v.scratch + n, bytes)
<1>1. v.scratch \in Nat /\ Len(all) \in Nat /\ Len(bytes) \in Nat
  <2>1. v.scratch \in Nat
    BY VectorTypes
  <2> QED
    BY <2>1
<1>2. ASSUME NEW i \in 1 .. Len(bytes)
      PROVE  w.buf[v.scratch + n + i] = bytes[i]
  <2>1. n + i \in 1 .. Len(all) /\ v.scratch + (n + i) = v.scratch + n + i
    BY <1>1
  <2>2. w.buf[v.scratch + (n + i)] = all[n + i]
    BY <2>1
  <2> QED
    BY <2>1, <2>2
<1>3. v.scratch + n \in Nat /\ v.scratch + n + Len(bytes) <= w.scratch
  BY <1>1
<1> QED
  BY <1>2, <1>3 DEF InPad

IsFieldLoc(loc, off, id) == loc = Scalar(off, UOFFSET) \o Scalar(id, VOFFSET) \o << Uninit, Uninit >>

LEMMA FieldLocParts ==
  ASSUME NEW off \in Nat, NEW id \in Nat, NEW loc, IsFieldLoc(loc, off, id)
  PROVE  /\ loc \in Seq(Cell) /\ Len(loc) = 8
         /\ \A i \in 1 .. 4 : loc[i] = Scalar(off, UOFFSET)[i]
         /\ \A i \in 1 .. 2 : loc[4 + i] = Scalar(id, VOFFSET)[i]
<1> DEFINE p == Scalar(off, UOFFSET)
           q == Scalar(id, VOFFSET)
           r == << Uninit, Uninit >>
           s == p \o q
<1>1. p \in Seq(Byte) /\ Len(p) = 4 /\ q \in Seq(Byte) /\ Len(q) = 2 /\ r \in Seq(Cell)
  <2>1. off \in Int /\ id \in Int /\ r \in Seq(Cell)
    BY DEF Cell
  <2> QED
    BY <2>1, ScalarIsElement, VOffsetType
<1>2. loc = s \o r
  BY DEF IsFieldLoc
<1>7. loc \in Seq(Cell) /\ Len(loc) = 8
  <2>1. off \in Int
    OBVIOUS
  <2> QED
    BY <2>1, FieldLocBytes, Zenon DEF IsFieldLoc
<1> HIDE DEF p, q, r
<1>3. /\ s \in Seq(Byte) /\ Len(s) = 6
      /\ \A i \in 1 .. 4 : s[i] = p[i]
      /\ \A i \in 1 .. 2 : s[4 + i] = q[i]
  <2>1. /\ s \in Seq(Byte) /\ Len(s) = Len(p) + Len(q)
        /\ \A i \in 1 .. Len(p) : s[i] = p[i]
        /\ \A i \in 1 .. Len(q) : s[Len(p) + i] = q[i]
    <3>1. p \in Seq(Byte) /\ q \in Seq(Byte)
      BY <1>1
    <3> QED
      BY <3>1, Joined
  <2> HIDE DEF s
  <2> QED
    BY <1>1, <2>1
<1> HIDE DEF s
<1>4. s \in Seq(Cell)
  BY <1>3, BytesAreCells
<1>5. \A i \in 1 .. 6 : (s \o r)[i] = s[i]
  <2>1. \A i \in 1 .. Len(s) : (s \o r)[i] = s[i]
    <3>1. r \in Seq(Cell)
      BY <1>1
    <3> QED
      BY <1>4, <3>1, Joined
  <2> QED
    BY <1>3, <2>1
<1>6. (\A i \in 1 .. 4 : i \in 1 .. 6) /\ (\A i \in 1 .. 2 : 4 + i \in 1 .. 6)
  OBVIOUS
<1> QED
  BY <1>2, <1>3, <1>5, <1>6, <1>7 DEF p, q

\* TrackField remembers a FieldLoc.
LEMMA LocPushed ==
  ASSUME NEW v, IsVector(v), NEW known, NEW locs, PadHolds(v, known, locs),
         NEW off \in Nat, NEW id \in Nat, NEW loc, IsFieldLoc(loc, off, id),
         NEW w, w = scratch_push_small(v, loc)
  PROVE  PadHolds(w, known, Append(locs, [off |-> off, id |-> id]))
<1> DEFINE p == Scalar(off, UOFFSET)
           q == Scalar(id, VOFFSET)
           n == Len(locs)
           m == 4 * Len(known)
           new == Append(locs, [off |-> off, id |-> id])
<1>1. p \in Seq(Byte) /\ Len(p) = 4 /\ q \in Seq(Byte) /\ Len(q) = 2
  <2>1. off \in Int /\ id \in Int
    OBVIOUS
  <2> QED
    BY <2>1, ScalarIsElement, VOffsetType
<1>2. loc \in Seq(Cell) /\ Len(loc) = 8
  BY FieldLocParts
<1>3. (\A i \in 1 .. 4 : loc[i] = p[i]) /\ (\A i \in 1 .. 2 : loc[4 + i] = q[i])
  BY FieldLocParts
<1> HIDE DEF p, q
<1>5. /\ IsVector(w) /\ w.scratch = v.scratch + 8
      /\ \A i \in 1 .. v.scratch : w.buf[i] = v.buf[i]
      /\ \A i \in 1 .. 8 : w.buf[v.scratch + i] = loc[i]
  <2>1. /\ IsVector(w) /\ w.scratch = v.scratch + Len(loc)
        /\ \A i \in 1 .. v.scratch : w.buf[i] = v.buf[i]
        /\ \A i \in 1 .. Len(loc) : w.buf[v.scratch + i] = loc[i]
    <3>1. loc \in Seq(Cell)
      BY <1>2
    <3> QED
      BY <3>1, ScratchPushGives
  <2> QED
    BY <1>2, <2>1
<1>6. /\ n \in Nat /\ m \in Nat /\ v.scratch = m + 8 * n /\ v.scratch \in Nat
      /\ known \in Seq(Nat) /\ locs \in Seq([off : Nat, id : Nat])
  BY PadTypes DEF PadHolds
<1>7. /\ new \in Seq([off : Nat, id : Nat]) /\ Len(new) = n + 1
      /\ \A j \in 1 .. n : new[j] = locs[j]
      /\ new[n + 1] = [off |-> off, id |-> id]
  BY <1>6
<1> HIDE DEF new, m, n
<1>8. ASSUME NEW at, NEW bytes \in Seq(Byte), InPad(v, at, bytes)
      PROVE  InPad(w, at, bytes)
  <2>1. at + Len(bytes) <= v.scratch
    BY <1>8 DEF InPad
  <2>2. v.scratch <= w.scratch
    BY <1>5, <1>6
  <2> QED
    BY <1>5, <1>6, <1>8, <2>1, <2>2, InPadStays
<1>9. \A k \in 1 .. Len(known) : InPad(w, 4 * (k - 1), Scalar(known[k], UOFFSET))
  BY <1>8, PadTypes DEF PadHolds
<1>10. InPad(w, v.scratch + 0, p) /\ InPad(w, v.scratch + 4, q)
  <2>1. Len(loc) = 8 /\ 0 + Len(p) <= Len(loc) /\ 4 + Len(q) <= Len(loc)
    BY <1>1, <1>2
  <2>2. w.scratch = v.scratch + Len(loc) /\ \A i \in 1 .. Len(loc) : w.buf[v.scratch + i] = loc[i]
    BY <1>5, <2>1
  <2>3. (\A i \in 1 .. Len(p) : loc[0 + i] = p[i]) /\ (\A i \in 1 .. Len(q) : loc[4 + i] = q[i])
    <3>1. \A i \in 1 .. 4 : 0 + i = i
      OBVIOUS
    <3> QED
      BY <1>1, <1>3, <3>1
  <2>4. 0 \in Nat /\ 4 \in Nat
    OBVIOUS
  <2>5. InPad(w, v.scratch + 0, p)
    BY <1>1, <1>2, <1>5, <2>1, <2>2, <2>3, <2>4, InPadEnd
  <2>6. InPad(w, v.scratch + 4, q)
    BY <1>1, <1>2, <1>5, <2>1, <2>2, <2>3, <2>4, InPadEnd
  <2> QED
    BY <2>5, <2>6
<1>11. ASSUME NEW j \in 1 .. n + 1
       PROVE  /\ InPad(w, m + 8 * (j - 1), Scalar(new[j].off, UOFFSET))
              /\ InPad(w, m + 8 * (j - 1) + 4, Scalar(new[j].id, VOFFSET))
  <2>1. CASE j \in 1 .. n
    <3>1. /\ InPad(v, m + 8 * (j - 1), Scalar(locs[j].off, UOFFSET))
          /\ InPad(v, m + 8 * (j - 1) + 4, Scalar(locs[j].id, VOFFSET))
      BY <2>1 DEF PadHolds, m, n
    <3>2. Scalar(locs[j].off, UOFFSET) \in Seq(Byte) /\ Scalar(locs[j].id, VOFFSET) \in Seq(Byte)
      BY <2>1, PadTypes DEF n
    <3> QED
      BY <1>7, <1>8, <2>1, <3>1, <3>2
  <2>2. CASE j = n + 1
    <3>1. m + 8 * (j - 1) = v.scratch + 0 /\ m + 8 * (j - 1) + 4 = v.scratch + 4
      BY <1>6, <2>2
    <3>2. new[j].off = off /\ new[j].id = id
      BY <1>7, <2>2
    <3> QED
      BY <1>10, <3>1, <3>2 DEF p, q
  <2> QED
    BY <1>6, <2>1, <2>2
<1>12. w.scratch = m + 8 * (n + 1)
  BY <1>5, <1>6
<1>13. PadHolds(w, known, new)
  BY <1>6, <1>7, <1>9, <1>11, <1>12 DEF PadHolds, m
<1> QED
  BY <1>13 DEF new

\* EndTable remembers a vtable.
LEMMA VTablePushed ==
  ASSUME NEW v, IsVector(v), NEW known, PadHolds(v, known, << >>), NEW off \in Nat,
         NEW w, w = scratch_push_small(v, Scalar(off, UOFFSET))
  PROVE  PadHolds(w, Append(known, off), << >>)
<1> DEFINE p == Scalar(off, UOFFSET)
           n == Len(known)
           new == Append(known, off)
           none == << >>
<1>1. p \in Seq(Byte) /\ Len(p) = 4 /\ p \in Seq(Cell)
  <2>1. off \in Int
    OBVIOUS
  <2> QED
    BY <2>1, ScalarIsElement, BytesAreCells
<1>2. w = scratch_push_small(v, p)
  OBVIOUS
<1> HIDE DEF p
<1>3. /\ IsVector(w) /\ w.scratch = v.scratch + Len(p)
      /\ \A i \in 1 .. v.scratch : w.buf[i] = v.buf[i]
      /\ \A i \in 1 .. Len(p) : w.buf[v.scratch + i] = p[i]
  <2>1. p \in Seq(Cell)
    BY <1>1
  <2> QED
    BY <1>2, <2>1, ScratchPushGives
<1>4. n \in Nat /\ v.scratch = 4 * n /\ v.scratch \in Nat /\ known \in Seq(Nat)
  <2>1. /\ known \in Seq(Nat) /\ v.scratch = 4 * Len(known) + 8 * Len(none)
    BY DEF PadHolds
  <2>2. Len(none) = 0
    OBVIOUS
  <2> HIDE DEF none
  <2> QED
    BY <2>1, <2>2
<1>5. /\ new \in Seq(Nat) /\ Len(new) = n + 1 /\ new[n + 1] = off
      /\ \A k \in 1 .. n : new[k] = known[k]
  BY <1>4
<1> HIDE DEF new, n
<1>6. w.scratch = v.scratch + 4 /\ v.scratch <= w.scratch
  BY <1>1, <1>3, <1>4
<1>7. InPad(w, v.scratch + 0, p)
  <2>1. 0 \in Nat /\ 0 + Len(p) <= Len(p)
    BY <1>1
  <2>2. \A i \in 1 .. Len(p) : p[0 + i] = p[i]
    <3>1. \A i \in 1 .. 4 : 0 + i = i
      OBVIOUS
    <3> QED
      BY <1>1, <3>1
  <2> QED
    BY <1>1, <1>3, <2>1, <2>2, InPadEnd
<1>8. ASSUME NEW k \in 1 .. n + 1
      PROVE  InPad(w, 4 * (k - 1), Scalar(new[k], UOFFSET))
  <2>1. CASE k \in 1 .. n
    <3> DEFINE at == 4 * (k - 1)
               bytes == Scalar(known[k], UOFFSET)
    <3>1. InPad(v, at, bytes) /\ bytes \in Seq(Byte)
      BY <2>1, PadTypes DEF PadHolds, n
    <3> HIDE DEF at, bytes
    <3>2. at + Len(bytes) <= v.scratch
      BY <3>1 DEF InPad
    <3>3. InPad(w, at, bytes)
      BY <1>3, <1>4, <1>6, <3>1, <3>2, InPadStays
    <3> QED
      BY <1>5, <2>1, <3>3 DEF at, bytes
  <2>2. CASE k = n + 1
    <3>1. 4 * (k - 1) = v.scratch + 0
      BY <1>4, <2>2
    <3> QED
      BY <1>5, <1>7, <2>2, <3>1 DEF p
  <2> QED
    BY <1>4, <2>1, <2>2
<1>9. Len(none) = 0 /\ none \in Seq([off : Nat, id : Nat])
  OBVIOUS
<1> HIDE DEF none
<1>10. w.scratch = 4 * Len(new) + 8 * Len(none)
  BY <1>4, <1>5, <1>6, <1>9
<1>11. PadHolds(w, new, none)
  <2>1. \A k \in 1 .. Len(new) : InPad(w, 4 * (k - 1), Scalar(new[k], UOFFSET))
    BY <1>5, <1>8
  <2>2. \A j \in 1 .. Len(none) :
          /\ InPad(w, 4 * Len(new) + 8 * (j - 1), Scalar(none[j].off, UOFFSET))
          /\ InPad(w, 4 * Len(new) + 8 * (j - 1) + 4, Scalar(none[j].id, VOFFSET))
    BY <1>9
  <2> QED
    BY <1>5, <1>9, <1>10, <2>1, <2>2 DEF PadHolds
<1> QED
  BY <1>11 DEF new, none

\* What EndTable reads there is what has been remembered.
LEMMA KnownAre ==
  ASSUME NEW v, IsVector(v), NEW known, PadHolds(v, known, << >>),
         \A k \in 1 .. Len(known) : known[k] <= MAX_BUFFER_SIZE
  PROVE  /\ DOMAIN KnownVTables(v) = 1 .. Len(known)
         /\ \A k \in 1 .. Len(known) : KnownVTables(v)[k] = known[k]
<1> DEFINE none == << >>
<1>1. Len(known) \in Nat /\ v.scratch \div UOFFSET = Len(known)
  <2>1. v.scratch = 4 * Len(known) + 8 * Len(none) /\ Len(known) \in Nat
    BY PadTypes DEF PadHolds
  <2>2. Len(none) = 0
    OBVIOUS
  <2> HIDE DEF none
  <2> QED
    BY <2>1, <2>2 DEF UOFFSET
<1> HIDE DEF none
<1>2. KnownVTables(v) = [k \in 1 .. Len(known) |-> Signed32(ScratchAt(v, (k - 1) * UOFFSET, UOFFSET))]
  BY <1>1 DEF KnownVTables
<1>3. ASSUME NEW k \in 1 .. Len(known)
      PROVE  Signed32(ScratchAt(v, (k - 1) * UOFFSET, UOFFSET)) = known[k]
  <2> DEFINE at == (k - 1) * UOFFSET
             bytes == Scalar(known[k], UOFFSET)
  <2>1. at = 4 * (k - 1)
    BY <1>1 DEF UOFFSET
  <2>2. InPad(v, at, bytes) /\ bytes \in Seq(Byte) /\ Len(bytes) = UOFFSET /\ known[k] \in Nat
    <3>1. InPad(v, 4 * (k - 1), bytes)
      BY DEF PadHolds
    <3>2. bytes \in Seq(Byte) /\ Len(bytes) = 4 /\ known[k] \in Nat
      BY PadTypes
    <3> HIDE DEF at, bytes
    <3> QED
      BY <2>1, <3>1, <3>2 DEF UOFFSET
  <2> HIDE DEF at, bytes
  <2>3. ScratchAt(v, at, UOFFSET) = bytes
    BY <2>2, PadIsRead
  <2>4. Signed32(bytes) = known[k]
    <3>1. known[k] \in Int /\ -MAX_BUFFER_SIZE <= known[k] /\ known[k] <= MAX_BUFFER_SIZE
      BY <2>2 DEF MAX_BUFFER_SIZE
    <3> QED
      BY <3>1, OffsetBack DEF bytes
  <2> QED
    BY <2>3, <2>4 DEF at
<1> QED
  BY <1>2, <1>3

LEMMA FieldLocsAre ==
  ASSUME NEW b, IsBuilder(b), NEW known, NEW locs, PadHolds(b.buf, known, locs),
         Len(locs) = b.num_field_loc,
         \A j \in 1 .. Len(locs) : locs[j].off <= MAX_BUFFER_SIZE /\ locs[j].id < BYTE * BYTE
  PROVE  /\ \A f \in FieldLocs(b) : \E j \in 1 .. Len(locs) : f = locs[j]
         /\ \A j \in 1 .. Len(locs) : locs[j] \in FieldLocs(b)
<1> DEFINE v == b.buf
           n == Len(locs)
           m == 4 * Len(known)
           place(i) == v.scratch - i * FIELD_LOC
           loc(i) == [off |-> Signed32(ScratchAt(v, place(i), UOFFSET)),
                      id |-> Unsigned16(ScratchAt(v, place(i) + UOFFSET, VOFFSET))]
<1>1. FieldLocs(b) = {loc(i) : i \in 1 .. n}
  BY DEF FieldLocs
<1>2. IsVector(v) /\ n \in Nat /\ m \in Nat /\ v.scratch = m + 8 * n
  BY BuilderSize, PadTypes DEF PadHolds
<1>3. ASSUME NEW j \in 1 .. n, NEW i \in 1 .. n, i = n + 1 - j
      PROVE  loc(i) = locs[j]
  <2> DEFINE at == place(i)
             p == Scalar(locs[j].off, UOFFSET)
             q == Scalar(locs[j].id, VOFFSET)
  <2>1. at = m + 8 * (j - 1)
    BY <1>2, <1>3 DEF FIELD_LOC
  <2>2. /\ InPad(v, at, p) /\ InPad(v, at + 4, q)
        /\ locs[j].off \in Nat /\ locs[j].id \in Nat /\ locs[j] = [off |-> locs[j].off, id |-> locs[j].id]
        /\ p \in Seq(Byte) /\ Len(p) = UOFFSET /\ q \in Seq(Byte) /\ Len(q) = VOFFSET
    <3>1. InPad(v, m + 8 * (j - 1), p) /\ InPad(v, m + 8 * (j - 1) + 4, q)
      BY DEF PadHolds
    <3>2. /\ locs[j].off \in Nat /\ locs[j].id \in Nat /\ locs[j] = [off |-> locs[j].off, id |-> locs[j].id]
          /\ p \in Seq(Byte) /\ Len(p) = 4 /\ q \in Seq(Byte) /\ Len(q) = 2
      BY PadTypes
    <3> HIDE DEF at, p, q, v, n, m
    <3> QED
      BY <2>1, <3>1, <3>2 DEF UOFFSET, VOFFSET
  <2>3. Signed32(p) = locs[j].off
    <3>1. locs[j].off \in Int /\ -MAX_BUFFER_SIZE <= locs[j].off /\ locs[j].off <= MAX_BUFFER_SIZE
      BY <2>2 DEF MAX_BUFFER_SIZE
    <3> QED
      BY <3>1, OffsetBack
  <2>4. Unsigned16(q) = locs[j].id
    BY <2>2, VOffsetBack
  <2>5. at + UOFFSET = at + 4
    BY DEF UOFFSET
  <2> HIDE DEF at, p, q, v
  <2>6. ScratchAt(v, at, UOFFSET) = p /\ ScratchAt(v, at + 4, VOFFSET) = q
    <3> DEFINE at4 == at + 4
    <3>1. InPad(v, at, p) /\ InPad(v, at4, q)
      BY <2>2
    <3> HIDE DEF at4
    <3>2. ScratchAt(v, at, Len(p)) = p /\ ScratchAt(v, at4, Len(q)) = q
      BY <1>2, <2>2, <3>1, PadIsRead
    <3> QED
      BY <2>2, <3>2 DEF at4
  <2> QED
    BY <2>2, <2>3, <2>4, <2>5, <2>6 DEF at
<1> HIDE DEF loc
<1>4. \A j \in 1 .. n : n + 1 - j \in 1 .. n /\ n + 1 - (n + 1 - j) = j
  BY <1>2
<1>5. \A j \in 1 .. n : loc(n + 1 - j) = locs[j]
  BY <1>3, <1>4
<1>6. ASSUME NEW f \in FieldLocs(b)
      PROVE  \E j \in 1 .. n : f = locs[j]
  <2>1. PICK i \in 1 .. n : f = loc(i)
    BY <1>1
  <2>2. n + 1 - i \in 1 .. n /\ f = locs[n + 1 - i]
    BY <1>4, <1>5, <2>1
  <2> QED
    BY <2>2
<1>7. ASSUME NEW j \in 1 .. n
      PROVE  locs[j] \in FieldLocs(b)
  BY <1>1, <1>4, <1>5
<1> QED
  BY <1>6, <1>7

-----------------------------------------------------------------------------
(***************************************************************************)
(* What the operations of the builder write.                               *)
(***************************************************************************)
LEMMA Padded ==
  ASSUME NEW n \in Nat, NEW align \in Nat \ {0}
  PROVE  (n + PaddingBytes(n, align)) % align = 0
<1> DEFINE m == -n
           p == m % align
           q == m \div align
<1>1. m \in Int /\ n = -m
  OBVIOUS
<1> HIDE DEF m
<1>2. p \in Nat /\ q \in Int /\ m = align * q + p
  BY <1>1
<1>3. align * q \in Int
  BY <1>2
<1>4. n + p = align * (-q)
  <2>1. align * (-q) = -(align * q)
    BY <1>2
  <2> DEFINE x == align * q
  <2> HIDE DEF x, p, q
  <2>2. m = x + p /\ x \in Int
    BY <1>2, <1>3 DEF x
  <2>3. align * (-q) = -x
    BY <2>1 DEF x
  <2> QED
    BY <1>1, <1>2, <2>2, <2>3
<1> HIDE DEF p, q
<1>5. (align * (-q)) % align = 0
  <2> DEFINE r == -q
  <2>1. r \in Int
    BY <1>2
  <2> HIDE DEF r
  <2>2. (align * r) % align = 0
    BY <2>1
  <2> QED
    BY <2>2 DEF r
<1>6. PaddingBytes(n, align) = p
  BY DEF PaddingBytes, p, m
<1> QED
  BY <1>4, <1>5, <1>6

LEMMA OneFurther ==
  ASSUME NEW n \in Nat, NEW each \in Sizes, n % each = 0
  PROVE  (n + each) % each = 0
<1>1. /\ n % 1 = 0 => (n + 1) % 1 = 0
      /\ n % 2 = 0 => (n + 2) % 2 = 0
      /\ n % 4 = 0 => (n + 4) % 4 = 0
      /\ n % 8 = 0 => (n + 8) % 8 = 0
  OBVIOUS
<1>2. each = 1 \/ each = 2 \/ each = 4 \/ each = 8
  BY DEF Sizes
<1> QED
  BY <1>1, <1>2

LEMMA SomeBack ==
  ASSUME NEW n \in Nat, NEW k \in Nat, NEW each \in Sizes, n % each = 0
  PROVE  (n - k * each) % each = 0
<1>1. /\ n % 1 = 0 => (n - k * 1) % 1 = 0
      /\ n % 2 = 0 => (n - k * 2) % 2 = 0
      /\ n % 4 = 0 => (n - k * 4) % 4 = 0
      /\ n % 8 = 0 => (n - k * 8) % 8 = 0
  OBVIOUS
<1>2. each = 1 \/ each = 2 \/ each = 4 \/ each = 8
  BY DEF Sizes
<1> QED
  BY <1>1, <1>2

LEMMA PushElementHolds ==
  ASSUME NEW b, IsBuilder(b), NEW bytes \in Seq(Byte) \ {<< >>}, NEW c, c = PushElement(b, bytes)
  PROVE  /\ Wrote(b, c) /\ Holds(c.buf, GetSize(c), bytes)
         /\ GetSize(c) = GetSize(b) + PaddingBytes(GetSize(b), Len(bytes)) + Len(bytes)
         /\ GetSize(b) + Len(bytes) <= GetSize(c)
<1> DEFINE a == Align(b, Len(bytes))
<1>1. Len(bytes) \in Nat \ {0} /\ bytes \in Seq(Cell)
  BY BytesAreCells
<1>2. /\ Wrote(b, c) /\ Prefixed(a.buf, c.buf, bytes)
      /\ GetSize(c) = GetSize(b) + PaddingBytes(GetSize(b), Len(bytes)) + Len(bytes)
  BY PushElementWrites
<1>3. IsBuilder(a) /\ IsVector(a.buf)
  BY <1>1, AlignWrites, BuilderSize DEF Wrote
<1> HIDE DEF a
<1>4. Holds(c.buf, GetSize(c), bytes)
  BY <1>1, <1>2, <1>3, PrefixHeld DEF GetSize
<1>5. GetSize(b) \in Nat
  BY BuilderSize
<1>6. PaddingBytes(GetSize(b), Len(bytes)) \in Nat
  BY <1>1, <1>5, PaddingType
<1> QED
  BY <1>1, <1>2, <1>4, <1>5, <1>6

\* An element lies at a multiple of its size.
LEMMA ElementAligned ==
  ASSUME NEW b, IsBuilder(b), NEW bytes \in Seq(Byte) \ {<< >>}, Len(bytes) \in Sizes
  PROVE  GetSize(PushElement(b, bytes)) % Len(bytes) = 0
<1> DEFINE n == GetSize(b)
           m == Len(bytes)
           pad == PaddingBytes(n, m)
<1>1. n \in Nat /\ m \in Sizes /\ m \in Nat \ {0}
  BY BuilderSize
<1>2. GetSize(PushElement(b, bytes)) = n + pad + m
  BY PushElementWrites
<1> HIDE DEF n, m
<1>3. pad \in Nat /\ (n + pad) % m = 0
  BY <1>1, Padded, PaddingType
<1> DEFINE k == n + pad
<1>4. k \in Nat /\ k % m = 0
  BY <1>1, <1>3
<1> HIDE DEF k
<1>5. (k + m) % m = 0
  BY <1>1, <1>4, OneFurther
<1> QED
  BY <1>2, <1>5 DEF k, m

\* An offset is stored relative to where it is stored.
LEMMA PushOffsetHolds ==
  ASSUME NEW b, IsBuilder(b), NEW off \in Int, NEW c, c = PushOffset(b, off)
  PROVE  /\ Wrote(b, c) /\ Holds(c.buf, GetSize(c), Scalar(GetSize(c) - off, UOFFSET))
         /\ GetSize(c) = GetSize(b) + PaddingBytes(GetSize(b), 4) + 4
         /\ GetSize(b) + 4 <= GetSize(c) /\ GetSize(c) \in Nat /\ GetSize(c) % 4 = 0
<1> DEFINE a == Align(b, UOFFSET)
           value == GetSize(a) - off + UOFFSET
           pad == PaddingBytes(GetSize(b), 4)
<1>1. Wrote(b, a) /\ GetSize(a) = GetSize(b) + pad
  BY AlignWrites DEF UOFFSET
<1>2. IsBuilder(a) /\ GetSize(a) \in Nat /\ GetSize(b) \in Nat
  BY <1>1, BuilderSize DEF Wrote
<1>3. c = PushElement(a, Scalar(value, UOFFSET))
  BY DEF PushOffset
<1>4. PaddingBytes(GetSize(a), 4) = 0 /\ pad \in Nat
  <2>1. pad \in Nat
    BY <1>2, PaddingType
  <2>2. PaddingBytes(GetSize(b) + 0, 4) = pad
    BY <1>2
  <2>3. PaddingBytes(GetSize(b) + PaddingBytes(GetSize(b) + 0, 4) + 0, 4) = 0
    BY <1>2, NoPadding
  <2> HIDE DEF pad
  <2>4. PaddingBytes(GetSize(b) + pad + 0, 4) = 0
    BY <2>2, <2>3
  <2>5. GetSize(b) + pad + 0 = GetSize(a)
    BY <1>1, <1>2, <2>1
  <2> QED
    BY <2>1, <2>4, <2>5
<1> HIDE DEF a, pad
<1>5. value \in Int
  BY <1>2 DEF UOFFSET
<1> HIDE DEF value
<1>6. Scalar(value, UOFFSET) \in Seq(Byte) \ {<< >>} /\ Len(Scalar(value, UOFFSET)) = 4
  BY <1>5, ScalarIsElement
<1> DEFINE s == Scalar(value, UOFFSET)
<1> HIDE DEF s
<1>7. /\ Wrote(a, c) /\ Holds(c.buf, GetSize(c), s)
      /\ GetSize(c) = GetSize(a) + PaddingBytes(GetSize(a), Len(s)) + Len(s)
  BY <1>2, <1>3, <1>6, PushElementHolds DEF s
<1>8. GetSize(c) = GetSize(a) + 4
  BY <1>2, <1>4, <1>6, <1>7 DEF s
<1>9. value = GetSize(c) - off
  BY <1>2, <1>8 DEF value, UOFFSET
<1>10. Wrote(b, c)
  BY <1>1, <1>7, WroteTransitive
<1>11. GetSize(c) % 4 = 0
  <2> DEFINE e == Scalar(value, UOFFSET)
  <2>1. e \in Seq(Byte) \ {<< >>} /\ Len(e) = 4 /\ Len(e) \in Sizes /\ c = PushElement(a, e)
    BY <1>3, <1>6 DEF Sizes
  <2> HIDE DEF e
  <2>2. GetSize(PushElement(a, e)) % Len(e) = 0
    BY <1>2, <2>1, ElementAligned
  <2> QED
    BY <2>1, <2>2
<1> QED
  BY <1>1, <1>2, <1>4, <1>7, <1>8, <1>9, <1>10, <1>11 DEF s, pad

LEMMA EndVectorHolds ==
  ASSUME NEW b, IsBuilder(b), NEW len \in Nat, NEW c, c = EndVector(b, len)
  PROVE  /\ Wrote(b, c) /\ Holds(c.buf, GetSize(c), Scalar(len, UOFFSET))
         /\ GetSize(c) = GetSize(b) + PaddingBytes(GetSize(b), 4) + 4
         /\ GetSize(b) + 4 <= GetSize(c)
<1> DEFINE a == [b EXCEPT !.nested = FALSE]
           s == Scalar(len, UOFFSET)
<1>1. Wrote(b, a) /\ IsBuilder(a) /\ GetSize(a) = GetSize(b)
  BY NestedWrites DEF Wrote, GetSize
<1>2. c = PushElement(a, s)
  BY DEF EndVector
<1>3. s \in Seq(Byte) \ {<< >>} /\ Len(s) = 4
  BY ScalarIsElement
<1> HIDE DEF a, s
<1>4. /\ Wrote(a, c) /\ Holds(c.buf, GetSize(c), s)
      /\ GetSize(c) = GetSize(a) + PaddingBytes(GetSize(a), Len(s)) + Len(s)
      /\ GetSize(a) + Len(s) <= GetSize(c)
  BY <1>1, <1>2, <1>3, PushElementHolds
<1>5. Wrote(b, c)
  BY <1>1, <1>4, WroteTransitive
<1> QED
  BY <1>1, <1>3, <1>4, <1>5 DEF s

\* The elements of a vector end where the length is aligned.
LEMMA StartVectorAligns ==
  ASSUME NEW b, IsBuilder(b), NEW len \in Nat, len # 0, NEW elemsize \in {1, 2, 4, 8},
         NEW c, c = StartVector(b, len, elemsize)
  PROVE  /\ Wrote(b, c)
         /\ (GetSize(c) + len * elemsize) % 4 = 0
         /\ (GetSize(c) + len * elemsize) % elemsize = 0
<1> DEFINE n == len * elemsize
           a == PreAlign(b, n, UOFFSET)
           d == PreAlign(a, n, elemsize)
<1>1. n \in Nat /\ n # 0 /\ UOFFSET = 4 /\ elemsize \in Nat \ {0}
  BY DEF UOFFSET
<1>2. c = [d EXCEPT !.nested = TRUE]
  BY DEF StartVector
<1> HIDE DEF n
<1>3. Wrote(b, a) /\ GetSize(a) = GetSize(b) + PaddingBytes(GetSize(b) + n, 4)
  BY <1>1, PreAlignWrites
<1>4. IsBuilder(a) /\ GetSize(a) \in Nat /\ GetSize(b) \in Nat
  BY <1>3, BuilderSize DEF Wrote
<1> HIDE DEF a
<1>5. Wrote(a, d) /\ GetSize(d) = GetSize(a) + PaddingBytes(GetSize(a) + n, elemsize)
  BY <1>1, <1>4, PreAlignWrites
<1> HIDE DEF d
<1>6. Wrote(b, d) /\ IsBuilder(d)
  BY <1>3, <1>5, WroteTransitive DEF Wrote
<1>7. Wrote(d, c) /\ GetSize(c) = GetSize(d)
  BY <1>2, <1>6, NestedWrites DEF GetSize
<1> DEFINE m == GetSize(a) + n
           p == PaddingBytes(m, elemsize)
<1>8. m \in Nat /\ m % 4 = 0
  <2> DEFINE x == GetSize(b) + n
             pad == PaddingBytes(x, 4)
  <2>1. x \in Nat
    BY <1>1, <1>4
  <2> HIDE DEF x
  <2>2. (x + pad) % 4 = 0 /\ pad \in Nat
    <3> DEFINE four == 4
    <3>1. four \in Nat \ {0}
      OBVIOUS
    <3> HIDE DEF four
    <3>2. (x + PaddingBytes(x, four)) % four = 0
      BY <2>1, <3>1, Padded
    <3>3. PaddingBytes(x, four) \in Nat
      BY <2>1, <3>1, PaddingType
    <3> QED
      BY <3>2, <3>3 DEF four
  <2> HIDE DEF pad
  <2>3. m = x + pad
    BY <1>1, <1>3, <1>4, <2>1, <2>2 DEF x, pad
  <2> HIDE DEF m
  <2> QED
    BY <2>1, <2>2, <2>3
<1>9. GetSize(c) + n = m + p /\ p \in Nat
  <2>1. p \in Nat
    BY <1>1, <1>8, PaddingType
  <2>2. GetSize(c) = GetSize(a) + p
    BY <1>5, <1>7
  <2> HIDE DEF p
  <2> QED
    BY <1>1, <1>4, <2>1, <2>2
<1> HIDE DEF m
<1>10. (m + p) % 4 = 0
  <2>1. CASE elemsize = 8
    <3>1. (m + p) % 8 = 0
      BY <1>8, <2>1, Padded
    <3> HIDE DEF p
    <3> QED
      BY <1>8, <1>9, <3>1
  <2>2. CASE elemsize \in {1, 2, 4}
    <3>1. p = 0
      <4>1. PaddingBytes(m, 1) = 0 /\ PaddingBytes(m, 2) = 0 /\ PaddingBytes(m, 4) = 0
        BY <1>8 DEF PaddingBytes
      <4> QED
        BY <2>2, <4>1
    <3> HIDE DEF p
    <3> QED
      BY <1>8, <3>1
  <2> QED
    BY <2>1, <2>2
<1>11. Wrote(b, c)
  BY <1>6, <1>7, WroteTransitive
<1>12. (m + p) % elemsize = 0
  BY <1>1, <1>8, Padded
<1> HIDE DEF p
<1> QED
  BY <1>9, <1>10, <1>11, <1>12 DEF n

\* The bytes of an element of a vector of scalars.
LEMMA ElementBytes ==
  ASSUME NEW n \in Nat, NEW m \in Nat \ {0}, NEW i \in 1 .. n, NEW k \in 1 .. m,
         NEW p, p = (i - 1) * m + k
  PROVE  /\ p \in 1 .. n * m
         /\ (p - 1) \div m + 1 = i /\ ((p - 1) % m) + 1 = k
<1> DEFINE x == (i - 1) * m
           at == x + k
<1>0. p = at
  OBVIOUS
<1>1. x \in Nat
  OBVIOUS
<1>2. x + m <= n * m /\ n * m \in Nat
  <2>1. x + m = i * m
    OBVIOUS
  <2>2. i * m <= n * m
    OBVIOUS
  <2> QED
    BY <2>1, <2>2
<1>3. at - 1 = x + (k - 1) /\ k - 1 \in 0 .. m - 1
  BY <1>1
<1> DEFINE q == i - 1
           y == k - 1
<1>4. (q * m + y) \div m = q /\ (q * m + y) % m = y
  <2>1. q \in Nat /\ y \in Nat /\ y < m
    BY <1>3
  <2> HIDE DEF q, y
  <2> DEFINE z == q * m + y
             d == z \div m
             e == z % m
  <2>2. z \in Nat /\ q * m = m * q
    BY <2>1
  <2>3. d \in Int /\ e \in Nat /\ e < m /\ z = m * d + e
    <3> HIDE DEF z
    <3> QED
      BY <2>2
  <2>4. m * q + y = m * d + e
    BY <2>2, <2>3
  <2> HIDE DEF d, e, z
  <2>5. ASSUME d < q
        PROVE  FALSE
    <3>1. m * d + m <= m * q
      <4>1. m * (d + 1) <= m * q
        BY <2>1, <2>3, <2>5
      <4>2. m * (d + 1) = m * d + m
        BY <2>3
      <4> QED
        BY <4>1, <4>2
    <3> DEFINE u == m * d
               w == m * q
    <3>2. u \in Int /\ w \in Int
      BY <2>1, <2>3
    <3> HIDE DEF u, w
    <3>3. w + y = u + e /\ u + m <= w
      BY <2>4, <3>1 DEF u, w
    <3> QED
      BY <2>1, <2>3, <3>2, <3>3
  <2>6. ASSUME d > q
        PROVE  FALSE
    <3>1. m * q + m <= m * d
      <4>1. m * (q + 1) <= m * d
        BY <2>1, <2>3, <2>6
      <4>2. m * (q + 1) = m * q + m
        BY <2>1
      <4> QED
        BY <4>1, <4>2
    <3> DEFINE u == m * d
               w == m * q
    <3>2. u \in Int /\ w \in Int
      BY <2>1, <2>3
    <3> HIDE DEF u, w
    <3>3. w + y = u + e /\ w + m <= u
      BY <2>4, <3>1 DEF u, w
    <3> QED
      BY <2>1, <2>3, <3>2, <3>3
  <2>7. d = q
    BY <2>1, <2>3, <2>5, <2>6
  <2>8. e = y
    <3> DEFINE u == m * q
    <3>1. u \in Int
      BY <2>1
    <3> HIDE DEF u
    <3>2. u + y = u + e
      BY <2>4, <2>7 DEF u
    <3> QED
      BY <2>1, <2>3, <3>1, <3>2
  <2> QED
    BY <2>7, <2>8 DEF d, e, z
<1>5. at \in 1 .. n * m
  <2> DEFINE w == n * m
  <2>1. x + m <= w /\ w \in Nat
    BY <1>2
  <2> HIDE DEF w, x
  <2>2. at \in 1 .. w
    BY <1>1, <2>1
  <2> QED
    BY <2>2 DEF w
<1>6. at - 1 = q * m + y
  BY <1>3
<1>7. (at - 1) \div m = q /\ (at - 1) % m = y
  BY <1>4, <1>6
<1> HIDE DEF at
<1>8. (at - 1) \div m + 1 = i /\ ((at - 1) % m) + 1 = k
  BY <1>7
<1> QED
  BY <1>0, <1>5, <1>8

\* The bytes of n elements of m bytes, counted byte by byte and element by element.
ByByte(bytes, elements, n, m) ==
  \A j \in 1 .. n * m : bytes[j] = elements[(j - 1) \div m + 1][((j - 1) % m) + 1]

ByElement(bytes, elements, n, m) ==
  \A i \in 1 .. n, k \in 1 .. m :
    (i - 1) * m + k \in 1 .. n * m /\ bytes[(i - 1) * m + k] = elements[i][k]

LEMMA ElementCells ==
  ASSUME NEW n \in Nat, NEW m \in Nat \ {0}, NEW elements, NEW bytes, ByByte(bytes, elements, n, m)
  PROVE  ByElement(bytes, elements, n, m)
<1> SUFFICES ASSUME NEW i \in 1 .. n, NEW k \in 1 .. m
             PROVE  (i - 1) * m + k \in 1 .. n * m /\ bytes[(i - 1) * m + k] = elements[i][k]
  BY DEF ByElement
<1> DEFINE p == (i - 1) * m + k
<1>1. p = (i - 1) * m + k
  OBVIOUS
<1> HIDE DEF p
<1>2. /\ p \in 1 .. n * m
      /\ (p - 1) \div m + 1 = i /\ ((p - 1) % m) + 1 = k
  BY <1>1, ElementBytes
<1>3. bytes[p] = elements[(p - 1) \div m + 1][((p - 1) % m) + 1]
  BY <1>2 DEF ByByte
<1>4. bytes[p] = elements[i][k]
  BY <1>2, <1>3
<1> QED
  BY <1>2, <1>4 DEF p

\* Two sequences of bytes of one length with the same cells are one.
LEMMA SameCells ==
  ASSUME NEW n \in Nat, NEW s \in Seq(Byte), NEW t \in Seq(Byte),
         Len(s) = n, Len(t) = n, \A k \in 1 .. n : s[k] = t[k]
  PROVE  s = t
OBVIOUS

\* A vector of scalars lies there element by element.
LEMMA CreateVectorHolds ==
  ASSUME NEW b, IsBuilder(b), NEW elemsize \in {1, 2, 4, 8}, NEW elements \in Seq([1 .. elemsize -> Byte]),
         NEW c, c = CreateVector(b, elements, elemsize), NEW o, o.off = GetSize(c),
         o.type = VectorOf([kind |-> "scalar", size |-> elemsize]), o.value = elements, NEW S
  PROVE  Wrote(b, c) /\ VectorHolds(c.buf, o, S)
<1> DEFINE n == Len(elements)
           m == n * elemsize
           bytes == [i \in 1 .. m |-> elements[(i - 1) \div elemsize + 1][((i - 1) % elemsize) + 1]]
           a == StartVector(b, n, elemsize)
           d == PushBytes(a, bytes)
<1>1. n \in Nat /\ m \in Nat /\ elemsize \in Nat \ {0} /\ n <= m
  <2>1. n \in Nat
    OBVIOUS
  <2> HIDE DEF n
  <2> QED
    BY <2>1
<1>2. bytes \in [1 .. m -> Byte]
  <2> SUFFICES ASSUME NEW i \in 1 .. m
               PROVE  elements[(i - 1) \div elemsize + 1][((i - 1) % elemsize) + 1] \in Byte
    OBVIOUS
  <2> DEFINE j == (i - 1) \div elemsize + 1
             k == ((i - 1) % elemsize) + 1
  <2>1. j \in 1 .. n /\ k \in 1 .. elemsize
    <3> HIDE DEF n
    <3> QED
      BY <1>1, ElementIndex
  <2> HIDE DEF j, k
  <2>2. elements[j] \in [1 .. elemsize -> Byte]
    BY <2>1
  <2>3. elements[j][k] \in Byte
    BY <2>1, <2>2
  <2> QED
    BY <2>3 DEF j, k
<1>3. \A i \in 1 .. m : bytes[i] = elements[(i - 1) \div elemsize + 1][((i - 1) % elemsize) + 1]
  OBVIOUS
<1>4. c = EndVector(d, n)
  BY DEF CreateVector
<1>5. \A i \in 1 .. n : elements[i] \in [1 .. elemsize -> Byte]
  BY ElementType
<1>5a. \A i \in 1 .. n, k \in 1 .. elemsize :
         (i - 1) * elemsize + k \in 1 .. m /\ bytes[(i - 1) * elemsize + k] = elements[i][k]
  <2>1. n \in Nat /\ elemsize \in Nat \ {0}
    BY <1>1
  <2>2. ByByte(bytes, elements, n, elemsize)
    BY <1>3 DEF m, ByByte
  <2> HIDE DEF n, bytes
  <2>3. ByElement(bytes, elements, n, elemsize)
    BY <2>1, <2>2, ElementCells
  <2> QED
    BY <2>3 DEF ByElement, m
<1> HIDE DEF n, m, bytes
<1>6. bytes \in Seq(Byte) /\ Len(bytes) = m
  BY <1>1, <1>2, FunctionIsSeq
<1>7. Wrote(b, a) /\ IsBuilder(a)
  BY <1>1, StartVectorWrites DEF Wrote
<1>8. n # 0 => (GetSize(a) + m) % 4 = 0 /\ (GetSize(a) + m) % elemsize = 0
  <2> SUFFICES ASSUME n # 0
               PROVE  (GetSize(a) + m) % 4 = 0 /\ (GetSize(a) + m) % elemsize = 0
    OBVIOUS
  <2>1. n \in Nat /\ n # 0 /\ IsBuilder(b) /\ elemsize \in {1, 2, 4, 8}
    BY <1>1
  <2>2. a = StartVector(b, n, elemsize)
    OBVIOUS
  <2> HIDE DEF a
  <2>3. (GetSize(a) + n * elemsize) % 4 = 0 /\ (GetSize(a) + n * elemsize) % elemsize = 0
    BY ONLY <2>1, <2>2, StartVectorAligns
  <2> QED
    BY <2>3 DEF m
<1> HIDE DEF a
<1>9. Wrote(a, d) /\ Prefixed(a.buf, d.buf, bytes) /\ GetSize(d) = GetSize(a) + m
  BY <1>6, <1>7, PushBytesWrites
<1> HIDE DEF d
<1>10. /\ Wrote(b, d) /\ IsBuilder(d) /\ GetSize(d) \in Nat /\ GetSize(a) \in Nat
       /\ IsVector(a.buf) /\ IsVector(d.buf)
  <2>1. Wrote(b, d)
    BY <1>7, <1>9, WroteTransitive
  <2> QED
    BY <1>7, <2>1, BuilderSize DEF Wrote
<1>11. /\ Wrote(d, c) /\ Holds(c.buf, GetSize(c), Scalar(n, UOFFSET))
       /\ GetSize(c) = GetSize(d) + PaddingBytes(GetSize(d), 4) + 4
       /\ GetSize(d) + 4 <= GetSize(c)
  BY <1>1, <1>4, <1>10, EndVectorHolds
<1>12. Wrote(b, c) /\ IsVector(c.buf) /\ Kept(d.buf, c.buf) /\ GetSize(c) \in Nat
  <2>1. Wrote(b, c)
    BY <1>10, <1>11, WroteTransitive
  <2> QED
    BY <1>11, <2>1, BuilderSize DEF Wrote, Above
<1>13. Holds(d.buf, GetSize(d), bytes)
  BY <1>6, <1>9, <1>10, PrefixHeld, BytesAreCells DEF GetSize
<1>14. n <= GetSize(c)
  BY <1>1, <1>9, <1>10, <1>11, <1>12
<1>15. ASSUME NEW i \in 1 .. n
       PROVE  SlotHolds(c.buf, GetSize(c) - UOFFSET - (i - 1) * elemsize,
                        [kind |-> "scalar", size |-> elemsize], elements[i], S)
  <2> DEFINE at == (i - 1) * elemsize
             part == SubSeq(bytes, at + 1, at + elemsize)
  <2>1. at \in Nat /\ at + elemsize <= m
    <3>1. elemsize \in 1 .. elemsize
      BY <1>1
    <3>2. at + elemsize \in 1 .. n * elemsize
      <4> DEFINE p == (i - 1) * elemsize + elemsize
      <4>1. p = (i - 1) * elemsize + elemsize
        OBVIOUS
      <4> HIDE DEF p
      <4>2. p \in 1 .. n * elemsize
        BY <1>1, <3>1, <4>1, ElementBytes
      <4> QED
        BY <4>1, <4>2
    <3>3. at \in Nat
      BY <1>1
    <3> HIDE DEF at
    <3> QED
      BY <1>1, <3>2, <3>3 DEF m
  <2>2. \A k \in 1 .. elemsize : at + k \in 1 .. m /\ bytes[at + k] = elements[i][k]
    BY <1>5a DEF at
  <2> HIDE DEF at
  <2>3. elements[i] \in Seq(Byte) /\ Len(elements[i]) = elemsize
    BY <1>1, <1>5, FunctionIsSeq
  <2>4. part = elements[i]
    <3>1. part \in Seq(Byte) /\ Len(part) = elemsize
      BY <1>1, <1>6, <2>1
    <3>2. \A k \in 1 .. elemsize : part[k] = bytes[at + k]
      BY <1>1, <1>6, <2>1
    <3> DEFINE e == elements[i]
    <3>3. \A k \in 1 .. elemsize : bytes[at + k] = e[k]
      BY <2>2
    <3>4. e \in Seq(Byte) /\ Len(e) = elemsize
      BY <2>3
    <3> HIDE DEF part, e
    <3>5. \A k \in 1 .. elemsize : part[k] = e[k]
      BY <3>2, <3>3
    <3>6. part = e
      BY <1>1, <3>1, <3>4, <3>5, SameCells
    <3> QED
      BY <3>6 DEF e
  <2>5. Holds(d.buf, GetSize(d) - at, part)
    BY <1>1, <1>6, <1>10, <1>13, <2>1, PartHeld
  <2> HIDE DEF part
  <2>6. Holds(c.buf, GetSize(d) - at, elements[i])
    BY <1>10, <1>12, <2>3, <2>4, <2>5, HeldStays, BytesAreCells
  <2>7. GetSize(c) = GetSize(d) + 4
    <3>1. GetSize(d) % 4 = 0
      BY <1>1, <1>8, <1>9
    <3>2. PaddingBytes(GetSize(d), 4) = 0
      <4> DEFINE x == GetSize(d)
      <4>1. x \in Nat /\ x % 4 = 0
        BY <1>10, <3>1
      <4> HIDE DEF x
      <4>2. (-x) % 4 = 0
        BY <4>1
      <4> QED
        BY <4>2 DEF PaddingBytes, x
    <3> QED
      BY <1>10, <1>11, <3>2
  <2>8. GetSize(c) - UOFFSET - at = GetSize(d) - at
    BY <1>10, <2>1, <2>7 DEF UOFFSET
  <2>9. Holds(c.buf, GetSize(c) - UOFFSET - at, elements[i])
    BY <2>6, <2>8
  <2>10. (GetSize(c) - UOFFSET - at) % elemsize = 0
    <3> DEFINE x == GetSize(d)
               k == i - 1
    <3>1. x \in Nat /\ x % elemsize = 0 /\ k \in Nat /\ elemsize \in Sizes
      BY <1>1, <1>8, <1>9, <1>10 DEF Sizes
    <3>2. at = k * elemsize
      BY DEF at
    <3> HIDE DEF x, k
    <3>3. (x - k * elemsize) % elemsize = 0
      BY <3>1, SomeBack
    <3> QED
      BY <2>8, <3>2, <3>3 DEF x
  <2> QED
    BY <2>3, <2>9, <2>10 DEF SlotHolds, ElementSize, at
<1>16. o.type.of = [kind |-> "scalar", size |-> elemsize] /\ ElementSize(o.type.of) = elemsize
  BY DEF VectorOf, ElementSize
<1>17. Len(o.value) = n
  BY DEF n
<1> QED
  BY <1>1, <1>11, <1>12, <1>14, <1>15, <1>16, <1>17 DEF VectorHolds

-----------------------------------------------------------------------------
(***************************************************************************)
(* The invariant of what can be read back.                                 *)
(***************************************************************************)
\* The objects of S and the vtables of K are there.
ObjectsLie(v, K, S) ==
  /\ VTablesOK(v, K)
  /\ \A o \in S : ObjectLies(v, o, K, S)

\* What the scratch pad remembers.
Remembers(b, K, known, locs) ==
  /\ PadHolds(b.buf, known, locs) /\ Len(locs) = b.num_field_loc
  /\ K = {known[k] : k \in 1 .. Len(known)}

VOffsetOK(n) == n \in Nat /\ n % 2 = 0 /\ n + 4 <= BYTE * BYTE

\* The elements of the vector that is being built, the last of them first.
ItemsLie(v, vector, S) ==
  /\ \E X : vector.elements \in Seq(X)
  /\ vector.len # 0 => size(v) % 4 = 0
  /\ 4 * Len(vector.elements) <= size(v)
  /\ \A i \in 1 .. Len(vector.elements) :
       /\ vector.type.kind # "scalar"
       /\ SlotHolds(v, size(v) - (i - 1) * 4, vector.type, vector.elements[i], S)

\* A field of the table that is being built: where its FieldLoc says, or not there.
FieldLies(v, locs, voffset, field, value, S) ==
  /\ \A j \in 1 .. Len(locs) : locs[j].id = voffset => SlotHolds(v, locs[j].off, field, value, S)
  /\ (\A j \in 1 .. Len(locs) : locs[j].id # voffset) =>
       value = IF field.kind = "scalar" THEN field.default ELSE Absent

\* The FieldLocs of a table are those of fields that have been added.
LocsOK(v, table, locs, max) ==
  \A j \in 1 .. Len(locs) :
    /\ table.start < locs[j].off /\ locs[j].off <= size(v) /\ locs[j].id <= max
    /\ \E f \in table.added : locs[j].id = FieldIndexToOffset(f)

FieldsLie(v, table, locs, max, S) ==
  /\ table.start <= size(v)
  /\ table.added \subseteq DOMAIN Tables[table.name]
  /\ DOMAIN table.values = DOMAIN Tables[table.name]
  /\ LocsOK(v, table, locs, max)
  /\ \A f \in DOMAIN Tables[table.name] :
       FieldLies(v, locs, FieldIndexToOffset(f), Tables[table.name][f], table.values[f], S)

Lies(K, known, locs) ==
  /\ ObjectsLie(builder.buf, K, Objects)
  /\ VOffsetOK(builder.max_voffset)
  /\ building.kind # "finished" => Remembers(builder, K, known, locs)
  /\ building.kind = "vector" => ItemsLie(builder.buf, building, Objects)
  /\ building.kind = "table" => FieldsLie(builder.buf, building, locs, builder.max_voffset, Objects)

\* The offsets of a larger buffer do not fit their 32 bits.
ReadInv == GetSize(builder) < MAX_BUFFER_SIZE => \E K, known, locs : Lies(K, known, locs)

LEMMA ObjectsStayLying ==
  ASSUME NEW v, IsVector(v), NEW w, IsVector(w), Kept(v, w), NEW K, NEW S, ObjectsLie(v, K, S),
         NEW L, K \subseteq L, VTablesOK(w, L),
         NEW T, S \subseteq T, \A o \in T \ S : ObjectLies(w, o, L, T)
  PROVE  ObjectsLie(w, L, T)
<1> SUFFICES ASSUME NEW o \in S
             PROVE  ObjectLies(w, o, L, T)
  BY DEF ObjectsLie
<1>1. ObjectLies(v, o, K, S)
  BY DEF ObjectsLie
<1> QED
  BY <1>1, ObjectStays

LEMMA RemembersStay ==
  ASSUME NEW b, IsVector(b.buf), NEW c, IsVector(c.buf), SamePad(b.buf, c.buf),
         c.num_field_loc = b.num_field_loc, NEW K, NEW known, NEW locs, Remembers(b, K, known, locs)
  PROVE  Remembers(c, K, known, locs)
<1>1. PadHolds(b.buf, known, locs)
  BY DEF Remembers
<1> DEFINE v == b.buf
           w == c.buf
<1>2. IsVector(v) /\ IsVector(w) /\ SamePad(v, w) /\ PadHolds(v, known, locs)
  BY <1>1
<1> HIDE DEF v, w
<1>3. PadHolds(w, known, locs)
  BY <1>2, PadHoldsStays
<1> QED
  BY <1>3 DEF Remembers, w

LEMMA AppendedObjects ==
  ASSUME BuildInv, NEW o, objects' = Append(objects, o)
  PROVE  Objects' = Objects \cup {o}
<1>1. PICK X : objects \in Seq(X)
  BY DEF BuildInv, ObjectsOK
<1> DEFINE Y == X \cup {o}
           s == objects
           t == Append(s, o)
<1>2. s \in Seq(Y) /\ o \in Y
  BY <1>1
<1> HIDE DEF Y, s
<1>3. /\ DOMAIN s = 1 .. Len(s) /\ DOMAIN t = 1 .. Len(s) + 1 /\ Len(s) \in Nat
      /\ \A i \in 1 .. Len(s) : t[i] = s[i]
      /\ t[Len(s) + 1] = o
  BY <1>2
<1> HIDE DEF t
<1>4. {t[i] : i \in DOMAIN t} = {s[i] : i \in DOMAIN s} \cup {o}
  <2>1. ASSUME NEW i \in DOMAIN t
        PROVE  t[i] \in {s[k] : k \in DOMAIN s} \cup {o}
    <3>1. i \in 1 .. Len(s) \/ i = Len(s) + 1
      BY <1>3
    <3> QED
      BY <1>3, <3>1
  <2>2. ASSUME NEW i \in DOMAIN s
        PROVE  s[i] \in {t[k] : k \in DOMAIN t}
    <3>1. i \in DOMAIN t /\ t[i] = s[i]
      BY <1>3
    <3> QED
      BY <3>1
  <2>3. o \in {t[k] : k \in DOMAIN t}
    <3>1. Len(s) + 1 \in DOMAIN t
      BY <1>3
    <3> QED
      BY <1>3, <3>1
  <2> QED
    BY <2>1, <2>2, <2>3
<1>5. objects' = t
  BY DEF t, s
<1> QED
  BY <1>4, <1>5 DEF Objects, s

\* A step that completes an object and leaves the scratch pad as it is.
LEMMA ObjectStep ==
  ASSUME BuildInv, NEW K, NEW known, NEW locs, Lies(K, known, locs),
         building.kind # "finished", building' = Nothing,
         Extended(builder.buf, builder'.buf), SamePad(builder.buf, builder'.buf),
         builder'.num_field_loc = builder.num_field_loc, builder'.max_voffset = builder.max_voffset,
         NEW o, objects' = Append(objects, o), ObjectLies(builder'.buf, o, K, Objects')
  PROVE  Lies(K, known, locs)'
<1> DEFINE S == Objects
           T == Objects'
           v == builder.buf
           w == builder'.buf
<1>1. T = S \cup {o}
  BY AppendedObjects
<1>2. IsVector(v) /\ IsVector(w) /\ Kept(v, w) /\ SamePad(v, w)
  BY DEF BuildInv, BuilderOK, IsBuilder, Extended
<1>3. ObjectsLie(v, K, S) /\ ObjectLies(w, o, K, T)
  BY DEF Lies
<1>4. Remembers(builder, K, known, locs)
  BY DEF Lies
<1>5. Remembers(builder', K, known, locs)
  <2> DEFINE b == builder
             c == builder'
  <2>1. /\ IsVector(b.buf) /\ IsVector(c.buf) /\ SamePad(b.buf, c.buf)
        /\ c.num_field_loc = b.num_field_loc /\ Remembers(b, K, known, locs)
    BY <1>2, <1>4
  <2> HIDE DEF b, c
  <2> QED
    BY <2>1, RemembersStay DEF c
<1> HIDE DEF S, T, v, w
<1>6. VTablesOK(v, K)
  BY <1>3 DEF ObjectsLie
<1>7. VTablesOK(w, K)
  BY <1>2, <1>6, VTablesStay
<1>8. S \subseteq T /\ K \subseteq K /\ \A x \in T \ S : ObjectLies(w, x, K, T)
  BY <1>1, <1>3
<1>9. ObjectsLie(w, K, T)
  BY <1>2, <1>3, <1>7, <1>8, ObjectsStayLying
<1>10. ObjectsLie(builder'.buf, K, Objects')
  BY <1>9 DEF w, T
<1>11. building'.kind # "vector" /\ building'.kind # "table"
  BY DEF Nothing
<1>12. VOffsetOK(builder'.max_voffset)
  BY DEF Lies
<1> QED
  BY <1>5, <1>10, <1>11, <1>12 DEF Lies

-----------------------------------------------------------------------------
(***************************************************************************)
(* The steps.                                                              *)
(***************************************************************************)
LEMMA ReadStringStep ==
  ASSUME BuildInv, NEW chars \in Strings, WriteString(chars),
         NEW K, NEW known, NEW locs, Lies(K, known, locs)
  PROVE  Lies(K, known, locs)'
<1> DEFINE o == [off |-> GetSize(builder'), type |-> String, value |-> chars]
<1>1. /\ building = Nothing /\ building' = Nothing
      /\ builder' = CreateString(builder, chars)
      /\ objects' = Append(objects, o)
  BY DEF WriteString, Ready, Written
<1>2. Wrote(builder, builder')
  BY <1>1, Idle, StringsAreBytes, CreateStringWrites
<1>3. /\ Extended(builder.buf, builder'.buf) /\ SamePad(builder.buf, builder'.buf)
      /\ builder'.num_field_loc = builder.num_field_loc /\ builder'.max_voffset = builder.max_voffset
  BY <1>2, AboveIsExtended DEF Wrote, Above
<1>4. o.type = String
  OBVIOUS
<1> HIDE DEF o
<1>5. ObjectLies(builder'.buf, o, K, Objects')
  BY <1>4 DEF ObjectLies
<1>6. building.kind # "finished"
  BY <1>1 DEF Nothing
<1> QED
  BY <1>1, <1>3, <1>5, <1>6, ObjectStep

LEMMA ReadSharedStringStep ==
  ASSUME BuildInv, NEW chars \in Strings, WriteSharedString(chars),
         NEW K, NEW known, NEW locs, Lies(K, known, locs)
  PROVE  Lies(K, known, locs)'
<1> DEFINE shared == CreateSharedString(builder, chars)
           o == [off |-> shared.off, type |-> String, value |-> chars]
<1>1. /\ building = Nothing /\ building' = Nothing
      /\ builder' = shared.builder
      /\ objects' = Append(objects, o)
  BY DEF WriteSharedString, Ready, Written
<1>2. o.type = String
  OBVIOUS
<1> HIDE DEF o
<1>3. chars \in Seq(Byte) /\ Short(Len(chars))
  BY StringsAreBytes
<1>3a. IsBuilder(builder) /\ PoolOK(builder)
  BY <1>1, Idle
<1>3b. shared = CreateSharedString(builder, chars)
  OBVIOUS
<1> HIDE DEF shared
<1>4. /\ Above(builder.buf, shared.builder.buf)
      /\ shared.builder.num_field_loc = builder.num_field_loc
      /\ shared.builder.max_voffset = builder.max_voffset
  BY <1>3, <1>3a, <1>3b, SharedStringWrites
<1>5. /\ Extended(builder.buf, builder'.buf) /\ SamePad(builder.buf, builder'.buf)
      /\ builder'.num_field_loc = builder.num_field_loc /\ builder'.max_voffset = builder.max_voffset
  BY <1>1, <1>4, AboveIsExtended DEF Above
<1>6. ObjectLies(builder'.buf, o, K, Objects')
  BY <1>2 DEF ObjectLies
<1>7. building.kind # "finished"
  BY <1>1 DEF Nothing
<1> QED
  BY <1>1, <1>5, <1>6, <1>7, ObjectStep

LEMMA ReadScalarsStep ==
  ASSUME BuildInv, NEW v \in ScalarVectors, WriteScalars(v),
         NEW K, NEW known, NEW locs, Lies(K, known, locs)
  PROVE  Lies(K, known, locs)'
<1> DEFINE type == VectorOf([kind |-> "scalar", size |-> v.size])
           o == [off |-> GetSize(builder'), type |-> type, value |-> v.elements]
           T == Objects'
<1>1. /\ building = Nothing /\ building' = Nothing
      /\ builder' = CreateVector(builder, v.elements, v.size)
      /\ objects' = Append(objects, o)
  BY DEF WriteScalars, Ready, Written
<1>2. v.size \in {1, 2, 4, 8} /\ v.elements \in Seq([1 .. v.size -> Byte])
  BY ObjectsAssumption DEF Byte
<1>3. o.off = GetSize(builder') /\ o.type = type /\ o.value = v.elements
  OBVIOUS
<1> HIDE DEF o, T
<1>4. Wrote(builder, builder') /\ VectorHolds(builder'.buf, o, T)
  <2> DEFINE b == builder
             c == builder'
             n == v.size
             s == v.elements
  <2>1. /\ IsBuilder(b) /\ n \in {1, 2, 4, 8} /\ s \in Seq([1 .. n -> Byte])
        /\ c = CreateVector(b, s, n) /\ o.off = GetSize(c)
        /\ o.type = VectorOf([kind |-> "scalar", size |-> n]) /\ o.value = s
    BY <1>1, <1>2, <1>3, Idle
  <2> HIDE DEF b, c, n, s
  <2>2. Wrote(b, c) /\ VectorHolds(c.buf, o, T)
    BY <2>1, CreateVectorHolds
  <2> QED
    BY <2>2 DEF b, c
<1>5. /\ Extended(builder.buf, builder'.buf) /\ SamePad(builder.buf, builder'.buf)
      /\ builder'.num_field_loc = builder.num_field_loc /\ builder'.max_voffset = builder.max_voffset
  BY <1>4, AboveIsExtended DEF Wrote, Above
<1>6. ObjectLies(builder'.buf, o, K, Objects')
  BY <1>3, <1>4 DEF ObjectLies, T
<1>7. building.kind # "finished"
  BY <1>1 DEF Nothing
<1> QED
  BY <1>1, <1>5, <1>6, <1>7, ObjectStep

\* An object is below the end of the buffer.
LEMMA ObjectBelow ==
  ASSUME BuildInv, NEW K, ObjectsLie(builder.buf, K, Objects), NEW o \in Objects
  PROVE  o.off \in Nat /\ o.off <= size(builder.buf) /\ o.type.kind # "scalar"
<1>1. ObjectLies(builder.buf, o, K, Objects)
  BY DEF ObjectsLie
<1>2. PICK i \in DOMAIN objects : o = objects[i]
  BY DEF Objects
<1>3. ObjectOK(builder.buf, o)
  <2>1. i \in 1 .. Len(objects)
    BY DEF BuildInv, ObjectsOK
  <2> QED
    BY <1>2, <2>1 DEF BuildInv, ObjectsOK
<1>4. CASE o.type = String
  <2>1. Holds(builder.buf, o.off, Scalar(Len(o.value), UOFFSET))
    BY <1>3, <1>4 DEF ObjectOK, IsString
  <2> QED
    BY <1>4, <2>1 DEF Holds, String
<1>5. CASE \E t : o.type = VectorOf(t) /\ VectorHolds(builder.buf, o, Objects)
  <2>1. o.type.kind = "vector"
    BY <1>5 DEF VectorOf
  <2>2. Holds(builder.buf, o.off, Scalar(Len(o.value), UOFFSET))
    BY <1>5 DEF VectorHolds
  <2> QED
    BY <2>1, <2>2 DEF Holds
<1>6. CASE \E name \in DOMAIN Tables : o.type = TableOf(name) /\ TableHolds(builder.buf, o, K, Objects)
  <2>1. o.type.kind = "table"
    BY <1>6 DEF TableOf
  <2>2. PICK vt \in K : Holds(builder.buf, o.off, Scalar(vt - o.off, UOFFSET))
    BY <1>6 DEF TableHolds
  <2> QED
    BY <2>1, <2>2 DEF Holds
<1> QED
  BY <1>1, <1>4, <1>5, <1>6 DEF ObjectLies

\* A step that completes no object.
LEMMA BuildingRead ==
  ASSUME BuildInv, NEW K, NEW known, NEW locs, Lies(K, known, locs),
         Extended(builder.buf, builder'.buf), objects' = objects
  PROVE  ObjectsLie(builder'.buf, K, Objects') /\ Objects' = Objects
<1> DEFINE S == Objects
           v == builder.buf
           w == builder'.buf
<1>1. Objects' = S
  BY DEF Objects
<1>2. IsVector(v) /\ IsVector(w) /\ Kept(v, w) /\ ObjectsLie(v, K, S)
  BY DEF BuildInv, BuilderOK, IsBuilder, Extended, Lies
<1> HIDE DEF S, v, w
<1>3. VTablesOK(w, K)
  BY <1>2, VTablesStay DEF ObjectsLie
<1>4. ObjectsLie(w, K, S)
  BY <1>2, <1>3, ObjectsStayLying
<1> QED
  BY <1>1, <1>4 DEF w, S

\* A step that writes and leaves the scratch pad as it is.
LEMMA WroteRead ==
  ASSUME BuildInv, NEW K, NEW known, NEW locs, Lies(K, known, locs), building.kind # "finished",
         Wrote(builder, builder'), objects' = objects
  PROVE  /\ ObjectsLie(builder'.buf, K, Objects') /\ Objects' = Objects
         /\ VOffsetOK(builder'.max_voffset) /\ Remembers(builder', K, known, locs)
         /\ IsVector(builder.buf) /\ IsVector(builder'.buf) /\ Kept(builder.buf, builder'.buf)
         /\ size(builder.buf) \in Nat /\ size(builder'.buf) \in Nat /\ size(builder.buf) <= size(builder'.buf)
<1>1. /\ IsVector(builder.buf) /\ IsVector(builder'.buf)
      /\ Extended(builder.buf, builder'.buf) /\ SamePad(builder.buf, builder'.buf)
      /\ builder'.num_field_loc = builder.num_field_loc /\ builder'.max_voffset = builder.max_voffset
  BY AboveIsExtended DEF Wrote, Above, BuildInv, BuilderOK, IsBuilder
<1>2. Remembers(builder, K, known, locs) /\ VOffsetOK(builder.max_voffset)
  BY DEF Lies
<1>3. Remembers(builder', K, known, locs)
  <2> DEFINE b == builder
             c == builder'
  <2>1. /\ IsVector(b.buf) /\ IsVector(c.buf) /\ SamePad(b.buf, c.buf)
        /\ c.num_field_loc = b.num_field_loc /\ Remembers(b, K, known, locs)
    BY <1>1, <1>2
  <2> HIDE DEF b, c
  <2> QED
    BY <2>1, RemembersStay DEF c
<1>4. Kept(builder.buf, builder'.buf)
  BY <1>1 DEF Extended
<1>5. size(builder.buf) \in Nat /\ size(builder'.buf) \in Nat /\ size(builder.buf) <= size(builder'.buf)
  BY <1>1, <1>4, VectorTypes DEF Kept
<1> QED
  BY <1>1, <1>2, <1>3, <1>4, <1>5, BuildingRead

LEMMA ReadBeginVectorStep ==
  ASSUME BuildInv, NEW x \in Vectors, BeginVector(x.type, x.len),
         NEW K, NEW known, NEW locs, Lies(K, known, locs)
  PROVE  Lies(K, known, locs)'
<1> DEFINE vector == [kind |-> "vector", type |-> x.type, len |-> x.len, elements |-> << >>]
<1>1. /\ building = Nothing /\ building' = vector /\ objects' = objects
      /\ builder' = StartVector(builder, x.len, UOFFSET)
  BY DEF BeginVector, Ready
<1>2. x.len \in Nat /\ UOFFSET = 4
  BY ObjectsAssumption DEF UOFFSET
<1>3. Wrote(builder, builder')
  BY <1>1, <1>2, Idle, StartVectorWrites
<1>4. building.kind # "finished"
  BY <1>1 DEF Nothing
<1>5. /\ ObjectsLie(builder'.buf, K, Objects')
      /\ VOffsetOK(builder'.max_voffset) /\ Remembers(builder', K, known, locs)
      /\ size(builder'.buf) \in Nat
  BY <1>1, <1>3, <1>4, WroteRead
<1>6. ASSUME x.len # 0
      PROVE  size(builder'.buf) % 4 = 0
  <2> DEFINE b == builder
             c == builder'
             len == x.len
             n == GetSize(c)
  <2>1. IsBuilder(b) /\ len \in Nat /\ len # 0 /\ c = StartVector(b, len, 4) /\ n \in Nat
    BY <1>1, <1>2, <1>5, <1>6, Idle DEF GetSize
  <2> HIDE DEF b, c, len
  <2>2. 4 \in {1, 2, 4, 8}
    OBVIOUS
  <2>3. (n + len * 4) % 4 = 0
    BY <2>1, <2>2, StartVectorAligns
  <2> HIDE DEF n
  <2>4. n % 4 = 0
    BY <2>1, <2>3
  <2> QED
    BY <2>4 DEF n, c, GetSize
<1>7. ItemsLie(builder'.buf, vector, Objects')
  <2>1. vector.elements \in Seq({}) /\ Len(vector.elements) = 0 /\ vector.len = x.len
    OBVIOUS
  <2> HIDE DEF vector
  <2> QED
    BY <1>5, <1>6, <2>1 DEF ItemsLie
<1>8. building'.kind = "vector"
  BY <1>1
<1> HIDE DEF vector
<1> QED
  BY <1>1, <1>5, <1>7, <1>8 DEF Lies

LEMMA Pushed ==
  ASSUME NEW S, NEW s \in Seq(S), NEW e \in S, NEW t, t = << e >> \o s
  PROVE  /\ t \in Seq(S) /\ Len(t) = Len(s) + 1 /\ t[1] = e
         /\ \A i \in 1 .. Len(s) : t[i + 1] = s[i]
OBVIOUS

\* One more offset in front of the elements.
LEMMA ItemPushed ==
  ASSUME NEW b, IsBuilder(b), NEW vector, vector.len # 0, NEW S, ItemsLie(b.buf, vector, S),
         NEW o \in S, o.type = vector.type, o.type.kind # "scalar", o.off \in Nat, o.off <= size(b.buf),
         NEW c, c = PushOffset(b, o.off),
         NEW w, w.len = vector.len, w.type = vector.type, w.elements = << o.value >> \o vector.elements
  PROVE  Wrote(b, c) /\ ItemsLie(c.buf, w, S)
<1> DEFINE s == vector.elements
           t == w.elements
           u == b.buf
           v == c.buf
           n == size(u)
           m == size(v)
<1>1. PICK X : s \in Seq(X)
  BY DEF ItemsLie
<1>2. /\ t \in Seq(X \cup {o.value}) /\ Len(t) = Len(s) + 1 /\ t[1] = o.value /\ Len(s) \in Nat
      /\ \A i \in 1 .. Len(s) : t[i + 1] = s[i]
  <2> DEFINE Y == X \cup {o.value}
             e == o.value
  <2>1. s \in Seq(Y) /\ e \in Y /\ t = << e >> \o s
    BY <1>1
  <2> HIDE DEF Y, e, s, t
  <2>2. /\ t \in Seq(Y) /\ Len(t) = Len(s) + 1 /\ t[1] = e
        /\ \A i \in 1 .. Len(s) : t[i + 1] = s[i]
    BY <2>1, Pushed
  <2>3. Len(s) \in Nat
    BY <2>1
  <2> QED
    BY <2>2, <2>3 DEF Y, e
<1>3. /\ Wrote(b, c) /\ Holds(v, m, Scalar(m - o.off, UOFFSET))
      /\ m = n + PaddingBytes(n, 4) + 4 /\ m \in Nat
  <2> DEFINE k == o.off
  <2>1. k \in Int /\ c = PushOffset(b, k)
    OBVIOUS
  <2> HIDE DEF k
  <2>2. /\ Wrote(b, c) /\ Holds(c.buf, GetSize(c), Scalar(GetSize(c) - k, UOFFSET))
        /\ GetSize(c) = GetSize(b) + PaddingBytes(GetSize(b), 4) + 4
        /\ GetSize(c) \in Nat
    BY <2>1, PushOffsetHolds
  <2> QED
    BY <2>2 DEF GetSize, k
<1>4. n \in Nat /\ n % 4 = 0 /\ 4 * Len(s) <= n
  BY BuilderSize, VectorTypes DEF ItemsLie
<1> HIDE DEF s, t
<1>5. IsVector(u) /\ IsVector(v) /\ Kept(u, v)
  BY <1>3, BuilderSize DEF Wrote, Above
<1>6. \A i \in 1 .. Len(s) : vector.type.kind # "scalar" /\ SlotHolds(u, n - (i - 1) * 4, vector.type, s[i], S)
  BY DEF ItemsLie, s
<1> HIDE DEF u, v, n, m
<1>7. m = n + 4
  <2>1. (-n) % 4 = 0
    BY <1>4
  <2> QED
    BY <1>3, <1>4, <2>1 DEF PaddingBytes
<1>8. SlotHolds(v, m, vector.type, o.value, S)
  <2>1. o.off < m
    BY <1>4, <1>7 DEF n, u
  <2>2. m % 4 = 0
    BY <1>4, <1>7
  <2>3. ElementSize(vector.type) = 4
    BY DEF ElementSize, UOFFSET
  <2> QED
    BY <1>3, <2>1, <2>2, <2>3 DEF SlotHolds
<1>9. ASSUME NEW i \in 1 .. Len(t)
      PROVE  vector.type.kind # "scalar" /\ SlotHolds(v, m - (i - 1) * 4, vector.type, t[i], S)
  <2>1. CASE i = 1
    <3>1. m - (i - 1) * 4 = m
      BY <1>3, <2>1
    <3> QED
      BY <1>2, <1>8, <2>1, <3>1
  <2>2. CASE i # 1
    <3> DEFINE j == i - 1
               at == n - (j - 1) * 4
    <3>1. j \in 1 .. Len(s) /\ t[i] = s[j] /\ at = m - (i - 1) * 4
      <4>1. j \in 1 .. Len(s) /\ j + 1 = i
        BY <1>2, <2>2
      <4>2. t[j + 1] = s[j]
        BY <1>2, <4>1
      <4> QED
        BY <1>4, <1>7, <4>1, <4>2
    <3>2. SlotHolds(u, at, vector.type, s[j], S)
      BY <1>6, <3>1
    <3> HIDE DEF at, j
    <3> DEFINE type == vector.type
               e == s[j]
    <3>3. SlotHolds(u, at, type, e, S) /\ S \subseteq S
      BY <3>2
    <3> HIDE DEF type, e
    <3>4. SlotHolds(v, at, type, e, S)
      BY <1>5, <3>3, SlotStays
    <3> QED
      BY <3>1, <3>4 DEF type, e
  <2> QED
    BY <2>1, <2>2
<1>10. m % 4 = 0 /\ 4 * Len(t) <= m
  <2> DEFINE k == Len(s)
  <2>1. k \in Nat /\ Len(t) = k + 1 /\ 4 * k <= n /\ n \in Nat /\ n % 4 = 0 /\ m = n + 4
    BY <1>2, <1>4, <1>7
  <2> HIDE DEF k
  <2>2. 4 * (k + 1) <= n + 4 /\ (n + 4) % 4 = 0
    BY <2>1
  <2> QED
    BY <2>1, <2>2
<1> QED
  BY <1>2, <1>3, <1>9, <1>10 DEF ItemsLie, t, m, v

LEMMA ReadPushItemStep ==
  ASSUME BuildInv, NEW o \in Objects, PushItem(o),
         NEW K, NEW known, NEW locs, Lies(K, known, locs)
  PROVE  Lies(K, known, locs)'
<1>1. /\ building.kind = "vector" /\ Len(building.elements) < building.len
      /\ o.type = building.type /\ builder' = PushOffset(builder, o.off)
      /\ building' = [building EXCEPT !.elements = << o.value >> \o @]
      /\ objects' = objects
  BY DEF PushItem
<1>2. ItemsLie(builder.buf, building, Objects) /\ ObjectsLie(builder.buf, K, Objects)
  BY <1>1 DEF Lies
<1>3. o.off \in Nat /\ o.off <= size(builder.buf) /\ o.type.kind # "scalar"
  BY <1>2, ObjectBelow
<1>4. building.len # 0
  <2>1. Len(building.elements) \in Nat
    BY <1>2 DEF ItemsLie
  <2> QED
    BY <1>1, <2>1, BuildingVector
<1>5. /\ building'.kind = "vector" /\ building'.len = building.len /\ building'.type = building.type
      /\ building'.elements = << o.value >> \o building.elements
  BY <1>1, BuildingVector
<1>6. Wrote(builder, builder') /\ ItemsLie(builder'.buf, building', Objects)
  <2> DEFINE b == builder
             c == builder'
             vector == building
             w == building'
             S == Objects
  <2>1. /\ IsBuilder(b) /\ vector.len # 0 /\ ItemsLie(b.buf, vector, S) /\ o \in S
        /\ o.type = vector.type /\ o.type.kind # "scalar" /\ o.off \in Nat /\ o.off <= size(b.buf)
        /\ c = PushOffset(b, o.off) /\ w.len = vector.len /\ w.type = vector.type
        /\ w.elements = << o.value >> \o vector.elements
    BY <1>1, <1>2, <1>3, <1>4, <1>5 DEF BuildInv, BuilderOK
  <2> HIDE DEF b, c, vector, w, S
  <2>2. Wrote(b, c) /\ ItemsLie(c.buf, w, S)
    BY <2>1, ItemPushed
  <2> QED
    BY <2>2 DEF b, c, w, S
<1>7. building.kind # "finished"
  BY <1>1
<1>8. /\ ObjectsLie(builder'.buf, K, Objects') /\ Objects' = Objects
      /\ VOffsetOK(builder'.max_voffset) /\ Remembers(builder', K, known, locs)
  BY <1>1, <1>6, <1>7, WroteRead
<1> QED
  BY <1>5, <1>6, <1>8 DEF Lies

\* The vector that is finished has the elements that have been pushed.
LEMMA ItemsAreVector ==
  ASSUME NEW b, IsBuilder(b), NEW vector, NEW S, ItemsLie(b.buf, vector, S),
         Len(vector.elements) = vector.len,
         NEW c, c = EndVector(b, vector.len),
         NEW o, o.off = GetSize(c), o.type = VectorOf(vector.type), o.value = vector.elements,
         NEW T, S \subseteq T
  PROVE  Wrote(b, c) /\ VectorHolds(c.buf, o, T)
<1> DEFINE s == vector.elements
           k == Len(s)
           u == b.buf
           v == c.buf
           n == size(u)
           m == size(v)
<1>1. k \in Nat /\ n \in Nat /\ 4 * k <= n /\ (k # 0 => n % 4 = 0)
  <2>1. Len(s) \in Nat
    BY DEF ItemsLie
  <2>2. IsVector(u)
    BY BuilderSize
  <2> HIDE DEF u
  <2>3. n \in Nat
    BY <2>2, VectorTypes
  <2> QED
    BY <2>1, <2>3 DEF ItemsLie, u
<1>2. /\ Wrote(b, c) /\ Holds(v, m, Scalar(k, UOFFSET))
      /\ m = n + PaddingBytes(n, 4) + 4 /\ n + 4 <= m
  <2>1. k \in Nat /\ c = EndVector(b, k)
    BY <1>1
  <2> HIDE DEF k
  <2>2. /\ Wrote(b, c) /\ Holds(c.buf, GetSize(c), Scalar(k, UOFFSET))
        /\ GetSize(c) = GetSize(b) + PaddingBytes(GetSize(b), 4) + 4
        /\ GetSize(b) + 4 <= GetSize(c)
    BY <2>1, EndVectorHolds
  <2> QED
    BY <2>2 DEF GetSize
<1>3. IsVector(u) /\ IsVector(v) /\ Kept(u, v) /\ m \in Nat /\ o.off = m
  <2>1. IsVector(u) /\ IsVector(v) /\ Kept(u, v)
    BY <1>2, BuilderSize DEF Wrote, Above
  <2> HIDE DEF u, v
  <2>2. m \in Nat
    BY <2>1, VectorTypes
  <2> QED
    BY <2>1, <2>2 DEF GetSize, v
<1>4. \A i \in 1 .. k : vector.type.kind # "scalar" /\ SlotHolds(u, n - (i - 1) * 4, vector.type, s[i], S)
  BY DEF ItemsLie
<1>5. o.type.of = vector.type
  BY DEF VectorOf
<1> HIDE DEF s, k, u, v, n, m
<1>6. ASSUME NEW i \in 1 .. k
      PROVE  SlotHolds(v, m - UOFFSET - (i - 1) * ElementSize(vector.type), vector.type, s[i], T)
  <2>1. ElementSize(vector.type) = 4 /\ UOFFSET = 4
    BY <1>4 DEF ElementSize, UOFFSET
  <2>2. m = n + 4
    <3>1. n % 4 = 0
      BY <1>1
    <3>2. (-n) % 4 = 0
      BY <1>1, <3>1
    <3> QED
      BY <1>1, <1>2, <3>2 DEF PaddingBytes
  <2> DEFINE at == n - (i - 1) * 4
             type == vector.type
             e == s[i]
  <2>3. m - UOFFSET - (i - 1) * ElementSize(vector.type) = at
    BY <1>1, <2>1, <2>2
  <2>4. SlotHolds(u, at, type, e, S)
    BY <1>4
  <2> HIDE DEF at, type, e
  <2>5. SlotHolds(v, at, type, e, T)
    BY <1>3, <2>4, SlotStays
  <2> QED
    BY <2>3, <2>5 DEF type, e
<1>7. k <= m
  BY <1>1, <1>2, <1>3
<1>8. o.value = s /\ Len(s) = k
  BY DEF s, k
<1>9. \A i \in 1 .. k :
        SlotHolds(v, o.off - UOFFSET - (i - 1) * ElementSize(o.type.of), o.type.of, o.value[i], T)
  BY <1>3, <1>5, <1>6, <1>8
<1>10. VectorHolds(v, o, T)
  BY <1>1, <1>2, <1>3, <1>7, <1>8, <1>9 DEF VectorHolds
<1> QED
  BY <1>2, <1>10 DEF v

LEMMA ReadFinishVectorStep ==
  ASSUME BuildInv, FinishVector,
         NEW K, NEW known, NEW locs, Lies(K, known, locs)
  PROVE  Lies(K, known, locs)'
<1> DEFINE o == [off |-> GetSize(builder'), type |-> VectorOf(building.type), value |-> building.elements]
           T == Objects'
<1>1. /\ building.kind = "vector" /\ building' = Nothing /\ Len(building.elements) = building.len
      /\ builder' = EndVector(builder, building.len)
      /\ objects' = Append(objects, o)
  BY DEF FinishVector, Written
<1>2. o.off = GetSize(builder') /\ o.type = VectorOf(building.type) /\ o.value = building.elements
  OBVIOUS
<1> HIDE DEF o, T
<1>3. Objects \subseteq T
  BY <1>1, AppendedObjects DEF T
<1>4. Wrote(builder, builder') /\ VectorHolds(builder'.buf, o, T)
  <2> DEFINE b == builder
             c == builder'
             vector == building
             S == Objects
  <2>1. /\ IsBuilder(b) /\ ItemsLie(b.buf, vector, S)
        /\ Len(vector.elements) = vector.len /\ c = EndVector(b, vector.len)
        /\ o.off = GetSize(c) /\ o.type = VectorOf(vector.type) /\ o.value = vector.elements
        /\ S \subseteq T
    BY <1>1, <1>2, <1>3 DEF BuildInv, BuilderOK, Lies
  <2> HIDE DEF b, c, vector, S
  <2>2. Wrote(b, c) /\ VectorHolds(c.buf, o, T)
    BY <2>1, ItemsAreVector
  <2> QED
    BY <2>2 DEF b, c
<1>5. /\ Extended(builder.buf, builder'.buf) /\ SamePad(builder.buf, builder'.buf)
      /\ builder'.num_field_loc = builder.num_field_loc /\ builder'.max_voffset = builder.max_voffset
  BY <1>4, AboveIsExtended DEF Wrote, Above
<1>6. ObjectLies(builder'.buf, o, K, Objects')
  BY <1>2, <1>4 DEF ObjectLies, T
<1>7. building.kind # "finished"
  BY <1>1
<1> QED
  BY <1>1, <1>5, <1>6, <1>7, ObjectStep

LEMMA ReadBeginTableStep ==
  ASSUME BuildInv, NEW name \in DOMAIN Tables, BeginTable(name),
         NEW K, NEW known, NEW locs, Lies(K, known, locs)
  PROVE  Lies(K, known, locs)'
<1> DEFINE fields == Tables[name]
           values == [f \in DOMAIN fields |->
                        IF fields[f].kind = "scalar" THEN fields[f].default ELSE Absent]
           table == [kind |-> "table", name |-> name, start |-> GetSize(builder), added |-> {},
                     values |-> values]
<1>1. /\ building = Nothing /\ building' = table /\ objects' = objects
      /\ builder' = StartTable(builder)
  BY DEF BeginTable, Ready
<1>2. Wrote(builder, builder') /\ builder'.buf = builder.buf
  BY <1>1, Idle, NestedWrites DEF StartTable
<1>3. building.kind # "finished"
  BY <1>1 DEF Nothing
<1>4. /\ ObjectsLie(builder'.buf, K, Objects')
      /\ VOffsetOK(builder'.max_voffset) /\ Remembers(builder', K, known, locs)
      /\ size(builder'.buf) \in Nat
  BY <1>1, <1>2, <1>3, WroteRead
<1>5. Len(locs) = 0
  BY <1>2, <1>4, <1>1, Idle DEF Remembers, Wrote
<1>6. /\ table.name = name /\ table.added = {} /\ table.start = size(builder'.buf) /\ table.values = values
      /\ table.kind = "table"
  BY <1>2 DEF GetSize
<1> HIDE DEF table
<1>7. FieldsLie(builder'.buf, table, locs, builder'.max_voffset, Objects')
  <2>1. LocsOK(builder'.buf, table, locs, builder'.max_voffset)
    BY <1>5 DEF LocsOK
  <2>2. \A f \in DOMAIN fields :
          FieldLies(builder'.buf, locs, FieldIndexToOffset(f), fields[f], values[f], Objects')
    BY <1>5 DEF FieldLies
  <2> HIDE DEF values
  <2>3. DOMAIN values = DOMAIN fields
    BY DEF values
  <2> QED
    BY <1>4, <1>6, <2>1, <2>2, <2>3 DEF FieldsLie
<1> QED
  BY <1>1, <1>4, <1>6, <1>7 DEF Lies

\* One more FieldLoc.
Tracked(p, voffset, c, known, locs, more) ==
  /\ PadHolds(c.buf, known, more) /\ Len(more) = c.num_field_loc
  /\ c.max_voffset = Biggest(p.max_voffset, voffset)
  /\ IsVector(c.buf) /\ size(c.buf) = size(p.buf) /\ Kept(p.buf, c.buf)
  /\ Len(locs) \in Nat /\ Len(more) = Len(locs) + 1
  /\ more[Len(locs) + 1].off = GetSize(p) /\ more[Len(locs) + 1].id = voffset
  /\ \A j \in 1 .. Len(locs) : more[j] = locs[j]

LEMMA TrackedHolds ==
  ASSUME NEW p, IsBuilder(p), NEW voffset \in Nat, NEW known, NEW locs, PadHolds(p.buf, known, locs),
         Len(locs) = p.num_field_loc, NEW off, off = GetSize(p),
         NEW c, c = TrackField(p, voffset, off),
         NEW more, more = Append(locs, [off |-> off, id |-> voffset])
  PROVE  Tracked(p, voffset, c, known, locs, more)
<1> DEFINE loc == Scalar(off, UOFFSET) \o Scalar(voffset, VOFFSET) \o << Uninit, Uninit >>
           v == p.buf
           w == scratch_push_small(v, loc)
           entry == [off |-> off, id |-> voffset]
<1>1. IsVector(v) /\ off \in Nat /\ IsFieldLoc(loc, off, voffset)
  BY BuilderSize DEF IsFieldLoc
<1>2. c = [p EXCEPT !.buf = w, !.num_field_loc = p.num_field_loc + 1,
                    !.max_voffset = Biggest(p.max_voffset, voffset)]
  BY DEF TrackField
<1>3. w = scratch_push_small(v, loc)
  OBVIOUS
<1> HIDE DEF loc, w
<1>4. c.buf = w /\ c.num_field_loc = p.num_field_loc + 1 /\ c.max_voffset = Biggest(p.max_voffset, voffset)
  BY <1>2 DEF IsBuilder
<1>5. PadHolds(v, known, locs)
  OBVIOUS
<1> HIDE DEF v
<1>6. PadHolds(w, known, more)
  BY <1>1, <1>3, <1>5, LocPushed
<1>7. loc \in Seq(Cell)
  BY <1>1, FieldLocParts
<1>8. IsVector(w) /\ size(w) = size(v) /\ Kept(v, w)
  BY <1>1, <1>3, <1>7, ScratchPushGives
<1>9. /\ Len(locs) \in Nat /\ Len(more) = Len(locs) + 1 /\ more[Len(locs) + 1] = entry
      /\ \A j \in 1 .. Len(locs) : more[j] = locs[j]
  <2>1. locs \in Seq([off : Nat, id : Nat]) /\ entry \in [off : Nat, id : Nat]
    BY <1>1, <1>5 DEF PadHolds
  <2>2. more = Append(locs, entry)
    OBVIOUS
  <2> HIDE DEF entry
  <2> QED
    BY <2>1, <2>2
<1> QED
  BY <1>4, <1>6, <1>8, <1>9 DEF v, Tracked

LEMMA BiggestOf ==
  ASSUME NEW m \in Nat, NEW n \in Nat
  PROVE  /\ Biggest(m, n) \in {m, n} /\ Biggest(m, n) \in Nat
         /\ m <= Biggest(m, n) /\ n <= Biggest(m, n)
BY DEF Biggest

LEMMA SameIndex == \A m, n \in Nat : 2 * m + 2 = 2 * n + 2 => m = n
OBVIOUS

\* What is known of the table that is being built.
TableLies(c, t, K, known, S) ==
  \E more : /\ Remembers(c, K, known, more) /\ VOffsetOK(c.max_voffset)
            /\ FieldsLie(c.buf, t, more, c.max_voffset, S)

\* The table t is table with one more field.
WithField(table, f, value, t) ==
  /\ f \in DOMAIN Tables[table.name] \ table.added
  /\ t.name = table.name /\ t.start = table.start /\ t.added = table.added \cup {f}
  /\ t.values = [table.values EXCEPT ![f] = value]

\* p is b with the field in front.
FieldWritten(b, p, field, value, S) ==
  Wrote(b, p) /\ GetSize(b) < GetSize(p) /\ SlotHolds(p.buf, GetSize(p), field, value, S)

\* A field that has been written and is remembered.
LEMMA FieldTracked ==
  ASSUME NEW b, IsBuilder(b), NEW table, table.name \in DOMAIN Tables, table.start \in Nat,
         NEW K, NEW known, NEW S, TableLies(b, table, K, known, S),
         NEW f, NEW value, NEW t, WithField(table, f, value, t),
         NEW p, FieldWritten(b, p, Tables[table.name][f], value, S),
         NEW c, c = TrackField(p, FieldIndexToOffset(f), GetSize(p))
  PROVE  TableLies(c, t, K, known, S)
<1> DEFINE name == table.name
           fields == Tables[name]
           id == FieldIndexToOffset(f)
           off == GetSize(p)
<1>0. PICK locs : /\ Remembers(b, K, known, locs) /\ VOffsetOK(b.max_voffset)
                  /\ FieldsLie(b.buf, table, locs, b.max_voffset, S)
  BY DEF TableLies
<1> DEFINE more == Append(locs, [off |-> off, id |-> id])
           n == Len(locs)
<1>0a. /\ t.name = name /\ t.start = table.start /\ t.added = table.added \cup {f}
       /\ t.values = [table.values EXCEPT ![f] = value]
  BY DEF WithField
<1>0b. Wrote(b, p) /\ GetSize(b) < off /\ SlotHolds(p.buf, off, fields[f], value, S)
  BY DEF FieldWritten
<1>1. f \in DOMAIN fields /\ f \notin table.added /\ name \in DOMAIN Tables
  BY DEF WithField
<1>2. /\ id \in Nat /\ id % 2 = 0 /\ id + 4 <= BYTE * BYTE
      /\ \A g \in DOMAIN fields : FieldIndexToOffset(g) = id => g = f
  <2>1. \A g \in DOMAIN fields : FieldIndexToOffset(g) = 2 * g + 2 /\ g \in Nat
    BY <1>1, FieldOffsets
  <2>2. \A g \in DOMAIN fields : FieldIndexToOffset(g) = id => g = f
    <3>1. id = 2 * f + 2 /\ f \in Nat
      BY <1>1, <2>1
    <3> SUFFICES ASSUME NEW g \in DOMAIN fields, FieldIndexToOffset(g) = id
                 PROVE  g = f
      OBVIOUS
    <3>2. FieldIndexToOffset(g) = 2 * g + 2 /\ g \in Nat
      BY <2>1
    <3>3. 2 * g + 2 = 2 * f + 2
      BY <3>1, <3>2
    <3> HIDE DEF fields, id
    <3> QED
      BY <3>1, <3>2, <3>3, SameIndex
  <2> QED
    BY <1>1, <2>2, FieldOffsets
<1>3. /\ IsBuilder(p) /\ IsVector(b.buf) /\ IsVector(p.buf) /\ Kept(b.buf, p.buf) /\ SamePad(b.buf, p.buf)
      /\ p.num_field_loc = b.num_field_loc /\ p.max_voffset = b.max_voffset
      /\ off \in Nat /\ off = size(p.buf) /\ size(b.buf) \in Nat /\ size(b.buf) < off
  BY <1>0b, BuilderSize DEF Wrote, Above, GetSize
<1>4. PadHolds(p.buf, known, locs) /\ n = p.num_field_loc
  <2> DEFINE v == b.buf
             w == p.buf
  <2>1. IsVector(v) /\ IsVector(w) /\ SamePad(v, w) /\ PadHolds(v, known, locs)
    BY <1>0, <1>3 DEF Remembers
  <2> HIDE DEF v, w
  <2>2. PadHolds(w, known, locs)
    BY <2>1, PadHoldsStays
  <2> QED
    BY <1>0, <1>3, <2>2 DEF w, Remembers
<1> HIDE DEF id, off
<1>5. /\ PadHolds(c.buf, known, more) /\ Len(more) = c.num_field_loc
      /\ c.max_voffset = Biggest(p.max_voffset, id)
      /\ IsVector(c.buf) /\ size(c.buf) = size(p.buf) /\ Kept(p.buf, c.buf)
      /\ n \in Nat /\ Len(more) = n + 1
      /\ more[n + 1].off = off /\ more[n + 1].id = id
      /\ \A j \in 1 .. n : more[j] = locs[j]
  <2>1. /\ IsBuilder(p) /\ id \in Nat /\ PadHolds(p.buf, known, locs) /\ Len(locs) = p.num_field_loc
        /\ off = GetSize(p) /\ c = TrackField(p, id, off) /\ more = Append(locs, [off |-> off, id |-> id])
    BY <1>2, <1>3, <1>4 DEF id, off
  <2> HIDE DEF more
  <2>2. Tracked(p, id, c, known, locs, more)
    BY <2>1, TrackedHolds
  <2> QED
    BY <2>2 DEF Tracked, off
<1> HIDE DEF more
<1>6. Remembers(c, K, known, more)
  BY <1>0, <1>5 DEF Remembers
<1>7. c.max_voffset \in {b.max_voffset, id} /\ b.max_voffset <= c.max_voffset /\ id <= c.max_voffset
  <2> DEFINE m == b.max_voffset
  <2>1. m \in Nat /\ c.max_voffset = Biggest(m, id)
    BY <1>0, <1>3, <1>5 DEF VOffsetOK
  <2> HIDE DEF m
  <2>2. Biggest(m, id) \in {m, id} /\ m <= Biggest(m, id) /\ id <= Biggest(m, id)
    BY <1>2, <2>1, BiggestOf
  <2> QED
    BY <2>1, <2>2 DEF m
<1>8. VOffsetOK(c.max_voffset)
  BY <1>0, <1>2, <1>7 DEF VOffsetOK
<1>9. IsVector(b.buf) /\ IsVector(c.buf) /\ Kept(b.buf, c.buf) /\ size(c.buf) = off
  <2> DEFINE u == b.buf
             v == p.buf
             w == c.buf
  <2>1. Kept(u, v) /\ Kept(v, w) /\ size(u) \in Nat /\ size(v) \in Nat /\ size(w) \in Nat
    BY <1>3, <1>5
  <2> HIDE DEF u, v, w
  <2>2. Kept(u, w)
    BY <2>1 DEF Kept
  <2> QED
    BY <1>3, <1>5, <2>2 DEF u, w
<1>10. DOMAIN t.values = DOMAIN fields /\ \A g \in DOMAIN fields : t.values[g] = IF g = f THEN value ELSE table.values[g]
  <2>1. DOMAIN table.values = DOMAIN fields
    BY <1>0 DEF FieldsLie
  <2> DEFINE old == table.values
             new == t.values
  <2>2. new = [old EXCEPT ![f] = value] /\ DOMAIN old = DOMAIN fields
    BY <1>0a, <2>1
  <2> HIDE DEF old, new, fields
  <2>3. DOMAIN new = DOMAIN fields /\ \A g \in DOMAIN fields : new[g] = IF g = f THEN value ELSE old[g]
    BY <2>2
  <2> QED
    BY <2>3 DEF old, new
<1>11. \A j \in 1 .. n : /\ table.start < locs[j].off /\ locs[j].off <= size(b.buf) /\ locs[j].id <= b.max_voffset
                         /\ \E g \in table.added : locs[j].id = FieldIndexToOffset(g)
  BY <1>0 DEF FieldsLie, LocsOK
<1>12. \A j \in 1 .. n : locs[j].off \in Nat /\ locs[j].id \in Nat
  BY <1>4, PadTypes
<1>13. table.start <= size(b.buf)
  BY <1>0 DEF FieldsLie
<1>14. LocsOK(c.buf, t, more, c.max_voffset)
  <2>1. ASSUME NEW j \in 1 .. n + 1
        PROVE  /\ table.start < more[j].off /\ more[j].off <= size(c.buf) /\ more[j].id <= c.max_voffset
               /\ \E g \in table.added \cup {f} : more[j].id = FieldIndexToOffset(g)
    <3>1. CASE j = n + 1
      BY <1>3, <1>5, <1>7, <1>9, <1>13, <3>1 DEF id
    <3>2. CASE j # n + 1
      <4>1. j \in 1 .. n /\ more[j] = locs[j]
        BY <1>5, <3>2
      <4>2. more[j].off <= size(c.buf)
        BY <1>3, <1>9, <1>11, <1>12, <4>1
      <4>3. more[j].id <= c.max_voffset
        <5>1. b.max_voffset \in Nat /\ c.max_voffset \in Nat
          BY <1>0, <1>8 DEF VOffsetOK
        <5> QED
          BY <1>7, <1>11, <1>12, <4>1, <5>1
      <4> QED
        BY <1>11, <4>1, <4>2, <4>3
    <3> QED
      BY <3>1, <3>2
  <2> QED
    BY <1>0a, <1>5, <2>1 DEF LocsOK
<1>15. ASSUME NEW g \in DOMAIN fields
       PROVE  FieldLies(c.buf, more, FieldIndexToOffset(g), fields[g], t.values[g], S)
  <2>1. FieldLies(b.buf, locs, FieldIndexToOffset(g), fields[g], table.values[g], S)
    BY <1>0 DEF FieldsLie
  <2>2. ASSUME NEW v, IsVector(v), Kept(v, c.buf), NEW at, NEW e, SlotHolds(v, at, fields[g], e, S)
        PROVE  SlotHolds(c.buf, at, fields[g], e, S)
    <3> DEFINE type == fields[g]
    <3>1. SlotHolds(v, at, type, e, S) /\ S \subseteq S
      BY <2>2
    <3> HIDE DEF type
    <3> QED
      BY <1>9, <2>2, <3>1, SlotStays
  <2>3. CASE g = f
    <3>1. t.values[g] = value /\ FieldIndexToOffset(g) = id
      BY <1>1, <1>10, <2>3 DEF id
    <3>2. \A j \in 1 .. n : locs[j].id # id
      <4>1. table.added \subseteq DOMAIN fields
        BY <1>0 DEF FieldsLie
      <4> QED
        BY <1>1, <1>2, <1>11, <4>1
    <3>3. SlotHolds(c.buf, off, fields[f], value, S)
      BY <1>0b, <1>3, <1>5, <2>2, <2>3 DEF off
    <3>4. \A j \in 1 .. n + 1 : more[j].id = id => j = n + 1
      BY <1>5, <3>2
    <3>5. n + 1 \in 1 .. Len(more)
      BY <1>5
    <3> QED
      BY <1>5, <2>3, <3>1, <3>3, <3>4, <3>5 DEF FieldLies
  <2>4. CASE g # f
    <3>1. t.values[g] = table.values[g] /\ FieldIndexToOffset(g) # id
      BY <1>2, <1>10, <2>4
    <3>2. \A j \in 1 .. n : locs[j].id = FieldIndexToOffset(g) => SlotHolds(c.buf, locs[j].off, fields[g], table.values[g], S)
      BY <1>9, <2>1, <2>2 DEF FieldLies
    <3>3. \A j \in 1 .. n + 1 : more[j].id = FieldIndexToOffset(g) => j \in 1 .. n
      BY <1>5, <3>1
    <3>4. \A j \in 1 .. n : j \in 1 .. Len(more) /\ more[j] = locs[j]
      BY <1>5
    <3> QED
      BY <1>5, <2>1, <3>1, <3>2, <3>3, <3>4 DEF FieldLies
  <2> QED
    BY <2>3, <2>4
<1>16. t.added \subseteq DOMAIN fields /\ t.start <= size(c.buf)
  BY <1>0, <1>0a, <1>1, <1>3, <1>9, <1>13 DEF FieldsLie
<1>17. FieldsLie(c.buf, t, more, c.max_voffset, S)
  BY <1>0a, <1>10, <1>14, <1>15, <1>16 DEF FieldsLie
<1> QED
  BY <1>6, <1>8, <1>17 DEF TableLies

\* A step that adds a field.
LEMMA AddedRead ==
  ASSUME BuildInv, building.kind = "table", NEW f, Adding(f), NEW value, Added(f, value),
         NEW K, NEW known, NEW locs, Lies(K, known, locs), objects' = objects,
         NEW p, Wrote(builder, p), GetSize(builder) < GetSize(p),
         SlotHolds(p.buf, GetSize(p), Tables[building.name][f], value, Objects),
         builder' = TrackField(p, FieldIndexToOffset(f), GetSize(p)),
         Extended(builder.buf, builder'.buf)
  PROVE  \E more : Lies(K, known, more)'
<1>1. /\ building' = [building EXCEPT !.added = @ \cup {f}, !.values[f] = value]
      /\ f \in DOMAIN Tables[building.name] \ building.added
  BY DEF Adding, Added
<1>2. /\ building'.kind = "table" /\ building'.name = building.name /\ building'.start = building.start
      /\ building'.added = building.added \cup {f}
      /\ building'.values = [building.values EXCEPT ![f] = value]
      /\ building.start \in Nat /\ building.name \in DOMAIN Tables
  BY <1>1, BuildingTable
<1>3. /\ Remembers(builder, K, known, locs) /\ VOffsetOK(builder.max_voffset)
      /\ FieldsLie(builder.buf, building, locs, builder.max_voffset, Objects)
  BY DEF Lies
<1>4. PICK more : /\ Remembers(builder', K, known, more) /\ VOffsetOK(builder'.max_voffset)
                  /\ FieldsLie(builder'.buf, building', more, builder'.max_voffset, Objects)
  <2> DEFINE b == builder
             c == builder'
             table == building
             t == building'
             S == Objects
  <2>1. /\ IsBuilder(b) /\ table.name \in DOMAIN Tables /\ Remembers(b, K, known, locs)
        /\ VOffsetOK(b.max_voffset) /\ FieldsLie(b.buf, table, locs, b.max_voffset, S)
        /\ table.start \in Nat
        /\ c = TrackField(p, FieldIndexToOffset(f), GetSize(p))
    BY <1>1, <1>2, <1>3 DEF BuildInv, BuilderOK
  <2>1a. WithField(table, f, value, t) /\ FieldWritten(b, p, Tables[table.name][f], value, S)
    BY <1>1, <1>2 DEF WithField, FieldWritten
  <2> HIDE DEF b, c, table, t, S
  <2>1b. TableLies(b, table, K, known, S)
    BY <2>1 DEF TableLies
  <2>2. TableLies(c, t, K, known, S)
    BY <2>1, <2>1a, <2>1b, FieldTracked
  <2> QED
    BY <2>2 DEF c, t, S, TableLies
<1>5. ObjectsLie(builder'.buf, K, Objects') /\ Objects' = Objects
  BY BuildingRead
<1>6. Lies(K, known, more)'
  BY <1>2, <1>4, <1>5 DEF Lies
<1> QED
  BY <1>6

LEMMA ReadAddObjectStep ==
  ASSUME BuildInv, NEW f, NEW o \in Objects, AddObject(f, o),
         NEW K, NEW known, NEW locs, Lies(K, known, locs)
  PROVE  \E more : Lies(K, known, more)'
<1> DEFINE type == Tables[building.name][f]
           id == FieldIndexToOffset(f)
           p == PushOffset(builder, o.off)
<1>1. /\ Adding(f) /\ type = o.type /\ building.kind = "table" /\ Added(f, o.value)
      /\ builder' = TrackField(p, id, GetSize(p))
      /\ objects' = objects
  BY DEF AddObject, Adding, AddOffset
<1>2. o.off \in Nat /\ o.off <= size(builder.buf) /\ o.type.kind # "scalar"
  BY ObjectBelow DEF Lies
<1>3. IsBuilder(builder) /\ Extended(builder.buf, builder'.buf)
  BY AddObjectStep DEF BuildInv, BuilderOK
<1>4. /\ Wrote(builder, p) /\ Holds(p.buf, GetSize(p), Scalar(GetSize(p) - o.off, UOFFSET))
      /\ GetSize(builder) + 4 <= GetSize(p) /\ GetSize(p) \in Nat /\ GetSize(p) % 4 = 0
  <2> DEFINE b == builder
             k == o.off
  <2>1. IsBuilder(b) /\ k \in Int /\ p = PushOffset(b, k)
    BY <1>2, <1>3
  <2> HIDE DEF b, k, p
  <2>2. /\ Wrote(b, p) /\ Holds(p.buf, GetSize(p), Scalar(GetSize(p) - k, UOFFSET))
        /\ GetSize(b) + 4 <= GetSize(p) /\ GetSize(p) \in Nat /\ GetSize(p) % 4 = 0
    BY <2>1, PushOffsetHolds
  <2> QED
    BY <2>2 DEF b, k
<1> HIDE DEF p, type, id
<1>5. GetSize(builder) \in Nat /\ GetSize(builder) = size(builder.buf)
  BY <1>3, BuilderSize
<1>6. GetSize(builder) < GetSize(p) /\ o.off < GetSize(p)
  BY <1>2, <1>4, <1>5
<1>7. SlotHolds(p.buf, GetSize(p), type, o.value, Objects)
  <2>1. ElementSize(type) = 4
    BY <1>1, <1>2 DEF ElementSize, UOFFSET
  <2> QED
    BY <1>1, <1>2, <1>4, <1>6, <2>1 DEF SlotHolds
<1> QED
  BY <1>1, <1>3, <1>4, <1>6, <1>7, AddedRead DEF type, id

\* A scalar that is the default is not stored.
LEMMA FieldDefault ==
  ASSUME NEW v, NEW table, NEW locs, NEW max, NEW S, FieldsLie(v, table, locs, max, S),
         table.name \in DOMAIN Tables,
         NEW f \in DOMAIN Tables[table.name] \ table.added, NEW value,
         Tables[table.name][f].kind = "scalar", value = Tables[table.name][f].default,
         NEW t, t.name = table.name, t.start = table.start, t.added = table.added \cup {f},
         t.values = [table.values EXCEPT ![f] = value]
  PROVE  FieldsLie(v, t, locs, max, S)
<1> DEFINE fields == Tables[table.name]
           old == table.values
           new == t.values
<1>1. /\ LocsOK(v, table, locs, max) /\ DOMAIN old = DOMAIN fields /\ table.start <= size(v)
      /\ table.added \subseteq DOMAIN fields /\ f \in DOMAIN fields /\ f \notin table.added
      /\ \A g \in DOMAIN fields : FieldLies(v, locs, FieldIndexToOffset(g), fields[g], old[g], S)
  BY DEF FieldsLie
<1>2. DOMAIN new = DOMAIN fields /\ \A g \in DOMAIN fields : new[g] = IF g = f THEN value ELSE old[g]
  <2>1. new = [old EXCEPT ![f] = value]
    OBVIOUS
  <2> HIDE DEF new, old, fields
  <2> QED
    BY <1>1, <2>1
<1>3. LocsOK(v, t, locs, max)
  <2>1. \A g \in table.added : g \in t.added
    OBVIOUS
  <2> QED
    BY <1>1, <2>1 DEF LocsOK
<1>4. \A j \in 1 .. Len(locs) : locs[j].id # FieldIndexToOffset(f)
  <2> SUFFICES ASSUME NEW j \in 1 .. Len(locs), locs[j].id = FieldIndexToOffset(f)
               PROVE  FALSE
    OBVIOUS
  <2>1. PICK g \in table.added : locs[j].id = FieldIndexToOffset(g)
    BY <1>1 DEF LocsOK
  <2>2. g \in DOMAIN fields
    BY <1>1, <2>1
  <2> DEFINE name == table.name
  <2>3. name \in DOMAIN Tables /\ f \in DOMAIN Tables[name] /\ g \in DOMAIN Tables[name]
    BY <1>1, <2>2
  <2> HIDE DEF name, fields
  <2>4. FieldIndexToOffset(f) = 2 * f + 2 /\ f \in Nat
    BY <2>3, FieldOffsets
  <2>5. FieldIndexToOffset(g) = 2 * g + 2 /\ g \in Nat
    BY <2>3, FieldOffsets
  <2>6. 2 * g + 2 = 2 * f + 2
    BY <2>1, <2>4, <2>5
  <2>7. g = f
    BY <2>4, <2>5, <2>6, SameIndex
  <2> QED
    BY <1>1, <2>1, <2>7
<1>5. ASSUME NEW g \in DOMAIN fields
      PROVE  FieldLies(v, locs, FieldIndexToOffset(g), fields[g], new[g], S)
  <2>1. CASE g = f
    BY <1>2, <1>4, <2>1 DEF FieldLies
  <2>2. CASE g # f
    BY <1>1, <1>2, <2>2
  <2> QED
    BY <2>1, <2>2
<1> QED
  BY <1>1, <1>2, <1>3, <1>5 DEF FieldsLie

LEMMA ReadAddScalarStep ==
  ASSUME BuildInv, NEW f, NEW bytes \in Scalars, AddScalar(f, bytes),
         NEW K, NEW known, NEW locs, Lies(K, known, locs)
  PROVE  \E more : Lies(K, known, more)'
<1> DEFINE type == Tables[building.name][f]
           id == FieldIndexToOffset(f)
           p == PushElement(builder, bytes)
<1>1. /\ Adding(f) /\ type.kind = "scalar" /\ type.size = Len(bytes) /\ building.kind = "table"
      /\ Added(f, bytes) /\ objects' = objects
      /\ builder' = AddElement(builder, id, bytes, type.default)
  BY DEF AddScalar, Adding
<1>2. IsBuilder(builder) /\ Extended(builder.buf, builder'.buf)
  BY AddScalarStep DEF BuildInv, BuilderOK
<1>3. bytes \in Seq(Byte) \ {<< >>} /\ Len(bytes) \in Sizes
  BY ScalarsAreBytes
<1>4. CASE bytes = type.default /\ ~force_defaults
  <2>1. builder' = builder
    BY <1>1, <1>4 DEF AddElement
  <2>2. /\ building' = [building EXCEPT !.added = @ \cup {f}, !.values[f] = bytes]
        /\ f \in DOMAIN Tables[building.name] \ building.added
    BY <1>1 DEF Adding, Added
  <2>3. /\ building'.kind = "table" /\ building'.name = building.name /\ building'.start = building.start
        /\ building'.added = building.added \cup {f}
        /\ building'.values = [building.values EXCEPT ![f] = bytes]
        /\ building.start \in Nat /\ building.name \in DOMAIN Tables
    BY <1>1, <2>2, BuildingTable
  <2>4. /\ Remembers(builder, K, known, locs) /\ VOffsetOK(builder.max_voffset)
        /\ FieldsLie(builder.buf, building, locs, builder.max_voffset, Objects)
    BY <1>1 DEF Lies
  <2>5. FieldsLie(builder.buf, building', locs, builder.max_voffset, Objects)
    <3> DEFINE v == builder.buf
               table == building
               t == building'
               max == builder.max_voffset
               S == Objects
    <3>1. /\ FieldsLie(v, table, locs, max, S) /\ table.name \in DOMAIN Tables
          /\ f \in DOMAIN Tables[table.name] \ table.added
          /\ Tables[table.name][f].kind = "scalar" /\ bytes = Tables[table.name][f].default
          /\ t.name = table.name /\ t.start = table.start /\ t.added = table.added \cup {f}
          /\ t.values = [table.values EXCEPT ![f] = bytes]
      BY <1>1, <1>4, <2>2, <2>3, <2>4
    <3> HIDE DEF v, table, t, max, S
    <3>2. FieldsLie(v, t, locs, max, S)
      BY <3>1, FieldDefault
    <3> QED
      BY <3>2 DEF v, t, max, S
  <2>6. ObjectsLie(builder'.buf, K, Objects') /\ Objects' = Objects
    BY <1>1, <1>2, BuildingRead
  <2>7. Lies(K, known, locs)'
    BY <2>1, <2>3, <2>4, <2>5, <2>6 DEF Lies
  <2> QED
    BY <2>7
<1>5. CASE ~(bytes = type.default /\ ~force_defaults)
  <2>1. builder' = TrackField(p, id, GetSize(p))
    BY <1>1, <1>5 DEF AddElement
  <2>2. /\ Wrote(builder, p) /\ Holds(p.buf, GetSize(p), bytes)
        /\ GetSize(builder) + Len(bytes) <= GetSize(p) /\ GetSize(p) % Len(bytes) = 0
    <3> DEFINE b == builder
    <3>1. IsBuilder(b) /\ p = PushElement(b, bytes)
      BY <1>2
    <3> HIDE DEF b, p
    <3>2. Wrote(b, p) /\ Holds(p.buf, GetSize(p), bytes) /\ GetSize(b) + Len(bytes) <= GetSize(p)
      BY <1>3, <3>1, PushElementHolds
    <3>3. GetSize(p) % Len(bytes) = 0
      BY <1>3, <3>1, ElementAligned
    <3> QED
      BY <3>2, <3>3 DEF b
  <2> HIDE DEF p, id
  <2>3. GetSize(builder) \in Nat /\ GetSize(p) \in Nat
    BY <1>2, <2>2, BuilderSize DEF Wrote
  <2>4. Len(bytes) \in Nat /\ Len(bytes) # 0
    BY <1>3
  <2>5. GetSize(builder) < GetSize(p)
    BY <2>2, <2>3, <2>4
  <2>6. SlotHolds(p.buf, GetSize(p), type, bytes, Objects)
    BY <1>1, <1>3, <2>2 DEF SlotHolds, ElementSize
  <2> QED
    BY <1>1, <1>2, <2>1, <2>2, <2>5, <2>6, AddedRead DEF id
<1> QED
  BY <1>4, <1>5

-----------------------------------------------------------------------------
(***************************************************************************)
(* EndTable.                                                               *)
(***************************************************************************)
\* What a vtable says at an even place.
Slot(fields, vtsize, loc, start, at) ==
  CASE at = 0 -> vtsize
    [] at = VOFFSET -> loc - start
    [] at > VOFFSET /\ \E f \in fields : f.id = at -> loc - (CHOOSE f \in fields : f.id = at).off
    [] OTHER -> 0

IsVTable(t, fields, vtsize, loc, start) ==
  t = VTable(fields, vtsize, loc, start) /\ t \in Seq(Byte) /\ Len(t) = vtsize

\* The voffset_t of t at a place.
Says(t, at, n) == SubSeq(t, at + 1, at + VOFFSET) = Scalar(n, VOFFSET)

LEMMA HalfIndex ==
  ASSUME NEW at \in Nat, at % 2 = 0
  PROVE  /\ ((at + 1 - 1) \div 2) * 2 = at /\ ((at + 1 - 1) % 2) + 1 = 1
         /\ ((at + 2 - 1) \div 2) * 2 = at /\ ((at + 2 - 1) % 2) + 1 = 2
OBVIOUS

LEMMA VTableSlots ==
  ASSUME NEW fields, NEW vtsize \in Nat, vtsize % 2 = 0, NEW loc \in Int, NEW start \in Int,
         NEW t, IsVTable(t, fields, vtsize, loc, start),
         NEW at \in Nat, at % 2 = 0, at < vtsize,
         NEW n \in Int, n = Slot(fields, vtsize, loc, start, at)
  PROVE  Says(t, at, n)
<1> DEFINE slot(x) == Slot(fields, vtsize, loc, start, x)
<1>1. t = [i \in 1 .. vtsize |->
             Scalar(slot(((i - 1) \div VOFFSET) * VOFFSET), VOFFSET)[((i - 1) % VOFFSET) + 1]]
  BY DEF VTable, Slot, IsVTable
<1>2. slot(at) = n /\ VOFFSET = 2
  BY DEF VOFFSET
<1> HIDE DEF slot
<1>3. \A i \in 1 .. vtsize : t[i] = Scalar(slot(((i - 1) \div 2) * 2), 2)[((i - 1) % 2) + 1]
  BY <1>1, <1>2
<1>4. at + 2 <= vtsize /\ at + 1 \in 1 .. vtsize /\ at + 2 \in 1 .. vtsize
  OBVIOUS
<1> DEFINE p == at + 1
           q == at + 2
           s == Scalar(n, 2)
<1>5. t[p] = s[1]
  <2>1. p \in 1 .. vtsize /\ ((p - 1) \div 2) * 2 = at /\ ((p - 1) % 2) + 1 = 1
    BY <1>4, HalfIndex
  <2> HIDE DEF p
  <2>2. t[p] = Scalar(slot(((p - 1) \div 2) * 2), 2)[((p - 1) % 2) + 1]
    BY <1>3, <2>1
  <2> QED
    BY <1>2, <2>1, <2>2
<1>6. t[q] = s[2]
  <2>1. q \in 1 .. vtsize /\ ((q - 1) \div 2) * 2 = at /\ ((q - 1) % 2) + 1 = 2
    BY <1>4, HalfIndex
  <2> HIDE DEF q
  <2>2. t[q] = Scalar(slot(((q - 1) \div 2) * 2), 2)[((q - 1) % 2) + 1]
    BY <1>3, <2>1
  <2> QED
    BY <1>2, <2>1, <2>2
<1>7. s \in Seq(Byte) /\ Len(s) = 2
  BY <1>2, VOffsetType
<1> HIDE DEF s
<1> DEFINE u == SubSeq(t, at + 1, at + 2)
<1>8. u \in Seq(Byte) /\ Len(u) = 2 /\ u[1] = t[p] /\ u[2] = t[q]
  BY <1>4 DEF IsVTable
<1> HIDE DEF u, p, q
<1>9. \A i \in 1 .. 2 : u[i] = s[i]
  <2>1. \A i \in 1 .. 2 : i = 1 \/ i = 2
    OBVIOUS
  <2> QED
    BY <1>5, <1>6, <1>8, <2>1
<1>10. u = s
  BY <1>7, <1>8, <1>9
<1> QED
  BY <1>2, <1>10 DEF u, s, Says

\* What the entries of a vtable are.
VTableSays(t, fields, vtsize, loc) ==
  \A at \in Nat : at % 2 = 0 /\ 4 <= at =>
    \/ /\ at < vtsize
       /\ \E f \in fields : f.id = at /\ Entry(t, at) = loc - f.off /\ Entry(t, at) # 0
    \/ /\ Entry(t, at) = 0
       /\ at < vtsize => ~ \E f \in fields : f.id = at

FieldsBetween(fields, start, loc) == \A f \in fields : f.off \in Nat /\ start < f.off /\ f.off < loc

\* The entries of a new vtable.
LEMMA VTableEntries ==
  ASSUME NEW fields, NEW vtsize \in Nat, vtsize % 2 = 0, 4 <= vtsize, vtsize < BYTE * BYTE,
         NEW loc \in Nat, NEW start \in Nat, start <= loc, loc - start < BYTE * BYTE,
         FieldsBetween(fields, start, loc), NEW t, IsVTable(t, fields, vtsize, loc, start)
  PROVE  /\ SubSeq(t, 1, VOFFSET) = Scalar(Len(t), VOFFSET)
         /\ VTableSays(t, fields, vtsize, loc)
<1> DEFINE max == BYTE * BYTE
<1>0. VOFFSET = 2 /\ max \in Nat /\ Len(t) = vtsize /\ loc \in Int /\ start \in Int
  BY DEF VOFFSET, BYTE, IsVTable
<1>1. SubSeq(t, 1, VOFFSET) = Scalar(Len(t), VOFFSET)
  <2> DEFINE zero == 0
  <2>1. vtsize = Slot(fields, vtsize, loc, start, zero)
    BY <1>0 DEF Slot
  <2>2. zero \in Nat /\ zero % 2 = 0 /\ zero < vtsize /\ vtsize \in Int
    OBVIOUS
  <2> HIDE DEF zero
  <2>3. Says(t, zero, vtsize)
    BY <1>0, <2>1, <2>2, VTableSlots
  <2>4. zero + 1 = 1 /\ zero + VOFFSET = VOFFSET
    BY <1>0 DEF zero
  <2> QED
    BY <1>0, <2>3, <2>4 DEF Says
<1> SUFFICES ASSUME NEW at \in Nat, at % 2 = 0, 4 <= at
             PROVE  \/ /\ at < vtsize
                       /\ \E f \in fields : f.id = at /\ Entry(t, at) = loc - f.off /\ Entry(t, at) # 0
                    \/ /\ Entry(t, at) = 0
                       /\ at < vtsize => ~ \E f \in fields : f.id = at
  BY <1>1 DEF VTableSays
<1>2. CASE at >= vtsize
  <2>1. ~(at < vtsize)
    BY <1>2
  <2> QED
    BY <1>0, <2>1 DEF Entry
<1>3. CASE at < vtsize
  <2>1. ASSUME NEW n \in Nat, n < max, n = Slot(fields, vtsize, loc, start, at)
        PROVE  Entry(t, at) = n
    <3>1. Says(t, at, n)
      <4>1. n \in Int
        OBVIOUS
      <4> QED
        BY <1>0, <1>3, <2>1, <4>1, VTableSlots
    <3>2. Unsigned16(Scalar(n, VOFFSET)) = n
      BY <2>1, VOffsetBack
    <3> QED
      BY <1>0, <1>3, <3>1, <3>2 DEF Entry, Says
  <2>2. CASE \E f \in fields : f.id = at
    <3> DEFINE g == CHOOSE f \in fields : f.id = at
    <3>1. g \in fields /\ g.id = at
      BY <2>2
    <3>2. loc - g.off = Slot(fields, vtsize, loc, start, at)
      BY <1>0, <2>2 DEF Slot
    <3> HIDE DEF g
    <3> DEFINE n == loc - g.off
    <3>3. g.off \in Nat /\ start < g.off /\ g.off < loc
      BY <3>1 DEF FieldsBetween
    <3>3a. loc - start < max
      OBVIOUS
    <3>4. n \in Nat /\ n < max /\ n # 0
      <4> HIDE DEF max
      <4> QED
        BY <1>0, <3>3, <3>3a
    <3> HIDE DEF n
    <3>5. Entry(t, at) = n
      BY <2>1, <3>2, <3>4 DEF n
    <3> QED
      BY <1>3, <3>1, <3>4, <3>5 DEF n
  <2>3. CASE ~ \E f \in fields : f.id = at
    <3>1. 0 = Slot(fields, vtsize, loc, start, at)
      BY <1>0, <2>3 DEF Slot
    <3>2. 0 \in Nat /\ 0 < max
      BY DEF BYTE
    <3>3. Entry(t, at) = 0
      BY <2>1, <3>1, <3>2
    <3> QED
      BY <2>3, <3>3
  <2> QED
    BY <2>2, <2>3
<1> QED
  BY <1>2, <1>3

\* What is written over the bytes before an offset, and what is in front of them.
LEMMA PutAtHolds ==
  ASSUME NEW v, IsVector(v), NEW loc \in Nat, NEW bytes \in Seq(Byte), Len(bytes) <= loc, loc <= size(v),
         NEW w, w = PutAt(v, loc, bytes)
  PROVE  /\ IsVector(w) /\ size(w) = size(v) /\ SamePad(v, w)
         /\ Holds(w, loc, bytes)
         /\ \A off \in Nat : \A x \in Seq(Byte) :
              Holds(v, off, x) /\ loc + Len(x) <= off => Holds(w, off, x)
<1> DEFINE n == Len(v.buf)
           m == Len(bytes)
           at == n - loc
<1>1. /\ n \in Nat /\ v.cur \in Nat /\ v.scratch \in Nat /\ size(v) \in Nat /\ m \in Nat
      /\ size(v) = n - v.cur /\ v.scratch <= v.cur /\ v.cur <= n
  BY VectorTypes DEF IsVector
<1>2. at \in Nat /\ at + m <= n /\ bytes \in Seq(Cell) /\ v.scratch <= at
  BY <1>1, BytesAreCells
<1>3. w = Put(v, at, bytes)
  BY DEF PutAt
<1> HIDE DEF at
<1>4. /\ IsVector(w) /\ Len(w.buf) = n /\ w.cur = v.cur /\ w.scratch = v.scratch
      /\ \A i \in 1 .. n : i \in at + 1 .. at + m => w.buf[i] = bytes[i - at]
      /\ \A i \in 1 .. n : i \notin at + 1 .. at + m => w.buf[i] = v.buf[i]
  <2>1. at \in Nat /\ at + Len(bytes) <= Len(v.buf) /\ bytes \in Seq(Cell)
    BY <1>2
  <2> QED
    BY <1>3, <2>1, PutGives
<1>5. size(w) = size(v)
  BY <1>1, <1>4 DEF size
<1>6. at = n - loc
  BY DEF at
<1> HIDE DEF n, m
<1>7. SamePad(v, w)
  <2>1. ASSUME NEW i \in 1 .. v.scratch
        PROVE  w.buf[i] = v.buf[i]
    <3>1. i \in 1 .. n /\ i \notin at + 1 .. at + m
      BY <1>1, <1>2
    <3> QED
      BY <1>4, <3>1
  <2> QED
    BY <1>4, <2>1 DEF SamePad
<1>8. Holds(w, loc, bytes)
  <2>1. ASSUME NEW i \in 1 .. m
        PROVE  FromEnd(w, loc + 1 - i) = bytes[i]
    <3> DEFINE k == at + i
    <3>1. k \in 1 .. n /\ k \in at + 1 .. at + m /\ k - at = i /\ n - (loc + 1 - i) + 1 = k
      BY <1>1, <1>2, <1>6
    <3> HIDE DEF k
    <3>2. w.buf[k] = bytes[k - at]
      BY <1>4, <3>1
    <3> QED
      BY <1>4, <3>1, <3>2 DEF FromEnd
  <2> QED
    BY <1>1, <1>5, <2>1 DEF Holds, m
<1>9. ASSUME NEW off \in Nat, NEW x \in Seq(Byte), Holds(v, off, x), loc + Len(x) <= off
      PROVE  Holds(w, off, x)
  <2> DEFINE l == Len(x)
  <2>1. l \in Nat /\ l <= off /\ off <= size(v) /\ loc + l <= off
        /\ \A i \in 1 .. l : FromEnd(v, off + 1 - i) = x[i]
    BY <1>9 DEF Holds
  <2> HIDE DEF l
  <2>2. ASSUME NEW i \in 1 .. l
        PROVE  FromEnd(w, off + 1 - i) = x[i]
    <3> DEFINE k == n - (off + 1 - i) + 1
    <3>1. k \in 1 .. n /\ k \notin at + 1 .. at + m
      BY <1>1, <1>2, <1>6, <2>1
    <3>2. FromEnd(w, off + 1 - i) = w.buf[k] /\ FromEnd(v, off + 1 - i) = v.buf[k]
      BY <1>4 DEF FromEnd, n
    <3> HIDE DEF k
    <3> QED
      BY <1>4, <2>1, <3>1, <3>2
  <2> QED
    BY <1>5, <2>1, <2>2 DEF Holds, l
<1> QED
  BY <1>4, <1>5, <1>7, <1>8, <1>9

\* A vtable is taken back.
LEMMA PoppedIs ==
  ASSUME NEW v, IsVector(v), NEW loc \in Nat, loc <= size(v), NEW w, w = pop(v, size(v) - loc)
  PROVE  IsVector(w) /\ size(w) = loc /\ SamePad(v, w)
<1> DEFINE cur == v.cur + (size(v) - loc)
<1>1. /\ v = [buf |-> v.buf, cur |-> v.cur, scratch |-> v.scratch] /\ v.buf \in Seq(Cell)
      /\ Len(v.buf) \in Nat /\ v.cur \in Nat /\ v.scratch \in Nat /\ size(v) \in Nat
      /\ size(v) = Len(v.buf) - v.cur /\ v.scratch <= v.cur /\ v.cur <= Len(v.buf)
  BY VectorTypes DEF IsVector
<1>2. cur \in Nat /\ cur = Len(v.buf) - loc /\ v.scratch <= cur /\ cur <= Len(v.buf)
  BY <1>1
<1> HIDE DEF cur
<1>3. w = [buf |-> v.buf, cur |-> cur, scratch |-> v.scratch]
  <2>1. w = [v EXCEPT !.cur = cur]
    BY DEF pop, cur
  <2> QED
    BY <1>1, <2>1
<1>4. IsVector(w)
  BY <1>1, <1>2, <1>3 DEF IsVector
<1>5. size(w) = loc
  BY <1>1, <1>2, <1>3 DEF size
<1> QED
  BY <1>3, <1>4, <1>5 DEF SamePad

\* The bytes of a vtable.
VTableForm(t) ==
  /\ t \in Seq(Byte) /\ 4 <= Len(t) /\ Len(t) < BYTE * BYTE /\ Len(t) % 2 = 0
  /\ SubSeq(t, 1, VOFFSET) = Scalar(Len(t), VOFFSET)

LEMMA VTableFormHeld == \A v, off, t : VTableAt(v, off, t) <=> VTableForm(t) /\ Holds(v, off, t)
BY DEF VTableAt, VTableForm

LEMMA VTableBegins ==
  ASSUME NEW v, IsVector(v), NEW off, NEW u, VTableAt(v, off, u)
  PROVE  At(v, off, VOFFSET) = Scalar(Len(u), VOFFSET) /\ At(v, off, Len(u)) = u
<1>1. u \in Seq(Byte) /\ Holds(v, off, u) /\ 4 <= Len(u) /\ Len(u) \in Nat
      /\ SubSeq(u, 1, VOFFSET) = Scalar(Len(u), VOFFSET) /\ u \in Seq(Cell)
  BY BytesAreCells DEF VTableAt
<1>2. At(v, off, Len(u)) = u
  BY <1>1, HeldIsAt
<1> DEFINE zero == 0
           n == VOFFSET
<1>3. zero \in Nat /\ n \in Nat /\ zero + n <= Len(u) /\ zero + 1 = 1 /\ zero + n = VOFFSET
      /\ off - zero = off
  <2>1. off \in Nat /\ VOFFSET = 2
    BY <1>1 DEF Holds, VOFFSET
  <2> QED
    BY <1>1, <2>1
<1> HIDE DEF zero, n
<1> DEFINE part == SubSeq(u, zero + 1, zero + n)
<1>4. Holds(v, off - zero, part) /\ part \in Seq(Byte) /\ Len(part) = n
  BY <1>1, <1>3, PartHeld
<1> HIDE DEF part
<1>5. Holds(v, off, part) /\ part \in Seq(Cell)
  BY <1>3, <1>4, BytesAreCells
<1>6. At(v, off, Len(part)) = part
  BY <1>5, HeldIsAt
<1>7. part = SubSeq(u, 1, VOFFSET)
  BY <1>3 DEF part
<1> QED
  BY <1>1, <1>2, <1>4, <1>6, <1>7 DEF n

\* What EndTable finds: the vtables that have the bytes of the new one.
LEMMA SameVTableIs ==
  ASSUME NEW v, IsVector(v), NEW known, PadHolds(v, known, << >>), NEW t, VTableForm(t),
         \A k \in 1 .. Len(known) : known[k] <= MAX_BUFFER_SIZE /\ \E u : VTableAt(v, known[k], u)
  PROVE  /\ SameVTable(v, t) = {k \in 1 .. Len(known) : VTableAt(v, known[k], t)}
         /\ \A k \in 1 .. Len(known) : KnownVTables(v)[k] = known[k]
<1>1. /\ DOMAIN KnownVTables(v) = 1 .. Len(known)
      /\ \A k \in 1 .. Len(known) : KnownVTables(v)[k] = known[k]
  BY KnownAre
<1>2. ASSUME NEW k \in 1 .. Len(known)
      PROVE  At(v, known[k], VOFFSET) = Scalar(Len(t), VOFFSET) /\ At(v, known[k], Len(t)) = t
               <=> VTableAt(v, known[k], t)
  <2> DEFINE off == known[k]
  <2>1. PICK u : VTableAt(v, off, u)
    OBVIOUS
  <2> HIDE DEF off
  <2>2. At(v, off, VOFFSET) = Scalar(Len(u), VOFFSET) /\ At(v, off, Len(u)) = u
    BY <2>1, VTableBegins
  <2>3. ASSUME At(v, off, VOFFSET) = Scalar(Len(t), VOFFSET), At(v, off, Len(t)) = t
        PROVE  VTableAt(v, off, t)
    <3>1. /\ Len(t) \in Nat /\ Len(t) < BYTE * BYTE /\ Len(u) \in Nat /\ Len(u) < BYTE * BYTE
      <4>1. t \in Seq(Byte) /\ Len(t) < BYTE * BYTE
        BY DEF VTableForm
      <4>2. u \in Seq(Byte) /\ Len(u) < BYTE * BYTE
        BY <2>1 DEF VTableAt
      <4>3. Len(t) \in Nat
        BY <4>1
      <4>4. Len(u) \in Nat
        BY <4>2
      <4> QED
        BY <4>1, <4>2, <4>3, <4>4
    <3>2. Scalar(Len(u), VOFFSET) = Scalar(Len(t), VOFFSET)
      BY <2>2, <2>3
    <3> DEFINE m == Len(u)
               n == Len(t)
    <3>2a. m \in Nat /\ n \in Nat /\ m < BYTE * BYTE /\ n < BYTE * BYTE
           /\ Scalar(m, VOFFSET) = Scalar(n, VOFFSET)
      BY <3>1, <3>2
    <3> HIDE DEF m, n
    <3>3. Unsigned16(Scalar(m, VOFFSET)) = m /\ Unsigned16(Scalar(n, VOFFSET)) = n
      BY <3>2a, VOffsetBack
    <3>4. m = n
      BY <3>2a, <3>3
    <3>5. u = t
      BY <2>2, <2>3, <3>4 DEF m, n
    <3> QED
      BY <2>1, <3>5
  <2>4. ASSUME VTableAt(v, off, t)
        PROVE  At(v, off, VOFFSET) = Scalar(Len(t), VOFFSET) /\ At(v, off, Len(t)) = t
    BY <2>4, VTableBegins
  <2> QED
    BY <2>3, <2>4 DEF off
<1>3. SameVTable(v, t) = {k \in 1 .. Len(known) : VTableAt(v, known[k], t)}
  <2>1. SameVTable(v, t) =
          {k \in 1 .. Len(known) :
             At(v, known[k], VOFFSET) = Scalar(Len(t), VOFFSET) /\ At(v, known[k], Len(t)) = t}
    BY <1>1, Zenon DEF SameVTable
  <2> QED
    BY <1>2, <2>1, Zenon
<1> QED
  BY <1>1, <1>3

\* A table at loc whose vtable is t, and the vtables the scratch pad knows.
Placed(v, loc, t, L, known) ==
  /\ IsVector(v) /\ PadHolds(v, known, << >>) /\ L = {known[k] : k \in 1 .. Len(known)}
  /\ VTablesOK(v, L)
  /\ \E vt \in L : VTableAt(v, vt, t) /\ Holds(v, loc, Scalar(vt - loc, UOFFSET))

\* q is v with the vtable t in front of a table at loc.
Ahead(v, q, loc, t, K, known) ==
  /\ IsVector(v) /\ VTablesOK(v, K) /\ size(v) <= MAX_BUFFER_SIZE
  /\ IsVector(q) /\ Kept(v, q) /\ PadHolds(q, known, << >>)
  /\ K = {known[k] : k \in 1 .. Len(known)}
  /\ VTableForm(t) /\ Holds(q, size(q), t)
  /\ loc \in Nat /\ size(v) + 4 <= loc /\ size(q) = loc + Len(t)

LEMMA AheadKnown ==
  ASSUME NEW v, NEW q, NEW loc, NEW t, NEW K, NEW known, Ahead(v, q, loc, t, K, known)
  PROVE  /\ SameVTable(q, t) = {k \in 1 .. Len(known) : VTableAt(q, known[k], t)}
         /\ \A k \in 1 .. Len(known) : KnownVTables(q)[k] = known[k] /\ known[k] \in K
<1>1. /\ IsVector(v) /\ VTablesOK(v, K) /\ size(v) <= MAX_BUFFER_SIZE
      /\ IsVector(q) /\ Kept(v, q) /\ PadHolds(q, known, << >>)
      /\ K = {known[k] : k \in 1 .. Len(known)} /\ VTableForm(t)
  BY DEF Ahead
<1>2. ASSUME NEW k \in 1 .. Len(known)
      PROVE  known[k] <= MAX_BUFFER_SIZE /\ known[k] \in K /\ \E u : VTableAt(q, known[k], u)
  <2>1. known[k] \in K
    BY <1>1
  <2>2. PICK u \in Seq(Byte) : VTableAt(v, known[k], u)
    BY <1>1, <2>1 DEF VTablesOK
  <2>3. VTableAt(q, known[k], u)
    BY <1>1, <2>2, VTableStays
  <2>4. known[k] \in Nat /\ known[k] <= size(v)
    BY <2>2 DEF VTableAt, Holds
  <2>5. size(v) \in Nat /\ MAX_BUFFER_SIZE \in Nat
    BY <1>1, VectorTypes DEF MAX_BUFFER_SIZE
  <2>6. known[k] <= MAX_BUFFER_SIZE
    BY <1>1, <2>4, <2>5
  <2> QED
    BY <2>1, <2>3, <2>6
<1>3. /\ SameVTable(q, t) = {k \in 1 .. Len(known) : VTableAt(q, known[k], t)}
      /\ \A k \in 1 .. Len(known) : KnownVTables(q)[k] = known[k]
  BY <1>1, <1>2, SameVTableIs
<1> QED
  BY <1>2, <1>3

\* The offset of the vtable is written where the table is.
LEMMA TablePointed ==
  ASSUME NEW w, IsVector(w), NEW loc \in Nat, 4 <= loc, loc <= size(w), NEW vt \in Int,
         NEW last, last = PutAt(w, loc, Scalar(vt - loc, UOFFSET))
  PROVE  /\ IsVector(last) /\ SamePad(w, last) /\ Holds(last, loc, Scalar(vt - loc, UOFFSET))
         /\ \A off \in Nat : \A x \in Seq(Byte) :
              Holds(w, off, x) /\ loc + Len(x) <= off => Holds(last, off, x)
<1> DEFINE bytes == Scalar(vt - loc, UOFFSET)
<1>1. bytes \in Seq(Byte) /\ Len(bytes) = 4
  <2>1. vt - loc \in Int
    OBVIOUS
  <2> QED
    BY <2>1, ScalarIsElement
<1>2. last = PutAt(w, loc, bytes)
  OBVIOUS
<1> HIDE DEF bytes
<1>3. Len(bytes) <= loc
  BY <1>1
<1>4. /\ IsVector(last) /\ SamePad(w, last) /\ Holds(last, loc, bytes)
      /\ \A off \in Nat : \A x \in Seq(Byte) :
           Holds(w, off, x) /\ loc + Len(x) <= off => Holds(last, off, x)
  BY <1>1, <1>2, <1>3, PutAtHolds
<1> QED
  BY <1>4 DEF bytes

\* A new vtable is remembered.
LEMMA NewVTablePlaced ==
  ASSUME NEW v, NEW q, NEW loc, NEW t, NEW K, NEW known, Ahead(v, q, loc, t, K, known),
         SameVTable(q, t) = {},
         NEW w, w = scratch_push_small(q, Scalar(size(q), UOFFSET)),
         NEW last, last = PutAt(w, loc, Scalar(size(q) - loc, UOFFSET)), Kept(v, last)
  PROVE  \E more, L : K \subseteq L /\ Placed(last, loc, t, L, more)
<1> DEFINE vt == size(q)
           more == Append(known, vt)
           L == K \cup {vt}
<1>1. /\ IsVector(v) /\ VTablesOK(v, K)
      /\ IsVector(q) /\ Kept(v, q) /\ PadHolds(q, known, << >>)
      /\ K = {known[k] : k \in 1 .. Len(known)}
      /\ VTableForm(t) /\ Holds(q, vt, t) /\ t \in Seq(Byte) /\ Len(t) \in Nat
      /\ loc \in Nat /\ size(v) \in Nat /\ size(v) + 4 <= loc /\ vt = loc + Len(t)
      /\ vt \in Nat /\ vt \in Int
  <2>1. VTableForm(t) /\ t \in Seq(Byte)
    BY DEF Ahead, VTableForm
  <2>2. Len(t) \in Nat
    BY <2>1
  <2>3. IsVector(v) /\ IsVector(q)
    BY DEF Ahead
  <2>4. size(v) \in Nat /\ size(q) \in Nat /\ size(q) \in Int
    BY <2>3, VectorTypes
  <2> QED
    BY <2>1, <2>2, <2>3, <2>4 DEF Ahead
<1>2. w = scratch_push_small(q, Scalar(vt, UOFFSET)) /\ last = PutAt(w, loc, Scalar(vt - loc, UOFFSET))
  OBVIOUS
<1>3. vt = size(q)
  OBVIOUS
<1> HIDE DEF vt, L
<1>4. IsVector(w) /\ size(w) = vt /\ Kept(q, w) /\ PadHolds(w, more, << >>)
  <2>1. Scalar(vt, UOFFSET) \in Seq(Cell)
    BY <1>1, ScalarIsElement, BytesAreCells
  <2>2. IsVector(w) /\ size(w) = size(q) /\ Kept(q, w)
    BY <1>1, <1>2, <2>1, ScratchPushGives
  <2>3. PadHolds(w, more, << >>)
    BY <1>1, <1>2, VTablePushed
  <2> QED
    BY <1>3, <2>2, <2>3
<1> HIDE DEF more
<1>5. /\ IsVector(last) /\ SamePad(w, last) /\ Holds(last, loc, Scalar(vt - loc, UOFFSET))
      /\ \A off \in Nat : \A x \in Seq(Byte) :
           Holds(w, off, x) /\ loc + Len(x) <= off => Holds(last, off, x)
  <2>1. 4 <= loc /\ loc <= size(w)
    BY <1>1, <1>4
  <2> QED
    BY <1>1, <1>2, <1>4, <2>1, TablePointed
<1>6. PadHolds(last, more, << >>)
  BY <1>4, <1>5, PadHoldsStays
<1>7. VTableAt(last, vt, t)
  <2>1. t \in Seq(Cell)
    BY <1>1, BytesAreCells
  <2>2. Holds(w, vt, t)
    BY <1>1, <1>4, <2>1, HeldStays
  <2>3. loc + Len(t) <= vt
    BY <1>1
  <2>4. Holds(last, vt, t)
    BY <1>1, <1>5, <2>2, <2>3
  <2> QED
    BY <1>1, <2>4, VTableFormHeld
<1>8. L = {more[k] : k \in 1 .. Len(more)}
  <2>1. known \in Seq(Nat)
    BY <1>1 DEF PadHolds
  <2> DEFINE n == Len(known)
  <2>2. /\ n \in Nat /\ Len(more) = n + 1 /\ more[n + 1] = vt
        /\ \A k \in 1 .. n : more[k] = known[k]
    BY <1>1, <2>1 DEF more
  <2> HIDE DEF n
  <2>3. K = {known[k] : k \in 1 .. n}
    BY <1>1 DEF n
  <2>4. ASSUME NEW p \in L
        PROVE  \E k \in 1 .. Len(more) : p = more[k]
    <3>1. CASE p \in K
      <4>1. PICK k \in 1 .. n : p = known[k]
        BY <2>3, <3>1
      <4>2. k \in 1 .. Len(more) /\ p = more[k]
        BY <2>2, <4>1
      <4> QED
        BY <4>2
    <3>2. CASE p = vt
      <4>1. n + 1 \in 1 .. Len(more) /\ p = more[n + 1]
        BY <2>2, <3>2
      <4> QED
        BY <4>1
    <3> QED
      BY <3>1, <3>2 DEF L
  <2>5. ASSUME NEW k \in 1 .. Len(more)
        PROVE  more[k] \in L
    <3>1. k \in 1 .. n \/ k = n + 1
      BY <2>2
    <3> QED
      BY <2>2, <2>3, <3>1 DEF L
  <2> QED
    BY <2>4, <2>5
<1>9. VTablesOK(last, K)
  BY <1>1, <1>5, VTablesStay
<1>10. ASSUME NEW r \in K, NEW x, VTableAt(last, r, x), VTableAt(last, vt, x)
       PROVE  FALSE
  <2>1. x = t
    BY <1>5, <1>7, <1>10, VTableUnique
  <2>2. PICK y \in Seq(Byte) : VTableAt(v, r, y)
    BY <1>1 DEF VTablesOK
  <2>3. VTableAt(last, r, y) /\ VTableAt(q, r, y)
    BY <1>1, <1>5, <2>2, VTableStays
  <2>4. y = t
    BY <1>5, <1>10, <2>1, <2>3, VTableUnique
  <2>5. PICK k \in 1 .. Len(known) : r = known[k]
    BY <1>1
  <2>6. k \in SameVTable(q, t)
    BY <2>3, <2>4, <2>5, AheadKnown
  <2> QED
    BY <2>6
<1>11. VTablesOK(last, L)
  <2>1. ASSUME NEW p \in L
        PROVE  \E x \in Seq(Byte) : VTableAt(last, p, x)
    BY <1>1, <1>7, <1>9 DEF L, VTablesOK
  <2>2. ASSUME NEW p \in L, NEW r \in L, NEW x \in Seq(Byte), VTableAt(last, p, x), VTableAt(last, r, x)
        PROVE  p = r
    <3>1. (p \in K \/ p = vt) /\ (r \in K \/ r = vt)
      BY DEF L
    <3>2. CASE p \in K /\ r \in K
      BY <1>9, <2>2, <3>2 DEF VTablesOK
    <3> QED
      BY <1>10, <2>2, <3>1, <3>2
  <2> QED
    BY <2>1, <2>2 DEF VTablesOK
<1>12. vt \in L /\ K \subseteq L
  BY DEF L
<1>13. Placed(last, loc, t, L, more)
  BY <1>5, <1>6, <1>7, <1>8, <1>11, <1>12 DEF Placed
<1> QED
  BY <1>12, <1>13

\* The new vtable is taken back, and the first of those that are the same is used.
LEMMA OldVTablePlaced ==
  ASSUME NEW v, NEW q, NEW loc, NEW t, NEW K, NEW known, Ahead(v, q, loc, t, K, known),
         NEW first \in SameVTable(q, t),
         NEW w, w = pop(q, size(q) - loc),
         NEW last, last = PutAt(w, loc, Scalar(KnownVTables(q)[first] - loc, UOFFSET)), Kept(v, last)
  PROVE  Placed(last, loc, t, K, known)
<1> DEFINE vt == known[first]
<1>1. /\ IsVector(v) /\ VTablesOK(v, K)
      /\ IsVector(q) /\ Kept(v, q) /\ PadHolds(q, known, << >>)
      /\ K = {known[k] : k \in 1 .. Len(known)}
      /\ loc \in Nat /\ size(v) \in Nat /\ size(v) + 4 <= loc /\ loc <= size(q)
  <2>1. t \in Seq(Byte)
    BY DEF Ahead, VTableForm
  <2>2. Len(t) \in Nat
    BY <2>1
  <2>3. IsVector(v) /\ IsVector(q)
    BY DEF Ahead
  <2>4. size(v) \in Nat /\ size(q) \in Nat
    BY <2>3, VectorTypes
  <2>5. loc \in Nat /\ size(q) = loc + Len(t)
    BY DEF Ahead
  <2>6. loc <= size(q)
    BY <2>2, <2>4, <2>5
  <2> QED
    BY <2>3, <2>4, <2>6 DEF Ahead
<1>2. first \in 1 .. Len(known) /\ VTableAt(q, vt, t) /\ KnownVTables(q)[first] = vt /\ vt \in K
  BY AheadKnown
<1>3. vt \in Nat /\ vt \in Int
  <2>1. vt \in Nat
    BY <1>2 DEF VTableAt, Holds
  <2> QED
    BY <2>1
<1>4. last = PutAt(w, loc, Scalar(vt - loc, UOFFSET))
  BY <1>2
<1> HIDE DEF vt
<1>5. IsVector(w) /\ size(w) = loc /\ SamePad(q, w)
  BY <1>1, PoppedIs
<1>6. IsVector(last) /\ SamePad(w, last) /\ Holds(last, loc, Scalar(vt - loc, UOFFSET))
  <2>1. 4 <= loc /\ loc <= size(w)
    BY <1>1, <1>5
  <2> QED
    BY <1>1, <1>3, <1>4, <1>5, <2>1, TablePointed
<1>7. PadHolds(w, known, << >>)
  BY <1>1, <1>5, PadHoldsStays
<1>8. PadHolds(last, known, << >>)
  BY <1>5, <1>6, <1>7, PadHoldsStays
<1>9. VTableAt(last, vt, t)
  <2>1. PICK y \in Seq(Byte) : VTableAt(v, vt, y)
    BY <1>1, <1>2 DEF VTablesOK
  <2>2. VTableAt(last, vt, y) /\ VTableAt(q, vt, y)
    BY <1>1, <1>6, <2>1, VTableStays
  <2>3. y = t
    BY <1>1, <1>2, <2>2, VTableUnique
  <2> QED
    BY <2>2, <2>3
<1>10. VTablesOK(last, K)
  BY <1>1, <1>6, VTablesStay
<1> QED
  BY <1>1, <1>2, <1>6, <1>8, <1>9, <1>10 DEF Placed

\* The vtable that EndTable writes, and the builder that has it in front.
NewVTable(b, start) ==
  VTable(FieldLocs(b), Biggest(b.max_voffset + VOFFSET, FieldIndexToOffset(1)), TableOffset(b), start)

WithVTable(b, start) ==
  ClearOffsets(PushBytes(PushElement(b, Scalar(0, UOFFSET)), NewVTable(b, start)))

LEMMA TableOffsetIs ==
  ASSUME NEW b, IsBuilder(b), NEW placed, placed = PushElement(b, Scalar(0, UOFFSET))
  PROVE  /\ Wrote(b, placed) /\ IsBuilder(placed) /\ TableOffset(b) = GetSize(placed)
         /\ TableOffset(b) = size(placed.buf) /\ TableOffset(b) \in Nat
         /\ size(b.buf) \in Nat /\ size(b.buf) + 4 <= TableOffset(b)
<1> DEFINE zero == Scalar(0, UOFFSET)
<1>1. zero \in Seq(Byte) \ {<< >>} /\ Len(zero) = 4 /\ placed = PushElement(b, zero)
  BY ScalarIsElement
<1>2. TableOffset(b) = GetSize(placed)
  BY DEF TableOffset
<1> HIDE DEF zero
<1>3. Wrote(b, placed) /\ GetSize(b) + Len(zero) <= GetSize(placed)
  BY <1>1, PushElementHolds
<1>4. IsBuilder(placed)
  BY <1>3 DEF Wrote
<1>5. GetSize(placed) \in Nat /\ GetSize(placed) = size(placed.buf)
  BY <1>4, BuilderSize
<1>6. GetSize(b) \in Nat /\ GetSize(b) = size(b.buf)
  BY BuilderSize
<1> QED
  BY <1>1, <1>2, <1>3, <1>4, <1>5, <1>6

\* The FieldLocs of a table that begins after start.
LocsLie(b, start, locs) ==
  \A j \in 1 .. Len(locs) :
    start < locs[j].off /\ locs[j].off <= size(b.buf) /\ locs[j].id <= b.max_voffset

\* A vtable says where the fields are.
EntriesAre(t, loc, locs) ==
  \A at \in Nat : at % 2 = 0 /\ 4 <= at =>
    \/ \E j \in 1 .. Len(locs) : locs[j].id = at /\ Entry(t, at) = loc - locs[j].off /\ Entry(t, at) # 0
    \/ Entry(t, at) = 0 /\ \A j \in 1 .. Len(locs) : locs[j].id # at

\* A table that can be ended.
Ending(b, start, K, known, locs) ==
  /\ IsBuilder(b) /\ PadOK(b.buf, b.num_field_loc) /\ VOffsetOK(b.max_voffset)
  /\ Remembers(b, K, known, locs) /\ VTablesOK(b.buf, K) /\ LocsLie(b, start, locs)
  /\ start \in Nat /\ start <= size(b.buf) /\ size(b.buf) <= MAX_BUFFER_SIZE
  /\ TableOffset(b) - start < BYTE * BYTE

LEMMA FieldLocsLie ==
  ASSUME NEW b, NEW start, NEW K, NEW known, NEW locs, Ending(b, start, K, known, locs)
  PROVE  /\ \A f \in FieldLocs(b) : \E j \in 1 .. Len(locs) : f = locs[j]
         /\ \A j \in 1 .. Len(locs) :
              /\ locs[j] \in FieldLocs(b) /\ locs[j].off \in Nat /\ locs[j].id \in Nat
              /\ start < locs[j].off /\ locs[j].off <= size(b.buf) /\ locs[j].id <= b.max_voffset
<1>1. /\ IsBuilder(b) /\ VOffsetOK(b.max_voffset) /\ PadHolds(b.buf, known, locs)
      /\ Len(locs) = b.num_field_loc /\ LocsLie(b, start, locs) /\ size(b.buf) <= MAX_BUFFER_SIZE
  BY DEF Ending, Remembers
<1>2. \A j \in 1 .. Len(locs) :
        /\ locs[j].off \in Nat /\ locs[j].id \in Nat
        /\ start < locs[j].off /\ locs[j].off <= size(b.buf) /\ locs[j].id <= b.max_voffset
  BY <1>1, PadTypes DEF LocsLie
<1> DEFINE max == BYTE * BYTE
<1>3. /\ size(b.buf) \in Nat /\ MAX_BUFFER_SIZE \in Nat /\ max \in Nat
      /\ b.max_voffset \in Nat /\ b.max_voffset + 4 <= max
  <2>1. IsVector(b.buf)
    BY <1>1, BuilderSize
  <2>2. size(b.buf) \in Nat
    BY <2>1, VectorTypes
  <2>3. MAX_BUFFER_SIZE \in Nat /\ max \in Nat
    BY DEF MAX_BUFFER_SIZE, BYTE
  <2> QED
    BY <1>1, <2>2, <2>3 DEF VOffsetOK
<1> HIDE DEF max
<1>4. ASSUME NEW j \in 1 .. Len(locs)
      PROVE  locs[j].off <= MAX_BUFFER_SIZE /\ locs[j].id < max
  <2>1. /\ locs[j].off \in Nat /\ locs[j].id \in Nat
        /\ locs[j].off <= size(b.buf) /\ locs[j].id <= b.max_voffset
    BY <1>2
  <2> DEFINE x == locs[j].off
             y == locs[j].id
  <2>2. x \in Nat /\ y \in Nat /\ x <= size(b.buf) /\ y <= b.max_voffset
    BY <2>1
  <2> HIDE DEF x, y
  <2>3. x <= MAX_BUFFER_SIZE
    BY <1>1, <1>3, <2>2
  <2>4. y < max
    BY <1>3, <2>2
  <2> QED
    BY <2>3, <2>4 DEF x, y
<1>5. \A j \in 1 .. Len(locs) : locs[j].off <= MAX_BUFFER_SIZE /\ locs[j].id < BYTE * BYTE
  BY <1>4 DEF max
<1>6. /\ \A f \in FieldLocs(b) : \E j \in 1 .. Len(locs) : f = locs[j]
      /\ \A j \in 1 .. Len(locs) : locs[j] \in FieldLocs(b)
  BY <1>1, <1>5, FieldLocsAre
<1> QED
  BY <1>2, <1>6

LEMMA NewVTableIs ==
  ASSUME NEW b, NEW start, NEW K, NEW known, NEW locs, Ending(b, start, K, known, locs),
         NEW t, t = NewVTable(b, start)
  PROVE  VTableForm(t) /\ EntriesAre(t, TableOffset(b), locs)
<1> DEFINE fields == FieldLocs(b)
           max == b.max_voffset
           vtsize == Biggest(max + VOFFSET, FieldIndexToOffset(1))
           loc == TableOffset(b)
           most == BYTE * BYTE
<1>1. /\ IsBuilder(b) /\ VOffsetOK(max) /\ start \in Nat /\ start <= size(b.buf) /\ loc - start < most
  BY DEF Ending
<1>2. loc \in Nat /\ size(b.buf) \in Nat /\ size(b.buf) + 4 <= loc
  BY <1>1, TableOffsetIs
<1>3. vtsize \in Nat /\ vtsize % 2 = 0 /\ 4 <= vtsize /\ vtsize < most /\ max + 2 <= vtsize /\ max \in Nat
  <2>1. max \in Nat /\ max % 2 = 0 /\ max + 4 <= most /\ most \in Nat
    BY <1>1 DEF VOffsetOK, BYTE
  <2>2. VOFFSET = 2 /\ FieldIndexToOffset(1) = 4 /\ 4 < most
    BY DEF VOFFSET, FieldIndexToOffset, BYTE
  <2> HIDE DEF max, most, vtsize
  <2>3. vtsize = IF max + 2 < 4 THEN 4 ELSE max + 2
    BY <2>2 DEF Biggest, vtsize
  <2>4. (max + 2) % 2 = 0
    BY <2>1
  <2> QED
    BY <2>1, <2>2, <2>3, <2>4
<1>4. t = VTable(fields, vtsize, loc, start)
  BY DEF NewVTable
<1> HIDE DEF fields, vtsize, loc, most, max
<1>5. /\ \A f \in fields : \E j \in 1 .. Len(locs) : f = locs[j]
      /\ \A j \in 1 .. Len(locs) :
           /\ locs[j] \in fields /\ locs[j].off \in Nat /\ locs[j].id \in Nat
           /\ start < locs[j].off /\ locs[j].off <= size(b.buf) /\ locs[j].id <= max
  BY FieldLocsLie DEF fields, max
<1>6. FieldsBetween(fields, start, loc)
  <2> SUFFICES ASSUME NEW f \in fields
               PROVE  f.off \in Nat /\ start < f.off /\ f.off < loc
    BY DEF FieldsBetween
  <2>1. PICK j \in 1 .. Len(locs) : f = locs[j]
    BY <1>5
  <2>2. f.off \in Nat /\ start < f.off /\ f.off <= size(b.buf)
    BY <1>5, <2>1
  <2> QED
    BY <1>2, <2>2
<1>7. start <= loc /\ loc \in Int /\ start \in Int
  BY <1>1, <1>2
<1>8. t \in Seq(Byte) /\ Len(t) = vtsize
  <2>1. \A f \in fields : f.off \in Int
    BY <1>6 DEF FieldsBetween
  <2> QED
    BY <1>3, <1>4, <1>7, <2>1, VTableType
<1>9. IsVTable(t, fields, vtsize, loc, start)
  BY <1>4, <1>8 DEF IsVTable
<1>10. SubSeq(t, 1, VOFFSET) = Scalar(Len(t), VOFFSET) /\ VTableSays(t, fields, vtsize, loc)
  <2>1. vtsize < BYTE * BYTE /\ loc - start < BYTE * BYTE
    BY <1>1, <1>3 DEF most
  <2> QED
    BY <1>1, <1>2, <1>3, <1>6, <1>7, <1>9, <2>1, VTableEntries
<1>11. VTableForm(t)
  <2>1. 4 <= Len(t) /\ Len(t) < BYTE * BYTE /\ Len(t) % 2 = 0
    BY <1>3, <1>8 DEF most
  <2> QED
    BY <1>8, <1>10, <2>1 DEF VTableForm
<1>12. ASSUME NEW at \in Nat, at % 2 = 0, 4 <= at
       PROVE  \/ \E j \in 1 .. Len(locs) : locs[j].id = at /\ Entry(t, at) = loc - locs[j].off /\ Entry(t, at) # 0
              \/ Entry(t, at) = 0 /\ \A j \in 1 .. Len(locs) : locs[j].id # at
  <2>1. CASE \E f \in fields : f.id = at /\ Entry(t, at) = loc - f.off /\ Entry(t, at) # 0
    BY <1>5, <2>1
  <2>2. CASE Entry(t, at) = 0 /\ (at < vtsize => ~ \E f \in fields : f.id = at)
    <3>1. ASSUME NEW j \in 1 .. Len(locs), locs[j].id = at
          PROVE  FALSE
      <4>1. locs[j] \in fields /\ locs[j].id <= max
        BY <1>5
      <4>2. at <= max
        BY <3>1, <4>1
      <4>3. at < vtsize
        BY <1>3, <4>2
      <4> QED
        BY <2>2, <3>1, <4>1, <4>3
    <3> QED
      BY <2>2, <3>1
  <2> QED
    BY <1>10, <1>12, <2>1, <2>2 DEF VTableSays
<1>13. EntriesAre(t, loc, locs)
  BY <1>12 DEF EntriesAre
<1> QED
  BY <1>11, <1>13 DEF loc

LEMMA WithVTableIs ==
  ASSUME NEW b, NEW start, NEW K, NEW known, NEW locs, Ending(b, start, K, known, locs),
         NEW t, t = NewVTable(b, start), NEW pushed, pushed = WithVTable(b, start)
  PROVE  /\ Ahead(b.buf, pushed.buf, TableOffset(b), t, K, known)
         /\ IsBuilder(pushed) /\ pushed.num_field_loc = 0 /\ pushed.max_voffset = 0
<1> DEFINE placed == PushElement(b, Scalar(0, UOFFSET))
           wrote == PushBytes(placed, t)
           v == b.buf
           loc == TableOffset(b)
<1>1. /\ IsBuilder(b) /\ PadOK(v, b.num_field_loc) /\ PadHolds(v, known, locs)
      /\ Len(locs) = b.num_field_loc /\ K = {known[k] : k \in 1 .. Len(known)}
      /\ VTablesOK(v, K) /\ size(v) <= MAX_BUFFER_SIZE
  BY DEF Ending, Remembers
<1>2. /\ Wrote(b, placed) /\ IsBuilder(placed) /\ loc = GetSize(placed) /\ loc = size(placed.buf)
      /\ loc \in Nat /\ size(v) + 4 <= loc
  BY <1>1, TableOffsetIs
<1>3. VTableForm(t) /\ t \in Seq(Byte)
  BY NewVTableIs DEF VTableForm
<1>4. pushed = ClearOffsets(wrote)
  BY DEF WithVTable
<1> HIDE DEF placed, loc
<1>5. /\ Wrote(placed, wrote) /\ Prefixed(placed.buf, wrote.buf, t) /\ IsBuilder(wrote)
  <2>1. Wrote(placed, wrote) /\ Prefixed(placed.buf, wrote.buf, t)
    BY <1>2, <1>3, PushBytesWrites
  <2> QED
    BY <2>1 DEF Wrote
<1> HIDE DEF wrote
<1>6. Wrote(b, wrote)
  BY <1>1, <1>2, <1>5, WroteTransitive
<1> DEFINE w == wrote.buf
<1>7. /\ IsVector(v) /\ IsVector(placed.buf) /\ IsVector(w)
  BY <1>1, <1>2, <1>5, BuilderSize
<1>8. /\ SamePad(v, w) /\ Kept(v, w) /\ wrote.num_field_loc = b.num_field_loc
  BY <1>6 DEF Wrote, Above
<1>9. Holds(w, size(w), t) /\ size(w) = loc + Len(t)
  <2>1. t \in Seq(Cell)
    BY <1>3, BytesAreCells
  <2>2. Holds(w, size(w), t)
    BY <1>5, <1>7, <2>1, PrefixHeld
  <2> QED
    BY <1>2, <1>5, <2>2 DEF Prefixed
<1>10. PadOK(w, wrote.num_field_loc)
  <2>1. b.num_field_loc \in Nat
    BY <1>1 DEF IsBuilder
  <2>2. PadOK(w, b.num_field_loc)
    BY <1>1, <1>7, <1>8, <2>1, PadStays
  <2> QED
    BY <1>8, <2>2
<1>11. /\ IsBuilder(pushed) /\ pushed.num_field_loc = 0
       /\ pushed.buf = scratch_pop(w, wrote.num_field_loc * FIELD_LOC)
       /\ Extended(w, pushed.buf) /\ size(pushed.buf) = size(w)
  BY <1>4, <1>5, <1>10, ClearOffsetsGives
<1>12. pushed.max_voffset = 0
  BY <1>4, <1>5 DEF ClearOffsets, IsBuilder
<1> DEFINE q == pushed.buf
<1>13. PadHolds(w, known, locs)
  <2> HIDE DEF v, w
  <2> QED
    BY <1>1, <1>7, <1>8, PadHoldsStays
<1>14. q = scratch_pop(w, Len(locs) * FIELD_LOC)
  BY <1>1, <1>8, <1>11
<1>15. IsVector(q) /\ PadHolds(q, known, << >>)
  <2> HIDE DEF w, q
  <2> QED
    BY <1>7, <1>13, <1>14, PadPopped
<1>16. Kept(w, q) /\ size(q) = size(w)
  BY <1>11 DEF Extended
<1>17. Holds(q, size(q), t)
  <2>1. t \in Seq(Cell)
    BY <1>3, BytesAreCells
  <2>2. Holds(w, size(q), t)
    BY <1>9, <1>16
  <2> HIDE DEF w, q
  <2> QED
    BY <1>7, <1>15, <1>16, <2>1, <2>2, HeldStays
<1>18. Kept(v, q)
  <2>1. Extended(v, w) /\ Extended(w, q)
    BY <1>6, <1>11, AboveIsExtended DEF Wrote
  <2> HIDE DEF v, w, q
  <2>2. Extended(v, q)
    BY <1>7, <2>1, ExtendedTransitive
  <2> QED
    BY <2>2 DEF Extended
<1>19. Ahead(v, q, loc, t, K, known)
  BY <1>1, <1>2, <1>3, <1>7, <1>9, <1>15, <1>16, <1>17, <1>18 DEF Ahead
<1> QED
  BY <1>11, <1>12, <1>19 DEF loc

\* EndTable in these terms.
LEMMA EndTableIs ==
  ASSUME NEW b, NEW start
  PROVE  EndTable(b, start) =
           LET pushed == WithVTable(b, start)
               loc == TableOffset(b)
               same == SameVTable(pushed.buf, NewVTable(b, start))
               vt_use == IF same = {}
                         THEN GetSize(pushed)
                         ELSE KnownVTables(pushed.buf)[CHOOSE k \in same : \A j \in same : k <= j]
               kept == IF same = {}
                       THEN scratch_push_small(pushed.buf, Scalar(vt_use, UOFFSET))
                       ELSE pop(pushed.buf, size(pushed.buf) - loc)
           IN  [pushed EXCEPT !.buf = PutAt(kept, loc, Scalar(vt_use - loc, UOFFSET)),
                              !.nested = FALSE]
BY Zenon DEF EndTable, WithVTable, NewVTable, TableOffset

LEMMA EndTablePlaces ==
  ASSUME NEW b, NEW start, NEW K, NEW known, NEW locs, Ending(b, start, K, known, locs),
         NEW c, c = EndTable(b, start), Kept(b.buf, c.buf)
  PROVE  /\ c.num_field_loc = 0 /\ c.max_voffset = 0
         /\ \E more, L : K \subseteq L /\ Placed(c.buf, TableOffset(b), NewVTable(b, start), L, more)
<1> DEFINE t == NewVTable(b, start)
           pushed == WithVTable(b, start)
           q == pushed.buf
           loc == TableOffset(b)
           same == SameVTable(q, t)
           first == CHOOSE k \in same : \A j \in same : k <= j
           vt_use == IF same = {} THEN GetSize(pushed) ELSE KnownVTables(q)[first]
           kept == IF same = {}
                   THEN scratch_push_small(q, Scalar(vt_use, UOFFSET))
                   ELSE pop(q, size(q) - loc)
           last == PutAt(kept, loc, Scalar(vt_use - loc, UOFFSET))
<1>1. c = [pushed EXCEPT !.buf = last, !.nested = FALSE]
  BY EndTableIs
<1>2. pushed = WithVTable(b, start) /\ t = NewVTable(b, start)
  OBVIOUS
<1> HIDE DEF pushed, t
<1>3. /\ Ahead(b.buf, pushed.buf, loc, t, K, known)
      /\ IsBuilder(pushed) /\ pushed.num_field_loc = 0 /\ pushed.max_voffset = 0
  BY <1>2, WithVTableIs
<1>4. GetSize(pushed) = size(q)
  BY DEF GetSize
<1> HIDE DEF last
<1>5. c.buf = last /\ c.num_field_loc = 0 /\ c.max_voffset = 0
  BY <1>1, <1>3 DEF IsBuilder
<1> DEFINE v == b.buf
<1>6. Ahead(v, q, loc, t, K, known) /\ Kept(v, last)
  BY <1>3, <1>5
<1> HIDE DEF v, q, loc
<1>7. CASE same = {}
  <2>1. same = SameVTable(q, t)
    OBVIOUS
  <2> HIDE DEF same
  <2> DEFINE w == scratch_push_small(q, Scalar(size(q), UOFFSET))
  <2>2. last = PutAt(w, loc, Scalar(size(q) - loc, UOFFSET))
    BY <1>4, <1>7 DEF last
  <2>3. w = scratch_push_small(q, Scalar(size(q), UOFFSET))
    OBVIOUS
  <2> HIDE DEF w
  <2>4. \E more, L : K \subseteq L /\ Placed(last, loc, t, L, more)
    BY <1>6, <1>7, <2>1, <2>2, <2>3, NewVTablePlaced
  <2> QED
    BY <1>5, <2>4 DEF loc, t
<1>8. CASE same # {}
  <2>1. same = {k \in 1 .. Len(known) : VTableAt(q, known[k], t)}
    BY <1>6, AheadKnown
  <2>2. same \in SUBSET Nat
    <3> SUFFICES \A k \in same : k \in Nat
      OBVIOUS
    <3> HIDE DEF same
    <3> QED
      BY <2>1
  <2>3. same = SameVTable(q, t)
    OBVIOUS
  <2> HIDE DEF same
  <2>4. \E k \in same : \A j \in same : k <= j
    BY <1>8, <2>2, LeastIndex
  <2>5. first \in same
    BY <2>4
  <2> HIDE DEF first
  <2> DEFINE w == pop(q, size(q) - loc)
  <2>6. last = PutAt(w, loc, Scalar(KnownVTables(q)[first] - loc, UOFFSET))
    BY <1>8 DEF last
  <2>7. w = pop(q, size(q) - loc)
    OBVIOUS
  <2> HIDE DEF w
  <2>8. first \in SameVTable(q, t)
    BY <2>3, <2>5
  <2>9. Placed(last, loc, t, K, known)
    BY <1>6, <2>6, <2>7, <2>8, OldVTablePlaced
  <2> QED
    BY <1>5, <2>9 DEF loc, t
<1> QED
  BY <1>7, <1>8

\* The table o, with what the scratch pad knows after it.
Ended(c, o, K, S) ==
  \E more, L : /\ K \subseteq L /\ Remembers(c, L, more, << >>) /\ VTablesOK(c.buf, L)
               /\ TableHolds(c.buf, o, L, S)

LEMMA TableEnded ==
  ASSUME NEW b, NEW K, NEW known, NEW locs, NEW table, Ending(b, table.start, K, known, locs),
         table.name \in DOMAIN Tables, NEW S, FieldsLie(b.buf, table, locs, b.max_voffset, S),
         NEW c, c = EndTable(b, table.start), Kept(b.buf, c.buf),
         NEW o, o.off = TableOffset(b), o.type = TableOf(table.name), o.value = table.values
  PROVE  Ended(c, o, K, S) /\ c.num_field_loc = 0 /\ c.max_voffset = 0
<1> DEFINE t == NewVTable(b, table.start)
           start == table.start
           loc == TableOffset(b)
           name == table.name
           fields == Tables[name]
           v == b.buf
           w == c.buf
<1>1. t = NewVTable(b, start) /\ c = EndTable(b, start) /\ Ending(b, start, K, known, locs)
  OBVIOUS
<1> HIDE DEF t, start
<1>2. /\ c.num_field_loc = 0 /\ c.max_voffset = 0
      /\ \E more, L : K \subseteq L /\ Placed(w, loc, t, L, more)
  <2>1. /\ c.num_field_loc = 0 /\ c.max_voffset = 0
        /\ \E more, L : K \subseteq L /\ Placed(c.buf, TableOffset(b), NewVTable(b, start), L, more)
    BY <1>1, EndTablePlaces
  <2> QED
    BY <2>1 DEF t, start
<1>3. PICK more, L : K \subseteq L /\ Placed(w, loc, t, L, more)
  BY <1>2
<1>4. VTableForm(t) /\ EntriesAre(t, loc, locs)
  BY <1>1, NewVTableIs
<1>5. /\ IsBuilder(b) /\ IsVector(v) /\ Kept(v, w) /\ loc \in Nat
  <2>1. IsBuilder(b)
    BY <1>1 DEF Ending
  <2> QED
    BY <2>1, BuilderSize, TableOffsetIs
<1>6. /\ IsVector(w) /\ PadHolds(w, more, << >>) /\ L = {more[k] : k \in 1 .. Len(more)} /\ VTablesOK(w, L)
  BY <1>3 DEF Placed
<1>7. PICK vt \in L : VTableAt(w, vt, t) /\ Holds(w, loc, Scalar(vt - loc, UOFFSET))
  BY <1>3 DEF Placed
<1>8. /\ \A f \in DOMAIN fields :
           FieldLies(v, locs, FieldIndexToOffset(f), fields[f], table.values[f], S)
      /\ \A j \in 1 .. Len(locs) : locs[j].off \in Nat
  <2>1. \A j \in 1 .. Len(locs) : locs[j].off \in Nat
    BY <1>1, FieldLocsLie
  <2> QED
    BY <2>1 DEF FieldsLie
<1> HIDE DEF v, w, loc
<1>9. ASSUME NEW f \in DOMAIN fields
      PROVE  FieldHolds(w, loc, Entry(t, FieldIndexToOffset(f)), fields[f], table.values[f], S)
  <2> DEFINE at == FieldIndexToOffset(f)
             field == fields[f]
             value == table.values[f]
             place == Entry(t, at)
  <2>1. at \in Nat /\ at % 2 = 0 /\ 4 <= at
    <3>1. name \in DOMAIN Tables /\ f \in DOMAIN Tables[name]
      OBVIOUS
    <3> HIDE DEF name, fields
    <3> QED
      BY <3>1, FieldOffsets
  <2>2. FieldLies(v, locs, at, field, value, S)
    BY <1>8
  <2> HIDE DEF at, field, value
  <2>3. \/ \E j \in 1 .. Len(locs) : locs[j].id = at /\ place = loc - locs[j].off /\ place # 0
        \/ place = 0 /\ \A j \in 1 .. Len(locs) : locs[j].id # at
    BY <1>4, <2>1 DEF EntriesAre
  <2> HIDE DEF place
  <2>4. CASE \E j \in 1 .. Len(locs) : locs[j].id = at /\ place = loc - locs[j].off /\ place # 0
    <3>1. PICK j \in 1 .. Len(locs) : locs[j].id = at /\ place = loc - locs[j].off /\ place # 0
      BY <2>4
    <3> DEFINE off == locs[j].off
    <3>2. SlotHolds(v, off, field, value, S)
      BY <2>2, <3>1 DEF FieldLies
    <3>3. off \in Nat /\ place = loc - off
      BY <1>8, <3>1
    <3> HIDE DEF off
    <3>4. loc - place = off
      BY <1>5, <3>3
    <3>5. SlotHolds(w, off, field, value, S)
      BY <1>5, <1>6, <3>2, SlotStays
    <3>6. SlotHolds(w, loc - place, field, value, S)
      BY <3>4, <3>5
    <3>7. FieldHolds(w, loc, place, field, value, S)
      BY <3>1, <3>6 DEF FieldHolds
    <3> QED
      BY <3>7 DEF place, at, field, value
  <2>5. CASE place = 0 /\ \A j \in 1 .. Len(locs) : locs[j].id # at
    <3>1. value = IF field.kind = "scalar" THEN field.default ELSE Absent
      BY <2>2, <2>5 DEF FieldLies
    <3>2. FieldHolds(w, loc, place, field, value, S)
      BY <2>5, <3>1 DEF FieldHolds
    <3> QED
      BY <3>2 DEF place, at, field, value
  <2> QED
    BY <2>3, <2>4, <2>5
<1>10. o.off = loc /\ o.type.name = name /\ o.value = table.values
  BY DEF TableOf, loc
<1>11. TableHolds(w, o, L, S)
  <2>1. t \in Seq(Byte)
    BY <1>4 DEF VTableForm
  <2> HIDE DEF fields
  <2>2. \A f \in DOMAIN Tables[o.type.name] :
          FieldHolds(w, o.off, Entry(t, FieldIndexToOffset(f)), Tables[o.type.name][f], o.value[f], S)
    BY <1>9, <1>10 DEF fields
  <2>3. Holds(w, o.off, Scalar(vt - o.off, UOFFSET))
    BY <1>7, <1>10
  <2> QED
    BY <1>7, <2>1, <2>2, <2>3 DEF TableHolds
<1>12. Remembers(c, L, more, << >>)
  <2>1. Len(<< >>) = 0
    OBVIOUS
  <2> QED
    BY <1>2, <1>6, <2>1 DEF Remembers, w
<1> QED
  BY <1>2, <1>3, <1>6, <1>11, <1>12 DEF Ended, w

\* A table is finished.
LEMMA ReadFinishTableStep ==
  ASSUME BuildInv, FinishTable, GetSize(builder) < MAX_BUFFER_SIZE,
         NEW K, NEW known, NEW locs, Lies(K, known, locs)
  PROVE  \E L, more : Lies(L, more, << >>)'
<1> DEFINE o == [off |-> TableOffset(builder), type |-> TableOf(building.name), value |-> building.values]
           T == Objects'
<1>1. /\ building.kind = "table" /\ TableOffset(builder) - building.start < BYTE * BYTE
      /\ building' = Nothing /\ builder' = EndTable(builder, building.start)
      /\ objects' = Append(objects, o)
  BY DEF FinishTable, Written
<1>2. o.off = TableOffset(builder) /\ o.type = TableOf(building.name) /\ o.value = building.values
  OBVIOUS
<1> HIDE DEF o, T
<1>3. T = Objects \cup {o}
  BY <1>1, AppendedObjects DEF T
<1>4. /\ IsBuilder(builder) /\ PadOK(builder.buf, builder.num_field_loc)
      /\ Extended(builder.buf, builder'.buf)
      /\ building.name \in DOMAIN Tables /\ building.start \in Nat
  BY <1>1, FinishTableStep, BuildingTable DEF BuildInv, BuilderOK
<1>5. /\ IsVector(builder.buf) /\ IsVector(builder'.buf) /\ Kept(builder.buf, builder'.buf)
      /\ size(builder.buf) \in Nat
  BY <1>4, BuilderSize, VectorTypes DEF Extended
<1>6. /\ ObjectsLie(builder.buf, K, Objects) /\ VOffsetOK(builder.max_voffset)
      /\ Remembers(builder, K, known, locs)
      /\ FieldsLie(builder.buf, building, locs, builder.max_voffset, Objects)
  BY <1>1 DEF Lies
<1>7. Ended(builder', o, K, Objects) /\ builder'.num_field_loc = 0 /\ builder'.max_voffset = 0
  <2> DEFINE b == builder
             c == builder'
             table == building
             S == Objects
  <2>1. Ending(b, table.start, K, known, locs)
    <3>1. LocsLie(b, table.start, locs) /\ table.start <= size(b.buf)
      BY <1>6 DEF FieldsLie, LocsOK, LocsLie
    <3>2. VTablesOK(b.buf, K)
      BY <1>6 DEF ObjectsLie
    <3>3. size(b.buf) <= MAX_BUFFER_SIZE
      BY <1>5 DEF GetSize, MAX_BUFFER_SIZE
    <3> QED
      BY <1>1, <1>4, <1>6, <3>1, <3>2, <3>3 DEF Ending
  <2>2. /\ table.name \in DOMAIN Tables /\ FieldsLie(b.buf, table, locs, b.max_voffset, S)
        /\ c = EndTable(b, table.start) /\ Kept(b.buf, c.buf)
        /\ o.off = TableOffset(b) /\ o.type = TableOf(table.name) /\ o.value = table.values
    BY <1>1, <1>2, <1>4, <1>5, <1>6
  <2> HIDE DEF b, c, table, S
  <2>3. Ended(c, o, K, S) /\ c.num_field_loc = 0 /\ c.max_voffset = 0
    BY <2>1, <2>2, TableEnded
  <2> QED
    BY <2>3 DEF c, S
<1>8. PICK more, L : /\ K \subseteq L /\ Remembers(builder', L, more, << >>)
                     /\ VTablesOK(builder'.buf, L) /\ TableHolds(builder'.buf, o, L, Objects)
  BY <1>7 DEF Ended
<1>9. ObjectsLie(builder'.buf, L, T)
  <2> DEFINE v == builder.buf
             w == builder'.buf
             S == Objects
  <2>1. /\ IsVector(v) /\ IsVector(w) /\ Kept(v, w) /\ ObjectsLie(v, K, S) /\ K \subseteq L
        /\ VTablesOK(w, L) /\ S \subseteq T /\ T = S \cup {o} /\ TableHolds(w, o, L, S)
    BY <1>3, <1>5, <1>6, <1>8
  <2> HIDE DEF v, w, S
  <2>2. TableHolds(w, o, L, T)
    <3>1. Kept(w, w) /\ L \subseteq L
      BY <2>1, VectorTypes DEF Kept
    <3> QED
      BY <2>1, <3>1, TableStays
  <2>3. ObjectLies(w, o, L, T)
    BY <1>2, <1>4, <2>2 DEF ObjectLies
  <2>4. \A x \in T \ S : ObjectLies(w, x, L, T)
    BY <2>1, <2>3
  <2>5. ObjectsLie(w, L, T)
    BY <2>1, <2>4, ObjectsStayLying
  <2> QED
    BY <2>5 DEF w
<1>10. VOffsetOK(builder'.max_voffset)
  BY <1>7 DEF VOffsetOK, BYTE
<1>11. building'.kind # "vector" /\ building'.kind # "table"
  BY <1>1 DEF Nothing
<1>12. Lies(L, more, << >>)'
  BY <1>8, <1>9, <1>10, <1>11 DEF Lies, T
<1> QED
  BY <1>12

\* The message is finished: the scratch pad is given up.
LEMMA ReadFinishMessageStep ==
  ASSUME BuildInv, NEW o \in Objects, FinishMessage(o),
         NEW K, NEW known, NEW locs, Lies(K, known, locs)
  PROVE  Lies(K, known, locs)'
<1>1. /\ building = Nothing /\ builder' = Finish(builder, o.off) /\ objects' = objects
      /\ building' = [kind |-> "finished", root |-> o]
  BY DEF FinishMessage
<1>2. Extended(builder.buf, builder'.buf)
  BY FinishMessageStep
<1>3. ObjectsLie(builder'.buf, K, Objects') /\ Objects' = Objects
  BY <1>1, <1>2, BuildingRead
<1>4. builder'.max_voffset = builder.max_voffset
  <2>1. o.off \in Int
    BY OffsetsOK
  <2>2. IsBuilder(builder) /\ builder.num_field_loc = 0
    BY <1>1, Idle
  <2> QED
    BY <1>1, <2>1, <2>2, FinishGrew
<1>5. building'.kind = "finished"
  BY <1>1
<1>6. VOffsetOK(builder'.max_voffset)
  BY <1>4 DEF Lies
<1> QED
  BY <1>3, <1>5, <1>6 DEF Lies

\* A builder in which nothing has been written.
LEMMA EmptyHolds ==
  ASSUME NEW b, b.buf.scratch = 0, b.num_field_loc = 0, b.max_voffset = 0
  PROVE  /\ Remembers(b, {}, << >>, << >>) /\ VOffsetOK(b.max_voffset)
         /\ ObjectsLie(b.buf, {}, {})
<1> DEFINE none == << >>
<1>1. /\ Len(none) = 0 /\ none \in Seq(Nat) /\ none \in Seq([off : Nat, id : Nat])
      /\ (\A k \in 1 .. Len(none) : FALSE) /\ DOMAIN none = {}
  OBVIOUS
<1>3. ObjectsLie(b.buf, {}, {})
  BY DEF ObjectsLie, VTablesOK
<1>4. VOffsetOK(b.max_voffset)
  BY DEF VOffsetOK, BYTE
<1> HIDE DEF none
<1>5. PadHolds(b.buf, none, none)
  <2>1. b.buf.scratch = 4 * Len(none) + 8 * Len(none)
    BY <1>1
  <2> QED
    BY <1>1, <2>1 DEF PadHolds
<1>6. {} = {none[k] : k \in 1 .. Len(none)}
  BY <1>1
<1>7. Remembers(b, {}, none, none)
  BY <1>1, <1>5, <1>6 DEF Remembers
<1> QED
  BY <1>3, <1>4, <1>7 DEF none

LEMMA ReadReuseStep ==
  ASSUME BuildInv, Reuse
  PROVE  Lies({}, << >>, << >>)'
<1>1. builder' = Clear(builder) /\ objects' = << >> /\ building' = Nothing /\ IsBuilder(builder)
  BY DEF Reuse, BuildInv, BuilderOK
<1>2. builder'.buf.scratch = 0 /\ builder'.num_field_loc = 0 /\ builder'.max_voffset = 0
  BY <1>1, ClearGives
<1>3. Objects' = {} /\ building'.kind # "vector" /\ building'.kind # "table"
  BY <1>1 DEF Objects, Nothing
<1>4. /\ Remembers(builder', {}, << >>, << >>) /\ VOffsetOK(builder'.max_voffset)
      /\ ObjectsLie(builder'.buf, {}, {})
  BY <1>2, EmptyHolds
<1> QED
  BY <1>3, <1>4 DEF Lies

LEMMA InitReadInv == Init => ReadInv
<1> SUFFICES ASSUME Init
             PROVE  Lies({}, << >>, << >>)
  BY DEF ReadInv
<1>1. builder.buf.scratch = 0 /\ builder.num_field_loc = 0 /\ builder.max_voffset = 0
  BY DEF Init, EmptyBuilder, EmptyVector
<1>2. Objects = {} /\ building.kind # "vector" /\ building.kind # "table"
  BY DEF Init, Objects, Nothing
<1>3. /\ Remembers(builder, {}, << >>, << >>) /\ VOffsetOK(builder.max_voffset)
      /\ ObjectsLie(builder.buf, {}, {})
  BY <1>1, EmptyHolds
<1> QED
  BY <1>2, <1>3 DEF Lies

\* Some vtables and FieldLocs that make it hold are there after a step too.
LEMMA NextLies ==
  ASSUME BuildInv, GetSize(builder) < MAX_BUFFER_SIZE, Next,
         NEW K, NEW known, NEW locs, Lies(K, known, locs)
  PROVE  \E L, more, others : Lies(L, more, others)'
<1>1. CASE \E chars \in Strings : WriteString(chars) \/ WriteSharedString(chars)
  <2>1. Lies(K, known, locs)'
    BY <1>1, ReadStringStep, ReadSharedStringStep
  <2> QED
    BY <2>1
<1>2. CASE \E v \in ScalarVectors : WriteScalars(v)
  <2>1. Lies(K, known, locs)'
    BY <1>2, ReadScalarsStep
  <2> QED
    BY <2>1
<1>3. CASE \E v \in Vectors : BeginVector(v.type, v.len)
  <2>1. Lies(K, known, locs)'
    BY <1>3, ReadBeginVectorStep
  <2> QED
    BY <2>1
<1>4. CASE \E o \in Objects : PushItem(o) \/ FinishMessage(o)
  <2>1. Lies(K, known, locs)'
    BY <1>4, ReadPushItemStep, ReadFinishMessageStep
  <2> QED
    BY <2>1
<1>5. CASE FinishVector
  <2>1. Lies(K, known, locs)'
    BY <1>5, ReadFinishVectorStep
  <2> QED
    BY <2>1
<1>6. CASE \E name \in DOMAIN Tables : BeginTable(name)
  <2>1. Lies(K, known, locs)'
    BY <1>6, ReadBeginTableStep
  <2> QED
    BY <2>1
<1>7. CASE building.kind = "table" /\ \E f \in DOMAIN Tables[building.name] :
             (\E bytes \in Scalars : AddScalar(f, bytes)) \/ (\E o \in Objects : AddObject(f, o))
  <2>1. \E more : Lies(K, known, more)'
    <3>1. PICK f : (\E bytes \in Scalars : AddScalar(f, bytes)) \/ (\E o \in Objects : AddObject(f, o))
      BY <1>7
    <3> QED
      BY <3>1, ReadAddScalarStep, ReadAddObjectStep
  <2> QED
    BY <2>1
<1>8. CASE FinishTable
  <2>1. \E L, more : Lies(L, more, << >>)'
    BY <1>8, ReadFinishTableStep
  <2> QED
    BY <2>1
<1>9. CASE Reuse
  <2>1. Lies({}, << >>, << >>)'
    BY <1>9, ReadReuseStep
  <2> QED
    BY <2>1
<1> QED
  BY <1>1, <1>2, <1>3, <1>4, <1>5, <1>6, <1>7, <1>8, <1>9 DEF Next

LEMMA NextReadInv == BuildInv /\ ReadInv /\ [Next]_vars => ReadInv'
<1> SUFFICES ASSUME BuildInv, ReadInv, [Next]_vars, GetSize(builder') < MAX_BUFFER_SIZE
             PROVE  \E K, known, locs : Lies(K, known, locs)'
  BY DEF ReadInv
<1>1. CASE Next
  <2>1. CASE Reuse
    <3>1. Lies({}, << >>, << >>)'
      BY <2>1, ReadReuseStep
    <3> QED
      BY <3>1
  <2>2. CASE ~Reuse
    <3>1. Extended(builder.buf, builder'.buf) /\ IsVector(builder.buf)
      BY <1>1, <2>2, NextBuildInv DEF BuildInv, BuilderOK, IsBuilder
    <3>2. /\ size(builder.buf) \in Nat /\ size(builder'.buf) \in Nat
          /\ size(builder.buf) <= size(builder'.buf)
      BY <3>1, VectorTypes DEF Extended, Kept
    <3>3. GetSize(builder) < MAX_BUFFER_SIZE
      BY <3>2 DEF GetSize, MAX_BUFFER_SIZE
    <3>4. PICK K, known, locs : Lies(K, known, locs)
      BY <3>3 DEF ReadInv
    <3> QED
      BY <1>1, <3>3, <3>4, NextLies
  <2> QED
    BY <2>1, <2>2
<1>2. CASE UNCHANGED vars
  <2>1. builder' = builder /\ objects' = objects /\ building' = building
    BY <1>2 DEF vars
  <2>2. PICK K, known, locs : Lies(K, known, locs)
    BY <2>1 DEF ReadInv
  <2>3. Lies(K, known, locs)'
    BY <2>1, <2>2 DEF Lies, Objects
  <2> QED
    BY <2>3
<1> QED
  BY <1>1, <1>2

LEMMA TypeKinds ==
  /\ String.kind = "string"
  /\ \A t : VectorOf(t).kind = "vector"
  /\ \A name : TableOf(name).kind = "table" /\ TableOf(name).name = name
BY DEF String, VectorOf, TableOf

LEMMA ObjectOfKind ==
  ASSUME NEW v, NEW o, NEW K, NEW S, ObjectLies(v, o, K, S)
  PROVE  /\ o.type.kind = "vector" => VectorHolds(v, o, S)
         /\ o.type.kind = "table" => TableHolds(v, o, K, S) /\ o.type.name \in DOMAIN Tables
<1>1. CASE o.type = String
  BY <1>1, TypeKinds
<1>2. CASE \E t : o.type = VectorOf(t) /\ VectorHolds(v, o, S)
  <2>1. o.type.kind = "vector" /\ VectorHolds(v, o, S)
    BY <1>2, TypeKinds
  <2> QED
    BY <2>1
<1>3. CASE \E name \in DOMAIN Tables : o.type = TableOf(name) /\ TableHolds(v, o, K, S)
  <2>1. o.type.kind = "table" /\ TableHolds(v, o, K, S) /\ o.type.name \in DOMAIN Tables
    BY <1>3, TypeKinds
  <2> QED
    BY <2>1
<1> QED
  BY <1>1, <1>2, <1>3 DEF ObjectLies

\* The first bytes of a finished message are the offset of its root.
RootHolds ==
  building.kind = "finished" =>
    /\ building.root \in Objects
    /\ Holds(builder.buf, GetSize(builder), Scalar(GetSize(builder) - building.root.off, UOFFSET))

LEMMA FinishHolds ==
  ASSUME NEW b, IsBuilder(b), NEW root \in Int, NEW c, c = Finish(b, root)
  PROVE  Holds(c.buf, GetSize(c), Scalar(GetSize(c) - root, UOFFSET))
<1> DEFINE v == clear_scratch(b.buf)
           d == [b EXCEPT !.buf = v]
           aligned == PreAlign(d, UOFFSET, b.minalign)
           e == PushOffset(aligned, root)
<1>1. IsVector(b.buf) /\ b.minalign \in Nat \ {0} /\ UOFFSET \in Nat
  BY BuilderSize DEF UOFFSET
<1>2. IsVector(v) /\ v \in [buf : Seq(Cell), cur : Nat, scratch : Nat]
  <2> DEFINE u == b.buf
  <2>1. /\ u = [buf |-> u.buf, cur |-> u.cur, scratch |-> u.scratch]
        /\ u.buf \in Seq(Cell) /\ u.cur \in Nat /\ u.cur <= Len(u.buf)
    BY <1>1, VectorTypes DEF IsVector
  <2> HIDE DEF u
  <2>2. v = [buf |-> u.buf, cur |-> u.cur, scratch |-> 0]
    BY <2>1 DEF clear_scratch, u
  <2> HIDE DEF v
  <2> QED
    BY <2>1, <2>2 DEF IsVector
<1> HIDE DEF v
<1>3. IsBuilder(d)
  BY <1>2 DEF IsBuilder
<1> HIDE DEF d
<1>4. IsBuilder(aligned)
  BY <1>1, <1>3, PreAlignWrites DEF Wrote
<1>5. e = PushOffset(aligned, root)
  OBVIOUS
<1> HIDE DEF aligned, e
<1>6. Holds(e.buf, GetSize(e), Scalar(GetSize(e) - root, UOFFSET)) /\ Wrote(aligned, e)
  BY <1>4, <1>5, PushOffsetHolds
<1>7. c = [e EXCEPT !.finished = TRUE]
  BY DEF Finish, e, aligned, d, v
<1>8. c.buf = e.buf /\ GetSize(c) = GetSize(e)
  BY <1>6, <1>7 DEF Wrote, IsBuilder, GetSize
<1> QED
  BY <1>6, <1>8

\* Nothing else finishes a message, and a finished one is only cleared.
LEMMA OnlyFinished ==
  ASSUME BuildInv, Next, building'.kind = "finished"
  PROVE  \E o \in Objects : FinishMessage(o)
<1> USE DEF Nothing
<1>1. Ready => building.kind = "nothing"
  BY DEF Ready
<1>2. ASSUME NEW chars \in Strings, WriteString(chars) \/ WriteSharedString(chars)
      PROVE  FALSE
  BY <1>1, <1>2 DEF WriteString, WriteSharedString
<1>3. ASSUME NEW v \in ScalarVectors, WriteScalars(v)
      PROVE  FALSE
  BY <1>1, <1>3 DEF WriteScalars
<1>4. ASSUME NEW v \in Vectors, BeginVector(v.type, v.len)
      PROVE  FALSE
  BY <1>4 DEF BeginVector
<1>5. ASSUME NEW o \in Objects, PushItem(o)
      PROVE  FALSE
  BY <1>5, BuildingVector DEF PushItem
<1>6. ASSUME FinishVector \/ FinishTable \/ Reuse
      PROVE  FALSE
  BY <1>6 DEF FinishVector, FinishTable, Reuse
<1>7. ASSUME NEW name \in DOMAIN Tables, BeginTable(name)
      PROVE  FALSE
  BY <1>7 DEF BeginTable
<1>8. ASSUME NEW f, NEW bytes, AddScalar(f, bytes)
      PROVE  FALSE
  BY <1>8, BuildingTable DEF AddScalar, Adding, Added
<1>9. ASSUME NEW f, NEW o, AddObject(f, o)
      PROVE  FALSE
  BY <1>9, BuildingTable DEF AddObject, Adding, Added
<1> QED
  BY <1>2, <1>3, <1>4, <1>5, <1>6, <1>7, <1>8, <1>9 DEF Next

LEMMA NextRootHolds == BuildInv /\ RootHolds /\ [Next]_vars => RootHolds'
<1> SUFFICES ASSUME BuildInv, RootHolds, [Next]_vars, building'.kind = "finished"
             PROVE  RootHolds'
  BY DEF RootHolds
<1>1. CASE \E o \in Objects : FinishMessage(o)
  <2>1. PICK o \in Objects : FinishMessage(o)
    BY <1>1
  <2>2. /\ builder' = Finish(builder, o.off) /\ building'.root = o /\ objects' = objects
        /\ building = Nothing
    BY <2>1 DEF FinishMessage
  <2>3. o.off \in Int /\ IsBuilder(builder)
    BY OffsetsOK DEF BuildInv, BuilderOK
  <2>4. Holds(builder'.buf, GetSize(builder'), Scalar(GetSize(builder') - o.off, UOFFSET))
    BY <2>2, <2>3, FinishHolds
  <2> QED
    BY <2>2, <2>4 DEF RootHolds, Objects
<1>2. CASE UNCHANGED vars
  BY <1>2 DEF RootHolds, vars, Objects
<1> QED
  BY <1>1, <1>2, OnlyFinished

-----------------------------------------------------------------------------
(***************************************************************************)
(* Alignment. Everything is put at a multiple of its size from the end,    *)
(* and minalign is at least the size of everything that has been put, so   *)
(* that a buffer whose size is a multiple of minalign is aligned from its  *)
(* first byte as well.                                                     *)
(***************************************************************************)
LEMMA SizesAre ==
  /\ 1 \in Sizes /\ 4 \in Sizes
  /\ \A n \in Sizes : n \in Nat \ {0}
BY DEF Sizes

LEMMA SmallerDivides ==
  ASSUME NEW n \in Nat, NEW m \in Sizes, NEW each \in Sizes, each <= m, n % m = 0
  PROVE  n % each = 0
<1>1. /\ n % 1 = 0
      /\ n % 8 = 0 => n % 4 = 0 /\ n % 2 = 0
      /\ n % 4 = 0 => n % 2 = 0
  OBVIOUS
<1>2. m = 1 \/ m = 2 \/ m = 4 \/ m = 8
  BY DEF Sizes
<1>3. each = 1 \/ each = 2 \/ each = 4 \/ each = 8
  BY DEF Sizes
<1> QED
  BY <1>1, <1>2, <1>3

LEMMA DifferenceDivides ==
  ASSUME NEW n \in Nat, NEW k \in Int, NEW each \in Sizes, n % each = 0, k % each = 0
  PROVE  (n - k) % each = 0
<1>1. /\ (n - k) % 1 = 0
      /\ n % 2 = 0 /\ k % 2 = 0 => (n - k) % 2 = 0
      /\ n % 4 = 0 /\ k % 4 = 0 => (n - k) % 4 = 0
      /\ n % 8 = 0 /\ k % 8 = 0 => (n - k) % 8 = 0
  OBVIOUS
<1>2. each = 1 \/ each = 2 \/ each = 4 \/ each = 8
  BY DEF Sizes
<1> QED
  BY <1>1, <1>2

\* c knows of the alignments b knows of, and of n.
Aligns(b, c, n) ==
  /\ b.minalign \in Sizes /\ c.minalign \in Sizes
  /\ b.minalign <= c.minalign /\ n <= c.minalign

LEMMA AlignsThen ==
  ASSUME NEW b, NEW c, NEW m, Aligns(b, c, m), NEW d, NEW n, Aligns(c, d, n)
  PROVE  Aligns(b, d, n)
<1>1. /\ b.minalign \in Nat /\ c.minalign \in Nat /\ d.minalign \in Nat
  BY SizesAre DEF Aligns
<1> QED
  BY <1>1 DEF Aligns

LEMMA AlignsTransitive ==
  ASSUME NEW b, NEW c, NEW d, NEW m \in Sizes, NEW n \in Sizes, Aligns(b, c, m), Aligns(c, d, n)
  PROVE  Aligns(b, d, m) /\ Aligns(b, d, n)
<1>1. /\ b.minalign \in Nat /\ c.minalign \in Nat /\ d.minalign \in Nat /\ m \in Nat
  BY SizesAre DEF Aligns
<1> QED
  BY <1>1 DEF Aligns

LEMMA AlignsItself ==
  ASSUME NEW b, b.minalign \in Sizes, NEW c, c.minalign = b.minalign
  PROVE  Aligns(b, c, 1)
<1>1. b.minalign \in Nat \ {0}
  BY SizesAre
<1> QED
  BY <1>1 DEF Aligns

LEMMA BiggestAligns ==
  ASSUME NEW b, b.minalign \in Sizes, NEW n \in Sizes, NEW c, c.minalign = Biggest(b.minalign, n)
  PROVE  Aligns(b, c, n)
<1>1. b.minalign \in Nat /\ n \in Nat
  BY SizesAre
<1> QED
  BY <1>1 DEF Aligns, Biggest

LEMMA OnlyBytes ==
  ASSUME NEW b, "minalign" \in DOMAIN b, NEW v
  PROVE  [b EXCEPT !.buf = v].minalign = b.minalign /\ DOMAIN [b EXCEPT !.buf = v] = DOMAIN b
OBVIOUS

LEMMA BuilderDomain ==
  ASSUME NEW b, IsBuilder(b)
  PROVE  "minalign" \in DOMAIN b /\ "buf" \in DOMAIN b
BY DEF IsBuilder

LEMMA FilledAligns ==
  ASSUME NEW b, IsBuilder(b), b.minalign \in Sizes, NEW n \in Sizes, NEW p
  PROVE  Aligns(b, [TrackMinAlign(b, n) EXCEPT !.buf = fill(@, p)], n)
<1> DEFINE c == TrackMinAlign(b, n)
           v == fill(c.buf, p)
<1>1. c.minalign = Biggest(b.minalign, n) /\ "minalign" \in DOMAIN c
  BY BuilderDomain DEF TrackMinAlign
<1>2. [c EXCEPT !.buf = fill(@, p)] = [c EXCEPT !.buf = v]
  OBVIOUS
<1> HIDE DEF c, v
<1>3. [c EXCEPT !.buf = v].minalign = c.minalign
  BY <1>1, OnlyBytes
<1>4. Aligns(b, [c EXCEPT !.buf = v], n)
  BY <1>1, <1>3, BiggestAligns
<1> QED
  BY <1>2, <1>4 DEF c

LEMMA AlignAligns ==
  ASSUME NEW b, IsBuilder(b), b.minalign \in Sizes, NEW n \in Sizes
  PROVE  Aligns(b, Align(b, n), n)
<1>1. Align(b, n) = [TrackMinAlign(b, n) EXCEPT !.buf = fill(@, PaddingBytes(size(b.buf), n))]
  BY DEF Align, TrackMinAlign, IsBuilder
<1> QED
  BY <1>1, FilledAligns

LEMMA PreAlignAligns ==
  ASSUME NEW b, IsBuilder(b), b.minalign \in Sizes, NEW n \in Sizes, NEW len
  PROVE  Aligns(b, PreAlign(b, len, n), 1) /\ (len # 0 => Aligns(b, PreAlign(b, len, n), n))
<1>1. CASE len = 0
  BY <1>1, AlignsItself DEF PreAlign
<1>2. CASE len # 0
  <2>1. PreAlign(b, len, n) =
          [TrackMinAlign(b, n) EXCEPT !.buf = fill(@, PaddingBytes(size(b.buf) + len, n))]
    BY <1>2 DEF PreAlign, TrackMinAlign, IsBuilder
  <2>2. Aligns(b, PreAlign(b, len, n), n)
    BY <2>1, FilledAligns
  <2>3. 1 <= PreAlign(b, len, n).minalign
    <3>1. PreAlign(b, len, n).minalign \in Nat \ {0}
      BY <2>2, SizesAre DEF Aligns
    <3> QED
      BY <3>1
  <2> QED
    BY <2>2, <2>3 DEF Aligns
<1> QED
  BY <1>1, <1>2

LEMMA PushBytesAligns ==
  ASSUME NEW b, IsBuilder(b), b.minalign \in Sizes, NEW bytes
  PROVE  Aligns(b, PushBytes(b, bytes), 1)
<1>1. PushBytes(b, bytes).minalign = b.minalign
  BY BuilderDomain, OnlyBytes DEF PushBytes
<1> QED
  BY <1>1, AlignsItself

LEMMA PushElementAligns ==
  ASSUME NEW b, IsBuilder(b), b.minalign \in Sizes, NEW bytes, Len(bytes) \in Sizes
  PROVE  Aligns(b, PushElement(b, bytes), Len(bytes))
<1> DEFINE n == Len(bytes)
           a == Align(b, n)
<1>1. PushElement(b, bytes) = PushBytes(a, bytes)
  BY DEF PushElement
<1>2. n \in Sizes
  OBVIOUS
<1> HIDE DEF n
<1>3. Aligns(b, a, n) /\ IsBuilder(a)
  BY <1>2, AlignAligns, AlignWrites, SizesAre DEF Wrote
<1> HIDE DEF a
<1>4. Aligns(a, PushBytes(a, bytes), 1)
  BY <1>3, PushBytesAligns DEF Aligns
<1>5. Aligns(b, PushBytes(a, bytes), n)
  BY <1>2, <1>3, <1>4, AlignsTransitive, SizesAre
<1> QED
  BY <1>1, <1>5 DEF n

LEMMA PushOffsetAligns ==
  ASSUME NEW b, IsBuilder(b), b.minalign \in Sizes, NEW off \in Int
  PROVE  Aligns(b, PushOffset(b, off), 4)
<1> DEFINE a == Align(b, UOFFSET)
           value == GetSize(a) - off + UOFFSET
           s == Scalar(value, UOFFSET)
<1>1. Aligns(b, a, 4) /\ IsBuilder(a)
  BY AlignAligns, AlignWrites, SizesAre DEF Wrote, UOFFSET
<1>2. PushOffset(b, off) = PushElement(a, s)
  BY DEF PushOffset
<1> HIDE DEF a
<1>3. value \in Int
  BY <1>1, BuilderSize DEF UOFFSET
<1> HIDE DEF value
<1>4. Len(s) = 4
  BY <1>3, ScalarIsElement
<1> HIDE DEF s
<1>5. Aligns(a, PushElement(a, s), 4)
  BY <1>1, <1>4, PushElementAligns, SizesAre DEF Aligns
<1> QED
  BY <1>1, <1>2, <1>5, AlignsTransitive, SizesAre

\* An element of four bytes, as offsets and lengths are.
LEMMA NumberAligns ==
  ASSUME NEW b, IsBuilder(b), b.minalign \in Sizes, NEW value \in Int
  PROVE  /\ Aligns(b, PushElement(b, Scalar(value, UOFFSET)), 4)
         /\ GetSize(PushElement(b, Scalar(value, UOFFSET))) % 4 = 0
<1> DEFINE s == Scalar(value, UOFFSET)
<1>1. s \in Seq(Byte) \ {<< >>} /\ Len(s) = 4 /\ Len(s) \in Sizes
  BY ScalarIsElement, SizesAre
<1> HIDE DEF s
<1>2. Aligns(b, PushElement(b, s), Len(s))
  BY <1>1, PushElementAligns
<1>3. GetSize(PushElement(b, s)) % Len(s) = 0
  BY <1>1, ElementAligned
<1> QED
  BY <1>1, <1>2, <1>3 DEF s

LEMMA CreateStringAligns ==
  ASSUME NEW b, IsBuilder(b), b.minalign \in Sizes, NEW chars \in Seq(Byte)
  PROVE  Aligns(b, CreateString(b, chars), 4) /\ GetSize(CreateString(b, chars)) % 4 = 0
<1> DEFINE c == PreAlign(b, Len(chars) + 1, UOFFSET)
           d == PushBytes(c, << 0 >>)
           e == PushBytes(d, chars)
<1>1. CreateString(b, chars) = PushElement(e, Scalar(Len(chars), UOFFSET))
  BY DEF CreateString
<1>2. Aligns(b, c, 1) /\ IsBuilder(c)
  <2>1. UOFFSET \in Sizes /\ UOFFSET \in Nat \ {0} /\ Len(chars) + 1 \in Nat
    BY DEF UOFFSET, Sizes
  <2> QED
    BY <2>1, PreAlignAligns, PreAlignWrites DEF Wrote
<1> HIDE DEF c
<1>3. << 0 >> \in Seq(Byte)
  <2>1. 0 \in Byte
    BY DEF Byte, BYTE
  <2> QED
    BY <2>1
<1>4. Aligns(c, d, 1) /\ IsBuilder(d)
  BY <1>2, <1>3, PushBytesAligns, PushBytesWrites DEF Aligns, Wrote
<1> HIDE DEF d
<1>5. Aligns(d, e, 1) /\ IsBuilder(e)
  BY <1>4, PushBytesAligns, PushBytesWrites DEF Aligns, Wrote
<1> HIDE DEF e
<1>6. Aligns(b, d, 1)
  BY <1>2, <1>4, SizesAre, AlignsTransitive
<1>7. Aligns(b, e, 1)
  BY <1>5, <1>6, SizesAre, AlignsTransitive
<1>8. Len(chars) \in Int /\ e.minalign \in Sizes
  BY <1>7 DEF Aligns
<1>9. /\ Aligns(e, PushElement(e, Scalar(Len(chars), UOFFSET)), 4)
      /\ GetSize(PushElement(e, Scalar(Len(chars), UOFFSET))) % 4 = 0
  BY <1>5, <1>8, NumberAligns
<1> DEFINE f == PushElement(e, Scalar(Len(chars), UOFFSET))
<1>10. Aligns(e, f, 4) /\ GetSize(f) % 4 = 0
  BY <1>9
<1> HIDE DEF f
<1>11. Aligns(b, f, 4)
  BY <1>7, <1>10, AlignsThen
<1> QED
  BY <1>1, <1>10, <1>11 DEF f

PoolAligned(b) == \A off \in b.pool : off % 4 = 0

LEMMA SharedStringAligns ==
  ASSUME NEW b, IsBuilder(b), b.minalign \in Sizes, PoolAligned(b), NEW chars \in Seq(Byte),
         NEW shared, shared = CreateSharedString(b, chars)
  PROVE  Aligns(b, shared.builder, 4) /\ PoolAligned(shared.builder) /\ shared.off % 4 = 0
<1> DEFINE c == CreateString(b, chars)
           hits == {off \in b.pool : PooledString(c.buf, off) = chars}
<1>1. Aligns(b, c, 4) /\ GetSize(c) % 4 = 0 /\ IsBuilder(c) /\ c.pool = b.pool
  BY CreateStringAligns, CreateStringWrites DEF Wrote
<1>2. shared = IF hits # {}
               THEN [builder |-> [c EXCEPT !.buf = pop(@, size(@) - GetSize(b))],
                     off |-> CHOOSE off \in hits : TRUE]
               ELSE [builder |-> [c EXCEPT !.pool = @ \cup {GetSize(c)}], off |-> GetSize(c)]
  BY DEF CreateSharedString
<1> HIDE DEF c
<1>3. CASE hits # {}
  <2> DEFINE v == pop(c.buf, size(c.buf) - GetSize(b))
  <2>1. shared.builder = [c EXCEPT !.buf = v] /\ shared.off = CHOOSE off \in hits : TRUE
    BY <1>2, <1>3
  <2>2. shared.off \in b.pool
    BY <1>3, <2>1
  <2> HIDE DEF v
  <2>3. shared.builder.minalign = c.minalign /\ shared.builder.pool = c.pool
    BY <1>1, <2>1 DEF IsBuilder
  <2> QED
    BY <1>1, <2>2, <2>3 DEF Aligns, PoolAligned
<1>4. CASE hits = {}
  <2>1. shared.builder = [c EXCEPT !.pool = @ \cup {GetSize(c)}] /\ shared.off = GetSize(c)
    BY <1>2, <1>4
  <2>2. shared.builder.minalign = c.minalign /\ shared.builder.pool = c.pool \cup {GetSize(c)}
    BY <1>1, <2>1 DEF IsBuilder
  <2> QED
    BY <1>1, <2>1, <2>2 DEF Aligns, PoolAligned
<1> QED
  BY <1>3, <1>4

LEMMA NestedAligns ==
  ASSUME NEW b, IsBuilder(b), b.minalign \in Sizes, NEW nested
  PROVE  Aligns(b, [b EXCEPT !.nested = nested], 1)
<1>1. [b EXCEPT !.nested = nested].minalign = b.minalign
  BY DEF IsBuilder
<1> QED
  BY <1>1, AlignsItself

LEMMA StartVectorAligned ==
  ASSUME NEW b, IsBuilder(b), b.minalign \in Sizes, NEW len \in Nat, NEW each \in Sizes
  PROVE  /\ Aligns(b, StartVector(b, len, each), 1)
         /\ len # 0 => Aligns(b, StartVector(b, len, each), each)
<1> DEFINE n == len * each
           c == PreAlign(b, n, UOFFSET)
           d == PreAlign(c, n, each)
<1>1. n \in Nat /\ UOFFSET \in Sizes /\ UOFFSET \in Nat \ {0} /\ each \in Nat \ {0}
  BY SizesAre DEF UOFFSET
<1>2. len # 0 => n # 0
  <2>1. each = 1 \/ each = 2 \/ each = 4 \/ each = 8
    BY DEF Sizes
  <2> QED
    BY <2>1
<1>3. StartVector(b, len, each) = [d EXCEPT !.nested = TRUE]
  BY DEF StartVector
<1> HIDE DEF n
<1>4. Aligns(b, c, 1) /\ IsBuilder(c)
  BY <1>1, PreAlignAligns, PreAlignWrites DEF Wrote
<1> HIDE DEF c
<1>5. Aligns(c, d, 1) /\ (n # 0 => Aligns(c, d, each)) /\ IsBuilder(d)
  BY <1>1, <1>4, PreAlignAligns, PreAlignWrites DEF Wrote, Aligns
<1> HIDE DEF d
<1>6. Aligns(d, [d EXCEPT !.nested = TRUE], 1)
  BY <1>5, NestedAligns DEF Aligns
<1>7. Aligns(b, d, 1) /\ (n # 0 => Aligns(b, d, each))
  BY <1>4, <1>5, AlignsTransitive, SizesAre
<1> QED
  BY <1>2, <1>3, <1>6, <1>7, AlignsTransitive, SizesAre

LEMMA EndVectorAligns ==
  ASSUME NEW b, IsBuilder(b), b.minalign \in Sizes, NEW len \in Nat
  PROVE  Aligns(b, EndVector(b, len), 4) /\ GetSize(EndVector(b, len)) % 4 = 0
<1> DEFINE c == [b EXCEPT !.nested = FALSE]
<1>1. Aligns(b, c, 1) /\ IsBuilder(c)
  BY NestedAligns, NestedWrites DEF Wrote
<1>2. EndVector(b, len) = PushElement(c, Scalar(len, UOFFSET))
  BY DEF EndVector
<1> HIDE DEF c
<1>3. /\ Aligns(c, PushElement(c, Scalar(len, UOFFSET)), 4)
      /\ GetSize(PushElement(c, Scalar(len, UOFFSET))) % 4 = 0
  BY <1>1, NumberAligns DEF Aligns
<1> DEFINE d == PushElement(c, Scalar(len, UOFFSET))
<1>4. Aligns(c, d, 4) /\ GetSize(d) % 4 = 0
  BY <1>3
<1> HIDE DEF d
<1>5. Aligns(b, d, 4)
  BY <1>1, <1>4, AlignsThen
<1> QED
  BY <1>2, <1>4, <1>5 DEF d

LEMMA CreateVectorAligns ==
  ASSUME NEW b, IsBuilder(b), b.minalign \in Sizes, NEW each \in Sizes,
         NEW elements \in Seq([1 .. each -> Byte])
  PROVE  /\ Aligns(b, CreateVector(b, elements, each), 4)
         /\ GetSize(CreateVector(b, elements, each)) % 4 = 0
         /\ elements # << >> => Aligns(b, CreateVector(b, elements, each), each)
<1> DEFINE n == Len(elements)
           bytes == [i \in 1 .. n * each |->
                       elements[(i - 1) \div each + 1][((i - 1) % each) + 1]]
           c == StartVector(b, n, each)
           d == PushBytes(c, bytes)
<1>1. n \in Nat /\ each \in Nat \ {0} /\ (elements # << >> => n # 0)
  BY SizesAre
<1> DEFINE m == n * each
<1>2. bytes \in [1 .. m -> Byte]
  <2> SUFFICES ASSUME NEW i \in 1 .. n * each
               PROVE  elements[(i - 1) \div each + 1][((i - 1) % each) + 1] \in Byte
    OBVIOUS
  <2> DEFINE j == (i - 1) \div each + 1
             k == ((i - 1) % each) + 1
  <2>1. j \in 1 .. n /\ k \in 1 .. each
    <3> HIDE DEF n
    <3> QED
      BY <1>1, ElementIndex
  <2> HIDE DEF j, k
  <2>2. elements[j] \in [1 .. each -> Byte]
    BY <2>1
  <2>3. elements[j][k] \in Byte
    BY <2>1, <2>2
  <2> QED
    BY <2>3 DEF j, k
<1>3. CreateVector(b, elements, each) = EndVector(d, n)
  BY DEF CreateVector
<1> HIDE DEF bytes
<1>8. m \in Nat
  BY <1>1
<1> HIDE DEF m
<1>9. bytes \in Seq(Byte)
  BY <1>2, <1>8, FunctionIsSeq
<1> HIDE DEF n
<1>4. Aligns(b, c, 1) /\ (n # 0 => Aligns(b, c, each)) /\ IsBuilder(c)
  BY <1>1, StartVectorAligned, StartVectorWrites DEF Wrote
<1> HIDE DEF c
<1>5. Aligns(c, d, 1) /\ IsBuilder(d)
  BY <1>9, <1>4, PushBytesAligns, PushBytesWrites DEF Aligns, Wrote
<1> HIDE DEF d
<1>6. Aligns(b, d, 1) /\ (n # 0 => Aligns(b, d, each))
  BY <1>4, <1>5, AlignsTransitive, SizesAre
<1>7. Aligns(d, EndVector(d, n), 4) /\ GetSize(EndVector(d, n)) % 4 = 0
  BY <1>1, <1>5, EndVectorAligns DEF Aligns
<1> QED
  BY <1>1, <1>3, <1>6, <1>7, AlignsTransitive, SizesAre

LEMMA TrackFieldAligns ==
  ASSUME NEW b, NEW c, IsBuilder(c), NEW n, Aligns(b, c, n), NEW voffset, NEW off
  PROVE  Aligns(b, TrackField(c, voffset, off), n)
<1> DEFINE v == scratch_push_small(c.buf, Scalar(off, UOFFSET) \o Scalar(voffset, VOFFSET) \o << Uninit, Uninit >>)
           max == Biggest(c.max_voffset, voffset)
<1>1. TrackField(c, voffset, off) = [c EXCEPT !.buf = v, !.num_field_loc = @ + 1, !.max_voffset = max]
  BY DEF TrackField
<1> HIDE DEF v, max
<1>2. TrackField(c, voffset, off).minalign = c.minalign
  BY <1>1, BuilderDomain
<1> QED
  BY <1>2 DEF Aligns

LEMMA AddElementAligns ==
  ASSUME NEW b, IsBuilder(b), b.minalign \in Sizes, NEW bytes \in Seq(Byte) \ {<< >>},
         Len(bytes) \in Sizes, NEW voffset, NEW default, NEW c, c = AddElement(b, voffset, bytes, default)
  PROVE  Aligns(b, c, 1) /\ (bytes # default => Aligns(b, c, Len(bytes)))
<1> DEFINE pushed == PushElement(b, bytes)
           n == Len(bytes)
           d == TrackField(pushed, voffset, GetSize(pushed))
<1>1. c = IF bytes = default /\ ~force_defaults THEN b ELSE d
  BY DEF AddElement
<1>2. Aligns(b, pushed, n) /\ IsBuilder(pushed)
  BY PushElementAligns, PushElementWrites DEF Wrote
<1> HIDE DEF pushed
<1>3. Aligns(b, d, n) /\ n \in Nat \ {0}
  BY <1>2, TrackFieldAligns, SizesAre
<1> HIDE DEF d, n
<1>4. Aligns(b, d, 1)
  BY <1>3, SizesAre DEF Aligns
<1>5. Aligns(b, b, 1)
  BY AlignsItself
<1> QED
  BY <1>1, <1>3, <1>4, <1>5 DEF n

LEMMA AddOffsetAligns ==
  ASSUME NEW b, IsBuilder(b), b.minalign \in Sizes, NEW voffset, NEW off \in Int
  PROVE  Aligns(b, AddOffset(b, voffset, off), 4)
<1> DEFINE pushed == PushOffset(b, off)
<1>1. AddOffset(b, voffset, off) = TrackField(pushed, voffset, GetSize(pushed))
  BY DEF AddOffset
<1>2. Aligns(b, pushed, 4) /\ IsBuilder(pushed)
  BY PushOffsetAligns, PushOffsetWrites DEF Wrote
<1> HIDE DEF pushed
<1> QED
  BY <1>1, <1>2, TrackFieldAligns

LEMMA EndTableAligns ==
  ASSUME NEW b, IsBuilder(b), b.minalign \in Sizes, NEW start
  PROVE  Aligns(b, EndTable(b, start), 4) /\ TableOffset(b) % 4 = 0
<1> DEFINE placed == PushElement(b, Scalar(0, UOFFSET))
           loc == GetSize(placed)
           vtsize == Biggest(b.max_voffset + VOFFSET, FieldIndexToOffset(1))
           vtable == VTable(FieldLocs(b), vtsize, loc, start)
           wrote == PushBytes(placed, vtable)
           pushed == ClearOffsets(wrote)
           same == SameVTable(pushed.buf, vtable)
           vt_use == IF same = {}
                     THEN GetSize(pushed)
                     ELSE KnownVTables(pushed.buf)[CHOOSE k \in same : \A j \in same : k <= j]
           kept == IF same = {}
                   THEN scratch_push_small(pushed.buf, Scalar(vt_use, UOFFSET))
                   ELSE pop(pushed.buf, size(pushed.buf) - loc)
           last == PutAt(kept, loc, Scalar(vt_use - loc, UOFFSET))
<1>1. EndTable(b, start) = [pushed EXCEPT !.buf = last, !.nested = FALSE]
  BY DEF EndTable
<1>2. TableOffset(b) = loc
  BY DEF TableOffset
<1>3. Aligns(b, placed, 4) /\ IsBuilder(placed) /\ loc % 4 = 0
  <2>1. 0 \in Int
    OBVIOUS
  <2>2. Aligns(b, placed, 4) /\ loc % 4 = 0
    BY <2>1, NumberAligns
  <2>3. Wrote(b, placed)
    BY <2>1, ScalarIsElement, PushElementWrites
  <2> QED
    BY <2>2, <2>3 DEF Wrote
<1> HIDE DEF last, kept, vt_use, same
<1>4. pushed = [wrote EXCEPT !.buf = scratch_pop(@, wrote.num_field_loc * FIELD_LOC),
                             !.num_field_loc = 0, !.max_voffset = 0]
  BY DEF ClearOffsets
<1>5. wrote = [placed EXCEPT !.buf = push(@, vtable)]
  BY DEF PushBytes
<1> HIDE DEF pushed, vtable, placed
<1>6. wrote.minalign = placed.minalign /\ "minalign" \in DOMAIN wrote
  BY <1>3, <1>5, BuilderDomain
<1> HIDE DEF wrote
<1>7. pushed.minalign = wrote.minalign /\ "minalign" \in DOMAIN pushed
  BY <1>4, <1>6
<1>8. EndTable(b, start).minalign = pushed.minalign
  BY <1>1, <1>7
<1>9. EndTable(b, start).minalign = placed.minalign
  BY <1>6, <1>7, <1>8
<1> QED
  BY <1>2, <1>3, <1>9 DEF Aligns

LEMMA ClearAligns ==
  ASSUME NEW b
  PROVE  Clear(b).minalign = 1 /\ Clear(b).pool = {}
BY DEF Clear, EmptyBuilder

\* The padding of Finish lies behind the root offset: both together are a multiple
\* of minalign.
LEMMA FinishAligns ==
  ASSUME NEW b, IsBuilder(b), b.minalign \in Sizes, 4 <= b.minalign, NEW root \in Int,
         NEW c, c = Finish(b, root)
  PROVE  Aligns(b, c, 4) /\ GetSize(c) % b.minalign = 0
<1> DEFINE m == b.minalign
           v == clear_scratch(b.buf)
           d == [b EXCEPT !.buf = v]
           aligned == PreAlign(d, UOFFSET, m)
           e == PushOffset(aligned, root)
<1>1. IsVector(b.buf) /\ m \in Nat \ {0} /\ UOFFSET = 4
  BY BuilderSize DEF UOFFSET
<1>2. IsVector(v) /\ v \in [buf : Seq(Cell), cur : Nat, scratch : Nat]
  <2> DEFINE u == b.buf
  <2>1. /\ u = [buf |-> u.buf, cur |-> u.cur, scratch |-> u.scratch]
        /\ u.buf \in Seq(Cell) /\ u.cur \in Nat /\ u.cur <= Len(u.buf)
    BY <1>1, VectorTypes DEF IsVector
  <2> HIDE DEF u
  <2>2. v = [buf |-> u.buf, cur |-> u.cur, scratch |-> 0]
    BY <2>1 DEF clear_scratch, u
  <2> HIDE DEF v
  <2> QED
    BY <2>1, <2>2 DEF IsVector
<1> HIDE DEF v
<1>3. IsBuilder(d) /\ d.minalign = m
  BY <1>2 DEF IsBuilder
<1>4. c = [e EXCEPT !.finished = TRUE]
  BY DEF Finish, v
<1> HIDE DEF d
<1>5. IsBuilder(aligned)
  BY <1>1, <1>3, PreAlignWrites DEF Wrote
<1>6. aligned.minalign = m
  <2>1. aligned = [TrackMinAlign(d, m) EXCEPT !.buf = fill(@, PaddingBytes(size(@) + UOFFSET, m))]
    BY <1>1 DEF PreAlign
  <2> DEFINE t == TrackMinAlign(d, m)
             w == fill(t.buf, PaddingBytes(size(t.buf) + UOFFSET, m))
  <2>2. aligned = [t EXCEPT !.buf = w]
    BY <2>1
  <2>3. t.minalign = Biggest(d.minalign, m) /\ "minalign" \in DOMAIN t
    BY <1>3, BuilderDomain DEF TrackMinAlign
  <2> HIDE DEF w, t, aligned
  <2>4. aligned.minalign = t.minalign
    BY <2>2, <2>3, OnlyBytes
  <2> QED
    BY <1>1, <1>3, <2>3, <2>4 DEF Biggest
<1> DEFINE n == GetSize(d)
           pad == PaddingBytes(n + 4, m)
<1>7. n \in Nat /\ pad \in Nat /\ GetSize(aligned) = n + pad
  <2>1. n \in Nat
    BY <1>3, BuilderSize
  <2> HIDE DEF n
  <2>2. n + 4 \in Nat
    BY <2>1
  <2>3. pad \in Nat
    BY <1>1, <2>2, PaddingType
  <2>4. GetSize(aligned) = GetSize(d) + (IF UOFFSET = 0 THEN 0 ELSE PaddingBytes(GetSize(d) + UOFFSET, m))
    BY <1>1, <1>3, PreAlignWrites
  <2> QED
    BY <1>1, <2>1, <2>3, <2>4 DEF n
<1> HIDE DEF aligned, m
<1>8. (n + 4 + pad) % m = 0
  <2>1. n + 4 \in Nat
    BY <1>7
  <2> QED
    BY <1>1, <2>1, Padded
<1> HIDE DEF n, pad
<1> DEFINE a == GetSize(aligned)
<1>9. a \in Nat /\ (a + 4) % m = 0
  <2>1. n + 4 + pad = n + pad + 4 /\ n + pad \in Nat
    BY <1>7
  <2> QED
    BY <1>7, <1>8, <2>1
<1> HIDE DEF a
<1>10. (a + 4) % 4 = 0 /\ a % 4 = 0
  <2>1. a + 4 \in Nat /\ 4 \in Sizes /\ 4 <= m /\ m \in Sizes
    BY <1>9, SizesAre DEF m
  <2>2. (a + 4) % 4 = 0
    BY <1>9, <2>1, SmallerDivides
  <2> QED
    BY <1>9, <2>2
<1>11. /\ Wrote(aligned, e) /\ GetSize(e) = a + PaddingBytes(a, 4) + 4
       /\ Aligns(aligned, e, 4)
  <2>1. e = PushOffset(aligned, root) /\ aligned.minalign \in Sizes
    BY <1>6 DEF m
  <2> HIDE DEF e
  <2> QED
    BY <1>5, <2>1, PushOffsetHolds, PushOffsetAligns DEF a
<1>12. PaddingBytes(a, 4) = 0
  BY <1>9, <1>10 DEF PaddingBytes
<1>13. GetSize(e) = a + 4
  BY <1>9, <1>11, <1>12
<1> HIDE DEF e
<1>14. c.minalign = e.minalign /\ GetSize(c) = GetSize(e)
  BY <1>4, <1>11 DEF Wrote, IsBuilder, GetSize
<1>15. Aligns(b, c, 4)
  BY <1>6, <1>11, <1>14 DEF Aligns, m
<1> QED
  BY <1>9, <1>13, <1>14, <1>15 DEF m

-----------------------------------------------------------------------------
\* Where an object lies, and what it asks of minalign: as much as its largest scalar.
ScalarsFit(name, values, m) ==
  \A f \in DOMAIN Tables[name] :
    LET field == Tables[name][f]
    IN  field.kind = "scalar" /\ values[f] # field.default => field.size \in Sizes /\ field.size <= m

Fits(o, m) ==
  /\ o.off % 4 = 0 /\ 4 <= m
  /\ o.type.kind # "scalar"
  /\ o.type.kind = "vector" /\ o.type.of.kind = "scalar" /\ o.value # << >> =>
       o.type.of.size \in Sizes /\ o.type.of.size <= m
  /\ o.type.kind = "table" => ScalarsFit(o.type.name, o.value, m)

BuildingFits ==
  /\ building.kind = "vector" /\ building.type.kind = "scalar" => building.elements = << >>
  /\ building.kind = "table" =>
       /\ DOMAIN building.values = DOMAIN Tables[building.name]
       /\ ScalarsFit(building.name, building.values, builder.minalign)
  /\ building.kind = "finished" =>
       \E m \in Sizes : 4 <= m /\ GetSize(builder) % m = 0 /\ \A o \in Objects : Fits(o, m)

AlignInv ==
  /\ builder.minalign \in Sizes
  /\ PoolAligned(builder)
  /\ \A o \in Objects : Fits(o, builder.minalign)
  /\ BuildingFits

LEMMA ScalarsFitMore ==
  ASSUME NEW m \in Sizes, NEW n \in Sizes, m <= n, NEW name, NEW values, ScalarsFit(name, values, m)
  PROVE  ScalarsFit(name, values, n)
<1> SUFFICES ASSUME NEW f \in DOMAIN Tables[name],
                    Tables[name][f].kind = "scalar", values[f] # Tables[name][f].default
             PROVE  Tables[name][f].size \in Sizes /\ Tables[name][f].size <= n
  BY DEF ScalarsFit
<1>1. Tables[name][f].size \in Sizes /\ Tables[name][f].size <= m
  BY DEF ScalarsFit
<1>2. Tables[name][f].size \in Nat /\ m \in Nat /\ n \in Nat
  BY <1>1, SizesAre
<1> QED
  BY <1>1, <1>2

LEMMA FitsMore ==
  ASSUME NEW m \in Sizes, NEW n \in Sizes, m <= n, NEW o, Fits(o, m)
  PROVE  Fits(o, n)
<1>1. m \in Nat /\ n \in Nat /\ \A k \in Sizes : k \in Nat
  BY SizesAre
<1>2. o.type.kind = "table" => ScalarsFit(o.type.name, o.value, n)
  BY ScalarsFitMore DEF Fits
<1>3. ASSUME o.type.of.size \in Sizes, o.type.of.size <= m
      PROVE  o.type.of.size <= n
  <2>1. o.type.of.size \in Nat
    BY <1>1, <1>3
  <2> QED
    BY <1>1, <1>3, <2>1
<1>4. 4 <= n
  BY <1>1 DEF Fits
<1> QED
  BY <1>2, <1>3, <1>4 DEF Fits

\* A step that writes nothing but what is being built.
LEMMA BuildingAlignStep ==
  ASSUME AlignInv, NEW n, Aligns(builder, builder', n), PoolAligned(builder'),
         objects' = objects, BuildingFits'
  PROVE  AlignInv'
<1>1. builder.minalign \in Sizes /\ builder'.minalign \in Sizes /\ builder.minalign <= builder'.minalign
  BY DEF Aligns
<1> DEFINE m == builder.minalign
           k == builder'.minalign
           S == Objects
<1>2. \A o \in S : Fits(o, m)
  BY DEF AlignInv
<1>3. m \in Sizes /\ k \in Sizes /\ m <= k
  BY <1>1
<1> HIDE DEF m, k, S
<1>4. \A o \in S : Fits(o, k)
  BY <1>2, <1>3, FitsMore
<1>5. Objects' = S
  BY DEF Objects, S
<1> QED
  BY <1>1, <1>4, <1>5 DEF AlignInv, k

\* A step that completes an object.
LEMMA ObjectAlignStep ==
  ASSUME BuildInv, AlignInv, NEW n, Aligns(builder, builder', n), PoolAligned(builder'),
         NEW o, objects' = Append(objects, o), Fits(o, builder'.minalign), building' = Nothing
  PROVE  AlignInv'
<1>1. builder.minalign \in Sizes /\ builder'.minalign \in Sizes /\ builder.minalign <= builder'.minalign
  BY DEF Aligns
<1> DEFINE m == builder.minalign
           k == builder'.minalign
           S == Objects
<1>2. \A x \in S : Fits(x, m)
  BY DEF AlignInv
<1>3. m \in Sizes /\ k \in Sizes /\ m <= k
  BY <1>1
<1>4. Objects' = S \cup {o} /\ Fits(o, k)
  BY AppendedObjects
<1> HIDE DEF m, k, S
<1>5. \A x \in S : Fits(x, k)
  BY <1>2, <1>3, FitsMore
<1>6. \A x \in Objects' : Fits(x, k)
  BY <1>4, <1>5
<1>7. BuildingFits'
  BY DEF BuildingFits, Nothing
<1> QED
  BY <1>1, <1>6, <1>7 DEF AlignInv, k

LEMMA StringFits ==
  ASSUME NEW off, off % 4 = 0, NEW chars, NEW m, 4 <= m
  PROVE  Fits([off |-> off, type |-> String, value |-> chars], m)
BY DEF Fits, String

LEMMA VectorFits ==
  ASSUME NEW off, off % 4 = 0, NEW of, NEW value, NEW m, 4 <= m,
         of.kind = "scalar" /\ value # << >> => of.size \in Sizes /\ of.size <= m
  PROVE  Fits([off |-> off, type |-> VectorOf(of), value |-> value], m)
BY DEF Fits, VectorOf

LEMMA TableFits ==
  ASSUME NEW off, off % 4 = 0, NEW name, NEW values, NEW m, 4 <= m, ScalarsFit(name, values, m)
  PROVE  Fits([off |-> off, type |-> TableOf(name), value |-> values], m)
BY DEF Fits, TableOf

LEMMA AlignTypes ==
  ASSUME BuildInv, AlignInv
  PROVE  IsBuilder(builder) /\ builder.minalign \in Sizes /\ PoolAligned(builder)
BY DEF BuildInv, BuilderOK, AlignInv

LEMMA AlignStringStep ==
  ASSUME BuildInv, AlignInv, NEW chars \in Strings, WriteString(chars)
  PROVE  AlignInv'
<1>1. /\ building = Nothing /\ building' = building
      /\ builder' = CreateString(builder, chars)
      /\ objects' = Append(objects, [off |-> GetSize(builder'), type |-> String, value |-> chars])
  BY DEF WriteString, Ready, Written
<1>2. chars \in Seq(Byte)
  BY StringsAreBytes
<1>3. Aligns(builder, builder', 4) /\ GetSize(builder') % 4 = 0 /\ builder'.pool = builder.pool
  BY <1>1, <1>2, AlignTypes, CreateStringAligns, CreateStringWrites DEF Wrote
<1>4. PoolAligned(builder')
  BY <1>3, AlignTypes DEF PoolAligned
<1>5. Fits([off |-> GetSize(builder'), type |-> String, value |-> chars], builder'.minalign)
  BY <1>3, StringFits DEF Aligns
<1> QED
  BY <1>1, <1>3, <1>4, <1>5, ObjectAlignStep

LEMMA AlignSharedStringStep ==
  ASSUME BuildInv, AlignInv, NEW chars \in Strings, WriteSharedString(chars)
  PROVE  AlignInv'
<1> DEFINE shared == CreateSharedString(builder, chars)
<1>1. /\ building = Nothing /\ building' = building
      /\ builder' = shared.builder
      /\ objects' = Append(objects, [off |-> shared.off, type |-> String, value |-> chars])
  BY DEF WriteSharedString, Ready, Written
<1>2. chars \in Seq(Byte)
  BY StringsAreBytes
<1>3. Aligns(builder, shared.builder, 4) /\ PoolAligned(shared.builder) /\ shared.off % 4 = 0
  BY <1>2, AlignTypes, SharedStringAligns
<1> HIDE DEF shared
<1>4. Aligns(builder, builder', 4) /\ PoolAligned(builder')
  BY <1>1, <1>3
<1>5. Fits([off |-> shared.off, type |-> String, value |-> chars], builder'.minalign)
  BY <1>3, <1>4, StringFits DEF Aligns
<1> QED
  BY <1>1, <1>4, <1>5, ObjectAlignStep

LEMMA AlignScalarsStep ==
  ASSUME BuildInv, AlignInv, NEW v \in ScalarVectors, WriteScalars(v)
  PROVE  AlignInv'
<1> DEFINE of == [kind |-> "scalar", size |-> v.size]
<1>1. /\ building = Nothing /\ building' = building
      /\ builder' = CreateVector(builder, v.elements, v.size)
      /\ objects' = Append(objects, [off |-> GetSize(builder'), type |-> VectorOf(of), value |-> v.elements])
  BY DEF WriteScalars, Ready, Written
<1>2. v.size \in Sizes /\ v.size \in Nat \ {0} /\ v.elements \in Seq([1 .. v.size -> Byte])
  <2>1. v.size \in {1, 2, 4, 8} /\ v.elements \in Seq([1 .. v.size -> 0 .. BYTE - 1])
    BY ObjectsAssumption
  <2> QED
    BY <2>1 DEF Byte, Sizes
<1>3. /\ Aligns(builder, builder', 4) /\ GetSize(builder') % 4 = 0
      /\ v.elements # << >> => Aligns(builder, builder', v.size)
  BY <1>1, <1>2, AlignTypes, CreateVectorAligns
<1>4. PoolAligned(builder')
  <2>1. builder'.pool = builder.pool
    BY <1>1, <1>2, AlignTypes, CreateVectorWrites DEF Wrote
  <2> QED
    BY <2>1, AlignTypes DEF PoolAligned
<1>5. of.kind = "scalar" /\ v.elements # << >> => of.size \in Sizes /\ of.size <= builder'.minalign
  BY <1>2, <1>3 DEF Aligns
<1> HIDE DEF of
<1>6. Fits([off |-> GetSize(builder'), type |-> VectorOf(of), value |-> v.elements], builder'.minalign)
  BY <1>3, <1>5, VectorFits DEF Aligns
<1> QED
  BY <1>1, <1>3, <1>4, <1>6, ObjectAlignStep

LEMMA AlignBeginVectorStep ==
  ASSUME BuildInv, AlignInv, NEW v \in Vectors, BeginVector(v.type, v.len)
  PROVE  AlignInv'
<1>1. /\ builder' = StartVector(builder, v.len, UOFFSET)
      /\ building' = [kind |-> "vector", type |-> v.type, len |-> v.len, elements |-> << >>]
      /\ objects' = objects
  BY DEF BeginVector
<1>2. v.len \in Nat /\ UOFFSET \in Nat \ {0} /\ UOFFSET \in Sizes
  BY ObjectsAssumption DEF UOFFSET, Sizes
<1>3. Aligns(builder, builder', 1) /\ builder'.pool = builder.pool
  BY <1>1, <1>2, AlignTypes, StartVectorAligned, StartVectorWrites DEF Wrote
<1>4. PoolAligned(builder')
  BY <1>3, AlignTypes DEF PoolAligned
<1>5. BuildingFits'
  BY <1>1 DEF BuildingFits
<1> QED
  BY <1>1, <1>3, <1>4, <1>5, BuildingAlignStep

LEMMA AlignPushItemStep ==
  ASSUME BuildInv, AlignInv, NEW o \in Objects, PushItem(o)
  PROVE  AlignInv'
<1> DEFINE elements == << o.value >> \o building.elements
<1>1. /\ building.kind = "vector" /\ o.type = building.type
      /\ builder' = PushOffset(builder, o.off)
      /\ building' = [building EXCEPT !.elements = elements]
      /\ objects' = objects
  BY DEF PushItem
<1> HIDE DEF elements
<1>2. building'.kind = "vector" /\ building'.type = building.type
  BY <1>1, BuildingVector
<1>3. o.type.kind # "scalar" /\ o.off \in Int
  BY OffsetsOK DEF AlignInv, Fits
<1>4. BuildingFits'
  BY <1>1, <1>2, <1>3 DEF BuildingFits
<1>5. Aligns(builder, builder', 4) /\ builder'.pool = builder.pool
  BY <1>1, <1>3, AlignTypes, PushOffsetAligns, PushOffsetWrites DEF Wrote
<1>6. PoolAligned(builder')
  BY <1>5, AlignTypes DEF PoolAligned
<1> QED
  BY <1>1, <1>4, <1>5, <1>6, BuildingAlignStep

LEMMA AlignFinishVectorStep ==
  ASSUME BuildInv, AlignInv, FinishVector
  PROVE  AlignInv'
<1>1. /\ building.kind = "vector" /\ building' = Nothing
      /\ builder' = EndVector(builder, building.len)
      /\ objects' = Append(objects, [off |-> GetSize(builder'), type |-> VectorOf(building.type),
                                     value |-> building.elements])
  BY DEF FinishVector, Written
<1>2. building.len \in Nat
  BY <1>1, BuildingVector
<1>3. Aligns(builder, builder', 4) /\ GetSize(builder') % 4 = 0 /\ builder'.pool = builder.pool
  BY <1>1, <1>2, AlignTypes, EndVectorAligns, EndVectorWrites DEF Wrote
<1>4. PoolAligned(builder')
  BY <1>3, AlignTypes DEF PoolAligned
<1>5. building.type.kind = "scalar" => building.elements = << >>
  BY <1>1 DEF AlignInv, BuildingFits
<1>6. Fits([off |-> GetSize(builder'), type |-> VectorOf(building.type), value |-> building.elements],
           builder'.minalign)
  BY <1>3, <1>5, VectorFits DEF Aligns
<1> QED
  BY <1>1, <1>3, <1>4, <1>6, ObjectAlignStep

LEMMA AlignBeginTableStep ==
  ASSUME BuildInv, AlignInv, NEW name \in DOMAIN Tables, BeginTable(name)
  PROVE  AlignInv'
<1> DEFINE values == [f \in DOMAIN Tables[name] |->
                        LET field == Tables[name][f]
                        IN  IF field.kind = "scalar" THEN field.default ELSE Absent]
<1>1. /\ builder' = StartTable(builder)
      /\ building' = [kind |-> "table", name |-> name, start |-> GetSize(builder), added |-> {},
                      values |-> values]
      /\ objects' = objects
  BY DEF BeginTable
<1>2. \A m : ScalarsFit(name, values, m)
  BY DEF ScalarsFit
<1>3. DOMAIN values = DOMAIN Tables[name]
  OBVIOUS
<1> HIDE DEF values
<1>4. Aligns(builder, builder', 1) /\ builder'.pool = builder.pool
  BY <1>1, AlignTypes, NestedAligns, NestedWrites DEF StartTable, Wrote
<1>5. PoolAligned(builder')
  BY <1>4, AlignTypes DEF PoolAligned
<1>6. BuildingFits'
  BY <1>1, <1>2, <1>3 DEF BuildingFits
<1> QED
  BY <1>1, <1>4, <1>5, <1>6, BuildingAlignStep

LEMMA AlignAddedStep ==
  ASSUME BuildInv, AlignInv, building.kind = "table", NEW f, NEW value, Added(f, value),
         objects' = objects, builder'.pool = builder.pool, NEW n, Aligns(builder, builder', n),
         Tables[building.name][f].kind = "scalar" /\ value # Tables[building.name][f].default =>
           Tables[building.name][f].size \in Sizes /\ Tables[building.name][f].size <= builder'.minalign
  PROVE  AlignInv'
<1> DEFINE added == building.added \cup {f}
           values == [building.values EXCEPT ![f] = value]
           m == builder.minalign
           k == builder'.minalign
<1>1. building' = [kind |-> "table", name |-> building.name, start |-> building.start,
                   added |-> added, values |-> values]
  <2>1. building' = [building EXCEPT !.added = added, !.values = values]
    BY DEF Added
  <2> HIDE DEF added, values
  <2> QED
    BY <2>1, BuildingTable
<1>2. /\ DOMAIN building.values = DOMAIN Tables[building.name]
      /\ ScalarsFit(building.name, building.values, m)
  BY DEF AlignInv, BuildingFits
<1>3. m \in Sizes /\ k \in Sizes /\ m <= k
  BY DEF Aligns
<1>4. Tables[building.name][f].kind = "scalar" /\ value # Tables[building.name][f].default =>
        Tables[building.name][f].size \in Sizes /\ Tables[building.name][f].size <= k
  OBVIOUS
<1> HIDE DEF m, k
<1>5. ScalarsFit(building.name, building.values, k)
  BY <1>2, <1>3, ScalarsFitMore
<1>6. DOMAIN values = DOMAIN Tables[building.name]
  BY <1>2
<1>7. ScalarsFit(building.name, values, k)
  <2> SUFFICES ASSUME NEW g \in DOMAIN Tables[building.name],
                      Tables[building.name][g].kind = "scalar",
                      values[g] # Tables[building.name][g].default
               PROVE  Tables[building.name][g].size \in Sizes /\ Tables[building.name][g].size <= k
    BY DEF ScalarsFit
  <2>1. values[g] = IF g = f THEN value ELSE building.values[g]
    BY <1>2
  <2> HIDE DEF values
  <2> QED
    BY <1>4, <1>5, <2>1 DEF ScalarsFit
<1> HIDE DEF values
<1>8. BuildingFits'
  BY <1>1, <1>6, <1>7 DEF BuildingFits, k
<1>9. PoolAligned(builder')
  BY AlignTypes DEF PoolAligned
<1> QED
  BY <1>8, <1>9, BuildingAlignStep

LEMMA AlignAddScalarStep ==
  ASSUME BuildInv, AlignInv, NEW f, NEW bytes \in Scalars, AddScalar(f, bytes)
  PROVE  AlignInv'
<1> DEFINE field == Tables[building.name][f]
           default == field.default
<1>1. /\ Adding(f) /\ building.kind = "table" /\ field.size = Len(bytes)
      /\ builder' = AddElement(builder, FieldIndexToOffset(f), bytes, default)
      /\ Added(f, bytes)
      /\ objects' = objects
  BY DEF AddScalar, Adding
<1>2. bytes \in Seq(Byte) \ {<< >>} /\ Len(bytes) \in Sizes
  BY ScalarsAreBytes
<1> HIDE DEF default
<1>3. Aligns(builder, builder', 1) /\ (bytes # default => Aligns(builder, builder', Len(bytes)))
  BY <1>1, <1>2, AlignTypes, AddElementAligns
<1>4. builder'.pool = builder.pool
  <2>1. FieldIndexToOffset(f) \in Nat
    BY <1>1, FieldOffset
  <2>2. PadOK(builder.buf, builder.num_field_loc)
    BY DEF BuildInv, BuilderOK
  <2> QED
    BY <1>1, <1>2, <2>1, <2>2, AlignTypes, AddElementGrew DEF Grew
<1>5. bytes # field.default => field.size \in Sizes /\ field.size <= builder'.minalign
  BY <1>1, <1>2, <1>3 DEF Aligns, default
<1> QED
  BY <1>1, <1>3, <1>4, <1>5, AlignAddedStep

LEMMA AlignAddObjectStep ==
  ASSUME BuildInv, AlignInv, NEW f, NEW o \in Objects, AddObject(f, o)
  PROVE  AlignInv'
<1>1. /\ Adding(f) /\ building.kind = "table" /\ Tables[building.name][f] = o.type
      /\ builder' = AddOffset(builder, FieldIndexToOffset(f), o.off)
      /\ Added(f, o.value)
      /\ objects' = objects
  BY DEF AddObject, Adding
<1>2. o.type.kind # "scalar" /\ o.off \in Int
  BY OffsetsOK DEF AlignInv, Fits
<1>3. Aligns(builder, builder', 4)
  BY <1>1, <1>2, AlignTypes, AddOffsetAligns
<1>4. builder'.pool = builder.pool
  <2>1. FieldIndexToOffset(f) \in Nat
    BY <1>1, FieldOffset
  <2>2. PadOK(builder.buf, builder.num_field_loc)
    BY DEF BuildInv, BuilderOK
  <2> QED
    BY <1>1, <1>2, <2>1, <2>2, AlignTypes, AddOffsetGrew DEF Grew
<1> QED
  BY <1>1, <1>2, <1>3, <1>4, AlignAddedStep

LEMMA AlignFinishTableStep ==
  ASSUME BuildInv, AlignInv, FinishTable
  PROVE  AlignInv'
<1> DEFINE o == [off |-> TableOffset(builder), type |-> TableOf(building.name), value |-> building.values]
<1>1. /\ building.kind = "table" /\ building' = Nothing
      /\ builder' = EndTable(builder, building.start)
      /\ objects' = Append(objects, o)
  BY DEF FinishTable, Written
<1>2. Aligns(builder, builder', 4) /\ TableOffset(builder) % 4 = 0
  BY <1>1, AlignTypes, EndTableAligns
<1>3. PoolAligned(builder')
  <2>1. building.start \in Int
    BY <1>1, BuildingTable
  <2>2. PadOK(builder.buf, builder.num_field_loc)
    BY DEF BuildInv, BuilderOK
  <2>3. builder'.pool = builder.pool
    BY <1>1, <2>1, <2>2, AlignTypes, EndTableGrew DEF Grew
  <2> QED
    BY <2>3, AlignTypes DEF PoolAligned
<1> DEFINE m == builder.minalign
           k == builder'.minalign
<1>4. ScalarsFit(building.name, building.values, m) /\ m \in Sizes /\ k \in Sizes /\ m <= k /\ 4 <= k
  BY <1>1, <1>2 DEF AlignInv, BuildingFits, Aligns
<1> HIDE DEF m, k
<1>5. ScalarsFit(building.name, building.values, k)
  BY <1>4, ScalarsFitMore
<1>6. Fits(o, k)
  BY <1>2, <1>4, <1>5, TableFits
<1> HIDE DEF o
<1> QED
  BY <1>1, <1>2, <1>3, <1>6, ObjectAlignStep DEF k

LEMMA AlignFinishMessageStep ==
  ASSUME BuildInv, AlignInv, NEW o \in Objects, FinishMessage(o)
  PROVE  AlignInv'
<1>1. /\ building = Nothing
      /\ builder' = Finish(builder, o.off)
      /\ building' = [kind |-> "finished", root |-> o]
      /\ objects' = objects
  BY DEF FinishMessage
<1>2. o.off \in Int
  BY OffsetsOK
<1> DEFINE m == builder.minalign
<1>3. m \in Sizes /\ \A x \in Objects : Fits(x, m)
  BY DEF AlignInv
<1>4. 4 <= m
  BY <1>3 DEF Fits
<1>5. Aligns(builder, builder', 4) /\ GetSize(builder') % m = 0
  BY <1>1, <1>2, <1>4, AlignTypes, FinishAligns
<1> HIDE DEF m
<1>6. BuildingFits'
  <2>1. Objects' = Objects
    BY <1>1 DEF Objects
  <2>2. (\E k \in Sizes : 4 <= k /\ GetSize(builder) % k = 0 /\ \A x \in Objects : Fits(x, k))'
    BY <1>3, <1>4, <1>5, <2>1
  <2> QED
    BY <1>1, <2>2 DEF BuildingFits
<1>7. PoolAligned(builder')
  <2>1. builder'.pool = builder.pool
    BY <1>1, <1>2, Idle, FinishGrew DEF Grew
  <2> QED
    BY <2>1, AlignTypes DEF PoolAligned
<1> QED
  BY <1>1, <1>5, <1>6, <1>7, BuildingAlignStep

LEMMA AlignReuseStep ==
  ASSUME Reuse
  PROVE  AlignInv'
<1>1. builder' = Clear(builder) /\ objects' = << >> /\ building' = Nothing
  BY DEF Reuse
<1>2. builder'.minalign \in Sizes /\ PoolAligned(builder')
  BY <1>1, ClearAligns, SizesAre DEF PoolAligned
<1>3. Objects' = {} /\ BuildingFits'
  BY <1>1 DEF Objects, BuildingFits, Nothing
<1> QED
  BY <1>2, <1>3 DEF AlignInv

LEMMA InitAlignInv == Init => AlignInv
<1> SUFFICES ASSUME Init
             PROVE  AlignInv
  OBVIOUS
<1>1. builder = EmptyBuilder /\ objects = << >> /\ building = Nothing
  BY DEF Init
<1>2. builder.minalign = 1 /\ builder.pool = {}
  BY <1>1 DEF EmptyBuilder
<1>3. Objects = {} /\ BuildingFits
  BY <1>1 DEF Objects, BuildingFits, Nothing
<1> QED
  BY <1>2, <1>3, SizesAre DEF AlignInv, PoolAligned

LEMMA NextAlignInv == BuildInv /\ AlignInv /\ [Next]_vars => AlignInv'
<1> SUFFICES ASSUME BuildInv, AlignInv, [Next]_vars
             PROVE  AlignInv'
  OBVIOUS
<1>1. CASE \E chars \in Strings : WriteString(chars) \/ WriteSharedString(chars)
  BY <1>1, AlignStringStep, AlignSharedStringStep
<1>2. CASE \E v \in ScalarVectors : WriteScalars(v)
  BY <1>2, AlignScalarsStep
<1>3. CASE \E v \in Vectors : BeginVector(v.type, v.len)
  BY <1>3, AlignBeginVectorStep
<1>4. CASE \E o \in Objects : PushItem(o) \/ FinishMessage(o)
  BY <1>4, AlignPushItemStep, AlignFinishMessageStep
<1>5. CASE FinishVector
  BY <1>5, AlignFinishVectorStep
<1>6. CASE \E name \in DOMAIN Tables : BeginTable(name)
  BY <1>6, AlignBeginTableStep
<1>7. CASE building.kind = "table" /\ \E f \in DOMAIN Tables[building.name] :
             (\E bytes \in Scalars : AddScalar(f, bytes)) \/ (\E o \in Objects : AddObject(f, o))
  BY <1>7, AlignAddScalarStep, AlignAddObjectStep
<1>8. CASE FinishTable
  BY <1>8, AlignFinishTableStep
<1>9. CASE Reuse
  BY <1>9, AlignReuseStep
<1>10. CASE UNCHANGED vars
  BY <1>10 DEF vars, AlignInv, BuildingFits, Objects
<1> QED
  BY <1>1, <1>2, <1>3, <1>4, <1>5, <1>6, <1>7, <1>8, <1>9, <1>10 DEF Next

\* What is at a multiple of its size from the end of a finished buffer is so from the
\* beginning.
LEMMA AlignedFromFront ==
  ASSUME NEW n \in Nat, NEW m \in Sizes, n % m = 0, NEW each \in Sizes, each <= m,
         NEW off \in Int, off % each = 0
  PROVE  (n - off) % each = 0
BY SmallerDivides, DifferenceDivides

LEMMA SlotOffset ==
  ASSUME NEW v, NEW off, NEW type, NEW value, NEW S, SlotHolds(v, off, type, value, S)
  PROVE  off \in Int /\ off % ElementSize(type) = 0
BY DEF SlotHolds, Holds

\* The size of an element fits minalign.
LEMMA SizeFits ==
  ASSUME NEW m \in Sizes, 4 <= m, NEW type,
         type.kind = "scalar" => type.size \in Sizes /\ type.size <= m
  PROVE  ElementSize(type) \in Sizes /\ ElementSize(type) <= m
BY SizesAre DEF ElementSize, UOFFSET

LEMMA AlignedSlot ==
  ASSUME IsVector(builder.buf), NEW m \in Sizes, 4 <= m, size(builder.buf) % m = 0,
         NEW off, NEW type, NEW value, SlotHolds(builder.buf, off, type, value, Objects),
         type.kind = "scalar" => type.size \in Sizes /\ type.size <= m
  PROVE  Aligned(size(builder.buf) - off, type)
<1> DEFINE n == size(builder.buf)
           each == ElementSize(type)
<1>1. n \in Nat /\ n % m = 0
  BY VectorTypes
<1>2. off \in Int /\ off % each = 0
  BY SlotOffset
<1>3. each \in Sizes /\ each <= m
  BY SizeFits
<1> HIDE DEF n, each
<1>4. (n - off) % each = 0
  BY <1>1, <1>2, <1>3, AlignedFromFront
<1> QED
  BY <1>4 DEF Aligned, n, each

\* All that an object consists of is aligned.
LEMMA ObjectIsAligned ==
  ASSUME IsVector(builder.buf), size(builder.buf) < MAX_BUFFER_SIZE, NEW m \in Sizes,
         size(builder.buf) % m = 0, NEW o, NEW K, ObjectLies(builder.buf, o, K, Objects),
         Fits(o, m), o.off \in Nat
  PROVE  /\ Position(o) % UOFFSET = 0
         /\ o.type.kind = "vector" =>
              \A i \in 1 .. Len(o.value) :
                Aligned(Position(o) + UOFFSET + (i - 1) * ElementSize(o.type.of), o.type.of)
         /\ o.type.kind = "table" =>
              \A f \in DOMAIN Tables[o.type.name] :
                LET field == Tables[o.type.name][f]
                    place == GetOptionalFieldOffset(Data, Position(o), FieldIndexToOffset(f))
                IN  place # 0 /\ (field.kind = "scalar" => o.value[f] # field.default) =>
                      Aligned(Position(o) + place, field)
<1> DEFINE v == builder.buf
           n == size(v)
<1>1. n \in Nat /\ Position(o) = n - o.off
  <2>1. Data = Buffer(v)
    BY DEF Data
  <2> QED
    BY <2>1, BufferBytes, VectorTypes DEF Position
<1>2. o.off % 4 = 0 /\ 4 <= m /\ 4 \in Sizes
  BY SizesAre DEF Fits
<1>3. Position(o) % UOFFSET = 0
  <2>1. n % m = 0
    OBVIOUS
  <2> HIDE DEF n
  <2>2. (n - o.off) % 4 = 0
    BY <1>1, <1>2, <2>1, AlignedFromFront
  <2> QED
    BY <1>1, <2>2 DEF UOFFSET
<1>4. ASSUME o.type.kind = "vector", NEW i \in 1 .. Len(o.value)
      PROVE  Aligned(Position(o) + UOFFSET + (i - 1) * ElementSize(o.type.of), o.type.of)
  <2> DEFINE of == o.type.of
             each == ElementSize(of)
             off == o.off - UOFFSET - (i - 1) * each
  <2>1. VectorHolds(v, o, Objects)
    BY <1>4, ObjectOfKind
  <2>2. SlotHolds(v, off, of, o.value[i], Objects)
    BY <2>1 DEF VectorHolds
  <2>3. o.value # << >>
    <3>1. Len(<< >>) = 0
      OBVIOUS
    <3> QED
      BY <3>1
  <2>4. of.kind = "scalar" => of.size \in Sizes /\ of.size <= m
    BY <1>4, <2>3 DEF Fits
  <2>5. each \in Nat
    BY <1>2, <2>4, SizeFits, SizesAre
  <2> HIDE DEF of, each
  <2>6. Aligned(size(v) - off, of)
    <3> HIDE DEF off
    <3> QED
      BY <1>2, <2>2, <2>4, AlignedSlot
  <2>7. size(v) - off = Position(o) + UOFFSET + (i - 1) * each
    <3> DEFINE k == (i - 1) * each
    <3>1. k \in Int
      BY <2>5
    <3> HIDE DEF k
    <3> QED
      BY <1>1, <3>1 DEF UOFFSET, k
  <2> QED
    BY <2>6, <2>7 DEF of, each
<1>5. ASSUME o.type.kind = "table", NEW f \in DOMAIN Tables[o.type.name],
             GetOptionalFieldOffset(Data, Position(o), FieldIndexToOffset(f)) # 0,
             Tables[o.type.name][f].kind = "scalar" => o.value[f] # Tables[o.type.name][f].default
      PROVE  Aligned(Position(o) + GetOptionalFieldOffset(Data, Position(o), FieldIndexToOffset(f)),
                     Tables[o.type.name][f])
  <2> DEFINE field == Tables[o.type.name][f]
             place == GetOptionalFieldOffset(Data, Position(o), FieldIndexToOffset(f))
  <2>1. TableHolds(v, o, K, Objects) /\ o.type.name \in DOMAIN Tables
    BY <1>5, ObjectOfKind
  <2>2. PICK off : SlotHolds(v, off, field, o.value[f], Objects) /\ Position(o) + place = size(v) - off
    BY <1>5, <2>1, FieldIsInSlot
  <2>3. field.kind = "scalar" => field.size \in Sizes /\ field.size <= m
    BY <1>5 DEF Fits, ScalarsFit
  <2> HIDE DEF field, place
  <2>4. Aligned(size(v) - off, field)
    BY <1>2, <2>2, <2>3, AlignedSlot
  <2> QED
    BY <2>2, <2>4 DEF field, place
<1> QED
  BY <1>3, <1>4, <1>5

-----------------------------------------------------------------------------
(***************************************************************************)
(* The results.                                                            *)
(***************************************************************************)
\* The inductive invariant: the builder and its two pads are well-formed, FieldLocs
\* are in the scratch pad only while a table is built, every byte of the buffer has
\* been written, and the pool and the objects know where strings are.
THEOREM BuilderInductive == Spec => []BuildInv
<1>1. BuildInv /\ [Next]_vars => BuildInv'
  BY NextBuildInv, StutterBuildInv
<1> QED
  BY InitBuildInv, <1>1, PTL DEF Spec

\* The scratch pad never grows into the buffer, however tables, strings and vectors
\* are mixed and whatever the size of the first allocation (vector_downward.h:142).
THEOREM PadsNeverMeet == Spec => []TypeOK
<1>1. BuildInv => TypeOK
  <2> SUFFICES ASSUME BuildInv
               PROVE  TypeOK
    OBVIOUS
  <2> DEFINE v == builder.buf
  <2>1. IsVector(v)
    BY DEF BuildInv, BuilderOK, IsBuilder
  <2> HIDE DEF v
  <2>2. PadsApart(v)
    BY <2>1, VectorTypes DEF PadsApart, IsVector
  <2> QED
    BY <2>2 DEF BuildInv, CountOK, TypeOK, v
<1> QED
  BY <1>1, BuilderInductive, PTL

\* No message contains a byte that nothing has been written to.
THEOREM BytesAlwaysWritten == Spec => []BytesWritten
<1>1. BuildInv => BytesWritten
  <2> SUFFICES ASSUME BuildInv
               PROVE  BytesWritten
    OBVIOUS
  <2> DEFINE v == builder.buf
  <2>1. IsVector(v) /\ Clean(v)
    BY DEF BuildInv, BuilderOK, IsBuilder
  <2>2. Data = Buffer(v)
    BY DEF Data
  <2> HIDE DEF v
  <2>3. size(v) \in Nat /\ DOMAIN Data = 1 .. size(v)
        /\ \A i \in 1 .. size(v) : Data[i] = FromEnd(v, size(v) - i + 1)
    BY <2>1, <2>2, VectorTypes, BufferBytes
  <2>4. \A i \in 1 .. size(v) : size(v) - i + 1 \in 1 .. size(v)
    BY <2>3
  <2>5. \A i \in DOMAIN Data : Data[i] \in Byte
    BY <2>1, <2>3, <2>4 DEF Clean
  <2> QED
    BY <2>5 DEF BytesWritten, Byte
<1> QED
  BY <1>1, BuilderInductive, PTL

\* Every string, one that is shared included, reads as it was written for as long
\* as the builder is not cleared.
THEOREM StringsAlwaysReadBack == Spec => []StringsReadBack
<1>1. BuildInv => StringsReadBack
  <2> SUFFICES ASSUME BuildInv, NEW i \in DOMAIN objects, objects[i].type = String
               PROVE  PooledString(builder.buf, objects[i].off) = objects[i].value
    BY DEF StringsReadBack, Objects
  <2>1. i \in 1 .. Len(objects)
    BY DEF BuildInv, ObjectsOK
  <2>2. /\ IsVector(builder.buf)
        /\ objects[i].value \in Strings
        /\ IsString(builder.buf, objects[i].off, objects[i].value)
    BY <2>1 DEF BuildInv, BuilderOK, IsBuilder, ObjectsOK, ObjectOK
  <2>3. objects[i].value \in Seq(Byte) /\ Short(Len(objects[i].value))
    BY <2>2, StringsAreBytes
  <2> QED
    BY <2>2, <2>3, StringReads
<1> QED
  BY <1>1, BuilderInductive, PTL

\* What has been built is neither moved nor changed by what is built after it.
THEOREM BytesAlwaysStay == Spec => BytesStay
<1>1. BuildInv /\ [Next]_vars =>
        [Reuse \/ At(builder.buf', GetSize(builder), GetSize(builder)) = Data]_vars
  <2> SUFFICES ASSUME BuildInv, Next, ~Reuse
               PROVE  At(builder.buf', GetSize(builder), GetSize(builder)) = Data
    OBVIOUS
  <2>1. Extended(builder.buf, builder'.buf) /\ IsVector(builder.buf)
    BY NextBuildInv DEF BuildInv, BuilderOK, IsBuilder
  <2>2. IsVector(builder'.buf) /\ Kept(builder.buf, builder'.buf)
    BY <2>1 DEF Extended
  <2>3. At(builder'.buf, size(builder.buf), size(builder.buf)) = Buffer(builder.buf)
    BY <2>1, <2>2, KeptIsAt
  <2> QED
    BY <2>3 DEF GetSize, Data
<1> QED
  BY <1>1, BuilderInductive, PTL DEF Spec, BytesStay

\* What the builder has remembered of vtables and FieldLocs is what is in the buffer:
\* where every vector and every table lies, and every field of the table that is built.
THEOREM ReadingInductive == Spec => []ReadInv
<1>1. BuildInv /\ BuildInv' /\ ReadInv /\ [Next]_vars => ReadInv'
  BY NextReadInv
<1> QED
  BY <1>1, InitReadInv, BuilderInductive, PTL DEF Spec

\* Every object, whatever has been built since, reads as it was written: a string, the
\* length and each element of a vector, and each field of a table by way of its vtable,
\* in every buffer an offset of 32 bits can address (vector_downward.h:146).
THEOREM ObjectsAlwaysReadBack == Spec => []ObjectsReadBack
<1>1. BuildInv /\ ReadInv /\ StringsReadBack => ObjectsReadBack
  <2> SUFFICES ASSUME BuildInv, ReadInv, StringsReadBack, GetSize(builder) < MAX_BUFFER_SIZE
               PROVE  VectorsReadBack /\ TablesReadBack
    BY DEF ObjectsReadBack
  <2>1. PICK K, known, locs : Lies(K, known, locs)
    BY DEF ReadInv
  <2>2. IsVector(builder.buf) /\ size(builder.buf) < MAX_BUFFER_SIZE
    BY DEF BuildInv, BuilderOK, IsBuilder, GetSize
  <2>3. ASSUME NEW o \in Objects
        PROVE  ObjectLies(builder.buf, o, K, Objects)
    BY <2>1 DEF Lies, ObjectsLie
  <2>4. ASSUME NEW o \in Objects, o.type.kind = "vector"
        PROVE  /\ Inside(Data, Position(o), UOFFSET) /\ Offset(Data, Position(o)) = Len(o.value)
               /\ \A i \in 1 .. Len(o.value) :
                    Found(Position(o) + UOFFSET + (i - 1) * ElementSize(o.type.of), o.type.of, o.value[i])
    <3>1. VectorHolds(builder.buf, o, Objects)
      BY <2>3, <2>4, ObjectOfKind
    <3> QED
      BY <2>2, <3>1, VectorIsRead
  <2>5. ASSUME NEW o \in Objects, o.type.kind = "table"
        PROVE  \A f \in DOMAIN Tables[o.type.name] :
                 LET field == Tables[o.type.name][f]
                     place == GetOptionalFieldOffset(Data, Position(o), FieldIndexToOffset(f))
                 IN  IF place # 0
                     THEN Found(Position(o) + place, field, o.value[f])
                     ELSE o.value[f] = IF field.kind = "scalar" THEN field.default ELSE Absent
    <3>1. TableHolds(builder.buf, o, K, Objects) /\ o.type.name \in DOMAIN Tables
      BY <2>3, <2>5, ObjectOfKind
    <3> QED
      BY <2>2, <3>1, TableIsRead
  <2> QED
    BY <2>4, <2>5 DEF VectorsReadBack, TablesReadBack
<1> QED
  BY <1>1, BuilderInductive, ReadingInductive, StringsAlwaysReadBack, PTL

\* Tables whose vtables have the same bytes refer to one vtable, however many vtables
\* were written and taken back.
THEOREM VTablesAlwaysShared == Spec => []VTablesShared
<1>1. BuildInv /\ ReadInv => VTablesShared
  <2> SUFFICES ASSUME BuildInv, ReadInv, GetSize(builder) < MAX_BUFFER_SIZE,
                      NEW o \in Objects, NEW p \in Objects, o.type.kind = "table", p.type.kind = "table",
                      VTableBytes(o) = VTableBytes(p)
               PROVE  VTableOf(o) = VTableOf(p)
    BY DEF VTablesShared
  <2>1. PICK K, known, locs : Lies(K, known, locs)
    BY DEF ReadInv
  <2>2. IsVector(builder.buf) /\ size(builder.buf) < MAX_BUFFER_SIZE
    BY DEF BuildInv, BuilderOK, IsBuilder, GetSize
  <2>3. VTablesOK(builder.buf, K) /\ \A x \in Objects : ObjectLies(builder.buf, x, K, Objects)
    BY <2>1 DEF Lies, ObjectsLie
  <2>4. ASSUME NEW x \in Objects, x.type.kind = "table"
        PROVE  \E vt \in K : \E t \in Seq(Byte) :
                 /\ VTableAt(builder.buf, vt, t)
                 /\ VTableOf(x) = size(builder.buf) - vt /\ VTableBytes(x) = t
    <3>1. TableHolds(builder.buf, x, K, Objects)
      BY <2>3, <2>4, ObjectOfKind
    <3>2. PICK vt \in K, t \in Seq(Byte) :
            VTableAt(builder.buf, vt, t) /\ Holds(builder.buf, x.off, Scalar(vt - x.off, UOFFSET))
      BY <3>1 DEF TableHolds
    <3>3. VTableOf(x) = size(builder.buf) - vt /\ VTableBytes(x) = t
      BY <2>2, <3>2, VTableIsFound
    <3> QED
      BY <3>2, <3>3
  <2>5. PICK vt \in K, t \in Seq(Byte) :
          VTableAt(builder.buf, vt, t) /\ VTableOf(o) = size(builder.buf) - vt /\ VTableBytes(o) = t
    BY <2>4
  <2>6. PICK wt \in K, u \in Seq(Byte) :
          VTableAt(builder.buf, wt, u) /\ VTableOf(p) = size(builder.buf) - wt /\ VTableBytes(p) = u
    BY <2>4
  <2>7. vt = wt
    BY <2>3, <2>5, <2>6 DEF VTablesOK
  <2> QED
    BY <2>5, <2>6, <2>7
<1> QED
  BY <1>1, BuilderInductive, ReadingInductive, PTL

\* A finished message begins with the offset that leads to its root.
THEOREM FinishedRootFound == Spec => []RootFound
<1>1. Init => RootHolds
  BY DEF Init, Nothing, RootHolds
<1>2. Spec => []RootHolds
  BY <1>1, NextRootHolds, BuilderInductive, PTL DEF Spec
<1>3. BuildInv /\ ReadInv /\ RootHolds => RootFound
  <2> SUFFICES ASSUME BuildInv, ReadInv, RootHolds, building.kind = "finished",
                      GetSize(builder) < MAX_BUFFER_SIZE
               PROVE  building.root \in Objects /\ Offset(Data, 0) = Position(building.root)
    BY DEF RootFound
  <2> DEFINE v == builder.buf
             root == building.root
             n == size(v) - root.off
  <2>1. root \in Objects /\ Holds(v, size(v), Scalar(n, UOFFSET))
    BY DEF RootHolds, GetSize
  <2>2. PICK K, known, locs : Lies(K, known, locs)
    BY DEF ReadInv
  <2>3. root.off \in Nat /\ root.off <= size(v)
    BY <2>1, <2>2, ObjectBelow DEF Lies
  <2>4. IsVector(v) /\ size(v) \in Nat /\ size(v) < MAX_BUFFER_SIZE /\ Data = Buffer(v)
    BY VectorTypes DEF BuildInv, BuilderOK, IsBuilder, GetSize, Data
  <2>5. Position(root) = n
    BY <2>4, BufferBytes DEF Position
  <2> HIDE DEF root, v
  <2>6. n \in Int /\ -MAX_BUFFER_SIZE <= n /\ n <= MAX_BUFFER_SIZE /\ size(v) - size(v) = 0
    BY <2>3, <2>4 DEF MAX_BUFFER_SIZE
  <2> HIDE DEF n
  <2>7. Offset(Buffer(v), size(v) - size(v)) = n
    BY <2>1, <2>4, <2>6, OffsetIsRead
  <2> QED
    BY <2>1, <2>4, <2>5, <2>6, <2>7 DEF root
<1> QED
  BY <1>2, <1>3, BuilderInductive, ReadingInductive, PTL

\* Everything in a finished message that has a size, which the builder has aligned from
\* the end, is aligned from the first byte too: minalign is never less than what any
\* object needs, and Finish makes the message a multiple of it.
THEOREM FinishedAligned == Spec => []MessageAligned
<1>1. Spec => []AlignInv
  BY InitAlignInv, NextAlignInv, BuilderInductive, PTL DEF Spec
<1>2. BuildInv /\ ReadInv /\ AlignInv => MessageAligned
  <2> SUFFICES ASSUME BuildInv, ReadInv, AlignInv, building.kind = "finished",
                      GetSize(builder) < MAX_BUFFER_SIZE, NEW o \in Objects
               PROVE  /\ Position(o) % UOFFSET = 0
                      /\ o.type.kind = "vector" =>
                           \A i \in 1 .. Len(o.value) :
                             Aligned(Position(o) + UOFFSET + (i - 1) * ElementSize(o.type.of), o.type.of)
                      /\ o.type.kind = "table" =>
                           \A f \in DOMAIN Tables[o.type.name] :
                             LET field == Tables[o.type.name][f]
                                 place == GetOptionalFieldOffset(Data, Position(o), FieldIndexToOffset(f))
                             IN  place # 0 /\ (field.kind = "scalar" => o.value[f] # field.default) =>
                                   Aligned(Position(o) + place, field)
    BY DEF MessageAligned
  <2>1. PICK K, known, locs : Lies(K, known, locs)
    BY DEF ReadInv
  <2>2. ObjectLies(builder.buf, o, K, Objects)
    BY <2>1 DEF Lies, ObjectsLie
  <2>3. PICK m \in Sizes : GetSize(builder) % m = 0 /\ Fits(o, m)
    BY DEF AlignInv, BuildingFits
  <2>4. IsVector(builder.buf) /\ size(builder.buf) < MAX_BUFFER_SIZE /\ size(builder.buf) % m = 0
    BY <2>3 DEF BuildInv, BuilderOK, IsBuilder, GetSize
  <2>5. o.off \in Nat
    BY OffsetsOK
  <2> QED
    BY <2>2, <2>3, <2>4, <2>5, ObjectIsAligned
<1> QED
  BY <1>1, <1>2, BuilderInductive, ReadingInductive, PTL

\* A finished message can be sent as it is: it begins with the offset of its root, and
\* all of it is aligned from there.
THEOREM FinishedAlwaysInPlace == Spec => []FinishedInPlace
<1>1. RootFound /\ MessageAligned => FinishedInPlace
  BY DEF FinishedInPlace
<1> QED
  BY <1>1, FinishedRootFound, FinishedAligned, PTL
=============================================================================
