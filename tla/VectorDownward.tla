--------------------------- MODULE VectorDownward ---------------------------
(***************************************************************************)
(* flatbuffers::vector_downward (vector_downward.h) and the copying of its *)
(* allocator (allocator.h): one allocation that holds the buffer, which    *)
(* grows from its end downwards, and a scratch pad that grows upwards from *)
(* its start. A vector is a record                                         *)
(*                                                                         *)
(*    buf        the allocation, Len(buf) = reserved_, << >> for nullptr   *)
(*    cur        cur_ - buf_, the buffer is what comes after it            *)
(*    scratch    scratch_ - buf_, the scratch pad is what comes before it  *)
(*                                                                         *)
(* and a byte is a number below BYTE. Addresses that outlive a growth are  *)
(* offsets counted from the end of the allocation.                         *)
(***************************************************************************)
EXTENDS Integers, Sequences

CONSTANTS
  initial_size,       \* initial_size_, 1024 in the code
  buffer_minalign,    \* buffer_minalign_, the alignment of the largest scalar
  Uninit              \* the content of memory nothing has been written to

ASSUME VectorAssumption ==
  /\ initial_size \in Nat
  /\ buffer_minalign \in Nat \ {0}

\* The number of values of a uint8_t, and what the bytes of an int32_t count.
BYTE == 256

Place == << 1, 256, 65536, 16777216 >>

ASSUME UninitAssumption == Uninit \notin 0 .. BYTE - 1

\* The n bytes of a little-endian integer of up to 32 bits, in two's complement
\* when value < 0.
Scalar(value, n) ==
  [i \in 1 .. n |->
     CASE i <= 4 -> (value \div Place[i]) % BYTE
       [] i > 4 /\ value >= 0 -> 0
       [] OTHER -> BYTE - 1]

\* The value of two bytes as a uint16_t, and of four as an int32_t.
Unsigned16(bytes) == bytes[1] + BYTE * bytes[2]

Signed32(bytes) ==
  bytes[1] + Place[2] * bytes[2] + Place[3] * bytes[3] +
    Place[4] * (IF 2 * bytes[4] < BYTE THEN bytes[4] ELSE bytes[4] - BYTE)

Biggest(m, n) == IF m < n THEN n ELSE m

EmptyVector == [buf |-> << >>, cur |-> 0, scratch |-> 0]

size(v) == Len(v.buf) - v.cur

unused_buffer_size(v) == v.cur - v.scratch

\* The bytes of the buffer, and those of the scratch pad.
Buffer(v) == SubSeq(v.buf, v.cur + 1, Len(v.buf))

Scratch(v) == SubSeq(v.buf, 1, v.scratch)

RoundUp(n, align) == ((n + align - 1) \div align) * align

\* A mutant of memcpy_downward: what is at the back is copied to where it was.
memcpy_upward(old, new_size, in_use_back, in_use_front) ==
  [i \in 1 .. new_size |-> IF i <= Len(old) THEN old[i] ELSE Uninit]

\* The used bytes keep their distance to the end of the allocation, the scratch
\* pad keeps its distance to the start.
memcpy_downward(old, new_size, in_use_back, in_use_front) ==
  [i \in 1 .. new_size |->
     CASE i > new_size - in_use_back -> old[i - new_size + Len(old)]
       [] i <= in_use_front -> old[i]
       [] OTHER -> Uninit]

reallocate(v, len) ==
  LET old_reserved == Len(v.buf)
      growth == Biggest(len, IF old_reserved # 0 THEN old_reserved \div 2 ELSE initial_size)
      reserved == RoundUp(old_reserved + growth, buffer_minalign)
  IN  [buf |-> memcpy_downward(v.buf, reserved, size(v), v.scratch),
       cur |-> reserved - size(v),
       scratch |-> v.scratch]

\* A mutant of ensure_space: the scratch pad is not taken into account.
ensure_space_for_buffer(v, len) == IF len > v.cur THEN reallocate(v, len) ELSE v

ensure_space(v, len) == IF len > unused_buffer_size(v) THEN reallocate(v, len) ELSE v

\* Copies bytes to at + 1, at + 2, ...
Put(v, at, bytes) ==
  [v EXCEPT !.buf = [i \in DOMAIN @ |->
     IF i \in at + 1 .. at + Len(bytes) THEN bytes[i - at] ELSE @[i]]]

make_space(v, len) ==
  IF len = 0 THEN v ELSE [ensure_space(v, len) EXCEPT !.cur = @ - len]

\* push and push_small
push(v, bytes) ==
  LET w == make_space(v, Len(bytes)) IN Put(w, w.cur, bytes)

\* A mutant of fill: the room is made and left as it is.
fillNothing(v, n) == make_space(v, n)

\* fill and fill_big
fill(v, n) == push(v, [i \in 1 .. n |-> 0])

pop(v, n) == [v EXCEPT !.cur = @ + n]

\* data_at: the n bytes at an offset from the end, and writing over them.
At(v, offset, n) == SubSeq(v.buf, Len(v.buf) - offset + 1, Len(v.buf) - offset + n)

PutAt(v, offset, bytes) == Put(v, Len(v.buf) - offset, bytes)

scratch_push_small(v, bytes) ==
  LET w == ensure_space(v, Len(bytes))
  IN  [Put(w, w.scratch, bytes) EXCEPT !.scratch = @ + Len(bytes)]

scratch_pop(v, n) == [v EXCEPT !.scratch = @ - n]

clear_scratch(v) == [v EXCEPT !.scratch = 0]

\* The allocation is kept, and nothing may depend on what is in it.
clear(v) ==
  [buf |-> [i \in DOMAIN v.buf |-> Uninit], cur |-> Len(v.buf), scratch |-> 0]

\* The assertion of vector_downward.h:142.
PadsApart(v) == 0 <= v.scratch /\ v.scratch <= v.cur /\ v.cur <= Len(v.buf)
=============================================================================
