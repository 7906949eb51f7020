--------------------------- MODULE Serialization ----------------------------
(***************************************************************************)
(* The << and >> operators of LibraryBase/Stream.h: how values are written *)
(* to a stream and read from one. A type is a record,                      *)
(*                                                                         *)
(*    [kind |-> "scalar", width]         w bytes, copied as they are       *)
(*    [kind |-> "string"]                a count and that many bytes       *)
(*    [kind |-> "struct", fields]        a Serializable: field after field *)
(*    [kind |-> "sequence", of]          vector or deque                   *)
(*    [kind |-> "map", key, value]       unordered_map                     *)
(*                                                                         *)
(* a byte is one of 0 .. BYTE_BASE - 1, and a count is COUNT_LEN of them,  *)
(* the lowest first.                                                       *)
(***************************************************************************)
EXTENDS Stream, Sums, FiniteSets, TLC
LOCAL INSTANCE SequencesExt

CONSTANTS
  BYTE_BASE,    \* 256 in the code
  COUNT_LEN,    \* sizeof(uint32_t)
  Blank         \* what a read that threw has not assigned

ASSUME SerializationAssumption == BYTE_BASE \in Nat \ {0, 1} /\ COUNT_LEN \in Nat \ {0}

Data == 0 .. BYTE_BASE - 1

Scalar(width) == [kind |-> "scalar", width |-> width]
String == [kind |-> "string"]
Struct(fields) == [kind |-> "struct", fields |-> fields]
SequenceOf(type) == [kind |-> "sequence", of |-> type]
MapOf(key, value) == [kind |-> "map", key |-> key, value |-> value]

CountBytes(n) == [i \in 1 .. COUNT_LEN |-> (n \div BYTE_BASE ^ (i - 1)) % BYTE_BASE]

\* A mutant of CountValue: the highest byte first.
CountValueSwapped(bytes) == Total([i \in DOMAIN bytes |-> bytes[i] * BYTE_BASE ^ (COUNT_LEN - i)])

CountValue(bytes) == Total([i \in DOMAIN bytes |-> bytes[i] * BYTE_BASE ^ (i - 1)])

-----------------------------------------------------------------------------
(***************************************************************************)
(* Writing. Every operator is the set of the byte sequences that may be    *)
(* written: a hash map is visited in an order nobody knows.                *)
(***************************************************************************)
RECURSIVE Written(_, _)

\* Values one after the other.
WrittenInOrder(types, values) ==
  LET out[i \in 0 .. Len(values)] ==
        IF i = 0 THEN {<< >>}
        ELSE {before \o bytes : before \in out[i - 1], bytes \in Written(types[i], values[i])}
  IN  out[Len(values)]

\* A length that does not fit the count field is cut, and so is the string.
writeString(str) ==
  LET len == Len(str) % BYTE_BASE ^ COUNT_LEN
  IN  {CountBytes(len) \o SubSeq(str, 1, len)}

writeSeqContainer(type, values) ==
  {CountBytes(Len(values)) \o rest :
     rest \in WrittenInOrder([i \in DOMAIN values |-> type], values)}

writeMap(key, value, values) ==
  LET entry == Struct(<< key, value >>)
      entries == {<< k, values[k] >> : k \in DOMAIN values}
  IN  UNION {writeSeqContainer(entry, order) : order \in SetToSeqs(entries)}

Written(type, value) ==
  CASE type.kind = "scalar" -> {value}
    [] type.kind = "string" -> writeString(value)
    [] type.kind = "struct" -> WrittenInOrder(type.fields, value)
    [] type.kind = "sequence" -> writeSeqContainer(type.of, value)
    [] type.kind = "map" -> writeMap(type.key, type.value, value)

-----------------------------------------------------------------------------
(***************************************************************************)
(* Reading: whether a StreamException was thrown, the stream as it is left *)
(* and the variable that was read into.                                    *)
(***************************************************************************)
Result(thrown, stream, value) == [thrown |-> thrown, stream |-> stream, value |-> value]

\* A mutant of readBytes: what is missing is taken to be 0.
readBytesPadded(s, size) ==
  LET n == IF StreamReadableSize(s) < size THEN StreamReadableSize(s) ELSE size
  IN  Result(FALSE, StreamConsume(s, n), [i \in 1 .. size |-> IF i <= n THEN Unread(s)[i] ELSE 0])

\* Stream::read(data, size)
readBytes(s, size) ==
  IF StreamReadableSize(s) < size
  THEN Result(TRUE, s, Blank)
  ELSE Result(FALSE, StreamConsume(s, size), SubSeq(Unread(s), 1, size))

\* A count, or Blank.
readCount(s) ==
  LET bytes == readBytes(s, COUNT_LEN)
  IN  IF bytes.thrown THEN bytes ELSE [bytes EXCEPT !.value = CountValue(@)]

\* A mutant of readString: the characters are taken without a look at what is there.
readStringUnchecked(s) ==
  LET len == readCount(s)
  IN  IF len.thrown
      THEN len
      ELSE Result(FALSE, StreamConsume(len.stream, len.value), Unread(len.stream))

readString(s) ==
  LET len == readCount(s)
  IN  IF len.thrown THEN len
      ELSE IF StreamReadableSize(len.stream) < len.value THEN Result(TRUE, len.stream, Blank)
      ELSE Result(FALSE, StreamConsume(len.stream, len.value), SubSeq(Unread(len.stream), 1, len.value))

RECURSIVE Read(_, _)

\* values[1], values[2], ... are read in turn, until one throws.
readEach(s, types) ==
  LET after[i \in 0 .. Len(types)] ==
        IF i = 0 THEN Result(FALSE, s, [j \in DOMAIN types |-> Blank])
        ELSE IF after[i - 1].thrown THEN after[i - 1]
        ELSE LET item == Read(after[i - 1].stream, types[i])
             IN  Result(item.thrown, item.stream, [after[i - 1].value EXCEPT ![i] = item.value])
  IN  after[Len(types)]

\* A mutant of readSeqContainer: the container gets the size the count asks for.
readSeqContainerUnclipped(s, type) ==
  LET size == readCount(s)
  IN  IF size.thrown
      THEN [size EXCEPT !.value = << >>]
      ELSE readEach(size.stream, [i \in 1 .. size.value |-> type])

\* The container never gets more elements than there are bytes.
readSeqContainer(s, type) ==
  LET size == readCount(s)
      readable == StreamReadableSize(size.stream)
      n == IF size.value < readable THEN size.value ELSE readable
  IN  IF size.thrown
      THEN [size EXCEPT !.value = << >>]
      ELSE readEach(size.stream, [i \in 1 .. n |-> type])

\* A mutant of readMap: the value is read where it will lie in the map.
readMapInPlace(s, key, value) ==
  LET size == readCount(s)
      after[i \in 0 .. size.value] ==
        IF i = 0 THEN Result(FALSE, size.stream, << >>)
        ELSE IF after[i - 1].thrown THEN after[i - 1]
        ELSE LET entry == readEach(after[i - 1].stream, << key, value >>)
             IN  Result(entry.thrown, entry.stream,
                        (entry.value[1] :> entry.value[2]) @@ after[i - 1].value)
  IN  IF size.thrown THEN [size EXCEPT !.value = << >>] ELSE after[size.value]

\* Later entries overwrite earlier ones with their key.
readMap(s, key, value) ==
  LET size == readCount(s)
      after[i \in 0 .. size.value] ==
        IF i = 0 THEN Result(FALSE, size.stream, << >>)
        ELSE IF after[i - 1].thrown THEN after[i - 1]
        ELSE LET entry == readEach(after[i - 1].stream, << key, value >>)
             IN  Result(entry.thrown, entry.stream,
                        IF entry.thrown THEN after[i - 1].value
                        ELSE (entry.value[1] :> entry.value[2]) @@ after[i - 1].value)
  IN  IF size.thrown THEN [size EXCEPT !.value = << >>] ELSE after[size.value]

Read(s, type) ==
  CASE type.kind = "scalar" -> readBytes(s, type.width)
    [] type.kind = "string" -> readString(s)
    [] type.kind = "struct" -> readEach(s, type.fields)
    [] type.kind = "sequence" -> readSeqContainer(s, type.of)
    [] type.kind = "map" -> readMap(s, type.key, type.value)
=============================================================================
