-------------------------- MODULE FlatBufferReader --------------------------
(***************************************************************************)
(* How a flatbuffer is read and verified where it lies (table.h, vector.h, *)
(* buffer.h, verifier.h), and the Verify function that the generator       *)
(* writes for a table (idl_gen_cpp.cpp:2260-2320, 2884-2894). Nesting is   *)
(* below the verifier's max_depth and max_tables.                          *)
(***************************************************************************)
EXTENDS FlatBufferAccess

CONSTANT Wild    \* the value of bytes outside the buffer

\* FLATBUFFERS_MIN_BUFFER_SIZE
MIN_BUFFER_SIZE == 12

\* The value of the type that is stored at a position: a scalar in place,
\* anything else through the offset that is there. Wild when a read leaves buf.
RECURSIVE Stored(_, _, _, _), Pointed(_, _, _, _)

Stored(tables, buf, type, at) ==
  CASE ~Inside(buf, at, ElementSize(type)) -> Wild
    [] type.kind = "scalar" /\ Inside(buf, at, type.size) -> Bytes(buf, at, type.size)
    [] OTHER -> Pointed(tables, buf, type, at + Offset(buf, at))

\* The value of the string, vector or table at a position.
Pointed(tables, buf, type, at) ==
  IF ~Inside(buf, at, UOFFSET)
  THEN Wild
  ELSE
  CASE type.kind = "string" ->
         IF Inside(buf, at + UOFFSET, Offset(buf, at))
         THEN Bytes(buf, at + UOFFSET, Offset(buf, at))
         ELSE Wild
    [] type.kind = "vector" ->
         IF Inside(buf, at + UOFFSET, Offset(buf, at) * ElementSize(type.of))
         THEN [i \in 1 .. Offset(buf, at) |->
                 Stored(tables, buf, type.of, at + UOFFSET + (i - 1) * ElementSize(type.of))]
         ELSE Wild
    [] type.kind = "table" ->
         IF Inside(buf, GetVTable(buf, at), VOFFSET)
              /\ Inside(buf, GetVTable(buf, at), VOffset(buf, GetVTable(buf, at)))
         THEN [f \in DOMAIN tables[type.name] |->
                 LET field == tables[type.name][f]
                     place == GetOptionalFieldOffset(buf, at, FieldIndexToOffset(f))
                 IN  CASE place # 0 -> Stored(tables, buf, field, at + place)
                       [] place = 0 /\ field.kind = "scalar" -> field.default
                       [] OTHER -> Absent]
         ELSE Wild

\* GetRoot
RootValue(tables, buf, type) == Pointed(tables, buf, type, Offset(buf, 0))

-----------------------------------------------------------------------------
\* The verifier. A position that is computed below 0 wraps to a large size_t.

Verify(buf, elem, n) == n < Len(buf) /\ 0 <= elem /\ elem <= Len(buf) - n

VerifyAligned(buf, elem, n, align) == elem % align = 0 /\ Verify(buf, elem, n)

VerifyOffset(buf, start) ==
  /\ VerifyAligned(buf, start, UOFFSET, UOFFSET)
  /\ Offset(buf, start) > 0
  /\ Verify(buf, start + Offset(buf, start), 1)

\* A mutant of VerifyVectorOrString: the size of the elements is left out.
VerifyVectorOfBytes(buf, vec, elem_size) ==
  /\ VerifyAligned(buf, vec, UOFFSET, UOFFSET)
  /\ Offset(buf, vec) >= 0
  /\ Verify(buf, vec, UOFFSET + Offset(buf, vec))

VerifyVectorOrString(buf, vec, elem_size) ==
  /\ VerifyAligned(buf, vec, UOFFSET, UOFFSET)
  /\ Offset(buf, vec) >= 0
  /\ Verify(buf, vec, UOFFSET + elem_size * Offset(buf, vec))

VerifyString(buf, str) ==
  LET end == str + UOFFSET + Offset(buf, str)
  IN  /\ VerifyVectorOrString(buf, str, 1)
      /\ Verify(buf, end, 1)
      /\ Bytes(buf, end, 1) = << 0 >>

VerifyTableStart(buf, table) ==
  LET vtable == GetVTable(buf, table)
  IN  /\ VerifyAligned(buf, table, UOFFSET, UOFFSET)
      /\ VerifyAligned(buf, vtable, VOFFSET, VOFFSET)
      /\ VOffset(buf, vtable) % VOFFSET = 0
      /\ Verify(buf, vtable, VOffset(buf, vtable))

\* T::Verify and the verifier's VerifyTable, VerifyVectorOfStrings, VerifyVectorOfTables:
\* the string, vector or table at a position and all that can be reached from it.
RECURSIVE VerifyObject(_, _, _, _)
VerifyObject(tables, buf, type, at) ==
  CASE type.kind = "string" -> VerifyString(buf, at)
    [] type.kind = "vector" ->
         /\ VerifyVectorOrString(buf, at, ElementSize(type.of))
         /\ type.of.kind # "scalar" =>
              \A i \in 1 .. Offset(buf, at) :
                LET slot == at + i * UOFFSET
                IN  VerifyObject(tables, buf, type.of, slot + Offset(buf, slot))
    [] type.kind = "table" ->
         /\ VerifyTableStart(buf, at)
         /\ \A f \in DOMAIN tables[type.name] :
              LET field == tables[type.name][f]
                  place == GetOptionalFieldOffset(buf, at, FieldIndexToOffset(f))
              IN  place # 0 =>
                    IF field.kind = "scalar"
                    THEN VerifyAligned(buf, at + place, field.size, field.size)
                    ELSE /\ VerifyOffset(buf, at + place)
                         /\ VerifyObject(tables, buf, field, at + place + Offset(buf, at + place))

VerifyBuffer(tables, buf, type) ==
  /\ Len(buf) >= MIN_BUFFER_SIZE
  /\ VerifyOffset(buf, 0)
  /\ VerifyObject(tables, buf, type, Offset(buf, 0))
=============================================================================
