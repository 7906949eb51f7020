-------------------------- MODULE FlatBufferAccess -------------------------
(***************************************************************************)
(* How a reader finds its way in a flatbuffer (base.h, table.h, vector.h). *)
(* A buffer is its bytes, and a position in it counts from 0. A type is    *)
(*                                                                         *)
(*    [kind |-> "scalar", size, default]    a scalar of so many bytes      *)
(*    [kind |-> "string"]                                                  *)
(*    [kind |-> "vector", of]               of scalars, strings or tables  *)
(*    [kind |-> "table", name]              its fields are tables[name]    *)
(***************************************************************************)
EXTENDS FlatBufferBuilder

Bytes(buf, at, n) == SubSeq(buf, at + 1, at + n)

Offset(buf, at) == Signed32(Bytes(buf, at, UOFFSET))

VOffset(buf, at) == Unsigned16(Bytes(buf, at, VOFFSET))

Inside(buf, at, n) == at >= 0 /\ n >= 0 /\ at + n <= Len(buf)

\* Table::GetVTable
GetVTable(buf, table) == table - Offset(buf, table)

\* Table::GetOptionalFieldOffset
GetOptionalFieldOffset(buf, table, voffset) ==
  LET vtable == GetVTable(buf, table)
  IN  IF voffset < VOffset(buf, vtable) THEN VOffset(buf, vtable + voffset) ELSE 0

\* The room of an element in a vector: a scalar or an offset.
ElementSize(type) == IF type.kind = "scalar" THEN type.size ELSE UOFFSET
=============================================================================
